--------------------------- MODULE GraceRunProofs ---------------------------
(***************************************************************************)
(* Theorems about a whole run of grace-period: for any number of targets,  *)
(* whichever goroutine ends first, and whatever becomes of the appends.    *)
(***************************************************************************)
EXTENDS GraceRun, StoreProofs, WellFoundedInduction

-----------------------------------------------------------------------------
(* Flattening a sequence of sequences                                      *)

\* A set of naturals that is not empty has a least element, since < is well-founded.
LEMMA LeastElement ==
    ASSUME NEW S \in SUBSET Nat, S # {}
    PROVE  \E p \in S : \A q \in S : p <= q
<1>. DEFINE R == OpToRel(<, Nat)
<1>1. R = {ab \in Nat \X Nat : ab[1] < ab[2]}
  BY DEF OpToRel
<1>2. PICK p \in S : \A q \in S : ~ (<<q, p>> \in R)
  <2>1. IsWellFoundedOn(R, Nat)
    BY NatLessThanWellFounded
  <2>. HIDE DEF R
  <2>. QED  BY <2>1, WFMin
<1>3. \A q \in S : ~ (q < p)
  BY <1>1, <1>2
<1>. QED  BY <1>3

\* The equation that defines the prefixes of FlattenSeq.
Flattens(seqs, n, f) ==
    f = [i \in 1 .. n |-> IF i = 1 THEN seqs[i] ELSE f[i - 1] \o seqs[i]]

\* It has a solution, which FlattenSeq therefore is.
LEMMA FlattenExists == ASSUME NEW seqs, NEW n \in Nat PROVE \E f : Flattens(seqs, n, f)
<1>. DEFINE Bad == {k \in Nat : ~ \E f : Flattens(seqs, k, f)}
<1>1. CASE Bad # {}
  <2>1. PICK k \in Bad : \A q \in Bad : k <= q
    <3>1. Bad \in SUBSET Nat
      OBVIOUS
    <3>. HIDE DEF Bad
    <3>. QED  BY <1>1, <3>1, LeastElement
  <2>2. k \in Nat /\ ~ \E f : Flattens(seqs, k, f)
    OBVIOUS
  <2>3. k # 0
    <3>1. ASSUME k = 0 PROVE Flattens(seqs, k, [i \in 1 .. 0 |-> 0])
      <4>1. 1 .. 0 = {}
        OBVIOUS
      <4>. QED  BY <3>1, <4>1 DEF Flattens
    <3>. QED  BY <2>2, <3>1
  <2>4. k - 1 \in Nat /\ ~ (k <= k - 1)
    BY <2>2, <2>3
  <2>5. ~ (k - 1 \in Bad)
    BY <2>1, <2>4
  <2>6. PICK f : Flattens(seqs, k - 1, f)
    BY <2>4, <2>5
  <2>. DEFINE g == [i \in 1 .. k |-> IF i = 1 THEN seqs[i]
                                     ELSE f[i - 1] \o seqs[i]]
  <2>7. ASSUME NEW i \in 1 .. k - 1 PROVE g[i] = f[i]
    <3>1. i \in 1 .. k
      BY <2>2, <2>4
    <3>2. f[i] = IF i = 1 THEN seqs[i] ELSE f[i - 1] \o seqs[i]
      BY <2>6 DEF Flattens
    <3>. QED  BY <3>1, <3>2
  <2>8. ASSUME NEW i \in 1 .. k
        PROVE  g[i] = IF i = 1 THEN seqs[i] ELSE g[i - 1] \o seqs[i]
    <3>1. CASE i = 1
      BY <3>1
    <3>2. CASE i # 1
      <4>1. i - 1 \in 1 .. k - 1
        BY <2>2, <3>2
      <4>2. g[i - 1] = f[i - 1]
        BY <2>7, <4>1
      <4>3. g[i] = f[i - 1] \o seqs[i]
        BY <3>2
      <4>. HIDE DEF g
      <4>. QED  BY <3>2, <4>2, <4>3
    <3>. QED  BY <3>1, <3>2
  <2>9. Flattens(seqs, k, g)
    <3>1. g = [i \in 1 .. k |-> g[i]]
      OBVIOUS
    <3>. HIDE DEF g
    <3>. QED  BY <2>8, <3>1 DEF Flattens
  <2>. QED  BY <2>2, <2>9
<1>2. CASE Bad = {}
  BY <1>2
<1>. QED  BY <1>1, <1>2

LEMMA FlattenIsLast ==
    ASSUME NEW seqs, NEW n \in Nat \ {0}, Len(seqs) = n
    PROVE  \E f : Flattens(seqs, n, f) /\ FlattenSeq(seqs) = f[n]
<1>. DEFINE P(f) == Flattens(seqs, n, f)
<1>1. FlattenSeq(seqs) = (CHOOSE f : P(f))[n]
  BY DEF FlattenSeq, Flattens
<1>2. \E f : P(f)
  BY FlattenExists
<1>. HIDE DEF P
<1>3. P(CHOOSE f : P(f))
  BY <1>2
<1>. QED  BY <1>1, <1>3 DEF P

-----------------------------------------------------------------------------
(* The reports in the order of the arguments                               *)

Reported == [target : Targets, sample : Nat, line : Nat]

\* Each slot holds samples of its own target, in the order of their numbers.
OwnRows ==
    /\ perDomain \in [Targets -> Seq(Reported)]
    /\ \A t \in Targets : \A s \in DOMAIN perDomain[t] :
         perDomain[t][s].target = t /\ perDomain[t][s].sample = s

Upto(k) == {x \in Reported : x.target \in 1 .. k}

Before(x, y) == x.target < y.target \/ (x.target = y.target /\ x.sample < y.sample)

\* out lists the samples of targets 1 to k, each of them, in the order of the targets
\* and within a target in the order of its samples.
Lists(out, k) ==
    /\ out \in Seq(Upto(k))
    /\ \A i \in DOMAIN out : \E s \in DOMAIN perDomain[out[i].target] :
         out[i] = perDomain[out[i].target][s]
    /\ \A i, j \in DOMAIN out : i < j => Before(out[i], out[j])
    /\ \A t \in 1 .. k : \A s \in DOMAIN perDomain[t] :
         \E i \in DOMAIN out : out[i] = perDomain[t][s]

LEMMA Concatenated ==
    ASSUME NEW S, NEW a \in Seq(S), NEW b \in Seq(S)
    PROVE  /\ a \o b \in Seq(S) /\ DOMAIN (a \o b) = 1 .. Len(a) + Len(b)
           /\ \A i \in 1 .. Len(a) : (a \o b)[i] = a[i]
           /\ \A i \in Len(a) + 1 .. Len(a) + Len(b) : (a \o b)[i] = b[i - Len(a)]
  OBVIOUS

LEMMA RowOf ==
    ASSUME OwnRows, NEW t \in Targets
    PROVE  /\ Len(perDomain[t]) \in Nat /\ DOMAIN perDomain[t] = 1 .. Len(perDomain[t])
           /\ perDomain[t] \in Seq(Upto(t))
           /\ \A s \in DOMAIN perDomain[t] :
                perDomain[t][s].target = t /\ perDomain[t][s].sample = s
<1>. DEFINE m == Len(perDomain[t])
            row == perDomain[t]
<1>1. row \in Seq(Reported)
  BY DEF OwnRows
<1>2. m \in Nat /\ DOMAIN row = 1 .. m /\ row \in [1 .. m -> Reported]
  BY <1>1
<1>3. t \in 1 .. t
  BY TargetsAssumption DEF Targets
<1>4. \A s \in DOMAIN row : row[s].target = t /\ row[s].sample = s
  BY DEF OwnRows
<1>. HIDE DEF m, row
<1>5. \A s \in 1 .. m : row[s] \in Upto(t)
  BY <1>2, <1>3, <1>4 DEF Upto
<1>6. row \in [1 .. m -> Upto(t)]
  BY <1>2, <1>5
<1>7. row \in Seq(Upto(t))
  BY <1>2, <1>6
<1>. QED  BY <1>2, <1>4, <1>7 DEF m, row

\* The samples of the next target come behind those of the targets before it.
LEMMA RowAdded ==
    ASSUME OwnRows, NEW k \in Targets, NEW out, Lists(out, k - 1)
    PROVE  Lists(out \o perDomain[k], k)
<1>. DEFINE row == perDomain[k]
            m == Len(row)
            n == Len(out)
            all == out \o row
<1>1. k \in Nat /\ k - 1 \in Nat /\ Targets = 1 .. N /\ k >= 1
  BY TargetsAssumption DEF Targets
<1>2. /\ m \in Nat /\ DOMAIN row = 1 .. m /\ row \in Seq(Upto(k))
      /\ \A s \in 1 .. m : row[s].target = k /\ row[s].sample = s
  BY RowOf
<1>3. \A x \in Upto(k - 1) : x \in Upto(k) /\ x.target \in 1 .. (k - 1)
  BY <1>1 DEF Upto
<1>4. out \in Seq(Upto(k - 1)) /\ n \in Nat /\ DOMAIN out = 1 .. n
  BY DEF Lists
<1>5. \A i \in 1 .. n : out[i].target \in 1 .. (k - 1)
  BY <1>3, <1>4
<1>6. out \in Seq(Upto(k))
  <2>. DEFINE A == Upto(k - 1)
              B == Upto(k)
  <2>1. A \subseteq B /\ out \in Seq(A)
    BY <1>3, <1>4
  <2>. HIDE DEF A, B
  <2>2. out \in Seq(B)
    BY <2>1
  <2>. QED  BY <2>2 DEF B
<1>7. /\ all \in Seq(Upto(k)) /\ DOMAIN all = 1 .. n + m
      /\ \A i \in 1 .. n : all[i] = out[i]
      /\ \A i \in n + 1 .. n + m : all[i] = row[i - n]
  <2>. DEFINE S == Upto(k)
  <2>1. out \in Seq(S) /\ row \in Seq(S)
    BY <1>2, <1>6
  <2>. HIDE DEF S, row
  <2>2. /\ out \o row \in Seq(S) /\ DOMAIN (out \o row) = 1 .. Len(out) + Len(row)
        /\ \A i \in 1 .. Len(out) : (out \o row)[i] = out[i]
        /\ \A i \in Len(out) + 1 .. Len(out) + Len(row) :
             (out \o row)[i] = row[i - Len(out)]
    BY <2>1, Concatenated
  <2>. QED  BY <2>2 DEF S
<1>8. /\ \A i \in DOMAIN out : \E s \in DOMAIN perDomain[out[i].target] :
           out[i] = perDomain[out[i].target][s]
      /\ \A i, j \in DOMAIN out : i < j => Before(out[i], out[j])
      /\ \A t \in 1 .. (k - 1) : \A s \in DOMAIN perDomain[t] :
           \E i \in DOMAIN out : out[i] = perDomain[t][s]
  BY DEF Lists
<1>9. row = perDomain[k]
  OBVIOUS
<1>. HIDE DEF m, n, all, row
<1>10. ASSUME NEW i \in DOMAIN all
       PROVE  \/ i \in 1 .. n /\ all[i] = out[i] /\ out[i].target \in 1 .. (k - 1)
              \/ /\ i \in n + 1 .. n + m /\ i - n \in DOMAIN row /\ all[i] = row[i - n]
                 /\ all[i].target = k /\ all[i].sample = i - n
  <2>1. CASE i \in 1 .. n
    BY <1>5, <1>7, <2>1
  <2>2. CASE i \in n + 1 .. n + m
    <3>1. i - n \in 1 .. m
      BY <1>2, <1>4, <2>2
    <3>. QED  BY <1>2, <1>7, <2>2, <3>1
  <2>. QED  BY <1>2, <1>4, <1>7, <2>1, <2>2
<1>11. ASSUME NEW i \in DOMAIN all
       PROVE  \E s \in DOMAIN perDomain[all[i].target] : all[i] = perDomain[all[i].target][s]
  <2>1. CASE i \in 1 .. n /\ all[i] = out[i]
    BY <1>4, <1>8, <2>1
  <2>2. CASE i - n \in DOMAIN row /\ all[i] = row[i - n] /\ all[i].target = k
    BY <1>9, <2>2
  <2>. QED  BY <1>10, <2>1, <2>2
<1>12. ASSUME NEW i \in DOMAIN all, NEW j \in DOMAIN all, i < j
       PROVE  Before(all[i], all[j])
  <2>0. i \in Nat /\ j \in Nat
    BY <1>2, <1>4, <1>7
  <2>1. CASE j \in 1 .. n
    <3>1. i \in 1 .. n
      BY <1>10, <1>12, <1>4, <2>0, <2>1
    <3>. QED  BY <1>4, <1>7, <1>8, <1>12, <2>1, <3>1
  <2>2. CASE i \in 1 .. n /\ j \in n + 1 .. n + m
    <3>1. all[i].target \in 1 .. (k - 1) /\ all[j].target = k
      BY <1>4, <1>10, <2>2
    <3>2. all[i].target < all[j].target
      BY <1>1, <3>1
    <3>. QED  BY <3>2 DEF Before
  <2>3. CASE i \in n + 1 .. n + m /\ j \in n + 1 .. n + m
    <3>1. /\ all[i].target = k /\ all[j].target = k
          /\ all[i].sample = i - n /\ all[j].sample = j - n
      BY <1>4, <1>10, <2>3
    <3>2. i - n < j - n
      BY <1>2, <1>4, <1>12, <2>0
    <3>. QED  BY <3>1, <3>2 DEF Before
  <2>. QED  BY <1>10, <2>1, <2>2, <2>3
<1>13. ASSUME NEW t \in 1 .. k, NEW s \in DOMAIN perDomain[t]
       PROVE  \E i \in DOMAIN all : all[i] = perDomain[t][s]
  <2>1. CASE t \in 1 .. (k - 1)
    <3>1. PICK i \in DOMAIN out : out[i] = perDomain[t][s]
      BY <1>8, <2>1
    <3>2. i \in 1 .. n /\ i \in DOMAIN all
      BY <1>2, <1>4, <1>7
    <3>. QED  BY <1>7, <3>1, <3>2
  <2>2. CASE t = k
    <3>1. s \in 1 .. m /\ n + s \in n + 1 .. n + m /\ (n + s) - n = s
      BY <1>2, <1>4, <1>9, <2>2
    <3>2. n + s \in DOMAIN all /\ all[n + s] = row[s]
      BY <1>2, <1>4, <1>7, <3>1
    <3>. QED  BY <1>9, <2>2, <3>2
  <2>. QED  BY <1>1, <2>1, <2>2
<1>14. Lists(all, k)
  BY <1>7, <1>11, <1>12, <1>13 DEF Lists
<1>. QED  BY <1>14 DEF all, row

\* What the loops over perDomain print.
LEMMA AllReportsListed ==
    ASSUME OwnRows
    PROVE  Lists(AllReports, N)
<1>1. N \in Nat \ {0} /\ Targets = 1 .. N
  BY TargetsAssumption DEF Targets
<1>2. AllReports = FlattenSeq(perDomain)
  BY DEF AllReports
<1>3. Len(perDomain) = N
  <2>1. ASSUME NEW S, NEW r \in [1 .. N -> S] PROVE Len(r) = N
    BY <1>1
  <2>2. perDomain \in [1 .. N -> Seq(Reported)]
    BY <1>1 DEF OwnRows
  <2>. QED  BY <2>1, <2>2
<1>4. PICK f : Flattens(perDomain, N, f) /\ AllReports = f[N]
  BY <1>1, <1>2, <1>3, FlattenIsLast
<1>5. \A i \in 1 .. N : f[i] = IF i = 1 THEN perDomain[1] ELSE f[i - 1] \o perDomain[i]
  BY <1>1, <1>4 DEF Flattens
<1>. DEFINE Bad == {i \in 1 .. N : ~Lists(f[i], i)}
<1>6. CASE Bad # {}
  <2>1. PICK i \in Bad : \A q \in Bad : i <= q
    <3>1. Bad \in SUBSET Nat
      BY <1>1
    <3>. HIDE DEF Bad
    <3>. QED  BY <1>6, <3>1, LeastElement
  <2>2. i \in 1 .. N /\ ~Lists(f[i], i)
    OBVIOUS
  <2>3. CASE i = 1
    <3>1. Lists(<<>>, 0)
      <4>1. 1 .. 0 = {} /\ DOMAIN <<>> = {}
        OBVIOUS
      <4>. QED  BY <4>1 DEF Lists
    <3>2. Lists(<<>> \o perDomain[1], 1)
      <4>1. 1 - 1 = 0 /\ 1 \in Targets
        BY <1>1
      <4>. QED  BY <3>1, <4>1, RowAdded
    <3>3. perDomain[1] \in Seq(Upto(1))
      <4>1. 1 \in Targets
        BY <1>1
      <4>. QED  BY <4>1, RowOf
    <3>4. <<>> \o perDomain[1] = perDomain[1]
      BY <3>3
    <3>. QED  BY <1>5, <2>2, <2>3, <3>2, <3>4
  <2>4. CASE i # 1
    <3>1. i - 1 \in 1 .. N /\ ~(i <= i - 1)
      BY <1>1, <2>2, <2>4
    <3>2. Lists(f[i - 1], i - 1)
      BY <2>1, <3>1
    <3>3. Lists(f[i - 1] \o perDomain[i], i)
      BY <1>1, <2>2, <3>2, RowAdded
    <3>. QED  BY <1>5, <2>2, <2>4, <3>3
  <2>. QED  BY <2>3, <2>4
<1>7. CASE Bad = {}
  <2>1. N \in 1 .. N
    BY <1>1
  <2>. QED  BY <1>4, <1>7, <2>1
<1>. QED  BY <1>6, <1>7

-----------------------------------------------------------------------------
(* The store in a run                                                      *)

LEMMA LogsAndSummaries ==
    \A t \in Targets : /\ LogOf[t] \in Files /\ SummaryOf[t] \in Files
                       /\ LogOf[t] \in FilesOf[t] /\ SummaryOf[t] \in FilesOf[t]
<1>1. \A t \in Writers : FilesOf[t] = {LogOf[t], SummaryOf[t]} /\ FilesOf[t] \subseteq Files
  BY FilesOfAssumption, SummaryOfAssumption
<1>. QED  BY <1>1 DEF Targets

LEMMA RunStepIsStoreStep == [RunNext]_<<storeVars, runVars>> => [StoreNext]_storeVars
<1> SUFFICES ASSUME [RunNext]_<<storeVars, runVars>> PROVE [StoreNext]_storeVars
  OBVIOUS
<1>1. CASE \E t \in Targets : TrackerStep(t)
  <2>1. PICK t \in Targets : TrackerStep(t)
    BY <1>1
  <2>2. CASE NextSample(t) \/ Return(t)
    BY <2>2 DEF NextSample, Return
  <2>3. CASE Observe(t) \/ EndSample(t, "died") \/ EndSample(t, "ended")
    <3>1. \E f \in Files : Call(t, f)
      BY <2>3, LogsAndSummaries DEF Observe, EndSample
    <3>. QED  BY <3>1 DEF StoreNext, Targets
  <2>. QED  BY <2>1, <2>2, <2>3 DEF TrackerStep
<1>2. CASE \E t \in Targets : (Lock(t) \/ StoreStep(t)) /\ UNCHANGED runVars
  BY <1>2 DEF StoreNext, Targets
<1>3. CASE Fork \/ PrintReport \/ (Finished /\ UNCHANGED <<storeVars, runVars>>)
           \/ UNCHANGED <<storeVars, runVars>>
  <2>1. UNCHANGED storeVars
    BY <1>3 DEF Fork, PrintReport
  <2>. QED  BY <2>1
<1>. QED  BY <1>1, <1>2, <1>3 DEF RunNext

\* The goroutines of a run use the store as AppendStore's writers do, so that all that is
\* proved of it holds here.
THEOREM RunKeepsStore == RunSpec => StoreSpec
<1>1. RunInit => StoreInit
  BY DEF RunInit
<1>. QED  BY <1>1, RunStepIsStoreStep, PTL DEF RunSpec, StoreSpec

-----------------------------------------------------------------------------
(* Reports                                                                 *)

RunTypeOK ==
    /\ forked \in 0 .. N
    /\ tracker \in [Targets -> TrackerStates]
    /\ reports \in [Targets -> Seq(Reported)]
    /\ perDomain \in [Targets -> Seq(Reported)]
    /\ printed \in Seq(Reported)

\* A goroutine's slot holds what it produced once it has returned, and nothing before;
\* it numbers its own samples.
SlotsFit ==
    \A t \in Targets :
        /\ tracker[t] = "unborn" <=> forked < t
        /\ perDomain[t] = IF tracker[t] = "returned" THEN reports[t] ELSE <<>>
        /\ \A s \in DOMAIN reports[t] : reports[t][s].target = t /\ reports[t][s].sample = s
        /\ tracker[t] \in {"died", "ended", "returned"} => reports[t] # <<>>

\* What is printed is as far as it goes what is to be printed, and nothing is before all
\* have returned.
PrintedSoFar ==
    /\ printed # <<>> => Joined
    /\ Len(printed) <= Len(AllReports)
    /\ \A i \in DOMAIN printed : printed[i] = AllReports[i]

RunInv ==
    /\ StoreTypeOK
    /\ RunTypeOK
    /\ SlotsFit
    /\ PrintedSoFar

LEMMA ReportsListed == RunTypeOK /\ SlotsFit => OwnRows /\ Lists(AllReports, N)
<1>1. RunTypeOK /\ SlotsFit => OwnRows
  <2>. SUFFICES ASSUME RunTypeOK, SlotsFit, NEW t \in Targets, NEW s \in DOMAIN perDomain[t]
                PROVE  perDomain[t][s].target = t /\ perDomain[t][s].sample = s
    BY DEF RunTypeOK, OwnRows
  <2>1. DOMAIN <<>> = {}
    OBVIOUS
  <2>2. perDomain[t] = reports[t]
    BY <2>1 DEF SlotsFit
  <2>. QED  BY <2>2 DEF SlotsFit
<1>. QED  BY <1>1, AllReportsListed

LEMMA RunInvInit == RunInit => RunInv
<1> SUFFICES ASSUME RunInit PROVE RunInv
  OBVIOUS
<1>1. StoreTypeOK
  BY StoreTypeInit DEF RunInit
<1>2. N \in Nat \ {0} /\ Targets = 1 .. N
  BY TargetsAssumption DEF Targets
<1>3. RunTypeOK /\ SlotsFit
  BY <1>2 DEF RunInit, RunTypeOK, SlotsFit, TrackerStates
<1>4. Len(AllReports) \in Nat
  BY ReportsListed, <1>3 DEF Lists
<1>. QED  BY <1>1, <1>3, <1>4 DEF RunInit, RunInv, PrintedSoFar

LEMMA RunInvStep == RunInv /\ [RunNext]_<<storeVars, runVars>> => RunInv'
<1> SUFFICES ASSUME RunInv, [RunNext]_<<storeVars, runVars>> PROVE RunInv'
  OBVIOUS
<1>. DEFINE Rest == RunTypeOK /\ SlotsFit /\ PrintedSoFar
<1>0. N \in Nat \ {0} /\ Targets = 1 .. N
  BY TargetsAssumption DEF Targets
<1>1. StoreTypeOK /\ StoreTypeOK' /\ RunTypeOK
  BY RunStepIsStoreStep, StoreTypeStep DEF RunInv
<1>2. ASSUME printed = <<>>, printed' = printed, RunTypeOK', SlotsFit' PROVE PrintedSoFar'
  <2>1. Lists(AllReports, N)'
    <3>1. (RunTypeOK /\ SlotsFit => OwnRows /\ Lists(AllReports, N))'
      BY ReportsListed, PTL
    <3>. QED  BY <1>2, <3>1
  <2>2. Len(AllReports') \in Nat
    BY <2>1 DEF Lists
  <2>. QED  BY <1>2, <2>2 DEF PrintedSoFar
<1>3. ASSUME Fork PROVE Rest'
  <2>1. forked + 1 \in Targets
    BY <1>0, <1>1, <1>3 DEF Fork, RunTypeOK
  <2>2. RunTypeOK'
    BY <1>0, <1>1, <1>3, <2>1 DEF Fork, Becomes, RunTypeOK, TrackerStates
  <2>3. SlotsFit'
    <3>1. /\ forked' = forked + 1 /\ tracker'[forked + 1] = "sampling"
          /\ \A u \in Targets : u # forked + 1 => tracker'[u] = tracker[u]
          /\ UNCHANGED <<reports, perDomain>>
      BY <1>1, <1>3, <2>1 DEF Fork, Becomes, RunTypeOK
    <3>2. forked \in Nat /\ Targets \subseteq Nat
      BY <1>0, <1>1 DEF RunTypeOK
    <3>3. tracker[forked + 1] = "unborn" => perDomain[forked + 1] = <<>>
      BY <2>1 DEF RunInv, SlotsFit
    <3>4. tracker[forked + 1] = "unborn"
      BY <2>1, <3>2 DEF RunInv, SlotsFit
    <3>5. ASSUME NEW u \in Targets
          PROVE  /\ tracker'[u] = "unborn" <=> forked' < u
                 /\ perDomain'[u] = IF tracker'[u] = "returned" THEN reports'[u] ELSE <<>>
                 /\ tracker'[u] \in {"died", "ended", "returned"} => reports'[u] # <<>>
      <4>1. CASE u = forked + 1
        BY <3>1, <3>2, <3>3, <3>4, <4>1
      <4>2. CASE u # forked + 1
        <5>1. forked < u <=> forked + 1 < u
          BY <3>2, <4>2
        <5>. QED  BY <3>1, <4>2, <5>1 DEF RunInv, SlotsFit
      <4>. QED  BY <4>1, <4>2
    <3>. QED  BY <3>1, <3>5 DEF RunInv, SlotsFit
  <2>4. printed = <<>> /\ printed' = printed
    BY <1>0, <1>1, <1>3 DEF Fork, RunInv, PrintedSoFar, Joined, RunTypeOK
  <2>. QED  BY <1>2, <2>2, <2>3, <2>4
<1>4. ASSUME NEW t \in Targets, TrackerStep(t) PROVE Rest'
  <2>1. tracker[t] # "returned" /\ tracker[t] # "unborn"
    BY <1>4 DEF TrackerStep, Observe, EndSample, NextSample, Return
  <2>2. printed = <<>> /\ printed' = printed
    BY <1>4, <2>1 DEF RunInv, PrintedSoFar, Joined, TrackerStep, Observe, EndSample, NextSample,
       Return, runVars
  <2>3. CASE Observe(t)
    <3>1. UNCHANGED runVars
      BY <2>3 DEF Observe
    <3>2. RunTypeOK' /\ SlotsFit'
      BY <3>1, <1>1 DEF RunInv, RunTypeOK, SlotsFit, runVars
    <3>. QED  BY <1>2, <2>2, <3>2
  <2>4. ASSUME NEW state \in {"died", "ended"}, EndSample(t, state) PROVE Rest'
    <3>. DEFINE new == [target |-> t, sample |-> Len(reports[t]) + 1, line |-> count'[t]]
                more == Append(reports[t], new)
    <3>1. /\ reports[t] \in Seq(Reported) /\ count'[t] \in Nat
          /\ reports' = [reports EXCEPT ![t] = more]
          /\ tracker' = [tracker EXCEPT ![t] = state]
          /\ UNCHANGED <<forked, perDomain, printed>>
      BY <1>1, <2>4 DEF EndSample, Becomes, RunTypeOK, StoreTypeOK, Targets
    <3>2. new \in Reported /\ new.target = t /\ new.sample = Len(reports[t]) + 1
      BY <3>1 DEF Reported
    <3>. HIDE DEF new
    <3>3. /\ more \in Seq(Reported) /\ more # <<>>
          /\ DOMAIN more = 1 .. Len(reports[t]) + 1 /\ Len(reports[t]) \in Nat
          /\ \A s \in 1 .. Len(reports[t]) : s \in DOMAIN reports[t] /\ more[s] = reports[t][s]
          /\ more[Len(reports[t]) + 1] = new
      BY <3>1, <3>2
    <3>. HIDE DEF more
    <3>4. \A s \in DOMAIN more : more[s].target = t /\ more[s].sample = s
      <4>1. \A s \in DOMAIN reports[t] : reports[t][s].target = t /\ reports[t][s].sample = s
        BY DEF RunInv, SlotsFit
      <4>2. \A s \in DOMAIN more : s \in 1 .. Len(reports[t]) \/ s = Len(reports[t]) + 1
        BY <3>3
      <4>. QED  BY <3>2, <3>3, <4>1, <4>2
    <3>5. RunTypeOK'
      <4>1. reports' \in [Targets -> Seq(Reported)]
        BY <1>1, <3>1, <3>3 DEF RunTypeOK
      <4>2. tracker' \in [Targets -> TrackerStates]
        BY <1>1, <3>1 DEF RunTypeOK, TrackerStates
      <4>. QED  BY <1>1, <3>1, <4>1, <4>2 DEF RunTypeOK
    <3>6. SlotsFit'
      <4>1. /\ reports'[t] = more /\ tracker'[t] = state
            /\ \A u \in Targets : u # t => reports'[u] = reports[u] /\ tracker'[u] = tracker[u]
        BY <1>1, <3>1 DEF RunTypeOK
      <4>2. perDomain'[t] = <<>> /\ tracker'[t] \notin {"returned", "unborn"} /\ ~(forked' < t)
        BY <2>1, <3>1, <4>1 DEF RunInv, SlotsFit
      <4>. QED  BY <3>1, <3>3, <3>4, <4>1, <4>2 DEF RunInv, SlotsFit
    <3>. QED  BY <1>2, <2>2, <3>5, <3>6
  <2>5. CASE NextSample(t)
    <3>1. RunTypeOK'
      BY <1>1, <2>5 DEF NextSample, Becomes, RunTypeOK, TrackerStates
    <3>2. SlotsFit'
      BY <1>1, <2>1, <2>5 DEF NextSample, Becomes, RunInv, RunTypeOK, SlotsFit
    <3>. QED  BY <1>2, <2>2, <3>1, <3>2
  <2>6. CASE Return(t)
    <3>1. RunTypeOK'
      BY <1>1, <2>6 DEF Return, Becomes, RunTypeOK, TrackerStates, Slot, Produced
    <3>2. SlotsFit'
      BY <1>1, <2>1, <2>6 DEF Return, Becomes, RunInv, RunTypeOK, SlotsFit, Slot, Produced
    <3>. QED  BY <1>2, <2>2, <3>1, <3>2
  <2>. QED  BY <1>4, <2>3, <2>4, <2>5, <2>6 DEF TrackerStep
<1>5. ASSUME PrintReport PROVE Rest'
  <2>1. /\ UNCHANGED <<forked, tracker, reports, perDomain>>
        /\ printed' = Append(printed, AllReports[Len(printed) + 1])
        /\ Len(printed) < Len(AllReports) /\ Joined
    BY <1>5 DEF PrintReport
  <2>2. AllReports \in Seq(Reported)
    <3>1. AllReports \in Seq(Upto(N))
      BY <1>1, ReportsListed DEF RunInv, Lists
    <3>2. Upto(N) \subseteq Reported
      BY DEF Upto
    <3>. QED  BY <3>1, <3>2
  <2>3. AllReports' = AllReports /\ Joined'
    BY <2>1 DEF AllReports, Joined
  <2>4. printed \in Seq(Reported)
    BY <1>1 DEF RunTypeOK
  <2>. DEFINE all == AllReports
              x == all[Len(printed) + 1]
  <2>5. /\ Len(printed) <= Len(all) /\ \A i \in DOMAIN printed : printed[i] = all[i]
    BY DEF RunInv, PrintedSoFar
  <2>. HIDE DEF all
  <2>6. x \in Reported
    BY <2>1, <2>2, <2>4 DEF all
  <2>7. /\ Append(printed, x) \in Seq(Reported)
        /\ Len(Append(printed, x)) = Len(printed) + 1
        /\ \A i \in DOMAIN Append(printed, x) : Append(printed, x)[i] = all[i]
    BY <2>4, <2>5, <2>6
  <2>8. RunTypeOK'
    BY <1>1, <2>1, <2>7 DEF RunTypeOK, all
  <2>9. SlotsFit'
    BY <2>1 DEF RunInv, SlotsFit
  <2>10. PrintedSoFar'
    BY <2>1, <2>2, <2>3, <2>4, <2>7 DEF PrintedSoFar, all
  <2>. QED  BY <2>8, <2>9, <2>10
<1>6. ASSUME UNCHANGED runVars PROVE Rest'
  <2>1. AllReports' = AllReports /\ (Joined' <=> Joined)
    BY <1>6 DEF runVars, AllReports, Joined
  <2>. QED  BY <1>6, <2>1 DEF runVars, RunInv, RunTypeOK, SlotsFit, PrintedSoFar
<1>7. Rest'
  BY <1>3, <1>4, <1>5, <1>6 DEF RunNext
<1>. QED  BY <1>1, <1>7 DEF RunInv

LEMMA PrintedInOrder == RunInv => ReportsInOrder
<1> SUFFICES ASSUME RunInv PROVE ReportsInOrder
  OBVIOUS
<1>1. N \in Nat \ {0} /\ Targets = 1 .. N
  BY TargetsAssumption DEF Targets
<1>2. Lists(AllReports, N)
  BY ReportsListed DEF RunInv
<1>3. \A i \in DOMAIN printed : i \in DOMAIN AllReports /\ printed[i] = AllReports[i]
  <2>1. AllReports \in Seq(Upto(N)) /\ printed \in Seq(Reported)
    BY <1>2 DEF Lists, RunInv, RunTypeOK
  <2>. QED  BY <2>1 DEF RunInv, PrintedSoFar
<1>4. \A i \in DOMAIN AllReports : AllReports[i].target \in Targets
  <2>1. AllReports \in Seq(Upto(N))
    BY <1>2 DEF Lists
  <2>2. \A i \in DOMAIN AllReports : AllReports[i] \in Upto(N)
    BY <2>1
  <2>. QED  BY <1>1, <2>2 DEF Upto
<1>5. printed # <<>> => \A t \in Targets : tracker[t] = "returned"
  BY DEF RunInv, PrintedSoFar, Joined
<1>6. ASSUME NEW i \in DOMAIN printed
      PROVE  \E s \in DOMAIN reports[printed[i].target] :
               printed[i] = reports[printed[i].target][s]
  <2>1. printed # <<>>
    BY <1>6
  <2>2. perDomain[printed[i].target] = reports[printed[i].target]
    BY <1>3, <1>4, <1>5, <2>1 DEF RunInv, SlotsFit
  <2>. QED  BY <1>2, <1>3, <2>2 DEF Lists
<1>7. \A i, j \in DOMAIN printed : i < j => Before(printed[i], printed[j])
  BY <1>2, <1>3 DEF Lists
<1>. QED  BY <1>5, <1>6, <1>7 DEF ReportsInOrder, Before

\* Reports come in the order of the arguments and of the samples, and only after the
\* last goroutine has returned, for any number of targets and samples.
THEOREM ReportsComeInOrder == RunSpec => []ReportsInOrder
<1>. QED  BY RunInvInit, RunInvStep, PrintedInOrder, PTL DEF RunSpec

-----------------------------------------------------------------------------
(* Summaries                                                               *)

\* No target's log is another one's summary file, i.e. no host is the name of another one
\* with ".summary" behind it (path and summaryPath).
LogsApart == \A t, u \in Targets : LogOf[t] # SummaryOf[u]

IsSummarized(w, n) == \E s \in DOMAIN reports[w] : reports[w][s].line = n

\* A line on its way to a summary file is of the sample that has just ended, and the
\* lines there are of samples.
SummariesFit ==
    /\ \A t, u \in Targets :
         at[t] # "idle" /\ file[t] = SummaryOf[u] => IsSummarized(t, count[t])
    /\ \A u \in Targets : \A i \in DOMAIN disk[SummaryOf[u]] :
         LET x == disk[SummaryOf[u]][i]
         IN  x.newline => IsSummarized(x.writer, x.n)

LEMMA FragmentsTyped ==
    ASSUME StoreTypeOK, NEW f \in Files, NEW i \in DOMAIN disk[f]
    PROVE  /\ disk[f][i].writer \in Targets /\ disk[f][i].n \in Nat
<1>1. disk[f] \in Seq(Fragment)
  BY DEF StoreTypeOK
<1>2. disk[f][i] \in Fragment
  BY <1>1
<1>. QED  BY <1>2 DEF Fragment, Targets

LEMMA SummariesFitInit == RunInit => SummariesFit
<1>. SUFFICES ASSUME RunInit PROVE SummariesFit
  OBVIOUS
<1>1. \A u \in Targets : SummaryOf[u] \in Files
  BY LogsAndSummaries
<1>2. \A u \in Targets : DOMAIN disk[SummaryOf[u]] = {}
  BY <1>1 DEF RunInit, StoreInit
<1>3. \A t \in Targets : at[t] = "idle"
  BY DEF RunInit, StoreInit, Targets
<1>. QED  BY <1>2, <1>3 DEF SummariesFit

LEMMA SummariesFitStep ==
    ASSUME LogsApart, RunInv, SummariesFit, [RunNext]_<<storeVars, runVars>>
    PROVE  SummariesFit'
<1>0. /\ StoreTypeOK /\ RunTypeOK /\ Targets = Writers
      /\ \A u \in Targets : SummaryOf[u] \in Files /\ LogOf[u] \in Files
  BY LogsAndSummaries DEF RunInv, Targets
<1>1. \A w \in Targets, n \in Nat : IsSummarized(w, n) => IsSummarized(w, n)'
  <2>1. CASE UNCHANGED reports
    BY <2>1 DEF IsSummarized
  <2>2. ASSUME NEW t \in Targets, NEW r, reports' = [reports EXCEPT ![t] = Append(@, r)]
        PROVE  \A w \in Targets, n \in Nat : IsSummarized(w, n) => IsSummarized(w, n)'
    <3>1. reports[t] \in Seq(Reported)
      BY <1>0 DEF RunTypeOK
    <3>2. \A s \in DOMAIN reports[t] :
            /\ s \in DOMAIN Append(reports[t], r)
            /\ Append(reports[t], r)[s] = reports[t][s]
      BY <3>1
    <3>3. /\ reports'[t] = Append(reports[t], r)
          /\ \A w \in Targets : w # t => reports'[w] = reports[w]
      BY <1>0, <2>2 DEF RunTypeOK
    <3>. QED  BY <3>2, <3>3 DEF IsSummarized
  <2>. QED
    BY <2>1, <2>2 DEF RunNext, Fork, TrackerStep, Observe, EndSample, NextSample, Return,
       PrintReport, runVars
<1>2. \A f \in Files : \A i \in DOMAIN disk[f] :
        disk[f][i].writer \in Targets /\ disk[f][i].n \in Nat
  BY <1>0, FragmentsTyped
<1>3. \A t \in Targets : count[t] \in Nat
  BY <1>0 DEF StoreTypeOK
<1>4. ASSUME NEW t \in Targets, NEW f \in Files, Call(t, f),
             \A u \in Targets : f = SummaryOf[u] => IsSummarized(t, count[t])'
      PROVE  SummariesFit'
  <2>1. /\ disk' = disk /\ file'[t] = f
        /\ \A v \in Targets : v # t => at'[v] = at[v] /\ file'[v] = file[v] /\ count'[v] = count[v]
    BY <1>0, <1>4 DEF Call, Moves, StoreTypeOK
  <2>2. ASSUME NEW v \in Targets, NEW u \in Targets, at'[v] # "idle", file'[v] = SummaryOf[u]
        PROVE  IsSummarized(v, count[v])'
    <3>1. CASE v = t
      BY <1>4, <2>1, <2>2, <3>1
    <3>2. CASE v # t
      <4>1. IsSummarized(v, count[v])
        BY <2>1, <2>2, <3>2 DEF SummariesFit
      <4>2. IsSummarized(v, count[v])' <=> \E s \in DOMAIN reports'[v] : reports'[v][s].line = count[v]
        BY <2>1, <3>2 DEF IsSummarized
      <4>. QED  BY <1>1, <1>3, <4>1, <4>2 DEF IsSummarized
    <3>. QED  BY <3>1, <3>2
  <2>3. ASSUME NEW u \in Targets, NEW i \in DOMAIN disk'[SummaryOf[u]],
               disk'[SummaryOf[u]][i].newline
        PROVE  IsSummarized(disk[SummaryOf[u]][i].writer, disk[SummaryOf[u]][i].n)'
    <3>1. IsSummarized(disk[SummaryOf[u]][i].writer, disk[SummaryOf[u]][i].n)
      BY <2>1, <2>3 DEF SummariesFit
    <3>2. disk[SummaryOf[u]][i].writer \in Targets /\ disk[SummaryOf[u]][i].n \in Nat
      BY <1>0, <1>2, <2>1, <2>3
    <3>. QED  BY <1>1, <2>1, <3>1, <3>2 DEF IsSummarized
  <2>. QED  BY <2>2, <2>3 DEF SummariesFit, IsSummarized
<1>5. CASE \E t \in Targets : TrackerStep(t)
  <2>1. PICK t \in Targets : TrackerStep(t)
    BY <1>5
  <2>2. CASE Observe(t)
    <3>1. \A u \in Targets : LogOf[t] # SummaryOf[u]
      BY DEF LogsApart
    <3>. QED  BY <1>0, <1>4, <2>2, <3>1 DEF Observe
  <2>3. ASSUME NEW state, EndSample(t, state) PROVE SummariesFit'
    <3>. DEFINE new == [target |-> t, sample |-> Len(reports[t]) + 1, line |-> count'[t]]
    <3>1. /\ reports[t] \in Seq(Reported) /\ count'[t] \in Nat
          /\ reports'[t] = Append(reports[t], new) /\ Call(t, SummaryOf[t])
      BY <1>0, <2>3 DEF EndSample, RunTypeOK, StoreTypeOK, Call
    <3>2. \E s \in DOMAIN reports'[t] : reports'[t][s].line = count'[t]
      <4>1. new.line = count'[t]
        OBVIOUS
      <4>. HIDE DEF new
      <4>2. /\ Len(reports[t]) + 1 \in DOMAIN Append(reports[t], new)
            /\ Append(reports[t], new)[Len(reports[t]) + 1] = new
        BY <3>1
      <4>. QED  BY <3>1, <4>1, <4>2
    <3>. QED  BY <1>0, <1>4, <3>1, <3>2 DEF IsSummarized
  <2>4. CASE NextSample(t) \/ Return(t)
    BY <2>4 DEF NextSample, Return, storeVars, SummariesFit, IsSummarized
  <2>. QED  BY <2>1, <2>2, <2>3, <2>4 DEF TrackerStep
<1>6. ASSUME NEW t \in Targets, Lock(t) \/ StoreStep(t), UNCHANGED runVars
      PROVE  SummariesFit'
  <2>1. /\ reports' = reports /\ count' = count /\ file' = file
        /\ \A v \in Targets : at'[v] # "idle" => at[v] # "idle"
    BY <1>0, <1>6 DEF runVars, Lock, TakeMutex, StoreStep, Open, ReturnError, WritePart, WriteRest,
       ReturnNil, Moves, StoreTypeOK
  <2>2. CASE disk' = disk
    BY <2>1, <2>2 DEF SummariesFit, IsSummarized
  <2>3. ASSUME NEW b \in BOOLEAN, Put(t, b), at[t] # "idle" PROVE SummariesFit'
    <3>1. /\ \A f \in Files : \A i \in DOMAIN disk[f] :
               i \in DOMAIN disk'[f] /\ disk'[f][i] = disk[f][i]
          /\ \A f \in Files : \A j \in DOMAIN disk'[f] : j \notin DOMAIN disk[f] =>
               /\ f = file[t]
               /\ disk'[f][j] = [writer |-> t, n |-> count[t], newline |-> b]
      BY <1>0, <2>3, PutExtends
    <3>2. ASSUME NEW u \in Targets, NEW i \in DOMAIN disk'[SummaryOf[u]],
                 disk'[SummaryOf[u]][i].newline
          PROVE  IsSummarized(disk'[SummaryOf[u]][i].writer, disk'[SummaryOf[u]][i].n)
      <4>1. CASE i \in DOMAIN disk[SummaryOf[u]]
        BY <1>0, <3>1, <3>2, <4>1 DEF SummariesFit
      <4>2. CASE i \notin DOMAIN disk[SummaryOf[u]]
        <5>1. /\ SummaryOf[u] = file[t]
              /\ disk'[SummaryOf[u]][i] = [writer |-> t, n |-> count[t], newline |-> b]
          BY <1>0, <3>1, <4>2
        <5>2. IsSummarized(t, count[t])
          BY <2>3, <5>1 DEF SummariesFit
        <5>. QED  BY <5>1, <5>2
      <4>. QED  BY <4>1, <4>2
    <3>. QED  BY <2>1, <3>2 DEF SummariesFit, IsSummarized
  <2>. QED
    BY <1>6, <2>2, <2>3 DEF Lock, StoreStep, Open, OpenedForAppend, ReturnError, WritePart,
       WriteRest, ReturnNil
<1>7. CASE Fork \/ PrintReport \/ (Finished /\ UNCHANGED <<storeVars, runVars>>)
           \/ UNCHANGED <<storeVars, runVars>>
  <2>1. UNCHANGED <<at, file, count, disk, reports>>
    BY <1>7 DEF Fork, PrintReport, storeVars, runVars
  <2>. QED  BY <2>1 DEF SummariesFit, IsSummarized
<1>. QED  BY <1>5, <1>6, <1>7 DEF RunNext

LEMMA SummariesFitReports == RunInv /\ SummariesFit => SummariesAreReported
<1> SUFFICES ASSUME RunInv, SummariesFit, Finished PROVE SummariesAreReported
  BY DEF SummariesAreReported
<1>1. /\ Targets = 1 .. N /\ Targets = Writers
      /\ \A t \in Targets : SummaryOf[t] \in Files
  BY TargetsAssumption, LogsAndSummaries DEF Targets
<1>2. Lists(AllReports, N) /\ printed = AllReports
  BY ReportsListed DEF RunInv, Finished
<1>3. \A t \in Targets : perDomain[t] = reports[t] /\ reports[t] # <<>>
  BY DEF RunInv, SlotsFit, Finished, Joined
<1>4. \A t \in Targets : \A s \in DOMAIN reports[t] : IsReported(reports[t][s])
  BY <1>1, <1>2, <1>3 DEF Lists, IsReported
<1>5. ASSUME NEW t \in Targets, NEW i \in DOMAIN disk[SummaryOf[t]],
             disk[SummaryOf[t]][i].newline
      PROVE  /\ Summarizes(disk[SummaryOf[t]][i])
             /\ IsReported(reports[disk[SummaryOf[t]][i].writer][SampleIn(disk[SummaryOf[t]][i])])
  <2>. DEFINE x == disk[SummaryOf[t]][i]
  <2>1. x.writer \in Targets
    BY <1>1, FragmentsTyped DEF RunInv
  <2>2. IsSummarized(x.writer, x.n)
    BY <1>5 DEF SummariesFit
  <2>. HIDE DEF x
  <2>3. SampleIn(x) \in DOMAIN reports[x.writer]
    BY <2>2 DEF SampleIn, IsSummarized
  <2>4. x.newline
    BY <1>5 DEF x
  <2>5. Summarizes(x) /\ IsReported(reports[x.writer][SampleIn(x)])
    BY <1>4, <2>1, <2>2, <2>3, <2>4 DEF Summarizes, IsSummarized
  <2>. QED  BY <2>5 DEF x
<1>. QED  BY <1>3, <1>4, <1>5 DEF SummariesAreReported

\* When all is printed, report and summary files agree, whichever appends failed and
\* whoever shares a file, as long as no log is a summary file.
THEOREM SummariesReachTheReport ==
    ASSUME LogsApart
    PROVE  RunSpec => []SummariesAreReported
<1>1. RunInit => RunInv /\ SummariesFit
  BY RunInvInit, SummariesFitInit
<1>2. RunInv /\ SummariesFit /\ [RunNext]_<<storeVars, runVars>> => (RunInv /\ SummariesFit)'
  BY RunInvStep, SummariesFitStep
<1>. QED  BY <1>1, <1>2, SummariesFitReports, PTL DEF RunSpec

=============================================================================
