-------------------------- MODULE VariationsProofs --------------------------
(***************************************************************************)
(* Proofs about Variations, for any number of targets, any sweep, and any  *)
(* answers of DNS and servers: OneFactorAtATime, BaselineIsReal,           *)
(* ResultsTellTheWire, ErrorsSurface and ReportInOrder.                    *)
(*                                                                         *)
(* Targets share nothing but the flags, so the invariant speaks of one     *)
(* target at a time: TargetOk relates the variables' values for it.        *)
(* Only the report joins them: RowsFit says what is in their slots, Blocks *)
(* that the concatenated slots are a block of rows per target.             *)
(***************************************************************************)
EXTENDS Variations, SequenceTheorems, WellFoundedInduction, TLAPS

\* s is a sequence of whatever it consists of.
IsSequence(s) == s \in Seq({s[i] : i \in DOMAIN s})

SourceOf(ech, d, w) ==
    CASE ech # NoList        -> ech
      [] d.kind = "found"    -> d.list
      [] d.kind = "absent"   -> w[1].got.retry

\* GREASE probes come before the variations' handshakes.
Probes(d) == IF d.kind = "absent" THEN 1 ELSE 0

\* Handshake h changes what s says in the config base.
OneFactor(h, s, base) ==
    /\ h.offer[s.kind] = s.value
    /\ \A f \in Fields \ {s.kind} : h.offer[f] = base[f]

\* Result r tells what came of handshake h.
Tells(r, h) ==
    /\ r.offered = h.offer
    /\ r.status = StatusOf[h.got.kind]
    /\ IF h.got.kind = "failed" THEN IsCause(r.error, h.got.chain)
       ELSE r.error = ErrorOf[h.got.kind]
    /\ r.retry = IF h.got.kind = "rejected" /\ h.got.retry # Garbled THEN h.got.retry
                 ELSE <<>>
    /\ r.status = "accepted" =>
         r.detail = {<<r.kind, v>> : v \in {r.replaced} \ {r.original}}
    /\ r.status # "accepted" =>
         \A d \in r.detail : d[2] = r.retry[1][d[1]] /\ d[2] # r.offered[d[1]]

\* The state of one target: where its goroutine is, what DNS told it, its baseline,
\* results and handshakes.
TargetOk(place, ech, d, b, rs, w) ==
    /\ place \in {"unborn", "baseline", "grease", "sweep", "done"}
    /\ IsSequence(rs) /\ IsSequence(w)
    /\ place \in {"unborn", "baseline"} => d = None /\ rs = <<>> /\ w = <<>>
    /\ place = "grease" => d.kind = "absent" /\ rs = <<>> /\ w = <<>>
    /\ d.kind = "absent" => ech = NoList
    /\ Len(rs) <= Len(Sweep)
    /\ (place = "sweep" \/ rs # <<>>) => Len(w) = Len(rs) + Probes(d)
    /\ place = "sweep" =>
         /\ ech # NoList \/ d.kind \in {"found", "absent"}
         /\ b = SourceOf(ech, d, w)[1]
         /\ b.public_key # "throwaway"
    /\ \A i \in DOMAIN rs :
         /\ OneFactor(w[i + Probes(d)], Sweep[i], SourceOf(ech, d, w)[1])
         /\ Tells(rs[i], w[i + Probes(d)])
    /\ \A i \in DOMAIN w :
         w[i].offer.public_key = "throwaway" => d.kind = "absent" /\ i = 1

\* A target ends with an error or with a whole sweep.
SlotOk(t, place, rs, e) ==
    /\ e # None => place = "done" /\ rs = <<>> /\ e.target = t /\ e.kind # "none"
    /\ (place = "done" /\ e = None) => Len(rs) = Len(Sweep)

TargetInv ==
    \A t \in Targets :
        /\ TargetOk(pc[t], echConfig, dns[t], baseline[t], results[t], wire[t])
        /\ SlotOk(t, pc[t], results[t], errs[t])

\* Every variable has a value for every target, and echConfig one of the flag's.
Shape ==
    /\ echConfig \in Supplied
    /\ DOMAIN pc = Targets /\ DOMAIN dns = Targets /\ DOMAIN baseline = Targets
    /\ DOMAIN results = Targets /\ DOMAIN wire = Targets
    /\ DOMAIN perTarget = Targets /\ DOMAIN errs = Targets

ReturnedLast == main = "returned" => \A t \in Targets : pc[t] = "done"

VariationsInv == Shape /\ TargetInv /\ ReturnedLast /\ ErrorsSurface

-----------------------------------------------------------------------------
(* Sequences and sweeps                                                    *)

LEMMA EmptyIsSequence == IsSequence(<<>>)
<1>1. <<>> \in Seq({<<>>[i] : i \in DOMAIN <<>>})
  BY EmptySeq
<1>. QED  BY <1>1 DEF IsSequence

LEMMA AppendToSequence ==
    ASSUME NEW s, IsSequence(s), NEW x
    PROVE  /\ IsSequence(Append(s, x))
           /\ Len(s) \in Nat
           /\ DOMAIN s = 1 .. Len(s)
           /\ Len(Append(s, x)) = Len(s) + 1
           /\ DOMAIN Append(s, x) = 1 .. Len(s) + 1
           /\ \A i \in DOMAIN s : Append(s, x)[i] = s[i]
           /\ Append(s, x)[Len(s) + 1] = x
           /\ Append(s, x) # <<>>
<1>. DEFINE S == {s[i] : i \in DOMAIN s}
            T == S \cup {x}
            a == Append(s, x)
<1>1. s \in Seq(S)
  BY DEF IsSequence
<1>2. s \in Seq(T) /\ x \in T
  BY <1>1
<1>. HIDE DEF S, T
<1>3. /\ a \in Seq(T)
      /\ Len(s) \in Nat /\ DOMAIN s = 1 .. Len(s)
      /\ Len(a) = Len(s) + 1 /\ DOMAIN a = 1 .. Len(s) + 1
      /\ \A i \in 1 .. Len(s) : a[i] = s[i]
      /\ a[Len(s) + 1] = x
  BY <1>2, AppendProperties
<1>. HIDE DEF a
<1>4. a \in Seq({a[i] : i \in DOMAIN a})
  <2>1. a \in [1 .. Len(s) + 1 -> {a[i] : i \in DOMAIN a}]
    <3>1. a = [i \in 1 .. Len(s) + 1 |-> a[i]]
      BY <1>3
    <3>2. \A i \in 1 .. Len(s) + 1 : a[i] \in {a[j] : j \in DOMAIN a}
      BY <1>3
    <3>. QED  BY <3>1, <3>2
  <2>. QED  BY <2>1, <1>3
<1>5. a # <<>>
  BY <1>3
<1>. QED  BY <1>3, <1>4, <1>5 DEF a, IsSequence

\* A variation sets a public name or a config id, the latter to a byte.
LEMMA SweepKinds ==
    /\ Len(Sweep) \in Nat /\ Len(Sweep) > 0
    /\ \A i \in 1 .. Len(Sweep) :
         /\ Sweep[i].kind \in {"public_name", "config_id"}
         /\ Sweep[i].kind = "config_id" => Sweep[i].value \in 0 .. 255
<1>0. \A k \in 1 .. Len(ConfigIDs) : ConfigIDs[k] \in 0 .. 255
  <2>1. ConfigIDs \in [1 .. Len(ConfigIDs) -> 0 .. 255]
    BY SweepAssumption, LenProperties
  <2>. QED  BY <2>1
<1>. DEFINE p == Len(PublicNames)
            c == Len(ConfigIDs)
<1>1. p \in Nat /\ c \in Nat /\ p + c > 0
  BY SweepAssumption
<1>2. DOMAIN Sweep = 1 .. p + c /\ Len(Sweep) = p + c
  <2>1. Sweep \in [1 .. p + c -> {Sweep[i] : i \in 1 .. p + c}]
    <3>1. DOMAIN Sweep = 1 .. p + c
      BY DEF Sweep
    <3>2. Sweep = [i \in DOMAIN Sweep |-> Sweep[i]]
      BY DEF Sweep
    <3>. QED  BY <3>1, <3>2
  <2>. HIDE DEF p, c
  <2>2. p + c \in Nat
    BY <1>1
  <2>. QED  BY <2>1, <2>2, LenProperties
<1>3. ASSUME NEW i \in 1 .. p + c
      PROVE  /\ Sweep[i].kind \in {"public_name", "config_id"}
             /\ Sweep[i].kind = "config_id" => Sweep[i].value \in 0 .. 255
  <2>1. CASE i <= p
    BY <2>1 DEF Sweep
  <2>2. CASE ~(i <= p)
    <3>1. Sweep[i] = [kind |-> "config_id", value |-> ConfigIDs[i - p]]
      BY <2>2 DEF Sweep
    <3>2. i - p \in 1 .. c
      BY <2>2, <1>1
    <3>3. ConfigIDs[i - p] \in 0 .. 255
      BY <3>2, <1>0
    <3>. QED  BY <3>1, <3>3
  <2>. QED  BY <2>1, <2>2
<1>. QED  BY <1>1, <1>2, <1>3

\* A set of naturals that is not empty has a least element, since < is well-founded.
LEMMA LeastElement ==
    ASSUME NEW S \in SUBSET Nat, S # {}
    PROVE  \E p \in S : \A q \in S : p <= q
<1>. DEFINE R == OpToRel(<, Nat)
<1>1. R = {ab \in Nat \X Nat : ab[1] < ab[2]}
  BY DEF OpToRel
<1>2. PICK p \in S : \A q \in S : ~ (<<q, p>> \in R)
  <2>1. IsWellFoundedOn(R, Nat)
    BY NatLessThanWellFounded
  <2>. HIDE DEF R
  <2>. QED BY <2>1, WFMin
<1>3. \A q \in S : ~ (q < p)
  BY <1>1, <1>2
<1>. QED  BY <1>3

\* CHOOSE finds it.
LEMMA FirstChosen ==
    ASSUME NEW hits \in SUBSET Nat, hits # {}
    PROVE  /\ (CHOOSE i \in hits : \A j \in hits : i <= j) \in hits
           /\ \A j \in hits : (CHOOSE i \in hits : \A k \in hits : i <= k) <= j
  BY LeastElement

\* Which class each row of Precedence names: the rows of a class are neighbours, in the
\* order of Classes.
RowClass == <<1, 1, 2, 2, 2, 2, 3, 4, 5>>

LEMMA RowsOfClasses ==
    /\ DOMAIN Precedence = 1 .. 9
    /\ \A i \in 1 .. 9 :
         /\ RowClass[i] \in 1 .. 5
         /\ Precedence[i][2] = Classes[RowClass[i]]
         /\ Precedence[i][1] \in SignsOf[Classes[RowClass[i]]]
    /\ \A i, j \in 1 .. 9 : i <= j => RowClass[i] <= RowClass[j]
    /\ \A n \in 1 .. 5 : \A sign \in SignsOf[Classes[n]] :
         \E i \in 1 .. 9 : RowClass[i] = n /\ Precedence[i][1] = sign
<1>1. DOMAIN Precedence = 1 .. 9
  BY DEF Precedence
<1>2. /\ Precedence[1][1] = "alert" /\ Precedence[2][1] = "remote error"
      /\ Precedence[3][1] = "certificate" /\ Precedence[4][1] = "hostname"
      /\ Precedence[5][1] = "authority" /\ Precedence[6][1] = "invalid"
      /\ Precedence[7][1] = "dns" /\ Precedence[8][1] = "deadline" /\ Precedence[9][1] = "op"
  BY DEF Precedence
<1>12. /\ Precedence[1][2] = "tls_alert" /\ Precedence[2][2] = "tls_alert"
      /\ Precedence[3][2] = "certificate_error" /\ Precedence[4][2] = "certificate_error"
      /\ Precedence[5][2] = "certificate_error" /\ Precedence[6][2] = "certificate_error"
      /\ Precedence[7][2] = "dns_error" /\ Precedence[8][2] = "timeout"
      /\ Precedence[9][2] = "network_error"
  BY DEF Precedence
<1>3. /\ RowClass[1] = 1 /\ RowClass[2] = 1 /\ RowClass[3] = 2 /\ RowClass[4] = 2
      /\ RowClass[5] = 2 /\ RowClass[6] = 2 /\ RowClass[7] = 3 /\ RowClass[8] = 4
      /\ RowClass[9] = 5
  BY DEF RowClass
<1>4. /\ Classes[1] = "tls_alert" /\ Classes[2] = "certificate_error"
      /\ Classes[3] = "dns_error" /\ Classes[4] = "timeout" /\ Classes[5] = "network_error"
  BY DEF Classes
<1>5. \A x :
        /\ x \in SignsOf[Classes[1]] <=> x = "alert" \/ x = "remote error"
        /\ x \in SignsOf[Classes[2]] <=>
             x = "certificate" \/ x = "hostname" \/ x = "authority" \/ x = "invalid"
        /\ x \in SignsOf[Classes[3]] <=> x = "dns"
        /\ x \in SignsOf[Classes[4]] <=> x = "deadline"
        /\ x \in SignsOf[Classes[5]] <=> x = "op"
  BY <1>4 DEF SignsOf
<1>6. \A i \in 1 .. 9 : \/ i = 1 \/ i = 2 \/ i = 3 \/ i = 4 \/ i = 5
                       \/ i = 6 \/ i = 7 \/ i = 8 \/ i = 9
  OBVIOUS
<1>7. \A i \in 1 .. 9 : RowClass[i] \in 1 .. 5
  BY <1>3, <1>6
<1>8. \A i \in 1 .. 9 : Precedence[i][2] = Classes[RowClass[i]]
  <2>. SUFFICES ASSUME NEW i \in 1 .. 9 PROVE Precedence[i][2] = Classes[RowClass[i]]
    OBVIOUS
  <2>1. CASE i \in {1, 2}
    BY <2>1, <1>3, <1>4, <1>12
  <2>2. CASE i \in {3, 4, 5, 6}
    BY <2>2, <1>3, <1>4, <1>12
  <2>3. CASE i \in {7, 8, 9}
    BY <2>3, <1>3, <1>4, <1>12
  <2>. QED  BY <1>6, <2>1, <2>2, <2>3
<1>9. \A i \in 1 .. 9 : Precedence[i][1] \in SignsOf[Classes[RowClass[i]]]
  <2>. SUFFICES ASSUME NEW i \in 1 .. 9 PROVE Precedence[i][1] \in SignsOf[Classes[RowClass[i]]]
    OBVIOUS
  <2>1. CASE i \in {1, 2}
    BY <2>1, <1>2, <1>3, <1>5
  <2>2. CASE i \in {3, 4, 5, 6}
    BY <2>2, <1>2, <1>3, <1>5
  <2>3. CASE i \in {7, 8, 9}
    BY <2>3, <1>2, <1>3, <1>5
  <2>. QED  BY <1>6, <2>1, <2>2, <2>3
<1>10. \A i, j \in 1 .. 9 : i <= j => RowClass[i] <= RowClass[j]
  BY <1>3, <1>6
<1>. DEFINE Has(n, x) == \E i \in 1 .. 9 : RowClass[i] = n /\ Precedence[i][1] = x
<1>11. /\ Has(1, "alert") /\ Has(1, "remote error")
       /\ Has(2, "certificate") /\ Has(2, "hostname") /\ Has(2, "authority") /\ Has(2, "invalid")
       /\ Has(3, "dns") /\ Has(4, "deadline") /\ Has(5, "op")
  <2>1. \A i \in 1 .. 9 : Has(RowClass[i], Precedence[i][1])
    OBVIOUS
  <2>2. /\ 1 \in 1 .. 9 /\ 2 \in 1 .. 9 /\ 3 \in 1 .. 9 /\ 4 \in 1 .. 9 /\ 5 \in 1 .. 9
        /\ 6 \in 1 .. 9 /\ 7 \in 1 .. 9 /\ 8 \in 1 .. 9 /\ 9 \in 1 .. 9
    OBVIOUS
  <2>. HIDE DEF Has
  <2>3. Has(1, "alert") /\ Has(1, "remote error")
    BY <1>2, <1>3, <2>1, <2>2
  <2>4. Has(2, "certificate") /\ Has(2, "hostname") /\ Has(2, "authority") /\ Has(2, "invalid")
    BY <1>2, <1>3, <2>1, <2>2
  <2>5. Has(3, "dns") /\ Has(4, "deadline") /\ Has(5, "op")
    BY <1>2, <1>3, <2>1, <2>2
  <2>. QED  BY <2>3, <2>4, <2>5
<1>13. \A n \in 1 .. 5 : \A sign \in SignsOf[Classes[n]] : Has(n, sign)
  <2>. HIDE DEF Has
  <2>. SUFFICES ASSUME NEW n \in 1 .. 5, NEW sign, sign \in SignsOf[Classes[n]]
                PROVE  Has(n, sign)
    OBVIOUS
  <2>1. n = 1 \/ n = 2 \/ n = 3 \/ n = 4 \/ n = 5
    OBVIOUS
  <2>2. \A x : x \in SignsOf[Classes[n]] => Has(n, x)
    <3>1. \A x : x \in SignsOf[Classes[1]] => Has(1, x)
      <4>. SUFFICES ASSUME NEW x, x \in SignsOf[Classes[1]] PROVE Has(1, x)
        OBVIOUS
      <4>1. x = "alert" \/ x = "remote error"
        BY <1>5
      <4>. QED  BY <1>11, <4>1
    <3>2. \A x : x \in SignsOf[Classes[2]] => Has(2, x)
      BY <1>5, <1>11
    <3>3. /\ \A x : x \in SignsOf[Classes[3]] => Has(3, x)
          /\ \A x : x \in SignsOf[Classes[4]] => Has(4, x)
          /\ \A x : x \in SignsOf[Classes[5]] => Has(5, x)
      BY <1>5, <1>11
    <3>. QED  BY <2>1, <3>1, <3>2, <3>3
  <2>. QED  BY <2>2
<1>. QED  BY <1>1, <1>7, <1>8, <1>9, <1>10, <1>13

\* Classify gives the first class, in the order of Classes, that the chain shows signs
\* of: the first row that hits is of the least class that any row that hits is of.
LEMMA ClassIsCause ==
    ASSUME NEW chain
    PROVE  IsCause(Classify(chain), chain)
<1>. DEFINE hits == {i \in DOMAIN Precedence : Precedence[i][1] \in chain}
            first == CHOOSE i \in hits : \A j \in hits : i <= j
            shown == {n \in 1 .. 5 : SignsOf[Classes[n]] \cap chain # {}}
<1>1. \A i \in hits : i \in 1 .. 9 /\ Precedence[i][1] \in chain
  BY RowsOfClasses
<1>2. \A i \in hits : RowClass[i] \in shown
  BY <1>1, RowsOfClasses
<1>3. \A n \in shown : \E i \in hits : RowClass[i] = n
  <2>. SUFFICES ASSUME NEW n \in shown PROVE \E i \in hits : RowClass[i] = n
    OBVIOUS
  <2>1. PICK sign \in SignsOf[Classes[n]] : sign \in chain
    OBVIOUS
  <2>2. PICK i \in 1 .. 9 : RowClass[i] = n /\ Precedence[i][1] = sign
    BY RowsOfClasses
  <2>. QED  BY <2>1, <2>2, RowsOfClasses
<1>4. IsCause(Classify(chain), chain) <=>
        IF shown = {} THEN Classify(chain) = "other"
        ELSE \E n \in shown : Classify(chain) = Classes[n] /\ \A m \in shown : n <= m
  BY DEF IsCause
<1>5. Classify(chain) = IF hits = {} THEN "other" ELSE Precedence[first][2]
  BY DEF Classify
<1>6. CASE hits = {}
  <2>. HIDE DEF hits, first, shown
  <2>. QED  BY <1>3, <1>4, <1>5, <1>6
<1>7. CASE hits # {}
  <2>1. first \in hits /\ \A j \in hits : first <= j
    <3>1. hits \in SUBSET Nat
      BY <1>1
    <3>. HIDE DEF hits
    <3>. QED  BY <3>1, <1>7, FirstChosen
  <2>. HIDE DEF hits, first, shown
  <2>2. RowClass[first] \in shown /\ Classify(chain) = Classes[RowClass[first]]
    BY <1>1, <1>2, <1>5, <1>7, <2>1, RowsOfClasses
  <2>3. \A m \in shown : RowClass[first] <= m
    BY <1>1, <1>3, <2>1, RowsOfClasses
  <2>. QED  BY <1>4, <2>2, <2>3
<1>. QED  BY <1>6, <1>7

-----------------------------------------------------------------------------
(* One handshake                                                           *)

\* Where a sweep's override goes, and what it leaves alone.
LEMMA OfferedIsOneFactor ==
    ASSUME NEW t, NEW i \in 1 .. Len(Sweep), Current(t) = Sweep[i]
    PROVE  /\ Offered(t)[Sweep[i].kind] = Sweep[i].value
           /\ \A f \in Fields \ {Sweep[i].kind} : Offered(t)[f] = baseline[t][f]
           /\ Offered(t).public_key = baseline[t].public_key
           /\ Sweep[i].kind \in Fields
<1>. DEFINE s == Sweep[i]
            ov == Override(s)
<1>1. s.kind \in {"public_name", "config_id"} /\ (s.kind = "config_id" => s.value \in 0 .. 255)
  BY SweepKinds
<1>. HIDE DEF s
<1>2. s.kind \in Fields /\ "public_key" \in Fields /\ s.kind # "public_key"
  BY <1>1 DEF Fields, Compared, Flags
<1>3. DOMAIN ov = {s.kind} /\ ov[s.kind] = s.value
  <2>1. ASSUME s.kind = "config_id"  PROVE uint8(s.value) = s.value
    <3>1. s.value \in 0 .. 255
      BY <2>1, <1>1
    <3>2. \A n \in 0 .. 255 : uint8(n) = n
      BY DEF uint8
    <3>. QED  BY <3>1, <3>2
  <2>. QED  BY <1>1, <2>1 DEF Override
<1>. HIDE DEF ov
<1>4. Offered(t) = [f \in Fields |-> IF f \in DOMAIN ov THEN ov[f] ELSE baseline[t][f]]
  BY DEF Offered, Varied, Apply, ov, s
<1>. QED  BY <1>2, <1>3, <1>4 DEF s

\* The forms of what a handshake comes to.
LEMMA OutcomeForms ==
    ASSUME NEW list, NEW got \in Outcomes(list, ServerLists, Chains)
    PROVE  \/ got = Accepted
           \/ got = Plain
           \/ \E r \in ServerLists : got = Rejected(r)
           \/ \E e : got = Failed(e)
  BY DEF Outcomes

\* A result tells what came of its handshake.
LEMMA ResultTells ==
    ASSUME NEW t, NEW i \in 1 .. Len(Sweep), Current(t) = Sweep[i],
           NEW got \in Outcomes(<<Offered(t)>>, ServerLists, Chains) \cup {None}
    PROVE  Tells(Result(t, Offered(t), got), [offer |-> Offered(t), got |-> got])
<1>. DEFINE c == Offered(t)
            kind == Sweep[i].kind
            v == Judged(t, c, got)
            r == Result(t, c, got)
            h == [offer |-> c, got |-> got]
<1>1. /\ r.kind = kind /\ r.original = baseline[t][kind] /\ r.replaced = c[kind]
      /\ r.offered = c /\ r.status = v.status /\ r.error = v.error
      /\ r.retry = v.retry /\ r.detail = v.detail
      /\ h.offer = c /\ h.got = got
  BY DEF Result
<1>2. \A f \in Fields \ {kind} : c[f] = baseline[t][f]
  BY OfferedIsOneFactor
<1>3. Compared \subseteq Fields /\ kind \in Compared
  BY SweepKinds DEF Fields, Compared, Flags
<1>4. CASE got = Accepted
  <2>1. got.kind = "accepted"
    BY <1>4 DEF Accepted
  <2>2. v = [status |-> "accepted", error |-> "", retry |-> <<>>,
             detail |-> diffFields(baseline[t], c)]
    BY <2>1 DEF Judged
  <2>. HIDE DEF v, r, h, c, kind
  <2>3. /\ r.status = "accepted" /\ r.error = "" /\ r.retry = <<>>
        /\ r.detail = diffFields(baseline[t], c)
    BY <1>1, <2>2
  <2>4. r.detail = {<<r.kind, x>> : x \in {r.replaced} \ {r.original}}
    <3>1. diffFields(baseline[t], c) = {<<f, c[f]>> : f \in {f \in Compared : baseline[t][f] # c[f]}}
      BY DEF diffFields
    <3>2. {f \in Compared : baseline[t][f] # c[f]} = IF baseline[t][kind] # c[kind] THEN {kind} ELSE {}
      BY <1>2, <1>3
    <3>3. {r.replaced} \ {r.original} = IF baseline[t][kind] # c[kind] THEN {c[kind]} ELSE {}
      BY <1>1
    <3>4. CASE baseline[t][kind] # c[kind]
      <4>1. r.detail = {<<f, c[f]>> : f \in {kind}}
        BY <2>3, <3>1, <3>2, <3>4
      <4>2. {r.replaced} \ {r.original} = {c[kind]}
        BY <3>3, <3>4
      <4>. QED  BY ONLY <1>1, <4>1, <4>2
    <3>5. CASE baseline[t][kind] = c[kind]
      BY <2>3, <3>1, <3>2, <3>3, <3>5
    <3>. QED  BY <3>4, <3>5
  <2>5. StatusOf[h.got.kind] = "accepted" /\ ErrorOf[h.got.kind] = ""
    BY <1>1, <2>1 DEF StatusOf, ErrorOf
  <2>6. Tells(r, h)
    BY <1>1, <2>1, <2>3, <2>4, <2>5 DEF Tells
  <2>. QED  BY <2>6 DEF r, h, c
<1>5. CASE got = Plain
  <2>1. got.kind = "plain"
    BY <1>5 DEF Plain
  <2>2. v = [status |-> "not_accepted", error |-> "ech_not_accepted", retry |-> <<>>,
             detail |-> {}]
    BY <2>1 DEF Judged
  <2>. HIDE DEF v, r, h, c, kind
  <2>3. r.status = "not_accepted" /\ r.error = "ech_not_accepted" /\ r.retry = <<>> /\ r.detail = {}
    BY <1>1, <2>2
  <2>4. Tells(r, h)
    BY <1>1, <2>1, <2>3 DEF Tells, StatusOf, ErrorOf
  <2>. QED  BY <2>4 DEF r, h, c
<1>6. CASE got = None
  <2>1. got.kind = "none"
    BY <1>6 DEF None
  <2>2. v = [status |-> "error", error |-> "other", retry |-> <<>>, detail |-> {}]
    BY <2>1 DEF Judged
  <2>. HIDE DEF v, r, h, c, kind
  <2>3. r.status = "error" /\ r.error = "other" /\ r.retry = <<>> /\ r.detail = {}
    BY <1>1, <2>2
  <2>4. Tells(r, h)
    BY <1>1, <2>1, <2>3 DEF Tells, StatusOf, ErrorOf
  <2>. QED  BY <2>4 DEF r, h, c
<1>7. CASE \E e : got = Failed(e)
  <2>1. PICK e : got = Failed(e)
    BY <1>7
  <2>2. got.kind = "failed" /\ got.chain = e
    BY <2>1 DEF Failed
  <2>3. v = [status |-> "failed", error |-> Classify(e), retry |-> <<>>, detail |-> {}]
    BY <2>2 DEF Judged
  <2>. HIDE DEF v, r, h, c, kind
  <2>4. r.status = "failed" /\ r.error = Classify(e) /\ r.retry = <<>> /\ r.detail = {}
    BY <1>1, <2>3
  <2>5. IsCause(r.error, e)
    BY <2>4, ClassIsCause
  <2>6. Tells(r, h)
    BY <1>1, <2>2, <2>4, <2>5 DEF Tells, StatusOf
  <2>. QED  BY <2>6 DEF r, h, c
<1>8. CASE \E l \in ServerLists : got = Rejected(l)
  <2>1. PICK l \in ServerLists : got = Rejected(l)
    BY <1>8
  <2>2. got.kind = "rejected" /\ got.retry = l
    BY <2>1 DEF Rejected
  <2>. DEFINE retry == IF l = Garbled THEN <<>> ELSE l
              detail == IF retry = <<>> THEN {} ELSE diffFields(c, retry[1])
  <2>3. v = [status |-> "rejected", error |-> "ech_rejected", retry |-> retry, detail |-> detail]
    BY <2>2 DEF Judged
  <2>. HIDE DEF v, r, h, c, kind, detail
  <2>4. /\ r.status = "rejected" /\ r.error = "ech_rejected" /\ r.retry = retry
        /\ r.detail = detail
    BY <1>1, <2>3
  <2>5. ASSUME NEW d \in detail  PROVE d[2] = retry[1][d[1]] /\ d[2] # c[d[1]]
    <3>. HIDE DEF retry
    <3>1. PICK f \in Compared : c[f] # retry[1][f] /\ d = <<f, retry[1][f]>>
      BY DEF detail, diffFields
    <3>2. d[1] = f /\ d[2] = retry[1][f]
      BY <3>1
    <3>. QED  BY <3>1, <3>2
  <2>6. retry = IF h.got.kind = "rejected" /\ h.got.retry # Garbled THEN h.got.retry ELSE <<>>
    BY <1>1, <2>2
  <2>. HIDE DEF retry
  <2>7. Tells(r, h)
    BY <1>1, <2>2, <2>4, <2>5, <2>6 DEF Tells, StatusOf, ErrorOf
  <2>. QED  BY <2>7 DEF r, h, c
<1>. QED  BY <1>4, <1>5, <1>6, <1>7, <1>8, OutcomeForms

-----------------------------------------------------------------------------
(* One target                                                              *)

\* A goroutine that has no result yet: it goes on to its sweep or gives up.
LEMMA Settled ==
    ASSUME NEW place \in {"sweep", "done"}, NEW ech, NEW d, NEW b, NEW w, IsSequence(w),
           d.kind = "absent" => ech = NoList,
           \A i \in DOMAIN w :
             w[i].offer.public_key = "throwaway" => d.kind = "absent" /\ i = 1,
           place = "sweep" =>
             /\ Len(w) = Probes(d)
             /\ ech # NoList \/ d.kind \in {"found", "absent"}
             /\ b = SourceOf(ech, d, w)[1] /\ b.public_key # "throwaway"
    PROVE  TargetOk(place, ech, d, b, <<>>, w)
<1>1. Len(<<>>) = 0 /\ DOMAIN <<>> = {} /\ IsSequence(<<>>)
  BY EmptyIsSequence
<1>2. Len(Sweep) \in Nat /\ Probes(d) \in Nat
  BY SweepKinds DEF Probes
<1>. QED  BY <1>1, <1>2 DEF TargetOk

\* One more handshake and one more result.
LEMMA SweepGoesOn ==
    ASSUME NEW ech, NEW d, NEW b, NEW rs, NEW w, NEW r, NEW h,
           TargetOk("sweep", ech, d, b, rs, w), Len(rs) < Len(Sweep),
           OneFactor(h, Sweep[Len(rs) + 1], b), Tells(r, h),
           h.offer.public_key # "throwaway"
    PROVE  TargetOk("sweep", ech, d, b, Append(rs, r), Append(w, h))
<1>. DEFINE rs2 == Append(rs, r)
            w2 == Append(w, h)
            p == Probes(d)
            base == SourceOf(ech, d, w)[1]
<1>1. /\ IsSequence(rs) /\ IsSequence(w) /\ Len(w) = Len(rs) + p /\ b = base
      /\ b.public_key # "throwaway" /\ (d.kind = "absent" => ech = NoList)
      /\ ech # NoList \/ d.kind \in {"found", "absent"}
  BY DEF TargetOk
<1>2. \A i \in DOMAIN rs : OneFactor(w[i + p], Sweep[i], base) /\ Tells(rs[i], w[i + p])
  BY DEF TargetOk
<1>3. \A i \in DOMAIN w : w[i].offer.public_key = "throwaway" => d.kind = "absent" /\ i = 1
  BY DEF TargetOk
<1>4. p \in {0, 1} /\ (d.kind = "absent" => p = 1)
  BY DEF Probes
<1>5. /\ IsSequence(rs2) /\ Len(rs) \in Nat /\ DOMAIN rs = 1 .. Len(rs)
      /\ Len(rs2) = Len(rs) + 1 /\ DOMAIN rs2 = 1 .. Len(rs) + 1
      /\ \A i \in DOMAIN rs : rs2[i] = rs[i]
      /\ rs2[Len(rs) + 1] = r /\ rs2 # <<>>
  BY <1>1, AppendToSequence
<1>6. /\ IsSequence(w2) /\ Len(w) \in Nat /\ DOMAIN w = 1 .. Len(w)
      /\ Len(w2) = Len(w) + 1 /\ DOMAIN w2 = 1 .. Len(w) + 1
      /\ \A i \in DOMAIN w : w2[i] = w[i]
      /\ w2[Len(w) + 1] = h
  BY <1>1, AppendToSequence
<1>. HIDE DEF rs2, w2, p
<1>7. SourceOf(ech, d, w2) = SourceOf(ech, d, w)
  <2>1. CASE ech # NoList
    BY <2>1 DEF SourceOf
  <2>2. CASE ech = NoList /\ d.kind = "found"
    BY <2>2 DEF SourceOf
  <2>3. CASE ech = NoList /\ d.kind = "absent"
    <3>1. 1 \in DOMAIN w
      BY <2>3, <1>1, <1>4, <1>5, <1>6
    <3>2. w2[1] = w[1]
      BY <3>1, <1>6
    <3>. QED  BY <2>3, <3>2 DEF SourceOf
  <2>. QED  BY <2>1, <2>2, <2>3, <1>1
<1>8. ASSUME NEW i \in DOMAIN rs2
      PROVE  OneFactor(w2[i + p], Sweep[i], base) /\ Tells(rs2[i], w2[i + p])
  <2>1. CASE i \in DOMAIN rs
    <3>1. i + p \in DOMAIN w
      BY <2>1, <1>1, <1>4, <1>5, <1>6
    <3>2. w2[i + p] = w[i + p] /\ rs2[i] = rs[i]
      BY <2>1, <3>1, <1>5, <1>6
    <3>. QED  BY <2>1, <3>2, <1>2
  <2>2. CASE i \notin DOMAIN rs
    <3>1. i = Len(rs) + 1
      BY <2>2, <1>5
    <3>2. i + p = Len(w) + 1
      BY <3>1, <1>1, <1>4, <1>5
    <3>. QED  BY <3>1, <3>2, <1>1, <1>5, <1>6
  <2>. QED  BY <2>1, <2>2
<1>9. ASSUME NEW i \in DOMAIN w2, w2[i].offer.public_key = "throwaway"
      PROVE  d.kind = "absent" /\ i = 1
  <2>1. i \in DOMAIN w
    <3>1. i # Len(w) + 1
      BY <1>6, <1>9
    <3>. QED  BY <3>1, <1>6
  <2>. QED  BY <2>1, <1>3, <1>6, <1>9
<1>10. Len(rs2) <= Len(Sweep) /\ Len(w2) = Len(rs2) + p
  BY <1>1, <1>4, <1>5, <1>6, SweepKinds
<1>. QED
  BY <1>1, <1>5, <1>6, <1>7, <1>8, <1>9, <1>10 DEF TargetOk, rs2, w2, p

-----------------------------------------------------------------------------
(* All targets                                                             *)

LEMMA VariationsInvInit == Init => VariationsInv
<1> SUFFICES ASSUME Init  PROVE VariationsInv
  OBVIOUS
<1>1. Shape /\ ReturnedLast /\ ErrorsSurface
  BY DEF Init, Shape, ReturnedLast, ErrorsSurface
<1>2. ASSUME NEW t \in Targets
      PROVE  /\ TargetOk("unborn", echConfig, None, None, <<>>, <<>>)
             /\ SlotOk(t, "unborn", <<>>, None)
  <2>1. IsSequence(<<>>) /\ Len(<<>>) = 0 /\ DOMAIN <<>> = {} /\ None.kind = "none"
    BY EmptyIsSequence DEF None
  <2>. QED  BY <2>1, SweepKinds DEF TargetOk, SlotOk
<1>. QED  BY <1>1, <1>2 DEF Init, VariationsInv, TargetInv

\* A step of one target's goroutine leaves the other targets as they are, and the report
\* is still to come.
LEMMA OneTargetMoves ==
    ASSUME VariationsInv, NEW t \in Targets, pc[t] # "done",
           Shape', UNCHANGED <<echConfig, main>>,
           \A u \in Targets \ {t} :
             /\ pc'[u] = pc[u] /\ dns'[u] = dns[u] /\ baseline'[u] = baseline[u]
             /\ results'[u] = results[u] /\ wire'[u] = wire[u] /\ errs'[u] = errs[u],
           TargetOk(pc'[t], echConfig, dns'[t], baseline'[t], results'[t], wire'[t]),
           SlotOk(t, pc'[t], results'[t], errs'[t])
    PROVE  VariationsInv'
<1>1. main # "returned"
  BY DEF VariationsInv, ReturnedLast
<1>2. ReturnedLast' /\ ErrorsSurface'
  BY <1>1 DEF ReturnedLast, ErrorsSurface
<1>3. ASSUME NEW u \in Targets
      PROVE  /\ TargetOk(pc'[u], echConfig', dns'[u], baseline'[u], results'[u], wire'[u])
             /\ SlotOk(u, pc'[u], results'[u], errs'[u])
  <2>1. CASE u = t
    BY <2>1
  <2>2. CASE u # t
    <3>1. /\ TargetOk(pc[u], echConfig, dns[u], baseline[u], results[u], wire[u])
          /\ SlotOk(u, pc[u], results[u], errs[u])
      BY DEF VariationsInv, TargetInv
    <3>. QED  BY <2>2, <3>1
  <2>. QED  BY <2>1, <2>2
<1>. QED  BY <1>2, <1>3 DEF VariationsInv, TargetInv

\* A goroutine that fails leaves an error in its slot.
LEMMA FailKeeps ==
    ASSUME VariationsInv, NEW t \in Targets, NEW why \in {"parsing", "lookup", "empty", "grease"},
           pc[t] \in {"baseline", "grease"}, Fail(t, why),
           UNCHANGED <<echConfig, main>>,
           DOMAIN dns' = Targets, \A u \in Targets \ {t} : dns'[u] = dns[u],
           dns'[t].kind = "absent" => echConfig = NoList,
           DOMAIN wire' = Targets, \A u \in Targets \ {t} : wire'[u] = wire[u],
           IsSequence(wire'[t]),
           \A i \in DOMAIN wire'[t] :
             wire'[t][i].offer.public_key = "throwaway" => dns'[t].kind = "absent" /\ i = 1
    PROVE  VariationsInv'
<1>1. Shape
  BY DEF VariationsInv
<1>2. TargetOk(pc[t], echConfig, dns[t], baseline[t], results[t], wire[t])
  BY DEF VariationsInv, TargetInv
<1>3. results[t] = <<>>
  BY <1>2 DEF TargetOk
<1>4. /\ pc'[t] = "done" /\ errs'[t] = [kind |-> why, target |-> t]
      /\ \A u \in Targets \ {t} : pc'[u] = pc[u] /\ errs'[u] = errs[u]
      /\ UNCHANGED <<baseline, results, perTarget>>
      /\ DOMAIN pc' = Targets /\ DOMAIN errs' = Targets
  BY <1>1 DEF Fail, Goto, Slot, Shape
<1>5. TargetOk("done", echConfig, dns'[t], baseline[t], <<>>, wire'[t])
  BY Settled
<1>6. SlotOk(t, "done", <<>>, [kind |-> why, target |-> t])
  <2>1. why # "none"
    OBVIOUS
  <2>2. [kind |-> why, target |-> t] # None
    BY <2>1 DEF None
  <2>. QED  BY <2>1, <2>2 DEF SlotOk
<1>7. Shape'
  BY <1>1, <1>4 DEF Shape
<1>. QED  BY <1>3, <1>4, <1>5, <1>6, <1>7, OneTargetMoves

\* A goroutine that settles on a list fails on an empty one and varies its first config.
LEMMA SettleKeeps ==
    ASSUME VariationsInv, NEW t \in Targets, NEW list,
           pc[t] \in {"baseline", "grease"}, Settle(t, list),
           UNCHANGED <<echConfig, main>>,
           DOMAIN dns' = Targets, \A u \in Targets \ {t} : dns'[u] = dns[u],
           dns'[t].kind = "absent" => echConfig = NoList,
           DOMAIN wire' = Targets, \A u \in Targets \ {t} : wire'[u] = wire[u],
           IsSequence(wire'[t]), Len(wire'[t]) = Probes(dns'[t]),
           \A i \in DOMAIN wire'[t] :
             wire'[t][i].offer.public_key = "throwaway" => dns'[t].kind = "absent" /\ i = 1,
           echConfig # NoList \/ dns'[t].kind \in {"found", "absent"},
           list = SourceOf(echConfig, dns'[t], wire'[t]),
           list # <<>> => list[1].public_key # "throwaway"
    PROVE  VariationsInv'
<1>1. Shape
  BY DEF VariationsInv
<1>2. /\ TargetOk(pc[t], echConfig, dns[t], baseline[t], results[t], wire[t])
      /\ SlotOk(t, pc[t], results[t], errs[t])
  BY DEF VariationsInv, TargetInv
<1>3. results[t] = <<>> /\ errs[t] = None
  BY <1>2 DEF TargetOk, SlotOk
<1>4. CASE Fail(t, "empty")
  BY <1>4, FailKeeps
<1>5. CASE ~Fail(t, "empty")
  <2>1. /\ list # <<>>
        /\ pc'[t] = "sweep" /\ baseline'[t] = list[1]
        /\ \A u \in Targets \ {t} : pc'[u] = pc[u] /\ baseline'[u] = baseline[u]
        /\ UNCHANGED <<results, perTarget, errs>>
        /\ DOMAIN pc' = Targets /\ DOMAIN baseline' = Targets
    BY <1>1, <1>5 DEF Settle, Goto, Shape
  <2>2. TargetOk("sweep", echConfig, dns'[t], list[1], <<>>, wire'[t])
    BY <2>1, Settled
  <2>3. SlotOk(t, "sweep", <<>>, None)
    BY DEF SlotOk
  <2>4. Shape'
    BY <1>1, <2>1 DEF Shape
  <2>. QED  BY <1>3, <2>1, <2>2, <2>3, <2>4, OneTargetMoves
<1>. QED  BY <1>4, <1>5

LEMMA ForkKeeps ==
    ASSUME VariationsInv, NEW t \in Targets, Fork(t)
    PROVE  VariationsInv'
<1>1. Shape
  BY DEF VariationsInv
<1>2. /\ TargetOk("unborn", echConfig, dns[t], baseline[t], results[t], wire[t])
      /\ SlotOk(t, "unborn", results[t], errs[t])
  BY DEF VariationsInv, TargetInv, Fork
<1>3. /\ TargetOk("baseline", echConfig, dns[t], baseline[t], results[t], wire[t])
      /\ SlotOk(t, "baseline", results[t], errs[t])
  BY <1>2 DEF TargetOk, SlotOk
<1>4. /\ pc[t] = "unborn" /\ pc'[t] = "baseline" /\ DOMAIN pc' = Targets
      /\ \A u \in Targets \ {t} : pc'[u] = pc[u]
      /\ UNCHANGED <<echConfig, dns, baseline, results, wire, perTarget, errs, main>>
  BY <1>1 DEF Fork, Goto, Shape, mainVars
<1>5. Shape'
  BY <1>1, <1>4 DEF Shape
<1>. QED  BY <1>3, <1>4, <1>5, OneTargetMoves

\* Where the goroutine asks for its baseline it has none of DNS' answers and nothing on
\* the wire.
LEMMA AtBaseline ==
    ASSUME VariationsInv, NEW t \in Targets, pc[t] = "baseline"
    PROVE  /\ dns[t] = None /\ wire[t] = <<>> /\ Probes(None) = 0 /\ None.kind = "none"
           /\ IsSequence(<<>>) /\ Len(<<>>) = 0 /\ DOMAIN <<>> = {}
           /\ DOMAIN dns = Targets /\ DOMAIN wire = Targets /\ echConfig \in Supplied
<1>1. TargetOk(pc[t], echConfig, dns[t], baseline[t], results[t], wire[t])
  BY DEF VariationsInv, TargetInv
<1>2. None.kind = "none" /\ Probes(None) = 0
  BY DEF None, Probes
<1>3. dns[t] = None /\ wire[t] = <<>>
  BY <1>1 DEF TargetOk
<1>. QED  BY <1>2, <1>3, EmptyIsSequence DEF VariationsInv, Shape

LEMMA UserBaselineKeeps ==
    ASSUME VariationsInv, NEW t \in Targets, UserBaseline(t)
    PROVE  VariationsInv'
<1>1. /\ pc[t] = "baseline" /\ echConfig # NoList /\ UNCHANGED <<echConfig, dns, wire, main>>
      /\ IF echConfig = Garbled THEN Fail(t, "parsing") ELSE Settle(t, echConfig)
  BY DEF UserBaseline, mainVars
<1>2. /\ dns'[t] = None /\ wire'[t] = <<>> /\ Probes(None) = 0 /\ None.kind = "none"
      /\ IsSequence(<<>>) /\ Len(<<>>) = 0 /\ DOMAIN <<>> = {}
      /\ DOMAIN dns' = Targets /\ DOMAIN wire' = Targets /\ echConfig \in Supplied
  BY <1>1, AtBaseline
<1>3. CASE echConfig = Garbled
  BY <1>1, <1>2, <1>3, FailKeeps
<1>4. CASE echConfig # Garbled
  <2>1. echConfig = SourceOf(echConfig, None, <<>>)
    BY <1>1, <1>2 DEF SourceOf
  <2>2. echConfig # <<>> => echConfig[1].public_key # "throwaway"
    BY <1>1, <1>2, <1>4, FreshKeyAssumption DEF Genuine
  <2>. QED  BY <1>1, <1>2, <1>4, <2>1, <2>2, SettleKeeps
<1>. QED  BY <1>3, <1>4

LEMMA LookupBaselineKeeps ==
    ASSUME VariationsInv, NEW t \in Targets, LookupBaseline(t)
    PROVE  VariationsInv'
<1>1. PICK a \in DNSAnswers :
         /\ dns' = [dns EXCEPT ![t] = a]
         /\ \/ /\ NeedsProbe(a)
               /\ Goto(t, "grease")
               /\ UNCHANGED <<baseline, results, perTarget, errs>>
            \/ a.kind = "error" /\ ~NeedsProbe(a) /\ Fail(t, "lookup")
            \/ a.kind = "found" /\ Settle(t, a.list)
  BY DEF LookupBaseline
<1>2. pc[t] = "baseline" /\ echConfig = NoList /\ UNCHANGED <<echConfig, wire, main>>
  BY DEF LookupBaseline, mainVars
<1>3. /\ wire'[t] = <<>> /\ IsSequence(<<>>) /\ Len(<<>>) = 0 /\ DOMAIN <<>> = {}
      /\ DOMAIN dns' = Targets /\ DOMAIN wire' = Targets
      /\ dns'[t] = a /\ \A u \in Targets \ {t} : dns'[u] = dns[u]
      /\ \A u \in Targets \ {t} : wire'[u] = wire[u]
  BY <1>1, <1>2, AtBaseline
<1>4. CASE NeedsProbe(a) /\ Goto(t, "grease") /\ UNCHANGED <<baseline, results, perTarget, errs>>
  <2>1. Shape
    BY DEF VariationsInv
  <2>2. /\ TargetOk("baseline", echConfig, dns[t], baseline[t], results[t], wire[t])
        /\ SlotOk(t, "baseline", results[t], errs[t])
    BY <1>2 DEF VariationsInv, TargetInv
  <2>3. results[t] = <<>> /\ a.kind = "absent"
    BY <1>4, <2>2 DEF TargetOk, NeedsProbe
  <2>4. /\ pc'[t] = "grease" /\ DOMAIN pc' = Targets
        /\ \A u \in Targets \ {t} : pc'[u] = pc[u]
    BY <1>4, <2>1 DEF Goto, Shape
  <2>5. TargetOk("grease", echConfig, a, baseline[t], <<>>, <<>>)
    BY <1>2, <1>3, <2>3, SweepKinds DEF TargetOk
  <2>6. SlotOk(t, "grease", results[t], errs[t])
    BY <2>2 DEF SlotOk
  <2>7. Shape'
    BY <1>2, <1>3, <1>4, <2>1, <2>4 DEF Shape
  <2>. QED  BY <1>2, <1>3, <1>4, <2>3, <2>4, <2>5, <2>6, <2>7, OneTargetMoves
<1>5. CASE Fail(t, "lookup")
  BY <1>2, <1>3, <1>5, FailKeeps
<1>6. CASE a.kind = "found" /\ Settle(t, a.list)
  <2>1. a.list = SourceOf(echConfig, a, <<>>)
    BY <1>2, <1>6 DEF SourceOf
  <2>2. a.list # <<>> => a.list[1].public_key # "throwaway"
    BY <1>6, FreshKeyAssumption DEF Genuine
  <2>3. Probes(a) = 0
    BY <1>6 DEF Probes
  <2>. QED  BY <1>2, <1>3, <1>6, <2>1, <2>2, <2>3, SettleKeeps
<1>. QED  BY <1>1, <1>4, <1>5, <1>6

LEMMA GreaseProbeKeeps ==
    ASSUME VariationsInv, NEW t \in Targets, greaseProbe(t)
    PROVE  VariationsInv'
<1>1. pc[t] = "grease" /\ UNCHANGED <<echConfig, dns, main>>
  BY DEF greaseProbe, mainVars
<1>2. TargetOk("grease", echConfig, dns[t], baseline[t], results[t], wire[t])
  BY <1>1 DEF VariationsInv, TargetInv
<1>3. dns'[t].kind = "absent" /\ dns'[t] = dns[t] /\ wire[t] = <<>> /\ echConfig = NoList
  BY <1>1, <1>2 DEF TargetOk
<1>4. DOMAIN dns' = Targets /\ DOMAIN wire = Targets /\ \A u \in Targets \ {t} : dns'[u] = dns[u]
  BY <1>1 DEF VariationsInv, Shape
<1>5. IsSequence(<<>>) /\ Len(<<>>) = 0 /\ DOMAIN <<>> = {}
  BY EmptyIsSequence
<1>6. CASE Fail(t, "grease") /\ UNCHANGED wire
  BY <1>1, <1>3, <1>4, <1>5, <1>6, FailKeeps
<1>7. CASE ~(Fail(t, "grease") /\ UNCHANGED wire)
  <2>1. PICK got \in Outcomes(<<GreaseConfig>>, ServerLists, Chains) :
            /\ Logs(t, GreaseConfig, got)
            /\ IF got.kind = "rejected" /\ got.retry \notin {Garbled, <<>>}
               THEN Settle(t, got.retry)
               ELSE Fail(t, "grease")
    BY <1>7 DEF greaseProbe
  <2>. DEFINE h == [offer |-> GreaseConfig, got |-> got]
  <2>2. wire'[t] = Append(<<>>, h) /\ DOMAIN wire' = Targets
    BY <2>1, <1>3, <1>4 DEF Logs
  <2>3. \A u \in Targets \ {t} : wire'[u] = wire[u]
    BY <2>1, <1>4 DEF Logs
  <2>4. h.got = got
    OBVIOUS
  <2>. HIDE DEF h
  <2>5. /\ IsSequence(wire'[t]) /\ Len(wire'[t]) = 1
        /\ DOMAIN wire'[t] = 1 .. 1 /\ wire'[t][1] = h
    <3>1. /\ IsSequence(Append(<<>>, h))
          /\ Len(Append(<<>>, h)) = Len(<<>>) + 1
          /\ DOMAIN Append(<<>>, h) = 1 .. Len(<<>>) + 1
          /\ Append(<<>>, h)[Len(<<>>) + 1] = h
      BY <1>5, AppendToSequence
    <3>. QED  BY <3>1, <2>2, <1>5
  <2>6. \A i \in DOMAIN wire'[t] :
          wire'[t][i].offer.public_key = "throwaway" => dns'[t].kind = "absent" /\ i = 1
    BY <2>5, <1>3
  <2>7. CASE Fail(t, "grease")
    BY <1>1, <1>3, <1>4, <2>2, <2>3, <2>5, <2>6, <2>7, FailKeeps
  <2>8. CASE got.kind = "rejected" /\ got.retry \notin {Garbled, <<>>} /\ Settle(t, got.retry)
    <3>1. PICK l \in ServerLists : got = Rejected(l)
      BY <2>8, OutcomeForms DEF Accepted, Plain, Failed
    <3>2. got.retry \in ServerLists
      BY <3>1 DEF Rejected
    <3>3. got.retry[1].public_key # "throwaway"
      BY <2>8, <3>2, FreshKeyAssumption DEF Genuine
    <3>4. got.retry = SourceOf(echConfig, dns'[t], wire'[t])
      BY <1>3, <2>4, <2>5 DEF SourceOf
    <3>5. Probes(dns'[t]) = 1
      BY <1>3 DEF Probes
    <3>6. /\ UNCHANGED <<echConfig, main>>
          /\ pc[t] \in {"baseline", "grease"}
          /\ Len(wire'[t]) = Probes(dns'[t])
          /\ dns'[t].kind \in {"found", "absent"}
      BY <1>1, <1>3, <2>5, <3>5
    <3>. DEFINE list == got.retry
    <3>7. /\ Settle(t, list)
          /\ list = SourceOf(echConfig, dns'[t], wire'[t])
          /\ list # <<>> => list[1].public_key # "throwaway"
      BY <2>8, <3>3, <3>4
    <3>. HIDE DEF list
    <3>8. /\ DOMAIN dns' = Targets /\ \A u \in Targets \ {t} : dns'[u] = dns[u]
          /\ dns'[t].kind = "absent" => echConfig = NoList
          /\ DOMAIN wire' = Targets /\ \A u \in Targets \ {t} : wire'[u] = wire[u]
          /\ IsSequence(wire'[t])
      BY <1>3, <1>4, <2>2, <2>3, <2>5
    <3>. QED  BY <2>6, <3>6, <3>7, <3>8, SettleKeeps
  <2>. QED  BY <2>1, <2>7, <2>8
<1>. QED  BY <1>6, <1>7

LEMMA TestVariationKeeps ==
    ASSUME VariationsInv, NEW t \in Targets, testVariation(t)
    PROVE  VariationsInv'
<1>. DEFINE c == Offered(t)
            n == Len(results[t]) + 1
<1>1. PICK got \in Outcomes(<<c>>, ServerLists, Chains) \cup {None} :
         /\ Logs(t, c, got)
         /\ results' = [results EXCEPT ![t] = Append(@, Result(t, c, got))]
  BY DEF testVariation
<1>. DEFINE h == [offer |-> c, got |-> got]
            r == Result(t, c, got)
<1>2. /\ pc[t] = "sweep" /\ Len(results[t]) < Len(Sweep)
      /\ UNCHANGED <<echConfig, pc, dns, baseline, perTarget, errs, main>>
  BY DEF testVariation, mainVars
<1>3. /\ TargetOk("sweep", echConfig, dns[t], baseline[t], results[t], wire[t])
      /\ SlotOk(t, "sweep", results[t], errs[t])
  BY <1>2 DEF VariationsInv, TargetInv
<1>4. Shape
  BY DEF VariationsInv
<1>5. n \in 1 .. Len(Sweep) /\ Current(t) = Sweep[n]
  <2>1. IsSequence(results[t])
    BY <1>3 DEF TargetOk
  <2>2. Len(results[t]) \in Nat
    BY <2>1, AppendToSequence
  <2>. QED  BY <2>2, <1>2, SweepKinds DEF Current
<1>6. Tells(r, h)
  BY <1>5, ResultTells
<1>7. OneFactor(h, Sweep[n], baseline[t]) /\ h.offer.public_key # "throwaway"
  <2>1. h.offer = c /\ baseline[t].public_key # "throwaway"
    BY <1>3 DEF TargetOk
  <2>. QED  BY <2>1, <1>5, OfferedIsOneFactor DEF OneFactor
<1>. HIDE DEF h, r, c
<1>8. TargetOk("sweep", echConfig, dns[t], baseline[t], Append(results[t], r), Append(wire[t], h))
  BY <1>2, <1>3, <1>6, <1>7, SweepGoesOn
<1>9. /\ results'[t] = Append(results[t], r) /\ wire'[t] = Append(wire[t], h)
      /\ DOMAIN results' = Targets /\ DOMAIN wire' = Targets
      /\ \A u \in Targets \ {t} : results'[u] = results[u] /\ wire'[u] = wire[u]
  BY <1>1, <1>4 DEF Logs, Shape, h, r, c
<1>10. SlotOk(t, "sweep", results'[t], errs[t])
  BY <1>3 DEF SlotOk
<1>11. Shape'
  BY <1>2, <1>4, <1>9 DEF Shape
<1>. QED  BY <1>2, <1>8, <1>9, <1>10, <1>11, OneTargetMoves

LEMMA DoneKeeps ==
    ASSUME VariationsInv, NEW t \in Targets, Done(t)
    PROVE  VariationsInv'
<1>1. Shape
  BY DEF VariationsInv
<1>2. /\ pc[t] = "sweep" /\ pc'[t] = "done" /\ DOMAIN pc' = Targets
      /\ Len(results[t]) = Len(Sweep)
      /\ \A u \in Targets \ {t} : pc'[u] = pc[u]
      /\ UNCHANGED <<echConfig, dns, baseline, results, wire, errs, main>>
      /\ DOMAIN perTarget' = Targets
  BY <1>1 DEF Done, Goto, Slot, Shape, mainVars
<1>3. /\ TargetOk("sweep", echConfig, dns[t], baseline[t], results[t], wire[t])
      /\ SlotOk(t, "sweep", results[t], errs[t])
  BY <1>2 DEF VariationsInv, TargetInv
<1>4. TargetOk("done", echConfig, dns[t], baseline[t], results[t], wire[t])
  BY <1>3 DEF TargetOk
<1>5. SlotOk(t, "done", results[t], errs[t])
  BY <1>2, <1>3 DEF SlotOk
<1>6. Shape'
  BY <1>1, <1>2 DEF Shape
<1>. QED  BY <1>2, <1>4, <1>5, <1>6, OneTargetMoves

\* The report returns the errors of exactly those targets that have no whole sweep.
LEMMA ReportKeeps ==
    ASSUME VariationsInv, Report
    PROVE  VariationsInv'
<1>1. \A t \in Targets : pc[t] = "done"
  BY DEF Report, Finished
<1>2. UNCHANGED <<echConfig, pc, dns, baseline, results, wire, perTarget, errs>>
  BY DEF Report
<1>3. Shape' /\ TargetInv' /\ ReturnedLast'
  BY <1>1, <1>2 DEF VariationsInv, Shape, TargetInv, ReturnedLast
<1>4. PICK format \in Formats :
         \/ report' = Written(format, Concatenated[N]) /\ returned' = Joined
         \/ /\ report' = Broken(format)
            /\ returned' = IF format = "text" THEN Joined ELSE {[kind |-> "rendering"]}
  BY DEF Report
<1>5. ASSUME NEW t \in Targets
      PROVE  (\E e \in Joined : e.target = t) <=> Len(results[t]) < Len(Sweep)
  <2>1. \A u \in Targets : SlotOk(u, "done", results[u], errs[u])
    BY <1>1 DEF VariationsInv, TargetInv
  <2>2. CASE errs[t] = None
    <3>1. Len(results[t]) = Len(Sweep)
      BY <2>1, <2>2 DEF SlotOk
    <3>2. \A e \in Joined : e.target # t
      <4>1. ASSUME NEW u \in Targets, errs[u] # None  PROVE errs[u].target # t
        BY <2>1, <2>2, <4>1 DEF SlotOk
      <4>. QED  BY <4>1 DEF Joined
    <3>. QED  BY <3>1, <3>2, SweepKinds
  <2>3. CASE errs[t] # None
    <3>1. results[t] = <<>> /\ errs[t].target = t /\ errs[t] \in Joined
      BY <2>1, <2>3 DEF SlotOk, Joined
    <3>2. Len(results[t]) = 0
      BY <3>1
    <3>. QED  BY <3>1, <3>2, SweepKinds
  <2>. QED  BY <2>2, <2>3
<1>6. \/ returned' = {[kind |-> "rendering"]} /\ ~report'.whole
      \/ returned' = Joined /\ (~report'.whole => report'.format = "text")
  BY <1>4 DEF Written, Broken
<1>7. ErrorsSurface'
  <2>1. CASE returned' = {[kind |-> "rendering"]} /\ ~report'.whole
    BY <2>1 DEF ErrorsSurface
  <2>2. CASE returned' = Joined /\ (~report'.whole => report'.format = "text")
    BY <2>2, <1>2, <1>5 DEF ErrorsSurface
  <2>. QED  BY <1>6, <2>1, <2>2
<1>. QED  BY <1>3, <1>7 DEF VariationsInv

LEMMA VariationsInvStep == VariationsInv /\ [Next]_vars => VariationsInv'
<1> SUFFICES ASSUME VariationsInv, [Next]_vars  PROVE VariationsInv'
  OBVIOUS
<1>1. CASE UNCHANGED vars
  BY <1>1 DEF vars, mainVars, VariationsInv, Shape, TargetInv, ReturnedLast, ErrorsSurface
<1>. QED
  BY <1>1, ForkKeeps, UserBaselineKeeps, LookupBaselineKeeps, GreaseProbeKeeps,
     TestVariationKeeps, DoneKeeps, ReportKeeps
     DEF Next, Goroutine

-----------------------------------------------------------------------------
(* The report                                                              *)

\* A goroutine's slot holds its results once it is done, and they bear its target.
RowsFit ==
    \A t \in Targets :
        /\ perTarget[t] = IF pc[t] = "done" THEN results[t] ELSE <<>>
        /\ \A i \in DOMAIN results[t] : results[t][i].target = t

RowsInv == VariationsInv /\ RowsFit /\ ReportInOrder

\* Before the sweep a target has no results, and a sequence of them at any time.
LEMMA ResultsSoFar ==
    ASSUME VariationsInv, NEW t \in Targets
    PROVE  /\ IsSequence(results[t])
           /\ pc[t] \in {"unborn", "baseline", "grease"} => results[t] = <<>>
           /\ pc[t] = "done" => Len(results[t]) \in {0, Len(Sweep)}
<1>1. /\ TargetOk(pc[t], echConfig, dns[t], baseline[t], results[t], wire[t])
      /\ SlotOk(t, pc[t], results[t], errs[t])
  BY DEF VariationsInv, TargetInv
<1>2. IsSequence(results[t]) /\ (pc[t] \in {"unborn", "baseline", "grease"} => results[t] = <<>>)
  BY <1>1 DEF TargetOk
<1>3. pc[t] = "done" => Len(results[t]) \in {0, Len(Sweep)}
  <2>1. CASE errs[t] = None
    BY <1>1, <2>1 DEF SlotOk
  <2>2. CASE errs[t] # None
    <3>1. results[t] = <<>>
      BY <1>1, <2>2 DEF SlotOk
    <3>. QED  BY <3>1
  <2>. QED  BY <2>1, <2>2
<1>. QED  BY <1>2, <1>3

LEMMA ConcatToSequence ==
    ASSUME NEW s, IsSequence(s), NEW r, IsSequence(r)
    PROVE  /\ IsSequence(s \o r)
           /\ Len(s) \in Nat /\ Len(r) \in Nat
           /\ DOMAIN s = 1 .. Len(s) /\ DOMAIN r = 1 .. Len(r)
           /\ Len(s \o r) = Len(s) + Len(r)
           /\ DOMAIN (s \o r) = 1 .. Len(s) + Len(r)
           /\ \A i \in 1 .. Len(s) : (s \o r)[i] = s[i]
           /\ \A i \in 1 .. Len(r) : (s \o r)[Len(s) + i] = r[i]
           /\ \A i \in 1 .. Len(s) + Len(r) :
                i \in 1 .. Len(s) \/ \E j \in 1 .. Len(r) : i = Len(s) + j
<1>. DEFINE S == {s[i] : i \in DOMAIN s} \cup {r[i] : i \in DOMAIN r}
            T == {(s \o r)[i] : i \in DOMAIN (s \o r)}
<1>1. s \in Seq({s[i] : i \in DOMAIN s}) /\ r \in Seq({r[i] : i \in DOMAIN r})
  BY DEF IsSequence
<1>2. s \in Seq(S) /\ r \in Seq(S)
  BY <1>1
<1>. HIDE DEF S
<1>3. /\ s \o r \in Seq(S)
      /\ Len(s) \in Nat /\ Len(r) \in Nat
      /\ DOMAIN s = 1 .. Len(s) /\ DOMAIN r = 1 .. Len(r)
      /\ Len(s \o r) = Len(s) + Len(r)
      /\ DOMAIN (s \o r) = 1 .. Len(s) + Len(r)
      /\ \A i \in 1 .. Len(s) : (s \o r)[i] = s[i]
      /\ \A i \in 1 .. Len(r) : (s \o r)[Len(s) + i] = r[i]
  BY <1>2
<1>4. s \o r \in Seq(T)
  <2>. DEFINE q == s \o r
  <2>. HIDE DEF q
  <2>1. q \in Seq(S)
    BY <1>3 DEF q
  <2>2. Len(q) \in Nat /\ q = [i \in 1 .. Len(q) |-> q[i]] /\ DOMAIN q = 1 .. Len(q)
    BY <2>1
  <2>3. q \in Seq({q[i] : i \in DOMAIN q})
    BY <2>2
  <2>. QED  BY <2>3 DEF q
<1>5. \A i \in 1 .. Len(s) + Len(r) : i \in 1 .. Len(s) \/ \E j \in 1 .. Len(r) : i = Len(s) + j
  <2>1. ASSUME NEW i \in 1 .. Len(s) + Len(r), i \notin 1 .. Len(s)
        PROVE  i - Len(s) \in 1 .. Len(r) /\ i = Len(s) + (i - Len(s))
    BY <1>3, <2>1
  <2>. QED  BY <2>1
<1>. QED  BY <1>3, <1>4, <1>5 DEF IsSequence

\* rows has the results of target t as a block, in their order.
Block(rows, t) ==
    \E k \in 0 .. Len(rows) - Len(results[t]) :
        /\ \A i \in DOMAIN rows : rows[i].target = t <=> i \in k + 1 .. k + Len(results[t])
        /\ \A i \in DOMAIN results[t] : rows[k + i] = results[t][i]

\* rows are the results of targets 1 to n, in the order of the targets.
Blocks(rows, n) ==
    /\ IsSequence(rows)
    /\ \A i \in DOMAIN rows : rows[i].target \in 1 .. n
    /\ \A i, j \in DOMAIN rows : i < j => rows[i].target <= rows[j].target
    /\ \A t \in 1 .. n : Block(rows, t)

\* The next target's results come behind.
LEMMA BlockAdded ==
    ASSUME VariationsInv, RowsFit, NEW n \in Targets, NEW rows, Blocks(rows, n - 1)
    PROVE  Blocks(rows \o results[n], n)
<1>. DEFINE more == results[n]
            all == rows \o more
            k == Len(rows)
            m == Len(more)
<1>1. IsSequence(rows) /\ IsSequence(more) /\ \A i \in DOMAIN more : more[i].target = n
  BY ResultsSoFar DEF Blocks, RowsFit
<1>2. n \in Nat /\ n - 1 \in Nat /\ ~(n \in 1 .. n - 1) /\ 1 .. n = 1 .. (n - 1) \cup {n}
  BY SizeAssumption DEF Targets
<1>. HIDE DEF more
<1>3. /\ IsSequence(all) /\ k \in Nat /\ m \in Nat
      /\ DOMAIN rows = 1 .. k /\ DOMAIN more = 1 .. m
      /\ Len(all) = k + m /\ DOMAIN all = 1 .. k + m
      /\ \A i \in 1 .. k : all[i] = rows[i]
      /\ \A i \in 1 .. m : all[k + i] = more[i]
      /\ \A i \in 1 .. k + m : i \in 1 .. k \/ \E j \in 1 .. m : i = k + j
  BY ONLY <1>1, ConcatToSequence
<1>. HIDE DEF all, k, m
<1>4. /\ \A i \in 1 .. k : all[i].target \in 1 .. (n - 1)
      /\ \A i \in 1 .. m : all[k + i].target = n
  <2>1. \A i \in 1 .. k : rows[i].target \in 1 .. (n - 1)
    BY <1>3 DEF Blocks
  <2>2. \A i \in 1 .. m : more[i].target = n
    BY ONLY <1>1, <1>3
  <2>. QED  BY ONLY <1>3, <2>1, <2>2
<1>5. ASSUME NEW i \in DOMAIN all PROVE all[i].target \in 1 .. n
  <2>1. CASE i \in 1 .. k
    BY <1>2, <1>4, <2>1
  <2>2. CASE i \notin 1 .. k
    <3>1. PICK o \in 1 .. m : i = k + o
      BY ONLY <1>3, <2>2, i \in DOMAIN all
    <3>2. all[i].target = n
      BY ONLY <3>1, <1>4
    <3>. QED  BY <1>2, <3>2
  <2>. QED  BY <2>1, <2>2
<1>6. ASSUME NEW i \in DOMAIN all, NEW j \in DOMAIN all, i < j
      PROVE  all[i].target <= all[j].target
  <2>1. CASE j \in 1 .. k
    <3>1. i \in 1 .. k
      BY <1>3, <1>6, <2>1
    <3>. QED  BY <1>3, <1>6, <2>1, <3>1 DEF Blocks
  <2>2. CASE j \notin 1 .. k
    <3>1. all[j].target = n
      <4>1. PICK o \in 1 .. m : j = k + o
        BY ONLY <1>3, <2>2, j \in DOMAIN all
      <4>. QED  BY ONLY <4>1, <1>4
    <3>2. all[i].target \in 1 .. n
      BY <1>5
    <3>. QED  BY <1>2, <3>1, <3>2
  <2>. QED  BY <2>1, <2>2
<1>7. ASSUME NEW t \in 1 .. (n - 1) PROVE Block(all, t)
  <2>. DEFINE z == results[t]
              q == Len(z)
  <2>1. PICK p \in 0 .. k - q :
          /\ \A i \in DOMAIN rows : rows[i].target = t <=> i \in p + 1 .. p + q
          /\ \A i \in DOMAIN z : rows[p + i] = z[i]
    BY DEF Blocks, Block, k
  <2>2. t \in Targets /\ t # n
    BY <1>2, SizeAssumption DEF Targets
  <2>3. IsSequence(z)
    BY <2>2, ResultsSoFar
  <2>. HIDE DEF z
  <2>4. q \in Nat /\ DOMAIN z = 1 .. q
    BY <2>3, AppendToSequence
  <2>. HIDE DEF q
  <2>5. p \in Nat /\ p + q <= k /\ p \in 0 .. (k + m) - q
    BY <1>3, <2>4
  <2>6. ASSUME NEW i \in DOMAIN all PROVE all[i].target = t <=> i \in p + 1 .. p + q
    <3>1. CASE i \in 1 .. k
      BY <1>3, <2>1, <3>1
    <3>2. CASE i \notin 1 .. k
      <4>1. all[i].target = n
        BY <1>3, <1>4, <3>2
      <4>2. i \notin p + 1 .. p + q
        BY <1>3, <2>4, <2>5, <3>2
      <4>. QED  BY <2>2, <4>1, <4>2
    <3>. QED  BY <3>1, <3>2
  <2>7. ASSUME NEW i \in DOMAIN z PROVE all[p + i] = z[i]
    <3>1. p + i \in 1 .. k
      BY <1>3, <2>4, <2>5
    <3>. QED  BY <1>3, <2>1, <3>1
  <2>. QED  BY <1>3, <2>5, <2>6, <2>7 DEF Block, q, z
<1>8. Block(all, n)
  <2>1. k \in 0 .. (k + m) - m
    BY <1>3
  <2>2. ASSUME NEW i \in DOMAIN all PROVE all[i].target = n <=> i \in k + 1 .. k + m
    <3>1. CASE i \in 1 .. k
      <4>1. all[i].target # n
        BY <1>2, <1>4, <3>1
      <4>2. i \notin k + 1 .. k + m
        BY <1>3, <3>1
      <4>. QED  BY <4>1, <4>2
    <3>2. CASE i \notin 1 .. k
      <4>0. PICK o \in 1 .. m : i = k + o
        BY ONLY <1>3, <3>2, i \in DOMAIN all
      <4>1. all[i].target = n
        BY ONLY <4>0, <1>4
      <4>2. i \in k + 1 .. k + m
        BY <1>3, <3>2
      <4>. QED  BY <4>1, <4>2
    <3>. QED  BY <3>1, <3>2
  <2>. QED  BY <1>3, <2>1, <2>2 DEF Block, m, more
<1>9. \A t \in 1 .. n : Block(all, t)
  BY <1>2, <1>7, <1>8
<1>. QED  BY <1>3, <1>5, <1>6, <1>9 DEF Blocks, all, more

\* The equation that defines Concatenated, for slots per.
Concatenates(f, n, per) ==
    f = [i \in 0 .. n |-> IF i = 0 THEN <<>> ELSE f[i - 1] \o per[i]]

\* It has a solution, which Concatenated therefore is.
LEMMA ConcatenatedExists ==
    ASSUME NEW n \in Nat, NEW per
    PROVE  \E f : Concatenates(f, n, per)
<1>. DEFINE Bad == {k \in Nat : ~ \E f : Concatenates(f, k, per)}
<1>1. CASE Bad # {}
  <2>1. PICK k \in Bad : \A q \in Bad : k <= q
    <3>1. Bad \in SUBSET Nat
      OBVIOUS
    <3>. HIDE DEF Bad
    <3>. QED  BY <1>1, <3>1, LeastElement
  <2>2. k \in Nat /\ ~ \E f : Concatenates(f, k, per)
    OBVIOUS
  <2>. DEFINE base == [i \in 0 .. 0 |-> <<>>]
  <2>3. Concatenates(base, 0, per)
    <3>1. \A i \in 0 .. 0 : i = 0
      OBVIOUS
    <3>. QED  BY <3>1 DEF Concatenates
  <2>4. k # 0
    BY <2>2, <2>3
  <2>5. k - 1 \in Nat /\ ~ (k <= k - 1)
    BY <2>2, <2>4
  <2>6. ~ (k - 1 \in Bad)
    BY <2>1, <2>5
  <2>7. PICK f : Concatenates(f, k - 1, per)
    BY <2>5, <2>6
  <2>. DEFINE g == [i \in 0 .. k |-> IF i = 0 THEN <<>> ELSE f[i - 1] \o per[i]]
  <2>8. ASSUME NEW i \in 0 .. k - 1 PROVE g[i] = f[i]
    <3>1. i \in 0 .. k
      BY <2>2, <2>5
    <3>2. f[i] = IF i = 0 THEN <<>> ELSE f[i - 1] \o per[i]
      BY <2>7 DEF Concatenates
    <3>. QED  BY <3>1, <3>2
  <2>9. ASSUME NEW i \in 0 .. k
        PROVE  g[i] = IF i = 0 THEN <<>> ELSE g[i - 1] \o per[i]
    <3>1. CASE i = 0
      BY <3>1
    <3>2. CASE i # 0
      <4>1. i - 1 \in 0 .. k - 1
        BY <2>2, <3>2
      <4>2. g[i - 1] = f[i - 1]
        BY <2>8, <4>1
      <4>3. g[i] = f[i - 1] \o per[i]
        BY <3>2
      <4>. HIDE DEF g
      <4>. QED  BY <3>2, <4>2, <4>3
    <3>. QED  BY <3>1, <3>2
  <2>10. Concatenates(g, k, per)
    <3>1. g = [i \in 0 .. k |-> g[i]]
      OBVIOUS
    <3>. HIDE DEF g
    <3>. QED  BY <2>9, <3>1 DEF Concatenates
  <2>. QED  BY <2>2, <2>10
<1>2. CASE Bad = {}
  BY <1>2
<1>. QED  BY <1>1, <1>2

LEMMA ConcatenatedIs == Concatenates(Concatenated, N, perTarget)
<1>. DEFINE P(f) == Concatenates(f, N, perTarget)
<1>1. Concatenated = CHOOSE f : P(f)
  BY DEF Concatenated, Concatenates
<1>2. \E f : P(f)
  BY SizeAssumption, ConcatenatedExists
<1>. HIDE DEF P
<1>3. P(CHOOSE f : P(f))
  BY <1>2
<1>. QED  BY <1>1, <1>3 DEF P

\* What is written when all are done.
LEMMA AllBlocks ==
    ASSUME VariationsInv, RowsFit, \A t \in Targets : pc[t] = "done"
    PROVE  Blocks(Concatenated[N], N)
<1>1. N \in Nat \ {0} /\ Targets = 1 .. N
  BY SizeAssumption DEF Targets
<1>2. \A i \in 0 .. N : Concatenated[i] = IF i = 0 THEN <<>> ELSE Concatenated[i - 1] \o perTarget[i]
  BY ConcatenatedIs DEF Concatenates
<1>3. \A t \in Targets : perTarget[t] = results[t]
  BY DEF RowsFit
<1>. DEFINE Bad == {i \in 0 .. N : ~Blocks(Concatenated[i], i)}
<1>4. CASE Bad # {}
  <2>1. PICK i \in Bad : \A q \in Bad : i <= q
    <3>1. Bad \in SUBSET Nat
      BY <1>1
    <3>. HIDE DEF Bad
    <3>. QED  BY <1>4, <3>1, LeastElement
  <2>2. i \in 0 .. N /\ ~Blocks(Concatenated[i], i)
    OBVIOUS
  <2>3. CASE i = 0
    <3>1. Concatenated[i] = <<>>
      BY <1>2, <2>2, <2>3
    <3>2. 1 .. 0 = {} /\ DOMAIN <<>> = {}
      OBVIOUS
    <3>3. Blocks(<<>>, 0)
      BY <3>2, EmptyIsSequence DEF Blocks
    <3>. QED  BY <2>2, <2>3, <3>1, <3>3
  <2>4. CASE i # 0
    <3>1. i - 1 \in 0 .. N /\ ~(i <= i - 1) /\ i \in Targets
      BY <1>1, <2>2, <2>4
    <3>2. Blocks(Concatenated[i - 1], i - 1)
      BY <2>1, <3>1
    <3>3. Concatenated[i] = Concatenated[i - 1] \o results[i]
      BY <1>2, <1>3, <2>2, <2>4, <3>1
    <3>. QED  BY <2>2, <3>1, <3>2, <3>3, BlockAdded
  <2>. QED  BY <2>3, <2>4
<1>5. CASE Bad = {}
  <2>1. N \in 0 .. N
    BY <1>1
  <2>. QED  BY <1>5, <2>1
<1>. QED  BY <1>4, <1>5

LEMMA RowsInvInit == Init => RowsInv
<1> SUFFICES ASSUME Init PROVE RowsInv
  OBVIOUS
<1>1. RowsFit
  BY DEF Init, RowsFit
<1>2. ReportInOrder
  BY DEF Init, ReportInOrder
<1>. QED  BY <1>1, <1>2, VariationsInvInit DEF RowsInv

LEMMA RowsInvStep == RowsInv /\ [Next]_vars => RowsInv'
<1> SUFFICES ASSUME RowsInv, [Next]_vars PROVE RowsInv'
  OBVIOUS
<1>. DEFINE Rest == RowsFit /\ ReportInOrder
<1>0. VariationsInv /\ VariationsInv' /\ Shape
  BY VariationsInvStep DEF RowsInv, VariationsInv
<1>1. CASE UNCHANGED vars
  <2>1. /\ pc' = pc /\ results' = results /\ perTarget' = perTarget
        /\ main' = main /\ report' = report
    BY <1>1 DEF vars, mainVars
  <2>2. RowsFit'
    BY <2>1 DEF RowsInv, RowsFit
  <2>3. ReportInOrder'
    BY <2>1 DEF RowsInv, ReportInOrder
  <2>. QED  BY <1>0, <2>2, <2>3 DEF RowsInv
<1>2. ASSUME NEW t \in Targets, Fork(t) \/ Goroutine(t) PROVE Rest'
  <2>1. pc[t] # "done" /\ UNCHANGED mainVars
    BY <1>2 DEF Fork, Goroutine, UserBaseline, LookupBaseline, greaseProbe, testVariation, Done
  <2>2. main # "returned" /\ main' = main
    BY <1>0, <2>1 DEF VariationsInv, ReturnedLast, mainVars
  <2>3. ReportInOrder'
    BY <2>2 DEF ReportInOrder
  <2>4. /\ \A u \in Targets : u # t => pc'[u] = pc[u] /\ results'[u] = results[u]
                                       /\ perTarget'[u] = perTarget[u]
        /\ perTarget[t] = <<>>
    <3>1. \A u \in Targets : u # t => pc'[u] = pc[u]
      BY <1>0, <1>2 DEF Shape, Fork, Goroutine, UserBaseline, LookupBaseline, greaseProbe,
         testVariation, Done, Goto, Fail, Settle
    <3>2. \A u \in Targets : u # t => results'[u] = results[u] /\ perTarget'[u] = perTarget[u]
      BY <1>0, <1>2 DEF Shape, Fork, Goroutine, UserBaseline, LookupBaseline, greaseProbe,
         testVariation, Done, Fail, Settle, Slot
    <3>. QED  BY <2>1, <3>1, <3>2 DEF RowsInv, RowsFit
  <2>5. /\ perTarget'[t] = IF pc'[t] = "done" THEN results'[t] ELSE <<>>
        /\ \A i \in DOMAIN results'[t] : results'[t][i].target = t
    <3>1. CASE testVariation(t)
      <4>1. PICK got : results' = [results EXCEPT ![t] = Append(@, Result(t, Offered(t), got))]
        BY <3>1 DEF testVariation
      <4>. DEFINE r == Result(t, Offered(t), got)
      <4>2. r.target = t
        BY DEF Result
      <4>. HIDE DEF r
      <4>3. results'[t] = Append(results[t], r)
        BY <1>0, <4>1 DEF Shape, r
      <4>4. IsSequence(results[t])
        BY <1>0, ResultsSoFar
      <4>5. /\ DOMAIN Append(results[t], r) = 1 .. Len(results[t]) + 1 /\ Len(results[t]) \in Nat
            /\ DOMAIN results[t] = 1 .. Len(results[t])
            /\ \A i \in DOMAIN results[t] : Append(results[t], r)[i] = results[t][i]
            /\ Append(results[t], r)[Len(results[t]) + 1] = r
        BY <4>4, AppendToSequence
      <4>6. \A i \in 1 .. Len(results[t]) + 1 : i \in 1 .. Len(results[t]) \/ i = Len(results[t]) + 1
        BY <4>5
      <4>7. \A i \in DOMAIN results'[t] : results'[t][i].target = t
        BY <4>2, <4>3, <4>5, <4>6 DEF RowsInv, RowsFit
      <4>8. pc' = pc /\ perTarget' = perTarget
        BY <3>1 DEF testVariation
      <4>. QED  BY <2>1, <2>4, <4>7, <4>8
    <3>2. CASE Done(t)
      <4>1. perTarget'[t] = results[t] /\ results' = results /\ pc'[t] = "done"
        BY <1>0, <3>2 DEF Done, Slot, Goto, Shape
      <4>. QED  BY <4>1 DEF RowsInv, RowsFit
    <3>3. CASE Fork(t) \/ UserBaseline(t) \/ LookupBaseline(t) \/ greaseProbe(t)
      <4>1. results[t] = <<>>
        <5>1. pc[t] \in {"unborn", "baseline", "grease"}
          BY <3>3 DEF Fork, UserBaseline, LookupBaseline, greaseProbe
        <5>. QED  BY <1>0, <5>1, ResultsSoFar
      <4>2. results' = results /\ perTarget' = perTarget
        BY <3>3 DEF Fork, UserBaseline, LookupBaseline, greaseProbe, Fail, Settle
      <4>. QED  BY <2>4, <4>1, <4>2 DEF RowsInv, RowsFit
    <3>. QED  BY <1>2, <3>1, <3>2, <3>3 DEF Goroutine
  <2>6. RowsFit'
    BY <2>4, <2>5 DEF RowsInv, RowsFit
  <2>. QED  BY <2>3, <2>6
<1>3. ASSUME Report PROVE Rest'
  <2>1. /\ \A t \in Targets : pc[t] = "done"
        /\ UNCHANGED <<pc, results, perTarget>>
    BY <1>3 DEF Report, Finished
  <2>2. \E format \in Formats : report' = Written(format, Concatenated[N]) \/ report' = Broken(format)
    BY <1>3 DEF Report
  <2>3. RowsFit'
    BY <2>1 DEF RowsInv, RowsFit
  <2>4. Blocks(Concatenated[N], N)
    BY <1>0, <2>1, AllBlocks DEF RowsInv
  <2>5. \A t \in Targets : Len(results[t]) \in {0, Len(Sweep)}
    BY <1>0, <2>1, ResultsSoFar
  <2>6. CASE report'.whole /\ report'.rows = Concatenated[N]
    <3>1. Blocks(report'.rows, N)
      BY <2>4, <2>6
    <3>2. \A i, j \in DOMAIN report'.rows :
            i < j => report'.rows[i].target <= report'.rows[j].target
      BY <3>1 DEF Blocks
    <3>3. ASSUME NEW t \in Targets PROVE \E k \in 0 .. Len(report'.rows) - Len(results'[t]) :
            /\ \A i \in DOMAIN report'.rows :
                 report'.rows[i].target = t <=> i \in k + 1 .. k + Len(results'[t])
            /\ \A i \in DOMAIN results'[t] : report'.rows[k + i] = results'[t][i]
      <4>1. Block(report'.rows, t)
        BY <3>1 DEF Blocks, Targets
      <4>. QED  BY <2>1, <4>1 DEF Block
    <3>4. \A t \in Targets : pc'[t] = "done" /\ Len(results'[t]) \in {0, Len(Sweep)}
      BY <2>1, <2>5
    <3>. QED  BY <2>3, <3>2, <3>3, <3>4 DEF ReportInOrder
  <2>7. CASE ~report'.whole /\ report'.rows = <<>>
    <3>1. DOMAIN report'.rows = {}
      BY <2>7
    <3>2. \A t \in Targets : pc'[t] = "done"
      BY <2>1
    <3>3. ~report'.whole
      BY <2>7
    <3>. QED  BY <2>3, <3>1, <3>2, <3>3 DEF ReportInOrder
  <2>8. \/ report'.whole /\ report'.rows = Concatenated[N]
        \/ ~report'.whole /\ report'.rows = <<>>
    BY <2>2 DEF Written, Broken
  <2>. QED  BY <2>3, <2>6, <2>7, <2>8
<1>. QED  BY <1>0, <1>1, <1>2, <1>3 DEF Next, RowsInv

-----------------------------------------------------------------------------
(* The theorems                                                            *)

LEMMA VariationsInvHolds == Spec => []VariationsInv
  BY VariationsInvInit, VariationsInvStep, PTL DEF Spec

\* The handshakes that Tests picks from a target's wire, and where its baseline is from.
LEMMA TestsAreBehindProbes ==
    ASSUME VariationsInv, NEW t \in Targets, NEW i \in DOMAIN results[t]
    PROVE  /\ Tests(t)[i] = wire[t][i + Probes(dns[t])]
           /\ Source(t) = SourceOf(echConfig, dns[t], wire[t])
           /\ i \in 1 .. Len(Sweep)
<1>. DEFINE w == wire[t]
            rs == results[t]
            p == Probes(dns[t])
<1>1. /\ IsSequence(rs) /\ IsSequence(w) /\ Len(rs) <= Len(Sweep)
      /\ rs # <<>> => Len(w) = Len(rs) + p
  BY DEF VariationsInv, TargetInv, TargetOk
<1>2. DOMAIN rs = 1 .. Len(rs) /\ Len(rs) \in Nat /\ Len(w) \in Nat
  BY <1>1, AppendToSequence
<1>3. rs # <<>> /\ i \in 1 .. Len(rs) /\ Len(w) = Len(rs) + p
  BY <1>1, <1>2
<1>4. Source(t) = SourceOf(echConfig, dns[t], w)
  BY DEF Source, SourceOf
<1>5. CASE dns[t].kind = "absent"
  <2>1. w \in Seq({w[j] : j \in DOMAIN w}) /\ Len(w) = Len(rs) + 1 /\ p = 1
    BY <1>1, <1>3, <1>5 DEF IsSequence, Probes
  <2>. HIDE DEF w, rs
  <2>2. i \in 1 .. Len(w) - 1 /\ w # <<>>
    BY <2>1, <1>2, <1>3
  <2>3. Tail(w)[i] = w[i + 1]
    BY <2>1, <2>2, HeadTailProperties
  <2>. QED  BY <1>3, <1>4, <1>5, <2>1, <2>3, <1>1, SweepKinds DEF Tests, w
<1>6. CASE dns[t].kind # "absent"
  BY <1>1, <1>3, <1>4, <1>6, SweepKinds DEF Tests, Probes
<1>. QED  BY <1>5, <1>6

\* Every handshake of a sweep differs from the baseline in its one field only, for any
\* sweep and any answers.
THEOREM SweepsVaryOneFactor == Spec => []OneFactorAtATime
<1>1. VariationsInv => OneFactorAtATime
  <2>. SUFFICES ASSUME VariationsInv, NEW t \in Targets, NEW i \in DOMAIN results[t]
                PROVE  LET s == Sweep[i]
                           c == Tests(t)[i].offer
                       IN  /\ c[s.kind] = s.value
                           /\ \A f \in Fields \ {s.kind} : c[f] = Source(t)[1][f]
    BY DEF OneFactorAtATime
  <2>1. OneFactor(wire[t][i + Probes(dns[t])], Sweep[i],
                  SourceOf(echConfig, dns[t], wire[t])[1])
    BY DEF VariationsInv, TargetInv, TargetOk
  <2>. QED  BY <2>1, TestsAreBehindProbes DEF OneFactor
<1>. QED  BY <1>1, VariationsInvHolds, PTL

\* A GREASE config is offered only to elicit a baseline, and never is one.
THEOREM BaselinesAreReal == Spec => []BaselineIsReal
<1>1. VariationsInv => BaselineIsReal
  BY DEF VariationsInv, TargetInv, TargetOk, BaselineIsReal, Source, SourceOf
<1>. QED  BY <1>1, VariationsInvHolds, PTL

\* Every result says of its own handshake what came of it.
THEOREM ResultsAreTrue == Spec => []ResultsTellTheWire
<1>1. VariationsInv => ResultsTellTheWire
  <2>. SUFFICES ASSUME VariationsInv, NEW t \in Targets, NEW i \in DOMAIN results[t]
                PROVE  Tells(results[t][i], Tests(t)[i])
    BY DEF ResultsTellTheWire, Tells
  <2>1. Tells(results[t][i], wire[t][i + Probes(dns[t])])
    BY DEF VariationsInv, TargetInv, TargetOk
  <2>. QED  BY <2>1, TestsAreBehindProbes
<1>. QED  BY <1>1, VariationsInvHolds, PTL

\* A target without a whole sweep has its error among those returned, unless rendering
\* failed, and no other target has one.
THEOREM NoErrorIsLost == Spec => []ErrorsSurface
<1>1. VariationsInv => ErrorsSurface
  BY DEF VariationsInv
<1>. QED  BY <1>1, VariationsInvHolds, PTL

\* The report waits for all targets and holds their results in the order of the
\* arguments, each whole sweep in order: the slots keep what goroutines finish in any
\* order, and their concatenation is a block per target.
THEOREM ReportsAreInOrder == Spec => []ReportInOrder
<1>1. RowsInv => ReportInOrder
  BY DEF RowsInv
<1>. QED  BY <1>1, RowsInvInit, RowsInvStep, PTL DEF Spec

=============================================================================
