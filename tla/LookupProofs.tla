---------------------------- MODULE LookupProofs ----------------------------
(***************************************************************************)
(* Proofs about DnsLookup, for any names, zones and MaxAliasHops: a lookup *)
(* sends at most MaxAliasHops + 1 queries, and its result agrees with DNS. *)
(*                                                                         *)
(* The argument is about paths: the name that is asked for can be reached  *)
(* from the domain by aliases that DNS really has, over as many of them as *)
(* queries were made, or up to twice as many when a resolver chases them.  *)
(* A path stays one while more of DNS becomes known.  Chain, which the     *)
(* property speaks of, holds the names of the path one by one.             *)
(***************************************************************************)
EXTENDS DnsLookup, SequenceTheorems, WellFoundedInduction, TLAPS

Known(z) == z \in [Names -> RRsets \cup {Unasked}]

\* c leads from d over j aliases of zone z.
Path(z, d, c, j) ==
    /\ c \in [0 .. j -> Names]
    /\ c[0] = d
    /\ \A i \in 0 .. j - 1 : z[c[i]] = <<Alias(c[i + 1])>>

\* n is reached from d over j aliases.
PathTo(z, d, n, j) == \E c \in [0 .. j -> Names] : Path(z, d, c, j) /\ c[j] = n

\* n is reached over at least `hops` aliases and at most twice as many.
Leads(z, d, n, hops) == n \in Names /\ \E j \in hops .. 2 * hops : PathTo(z, d, n, j)

EchIn(rrs) == {rr.list : rr \in {rrs[i] : i \in DOMAIN rrs} \cap {Ech(l) : l \in Lists}}

NoRecord == {<<>>, <<Service>>}

\* DNS justifies the result.
Justified(z, d, result, dist, failure) ==
    LET Near(n) == \E j \in 0 .. 2 * MaxAliasHops + 1 : PathTo(z, d, n, j)
        Far(n) == \E j \in MaxAliasHops + 1 .. 2 * MaxAliasHops + 2 : PathTo(z, d, n, j)
    IN  \/ result.kind = "found" /\ \E n \in Names : Near(n) /\ result.list \in EchIn(z[n])
        \/ result.kind = "absent" /\ (failure \/ \E n \in Names : Near(n) /\ z[n] \in NoRecord)
        \/ /\ result = LookupFailed
           /\ dist \/ \E n \in Names : (Near(n) /\ z[n] = <<Undecodable>>) \/ Far(n)

\* The records of the name that was asked for, and those of its alias' target, were
\* decided before an answer can bring them.
Decided(z, n) ==
    /\ z[n] # Unasked
    /\ \A m \in Names : z[n] = <<Alias(m)>> => z[m] # Unasked

LookupInv ==
    /\ Known(zone)
    /\ step \in Steps
    /\ domain \in Names
    /\ sent \in Seq(Names)
    /\ Len(sent) <= MaxAliasHops + 1
    /\ step \in {"idle", "server"} => sent = <<>> /\ answer = Absent
    /\ step = "query" => Len(sent) <= MaxAliasHops /\ Leads(zone, domain, Queried, Len(sent))
    /\ step = "reply" =>
         /\ sent # <<>> /\ sent[Len(sent)] = Queried
         /\ Leads(zone, domain, Queried, Len(sent) - 1)
         /\ Decided(zone, Queried)
    /\ step = "returned" => Justified(zone, domain, answer, disturbed, servfail)

-----------------------------------------------------------------------------
(* Answers                                                                 *)

\* A set of naturals that is not empty has a least element, since < is well-founded.
LEMMA LeastElement ==
    ASSUME NEW S \in SUBSET Nat, S # {}
    PROVE  \E p \in S : \A q \in S : p <= q
<1>. DEFINE R == OpToRel(<, Nat)
<1>1. R = {ab \in Nat \X Nat : ab[1] < ab[2]}
  BY DEF OpToRel
<1>2. PICK p \in S : \A q \in S : ~ (<<q, p>> \in R)
  <2>1. IsWellFoundedOn(R, Nat)
    BY NatLessThanWellFounded
  <2>. HIDE DEF R
  <2>. QED  BY <2>1, WFMin
<1>3. \A q \in S : ~ (q < p)
  BY <1>1, <1>2
<1>. QED  BY <1>3

\* ... and a greatest one, if it is bounded.
LEMMA GreatestElement ==
    ASSUME NEW n \in Nat, NEW S \in SUBSET (1 .. n), S # {}
    PROVE  \E p \in S : \A q \in S : q <= p
<1>. DEFINE T == {n - q : q \in S}
<1>1. T \in SUBSET Nat
  OBVIOUS
<1>5. T # {}
  <2>1. PICK q \in S : TRUE
    OBVIOUS
  <2>. QED  BY <2>1
<1>2. PICK r \in T : \A x \in T : r <= x
  <2>. HIDE DEF T
  <2>. QED  BY <1>1, <1>5, LeastElement
<1>3. PICK p \in S : r = n - p
  BY <1>2
<1>4. ASSUME NEW q \in S  PROVE q <= p
  <2>1. n - p <= n - q
    BY <1>2, <1>3
  <2>2. p \in 1 .. n /\ q \in 1 .. n
    OBVIOUS
  <2>. QED  BY <2>1, <2>2
<1>. QED  BY <1>4

\* The result of an answer stems from a record of it, or no record means anything.
LEMMA ParsedStems ==
    ASSUME NEW rrs, NEW n \in Nat, DOMAIN rrs = 1 .. n
    PROVE  LET p == parseHTTPSAnswers(rrs)
           IN  \/ \E i \in DOMAIN rrs : rrs[i].kind = "ech" /\ p = Found(rrs[i].list)
               \/ \E i \in DOMAIN rrs : rrs[i].kind \in {"broken", "undecodable"} /\ p = LookupFailed
               \/ \E i \in DOMAIN rrs : rrs[i].kind = "alias" /\ p = Continue(rrs[i].target)
               \/ /\ \A i \in DOMAIN rrs : ~Ends(rrs[i]) /\ rrs[i].kind # "alias"
                  /\ p = Absent
<1>. DEFINE ends == {i \in DOMAIN rrs : Ends(rrs[i])}
            aliases == {i \in DOMAIN rrs : rrs[i].kind = "alias"}
            first == CHOOSE i \in ends : \A j \in ends : i <= j
            last == CHOOSE i \in aliases : \A j \in aliases : j <= i
            p == parseHTTPSAnswers(rrs)
<1>1. CASE ends # {}
  <2>1. \E i \in ends : \A j \in ends : i <= j
    <3>1. ends \in SUBSET Nat
      OBVIOUS
    <3>. HIDE DEF ends
    <3>. QED  BY <3>1, <1>1, LeastElement
  <2>2. first \in ends
    BY <2>1
  <2>3. first \in DOMAIN rrs /\ rrs[first].kind \in {"broken", "undecodable", "ech"}
    BY <2>2 DEF Ends
  <2>4. CASE rrs[first].kind = "ech"
    <3>1. p = Found(rrs[first].list)
      BY <1>1, <2>4 DEF parseHTTPSAnswers
    <3>. HIDE DEF first, p
    <3>. QED  BY <2>3, <2>4, <3>1 DEF p
  <2>5. CASE rrs[first].kind # "ech"
    <3>1. p = LookupFailed
      BY <1>1, <2>5 DEF parseHTTPSAnswers
    <3>. HIDE DEF first, p
    <3>. QED  BY <2>3, <2>5, <3>1 DEF p
  <2>. QED  BY <2>4, <2>5
<1>2. CASE ends = {} /\ aliases # {}
  <2>1. \E i \in aliases : \A j \in aliases : j <= i
    <3>1. aliases \in SUBSET (1 .. n)
      OBVIOUS
    <3>. HIDE DEF aliases
    <3>. QED  BY <3>1, <1>2, GreatestElement
  <2>2. last \in aliases
    BY <2>1
  <2>3. p = Continue(rrs[last].target)
    BY <1>2 DEF parseHTTPSAnswers
  <2>. HIDE DEF last, p
  <2>. QED  BY <2>2, <2>3 DEF p
<1>3. CASE ends = {} /\ aliases = {}
  <2>1. p = Absent
    BY <1>3 DEF parseHTTPSAnswers
  <2>. QED  BY <1>3, <2>1
<1>. QED  BY <1>1, <1>2, <1>3

LEMMA NothingParsed ==
    parseHTTPSAnswers(<<>>) = Absent
<1>. DEFINE none == <<>>
<1>1. DOMAIN none = 1 .. 0
  BY EmptySeq
<1>. HIDE DEF none
<1>2. DOMAIN none = {}
  BY <1>1
<1>3. parseHTTPSAnswers(none) = Absent
  BY <1>1, <1>2, ParsedStems
<1>. QED  BY <1>3 DEF none

\* What the records of a name can be.
LEMMA RRsetForms ==
    ASSUME NEW rrs \in RRsets
    PROVE  \/ rrs = <<>>
           \/ rrs = <<Service>>
           \/ rrs = <<Undecodable>>
           \/ \E m \in Names : rrs = <<Alias(m)>>
           \/ \E l \in Lists : rrs = <<Ech(l)>>
           \/ \E l \in Lists : rrs = <<Service, Ech(l)>>
  BY DEF RRsets

Records == {Other, Broken, Service, Undecodable}
               \cup {Alias(m) : m \in Names} \cup {Ech(l) : l \in Lists}

LEMMA RRsetsAreSequences ==
    ASSUME NEW rrs \in RRsets
    PROVE  /\ rrs \in Seq(Records)
           /\ \A i \in DOMAIN rrs :
                \/ rrs[i] = Service
                \/ rrs[i] = Undecodable /\ rrs = <<Undecodable>>
                \/ \E m \in Names : rrs[i] = Alias(m) /\ rrs = <<Alias(m)>>
                \/ \E l \in Lists : rrs[i] = Ech(l) /\ l \in EchIn(rrs)
           /\ \/ rrs \in NoRecord
              \/ \E i \in DOMAIN rrs : Ends(rrs[i]) \/ rrs[i].kind = "alias"
<1>1. CASE rrs \in NoRecord
  <2>1. Service \in Records
    BY DEF Records
  <2>2. CASE rrs = <<>>
    BY <1>1, <2>2, EmptySeq
  <2>3. CASE rrs = <<Service>>
    BY <1>1, <2>1, <2>3
  <2>. QED  BY <1>1, <2>2, <2>3 DEF NoRecord
<1>2. CASE rrs = <<Undecodable>>
  <2>1. Undecodable \in Records /\ Ends(Undecodable)
    BY DEF Records, Ends, Undecodable
  <2>. QED  BY <1>2, <2>1
<1>3. ASSUME NEW m \in Names, rrs = <<Alias(m)>>
      PROVE  /\ rrs \in Seq(Records)
             /\ \A i \in DOMAIN rrs : rrs[i] = Alias(m)
             /\ \E i \in DOMAIN rrs : rrs[i].kind = "alias"
  <2>1. Alias(m) \in Records /\ Alias(m).kind = "alias"
    BY DEF Records, Alias
  <2>. QED  BY <1>3, <2>1
<1>4. ASSUME NEW l \in Lists, rrs = <<Ech(l)>> \/ rrs = <<Service, Ech(l)>>
      PROVE  /\ rrs \in Seq(Records)
             /\ \A i \in DOMAIN rrs : rrs[i] = Service \/ (rrs[i] = Ech(l) /\ l \in EchIn(rrs))
             /\ \E i \in DOMAIN rrs : Ends(rrs[i])
  <2>1. Ech(l) \in Records /\ Service \in Records /\ Ends(Ech(l)) /\ Ech(l).list = l
    BY DEF Records, Ech, Ends
  <2>2. ASSUME NEW i \in DOMAIN rrs, rrs[i] = Ech(l)  PROVE l \in EchIn(rrs)
    BY <2>1, <2>2 DEF EchIn
  <2>3. CASE rrs = <<Ech(l)>>
    BY <2>1, <2>2, <2>3
  <2>4. CASE rrs = <<Service, Ech(l)>>
    <3>1. DOMAIN rrs = {1, 2} /\ rrs[1] = Service /\ rrs[2] = Ech(l)
      BY <2>4
    <3>. QED  BY <2>1, <2>2, <2>4, <3>1
  <2>. QED  BY <1>4, <2>3, <2>4
<1>. QED  BY <1>1, <1>2, <1>3, <1>4, RRsetForms DEF NoRecord

\* The names whose records an answer about n may hold.
AnsweredNames(z, n) == {n} \cup {m \in Names : z[n] = <<Alias(m)>>}

\* Every record of an answer is one of those names', or one that is no use.
LEMMA AnswerRecords ==
    ASSUME Known(zone), NEW n \in Names, Decided(zone, n), NEW a \in Answers(n)
    PROVE  /\ \E len \in Nat : DOMAIN a = 1 .. len
           /\ \A i \in DOMAIN a :
                \/ a[i] \in {Other, Broken}
                \/ \E x \in AnsweredNames(zone, n) : \E k \in DOMAIN zone[x] : a[i] = zone[x][k]
           /\ \/ \E i \in DOMAIN a : a[i] = Broken
              \/ \A k \in DOMAIN zone[n] : \E i \in DOMAIN a : a[i] = zone[n][k]
<1>1. zone[n] \in RRsets /\ \A m \in Names : zone[n] = <<Alias(m)>> => zone[m] \in RRsets
  BY DEF Known, Decided
<1>2. zone[n] \in Seq(Records)
  BY <1>1, RRsetsAreSequences
<1>3. DOMAIN zone[n] = 1 .. Len(zone[n]) /\ Len(zone[n]) \in Nat
  BY <1>2, LenProperties
<1>4. n \in AnsweredNames(zone, n)
  BY DEF AnsweredNames
<1>5. CASE a = zone[n]
  BY <1>3, <1>4, <1>5
<1>6. CASE a = <<Other>> \o zone[n]
  <2>. DEFINE z == zone[n]
  <2>1. /\ DOMAIN a = 1 .. 1 + Len(z)
        /\ a[1] = Other
        /\ \A i \in 1 .. Len(z) : a[i + 1] = z[i]
    <3>1. <<Other>> \in Seq(Records) /\ z \in Seq(Records) /\ Len(<<Other>>) = 1 /\ <<Other>>[1] = Other
      BY <1>2 DEF Records
    <3>. HIDE DEF z
    <3>2. a = <<Other>> \o z
      BY <1>6 DEF z
    <3>. DEFINE o == <<Other>>
    <3>3. o \in Seq(Records) /\ Len(o) = 1 /\ o[1] = Other /\ a = o \o z
      BY <3>1, <3>2
    <3>. HIDE DEF o
    <3>. QED  BY <3>1, <3>3, ConcatProperties, LenProperties
  <2>2. ASSUME NEW i \in DOMAIN a
        PROVE  a[i] = Other \/ \E k \in DOMAIN z : a[i] = z[k]
    <3>1. i = 1 \/ (i - 1 \in 1 .. Len(z) /\ (i - 1) + 1 = i)
      BY <2>1, <1>3
    <3>. HIDE DEF z
    <3>2. DOMAIN z = 1 .. Len(z)
      BY <1>3 DEF z
    <3>. QED  BY <3>1, <3>2, <2>1
  <2>3. ASSUME NEW k \in DOMAIN z
        PROVE  \E i \in DOMAIN a : a[i] = z[k]
    <3>1. k + 1 \in DOMAIN a
      BY <2>1, <1>3
    <3>. QED  BY <3>1, <2>1, <1>3
  <2>. QED  BY <2>1, <2>2, <2>3, <1>3, <1>4
<1>7. CASE a = <<Other, Broken>>
  <2>1. DOMAIN a = 1 .. 2 /\ a[1] = Other /\ a[2] = Broken
    BY <1>7
  <2>. QED  BY <2>1
<1>8. ASSUME NEW m \in Names, zone[n] = <<Alias(m)>>, a = zone[n] \o zone[m]
      PROVE  /\ \E len \in Nat : DOMAIN a = 1 .. len
             /\ \A i \in DOMAIN a : \E x \in AnsweredNames(zone, n) : \E k \in DOMAIN zone[x] : a[i] = zone[x][k]
             /\ \A k \in DOMAIN zone[n] : \E i \in DOMAIN a : a[i] = zone[n][k]
  <2>1. zone[m] \in Seq(Records)
    BY <1>1, <1>8, RRsetsAreSequences
  <2>2. DOMAIN zone[m] = 1 .. Len(zone[m]) /\ Len(zone[m]) \in Nat
    BY <2>1, LenProperties
  <2>3. m \in AnsweredNames(zone, n)
    BY <1>8 DEF AnsweredNames
  <2>. DEFINE y == zone[n]  z == zone[m]
  <2>4. /\ DOMAIN a = 1 .. Len(y) + Len(z)
        /\ \A i \in 1 .. Len(y) + Len(z) : a[i] = IF i <= Len(y) THEN y[i] ELSE z[i - Len(y)]
    <3>. HIDE DEF y, z
    <3>1. y \in Seq(Records) /\ z \in Seq(Records) /\ a = y \o z
      BY <1>2, <2>1, <1>8 DEF y, z
    <3>. QED  BY <3>1, ConcatProperties, LenProperties
  <2>5. /\ DOMAIN y = 1 .. Len(y) /\ Len(y) \in Nat
        /\ DOMAIN z = 1 .. Len(z) /\ Len(z) \in Nat
    BY <1>3, <2>2
  <2>6. /\ \A i \in DOMAIN a : (\E k \in DOMAIN y : a[i] = y[k]) \/ (\E k \in DOMAIN z : a[i] = z[k])
        /\ \A k \in DOMAIN y : \E i \in DOMAIN a : a[i] = y[k]
        /\ Len(y) + Len(z) \in Nat
    <3>. HIDE DEF y, z
    <3>1. ASSUME NEW i \in DOMAIN a, ~ (i <= Len(y))  PROVE i - Len(y) \in DOMAIN z
      BY <3>1, <2>4, <2>5
    <3>2. ASSUME NEW i \in DOMAIN a, i <= Len(y)  PROVE i \in DOMAIN y
      BY <3>2, <2>4, <2>5
    <3>3. ASSUME NEW k \in DOMAIN y  PROVE k \in DOMAIN a /\ k <= Len(y)
      BY <2>4, <2>5
    <3>. QED  BY <3>1, <3>2, <3>3, <2>4, <2>5
  <2>. QED  BY <2>3, <1>4, <2>4, <2>6
<1>9. a \in {zone[n], <<Other>> \o zone[n], <<Other, Broken>>} \/ a \in Chased(n)
  BY DEF Answers
<1>10. CASE a \in Chased(n)
  <2>1. PICK m \in Names : zone[n] = <<Alias(m)>> /\ a = zone[n] \o zone[m]
    BY <1>10 DEF Chased
  <2>. QED  BY <1>8, <2>1
<1>. QED  BY <1>5, <1>6, <1>7, <1>9, <1>10

\* An answer about n is understood as what DNS says of n, or of its alias' target.
LEMMA AnswerMeans ==
    ASSUME Known(zone), NEW n \in Names, Decided(zone, n), NEW a \in Answers(n)
    PROVE  LET p == parseHTTPSAnswers(a)
           IN  \/ \E x \in AnsweredNames(zone, n) : \E l \in Lists : l \in EchIn(zone[x]) /\ p = Found(l)
               \/ p = LookupFailed /\ \E i \in DOMAIN a : a[i] = Broken
               \/ p = LookupFailed /\ \E x \in AnsweredNames(zone, n) : zone[x] = <<Undecodable>>
               \/ \E x \in AnsweredNames(zone, n) : \E m \in Names : zone[x] = <<Alias(m)>> /\ p = Continue(m)
               \/ p = Absent /\ zone[n] \in NoRecord
<1>. DEFINE p == parseHTTPSAnswers(a)
<1>0. PICK len \in Nat : DOMAIN a = 1 .. len
  BY AnswerRecords
<1>1. \/ \E i \in DOMAIN a : a[i].kind = "ech" /\ p = Found(a[i].list)
      \/ \E i \in DOMAIN a : a[i].kind \in {"broken", "undecodable"} /\ p = LookupFailed
      \/ \E i \in DOMAIN a : a[i].kind = "alias" /\ p = Continue(a[i].target)
      \/ /\ \A i \in DOMAIN a : ~Ends(a[i]) /\ a[i].kind # "alias"
         /\ p = Absent
  BY <1>0, ParsedStems
<1>. HIDE DEF p
<1>2. ASSUME NEW i \in DOMAIN a
      PROVE  \/ a[i] \in {Other, Broken, Service}
             \/ a[i] = Undecodable /\ \E x \in AnsweredNames(zone, n) : zone[x] = <<Undecodable>>
             \/ \E x \in AnsweredNames(zone, n) : \E m \in Names : a[i] = Alias(m) /\ zone[x] = <<Alias(m)>>
             \/ \E x \in AnsweredNames(zone, n) : \E l \in Lists : a[i] = Ech(l) /\ l \in EchIn(zone[x])
  <2>1. a[i] \in {Other, Broken} \/ \E x \in AnsweredNames(zone, n) : \E k \in DOMAIN zone[x] : a[i] = zone[x][k]
    BY AnswerRecords
  <2>2. ASSUME NEW x \in AnsweredNames(zone, n)  PROVE zone[x] \in RRsets
    BY DEF AnsweredNames, Known, Decided
  <2>. QED  BY <2>1, <2>2, RRsetsAreSequences
<1>3. /\ Other.kind = "other" /\ Broken.kind = "broken" /\ Service.kind = "plain"
      /\ Undecodable.kind = "undecodable"
      /\ \A m : Alias(m).kind = "alias" /\ Alias(m).target = m
      /\ \A l : Ech(l).kind = "ech" /\ Ech(l).list = l
  BY DEF Other, Broken, Service, Undecodable, Alias, Ech
<1>4. ASSUME NEW i \in DOMAIN a, a[i].kind = "ech", p = Found(a[i].list)
      PROVE  \E x \in AnsweredNames(zone, n) : \E l \in Lists : l \in EchIn(zone[x]) /\ p = Found(l)
  BY <1>2, <1>3, <1>4
<1>5. ASSUME NEW i \in DOMAIN a, a[i].kind \in {"broken", "undecodable"}
      PROVE  a[i] = Broken \/ \E x \in AnsweredNames(zone, n) : zone[x] = <<Undecodable>>
  BY <1>2, <1>3, <1>5
<1>6. ASSUME NEW i \in DOMAIN a, a[i].kind = "alias", p = Continue(a[i].target)
      PROVE  \E x \in AnsweredNames(zone, n) : \E m \in Names : zone[x] = <<Alias(m)>> /\ p = Continue(m)
  BY <1>2, <1>3, <1>6
<1>7. ASSUME \A i \in DOMAIN a : ~Ends(a[i]) /\ a[i].kind # "alias"
      PROVE  zone[n] \in NoRecord
  <2>1. zone[n] \in RRsets
    BY DEF Known, Decided
  <2>2. ~ \E i \in DOMAIN a : a[i] = Broken
    BY <1>3, <1>7 DEF Ends
  <2>3. \A k \in DOMAIN zone[n] : \E i \in DOMAIN a : a[i] = zone[n][k]
    BY <2>2, AnswerRecords
  <2>. QED  BY <2>1, <2>3, <1>7, RRsetsAreSequences
<1>8. \/ \E x \in AnsweredNames(zone, n) : \E l \in Lists : l \in EchIn(zone[x]) /\ p = Found(l)
      \/ p = LookupFailed /\ \E i \in DOMAIN a : a[i] = Broken
      \/ p = LookupFailed /\ \E x \in AnsweredNames(zone, n) : zone[x] = <<Undecodable>>
      \/ \E x \in AnsweredNames(zone, n) : \E m \in Names : zone[x] = <<Alias(m)>> /\ p = Continue(m)
      \/ p = Absent /\ zone[n] \in NoRecord
  BY <1>1, <1>4, <1>5, <1>6, <1>7
<1>. QED  BY <1>8 DEF p

-----------------------------------------------------------------------------
(* Paths                                                                   *)

\* More of DNS becomes known, and what was known stays.
Grows(z, w) == \A n \in Names : z[n] # Unasked => w[n] = z[n]

LEMMA PathGrows ==
    ASSUME NEW z, NEW w, Grows(z, w), NEW d, NEW n, NEW j \in Nat, PathTo(z, d, n, j)
    PROVE  PathTo(w, d, n, j)
<1>1. PICK c \in [0 .. j -> Names] : Path(z, d, c, j) /\ c[j] = n
  BY DEF PathTo
<1>2. ASSUME NEW i \in 0 .. j - 1  PROVE w[c[i]] = <<Alias(c[i + 1])>>
  <2>1. c[i] \in Names /\ c[i + 1] \in Names
    BY <1>1
  <2>2. z[c[i]] = <<Alias(c[i + 1])>>
    BY <1>1 DEF Path
  <2>3. z[c[i]] # Unasked
    BY <2>1, <2>2, UnaskedAssumption DEF RRsets
  <2>. QED  BY <2>1, <2>2, <2>3 DEF Grows
<1>. QED  BY <1>1, <1>2 DEF Path, PathTo

LEMMA PathExtends ==
    ASSUME NEW z, NEW d, NEW n \in Names, NEW m \in Names, NEW j \in Nat,
           PathTo(z, d, n, j), z[n] = <<Alias(m)>>
    PROVE  PathTo(z, d, m, j + 1)
<1>1. PICK c \in [0 .. j -> Names] : Path(z, d, c, j) /\ c[j] = n
  BY DEF PathTo
<1>. DEFINE e == [i \in 0 .. j + 1 |-> IF i = j + 1 THEN m ELSE c[i]]
<1>2. e \in [0 .. j + 1 -> Names]
  OBVIOUS
<1>3. e[0] = d
  BY <1>1 DEF Path
<1>4. ASSUME NEW i \in 0 .. j  PROVE z[e[i]] = <<Alias(e[i + 1])>>
  <2>1. e[i] = c[i]
    OBVIOUS
  <2>2. CASE i = j
    BY <1>1, <2>1, <2>2
  <2>3. CASE i # j
    <3>1. i \in 0 .. j - 1 /\ e[i + 1] = c[i + 1]
      BY <2>3
    <3>2. z[c[i]] = <<Alias(c[i + 1])>>
      BY <1>1, <3>1 DEF Path
    <3>. HIDE DEF e
    <3>. QED  BY <2>1, <3>1, <3>2
  <2>. QED  BY <2>2, <2>3
<1>5. e[j + 1] = m /\ (j + 1) - 1 = j
  OBVIOUS
<1>. HIDE DEF e
<1>. QED  BY <1>2, <1>3, <1>4, <1>5 DEF Path, PathTo

LEMMA LeadsGrows ==
    ASSUME NEW z, NEW w, Grows(z, w), NEW d, NEW n, NEW h \in Nat, Leads(z, d, n, h)
    PROVE  Leads(w, d, n, h)
  BY PathGrows DEF Leads

LEMMA StartLeads ==
    ASSUME NEW z, NEW n \in Names
    PROVE  Leads(z, n, n, 0)
<1>. DEFINE c == [i \in 0 .. 0 |-> n]
<1>1. c \in [0 .. 0 -> Names] /\ c[0] = n
  OBVIOUS
<1>2. 0 .. 0 - 1 = {} /\ 0 \in 0 .. 2 * 0
  OBVIOUS
<1>. HIDE DEF c
<1>3. PathTo(z, n, n, 0)
  BY <1>1, <1>2 DEF Path, PathTo
<1>. QED  BY <1>2, <1>3 DEF Leads

\* An answer leads to the name it speaks of, over one alias more at most.
LEMMA AnswerLeads ==
    ASSUME NEW z, NEW d, NEW n, NEW h \in Nat, Leads(z, d, n, h), NEW x \in AnsweredNames(z, n)
    PROVE  x \in Names /\ \E j \in h .. 2 * h + 1 : PathTo(z, d, x, j)
<1>1. PICK j \in h .. 2 * h : n \in Names /\ PathTo(z, d, n, j)
  BY DEF Leads
<1>2. CASE x = n
  BY <1>1, <1>2
<1>3. CASE x \in Names /\ z[n] = <<Alias(x)>>
  <2>1. PathTo(z, d, x, j + 1)
    BY <1>1, <1>3, PathExtends
  <2>2. j + 1 \in h .. 2 * h + 1
    BY <1>1
  <2>. QED  BY <1>3, <2>1, <2>2
<1>. QED  BY <1>2, <1>3 DEF AnsweredNames

\* And an alias in it leads to the next name.
LEMMA AliasLeads ==
    ASSUME NEW z, NEW d, NEW n, NEW h \in Nat, Leads(z, d, n, h),
           NEW x \in AnsweredNames(z, n), NEW m \in Names, z[x] = <<Alias(m)>>
    PROVE  Leads(z, d, m, h + 1)
<1>1. PICK j \in h .. 2 * h + 1 : x \in Names /\ PathTo(z, d, x, j)
  BY AnswerLeads
<1>2. PathTo(z, d, m, j + 1)
  BY <1>1, PathExtends
<1>3. j + 1 \in h + 1 .. 2 * (h + 1)
  BY <1>1
<1>. QED  BY <1>2, <1>3 DEF Leads

-----------------------------------------------------------------------------
(* The steps of a lookup                                                   *)

LEMMA LearnKeeps ==
    ASSUME NEW z, Known(z), NEW n \in Names, NEW rrs \in RRsets
    PROVE  /\ Known(Learn(z, n, rrs)) /\ Grows(z, Learn(z, n, rrs))
           /\ Learn(z, n, rrs)[n] \in RRsets
           /\ \A x \in Names : Learn(z, n, rrs)[x] # Unasked => x = n \/ z[x] # Unasked
  BY DEF Learn, Known, Grows

LEMMA QueryLearns ==
    ASSUME Known(zone), Queried \in Names, SendQuery
    PROVE  Known(zone') /\ Grows(zone, zone') /\ Decided(zone', Queried)
<1>. DEFINE q == Queried
<1>1. PICK rrs \in RRsets, targets \in RRsets :
        LET z == Learn(zone, q, rrs)
            m == {m \in Names : z[q] = <<Alias(m)>>}
        IN  zone' = [n \in Names |-> IF n \in m THEN Learn(z, n, targets)[n] ELSE z[n]]
  BY DEF SendQuery
<1>. DEFINE z == Learn(zone, q, rrs)
            w == zone'
<1>2. w = [n \in Names |-> IF z[q] = <<Alias(n)>> THEN Learn(z, n, targets)[n] ELSE z[n]]
  BY <1>1
<1>3. q \in Names /\ Known(z) /\ Grows(zone, z) /\ z[q] \in RRsets
  BY LearnKeeps
<1>. HIDE DEF z, w, q
<1>4. ASSUME NEW n \in Names
      PROVE  /\ w[n] \in RRsets \cup {Unasked}
             /\ z[n] # Unasked => w[n] = z[n]
             /\ z[q] = <<Alias(n)>> => w[n] \in RRsets
  <2>1. Known(Learn(z, n, targets)) /\ Grows(z, Learn(z, n, targets)) /\ Learn(z, n, targets)[n] \in RRsets
    BY <1>3, LearnKeeps
  <2>2. w[n] = IF z[q] = <<Alias(n)>> THEN Learn(z, n, targets)[n] ELSE z[n]
    BY <1>2
  <2>. QED  BY <1>3, <2>1, <2>2 DEF Known, Grows
<1>5. Known(w) /\ Grows(zone, w)
  BY <1>2, <1>3, <1>4 DEF Known, Grows
<1>6. Decided(w, q)
  <2>1. w[q] = z[q] /\ w[q] # Unasked
    BY <1>3, <1>4, UnaskedAssumption
  <2>2. ASSUME NEW m \in Names, w[q] = <<Alias(m)>>  PROVE w[m] # Unasked
    BY <1>4, <2>1, <2>2, UnaskedAssumption
  <2>. QED  BY <2>1, <2>2 DEF Decided
<1>. QED  BY <1>5, <1>6 DEF w, q

\* What a datagram brings about: an answer that DNS justifies, or one alias more.
LEMMA ReceiveKeeps ==
    ASSUME LookupInv, DatagramArrives
    PROVE  LookupInv'
<1>1. /\ step = "reply" /\ Known(zone) /\ domain \in Names /\ sent \in Seq(Names)
      /\ Len(sent) <= MaxAliasHops + 1 /\ sent # <<>> /\ sent[Len(sent)] = Queried
      /\ Leads(zone, domain, Queried, Len(sent) - 1)
      /\ Decided(zone, Queried)
  BY DEF LookupInv, DatagramArrives
<1>2. PICK i \in DOMAIN sent : \E d \in Datagrams(i) : Receive(d)
  BY DEF DatagramArrives
<1>3. PICK d \in Datagrams(i) : Receive(d)
  BY <1>2
<1>4. zone' = zone /\ domain' = domain /\ sent' = sent
  BY <1>3 DEF Receive
<1>5. Len(sent) \in Nat /\ Len(sent) >= 1 /\ i \in 1 .. Len(sent)
  BY <1>1, EmptySeq, LenProperties
<1>. DEFINE h == Len(sent) - 1
            p == IF Acceptable(d) THEN parseHTTPSAnswers(d.answers) ELSE LookupFailed
<1>6. h \in Nat /\ h <= MaxAliasHops /\ h + 1 = Len(sent) /\ MaxAliasHops \in Nat
  BY <1>1, <1>5, MaxAliasHopsAssumption
<1>7. /\ disturbed' = (disturbed \/ d.truncated \/ d.id # Len(sent)
                                 \/ \E k \in DOMAIN d.answers : d.answers[k] = Broken)
      /\ servfail' = (servfail \/ d.failure)
      /\ p.kind # "alias" => step' = "returned" /\ answer' = p
      /\ p.kind = "alias" /\ h >= MaxAliasHops => step' = "returned" /\ answer' = LookupFailed
      /\ p.kind = "alias" /\ ~ (h >= MaxAliasHops) => step' = "query" /\ answer' = p
  BY <1>3 DEF Receive, ReturnLookup, TooManyHops
<1>8. d.id = i /\ (\/ ~d.truncated /\ ~d.failure /\ d.answers \in Answers(sent[i])
                   \/ d.truncated
                   \/ d.failure /\ d.answers = <<>>)
  BY DEF Datagrams
<1>9. /\ LookupFailed.kind = "error" /\ Absent.kind = "absent"
      /\ \A l : Found(l).kind = "found" /\ Found(l).list = l
      /\ \A m : Continue(m).kind = "alias" /\ Continue(m).target = m
  BY DEF LookupFailed, Absent, Found, Continue
<1>. HIDE DEF h, p
<1>10. ASSUME step' = "returned", Justified(zone, domain, answer', disturbed', servfail')
       PROVE  LookupInv'
  BY <1>1, <1>4, <1>10 DEF LookupInv, Steps
<1>11. ASSUME step' = "query", h + 1 <= MaxAliasHops, Leads(zone, domain, Queried', h + 1)
       PROVE  LookupInv'
  BY <1>1, <1>4, <1>6, <1>11 DEF LookupInv, Steps
<1>12. ASSUME p = LookupFailed, disturbed'  PROVE LookupInv'
  <2>1. step' = "returned" /\ answer' = LookupFailed
    BY <1>7, <1>9, <1>12
  <2>. QED  BY <1>9, <1>10, <1>12, <2>1 DEF Justified
<1>13. CASE ~Acceptable(d)
  <2>1. p = LookupFailed /\ disturbed'
    BY <1>7, <1>13 DEF p, Acceptable
  <2>. QED  BY <1>12, <2>1
<1>14. CASE d.failure /\ d.answers = <<>> /\ Acceptable(d)
  <2>1. p = Absent
    BY <1>14, NothingParsed DEF p
  <2>2. step' = "returned" /\ answer' = Absent /\ servfail'
    BY <1>7, <1>9, <1>14, <2>1
  <2>. QED  BY <1>9, <1>10, <2>2 DEF Justified
<1>15. CASE Acceptable(d) /\ d.answers \in Answers(Queried)
  <2>. DEFINE q == Queried
  <2>1. q \in Names /\ p = parseHTTPSAnswers(d.answers)
    BY <1>1, <1>15 DEF Leads, p
  <2>2. \/ \E x \in AnsweredNames(zone, q) : \E l \in Lists : l \in EchIn(zone[x]) /\ p = Found(l)
        \/ p = LookupFailed /\ \E k \in DOMAIN d.answers : d.answers[k] = Broken
        \/ p = LookupFailed /\ \E x \in AnsweredNames(zone, q) : zone[x] = <<Undecodable>>
        \/ \E x \in AnsweredNames(zone, q) : \E m \in Names : zone[x] = <<Alias(m)>> /\ p = Continue(m)
        \/ p = Absent /\ zone[q] \in NoRecord
    BY <1>1, <1>15, <2>1, AnswerMeans
  <2>3. ASSUME NEW x \in AnsweredNames(zone, q)
        PROVE  x \in Names /\ \E j \in 0 .. 2 * MaxAliasHops + 1 : PathTo(zone, domain, x, j)
    <3>1. PICK j \in h .. 2 * h + 1 : x \in Names /\ PathTo(zone, domain, x, j)
      BY <1>1, <1>6, AnswerLeads DEF h
    <3>2. j \in 0 .. 2 * MaxAliasHops + 1
      BY <1>6
    <3>. QED  BY <3>1, <3>2
  <2>4. q \in AnsweredNames(zone, q)
    BY DEF AnsweredNames
  <2>. HIDE DEF q
  <2>5. ASSUME NEW x \in AnsweredNames(zone, q), NEW l \in Lists, l \in EchIn(zone[x]), p = Found(l)
        PROVE  LookupInv'
    <3>1. step' = "returned" /\ answer' = Found(l)
      BY <1>7, <1>9, <2>5
    <3>. QED  BY <1>9, <1>10, <2>3, <2>5, <3>1 DEF Justified
  <2>6. ASSUME p = LookupFailed, NEW k \in DOMAIN d.answers, d.answers[k] = Broken
        PROVE  LookupInv'
    BY <1>7, <1>12, <2>6
  <2>7. ASSUME p = LookupFailed, NEW x \in AnsweredNames(zone, q), zone[x] = <<Undecodable>>
        PROVE  LookupInv'
    <3>1. step' = "returned" /\ answer' = LookupFailed
      BY <1>7, <1>9, <2>7
    <3>. QED  BY <1>9, <1>10, <2>3, <2>7, <3>1 DEF Justified
  <2>8. ASSUME p = Absent, zone[q] \in NoRecord  PROVE LookupInv'
    <3>1. step' = "returned" /\ answer' = Absent
      BY <1>7, <1>9, <2>8
    <3>. QED  BY <1>9, <1>10, <2>3, <2>4, <2>8, <3>1 DEF Justified
  <2>9. ASSUME NEW x \in AnsweredNames(zone, q), NEW m \in Names, zone[x] = <<Alias(m)>>, p = Continue(m)
        PROVE  LookupInv'
    <3>1. Leads(zone, domain, m, h + 1)
      BY <1>1, <1>6, <2>9, AliasLeads DEF h, q
    <3>2. CASE h >= MaxAliasHops
      <4>1. step' = "returned" /\ answer' = LookupFailed
        BY <1>7, <1>9, <2>9, <3>2
      <4>2. h + 1 = MaxAliasHops + 1
        BY <1>6, <3>2
      <4>3. \E j \in MaxAliasHops + 1 .. 2 * MaxAliasHops + 2 : PathTo(zone, domain, m, j)
        <5>1. PICK j \in h + 1 .. 2 * (h + 1) : PathTo(zone, domain, m, j)
          BY <3>1 DEF Leads
        <5>2. j \in MaxAliasHops + 1 .. 2 * MaxAliasHops + 2
          BY <1>6, <4>2
        <5>. QED  BY <5>1, <5>2
      <4>. QED  BY <1>9, <1>10, <4>1, <4>3 DEF Justified
    <3>3. CASE ~ (h >= MaxAliasHops)
      <4>1. step' = "query" /\ answer' = Continue(m)
        BY <1>7, <1>9, <2>9, <3>3
      <4>2. Queried' = m
        BY <1>9, <4>1 DEF Queried
      <4>3. h + 1 <= MaxAliasHops
        BY <1>6, <3>3
      <4>. QED  BY <1>11, <3>1, <4>1, <4>2, <4>3
    <3>. QED  BY <3>2, <3>3
  <2>. QED  BY <2>2, <2>5, <2>6, <2>7, <2>8, <2>9
<1>16. ASSUME Acceptable(d)
       PROVE  \/ d.failure /\ d.answers = <<>>
              \/ d.answers \in Answers(Queried)
  BY <1>1, <1>5, <1>8, <1>16 DEF Acceptable
<1>. QED  BY <1>13, <1>14, <1>15, <1>16

THEOREM LookupInvHolds == LookupSpec => []LookupInv
<1>. USE MaxAliasHopsAssumption
<1>1. LookupIdle => LookupInv
  <2>. SUFFICES ASSUME LookupIdle  PROVE LookupInv
    OBVIOUS
  <2>1. sent = <<>> /\ sent \in Seq(Names) /\ Len(sent) = 0
    BY EmptySeq DEF LookupIdle
  <2>. QED  BY <2>1 DEF LookupIdle, LookupInv, Known, Steps
<1>2. LookupInv /\ [LookupNext]_lookupVars => LookupInv'
  <2>. SUFFICES ASSUME LookupInv, [LookupNext]_lookupVars  PROVE LookupInv'
    OBVIOUS
  <2>1. CASE CallLookup
    <3>1. /\ step = "idle" /\ step' \in {"server", "query"} /\ sent = <<>> /\ answer = Absent
          /\ domain \in Names
      BY <2>1 DEF CallLookup, LookupInv
    <3>2. zone' = zone /\ domain' = domain /\ sent' = sent /\ answer' = answer
      BY <2>1 DEF CallLookup
    <3>3. Queried' = domain' /\ Len(sent) = 0
      BY <3>1, <3>2, EmptySeq DEF Queried, Absent
    <3>4. Leads(zone, domain, domain, 0)
      BY <3>1, StartLeads
    <3>. QED  BY <3>1, <3>2, <3>3, <3>4 DEF LookupInv, Steps
  <2>2. CASE systemServer
    <3>1. /\ step = "server" /\ sent = <<>> /\ answer = Absent /\ domain \in Names
          /\ zone' = zone /\ domain' = domain /\ sent' = sent
      BY <2>2 DEF systemServer, LookupInv
    <3>2. CASE step' = "query" /\ UNCHANGED <<answer, disturbed>>
      <4>1. Queried' = domain' /\ Len(sent) = 0
        BY <3>1, <3>2, EmptySeq DEF Queried, Absent
      <4>2. Leads(zone, domain, domain, 0)
        BY <3>1, StartLeads
      <4>. QED  BY <3>1, <3>2, <4>1, <4>2 DEF LookupInv, Steps
    <3>3. CASE ReturnLookup(LookupFailed) /\ disturbed' = TRUE
      BY <3>1, <3>3 DEF LookupInv, Steps, Justified, ReturnLookup, LookupFailed
    <3>. QED  BY <2>2, <3>2, <3>3 DEF systemServer
  <2>3. CASE SendQuery
    <3>1. /\ step = "query" /\ step' = "reply" /\ domain' = domain /\ answer' = answer
          /\ sent' = Append(sent, Queried)
      BY <2>3 DEF SendQuery
    <3>2. /\ Known(zone) /\ domain \in Names /\ sent \in Seq(Names) /\ Len(sent) <= MaxAliasHops
          /\ Leads(zone, domain, Queried, Len(sent))
      BY <3>1 DEF LookupInv
    <3>3. Queried \in Names /\ Queried' = Queried
      BY <3>1, <3>2 DEF Leads, Queried
    <3>4. Known(zone') /\ Grows(zone, zone') /\ Decided(zone', Queried)
      BY <2>3, <3>2, <3>3, QueryLearns
    <3>5. /\ sent' \in Seq(Names) /\ Len(sent') = Len(sent) + 1 /\ sent'[Len(sent')] = Queried
          /\ Len(sent) \in Nat
      BY <3>1, <3>2, <3>3, AppendProperties, LenProperties
    <3>6. sent' # <<>> /\ Len(sent') - 1 = Len(sent) /\ Len(sent') <= MaxAliasHops + 1
      BY <3>2, <3>5, EmptySeq
    <3>7. Leads(zone', domain, Queried, Len(sent))
      BY <3>2, <3>4, <3>5, LeadsGrows
    <3>. QED  BY <3>1, <3>2, <3>3, <3>4, <3>5, <3>6, <3>7 DEF LookupInv, Steps
  <2>4. CASE ExchangeFails
    BY <2>4 DEF ExchangeFails, ReturnLookup, LookupFailed, LookupInv, Steps, Justified
  <2>5. CASE DatagramArrives
    BY <2>5, ReceiveKeeps
  <2>6. CASE UNCHANGED lookupVars
    BY <2>6 DEF lookupVars, LookupInv, Queried
  <2>. QED  BY <2>1, <2>2, <2>3, <2>4, <2>5, <2>6 DEF LookupNext, LookupMoves
<1>. QED  BY <1>1, <1>2, PTL DEF LookupSpec

\* Alias loops end, for every zone and every limit: LookupECH never sends more than
\* MaxAliasHops + 1 queries.
THEOREM LookupsEnd == LookupSpec => []QueriesBounded
<1>1. LookupInv => QueriesBounded
  BY DEF LookupInv, QueriesBounded
<1>. QED  BY <1>1, LookupInvHolds, PTL

-----------------------------------------------------------------------------
(* The alias chain                                                         *)

\* What Chain must be: the names that paths of that length lead to.
Reached == [k \in Nat |-> {m \in Names : PathTo(zone, domain, m, k)}]

LEMMA PathShortens ==
    ASSUME NEW z, NEW d, NEW n, NEW j \in Nat, PathTo(z, d, n, j), NEW i \in 0 .. j
    PROVE  \E m \in Names : PathTo(z, d, m, i) /\ (i < j => \E x \in Names : z[m] = <<Alias(x)>>)
<1>1. PICK c \in [0 .. j -> Names] : Path(z, d, c, j) /\ c[j] = n
  BY DEF PathTo
<1>. DEFINE e == [k \in 0 .. i |-> c[k]]
<1>2. e \in [0 .. i -> Names] /\ e[0] = d /\ e[i] = c[i] /\ c[i] \in Names
  BY <1>1 DEF Path
<1>3. ASSUME NEW k \in 0 .. i - 1  PROVE z[e[k]] = <<Alias(e[k + 1])>>
  <2>1. k \in 0 .. j - 1 /\ e[k] = c[k] /\ e[k + 1] = c[k + 1]
    OBVIOUS
  <2>2. z[c[k]] = <<Alias(c[k + 1])>>
    BY <1>1, <2>1 DEF Path
  <2>. HIDE DEF e
  <2>. QED  BY <2>1, <2>2
<1>4. ASSUME i < j  PROVE \E x \in Names : z[c[i]] = <<Alias(x)>>
  <2>1. i \in 0 .. j - 1 /\ i + 1 \in 0 .. j
    BY <1>4
  <2>2. c[i + 1] \in Names
    BY <2>1
  <2>. QED  BY <1>1, <2>1, <2>2 DEF Path
<1>. HIDE DEF e
<1>5. PathTo(z, d, c[i], i)
  BY <1>2, <1>3 DEF Path, PathTo
<1>. QED  BY <1>2, <1>4, <1>5

LEMMA PathSplits ==
    ASSUME NEW z, NEW d, NEW m \in Names, NEW k \in Nat, k # 0, PathTo(z, d, m, k)
    PROVE  \E n \in Names : PathTo(z, d, n, k - 1) /\ z[n] = <<Alias(m)>>
<1>1. PICK c \in [0 .. k -> Names] : Path(z, d, c, k) /\ c[k] = m
  BY DEF PathTo
<1>. DEFINE e == [i \in 0 .. k - 1 |-> c[i]]
<1>2. e \in [0 .. k - 1 -> Names] /\ e[0] = d /\ e[k - 1] = c[k - 1] /\ c[k - 1] \in Names
  BY <1>1 DEF Path
<1>3. ASSUME NEW i \in 0 .. (k - 1) - 1  PROVE z[e[i]] = <<Alias(e[i + 1])>>
  <2>1. i \in 0 .. k - 1 /\ e[i] = c[i] /\ e[i + 1] = c[i + 1]
    OBVIOUS
  <2>2. z[c[i]] = <<Alias(c[i + 1])>>
    BY <1>1, <2>1 DEF Path
  <2>. HIDE DEF e
  <2>. QED  BY <2>1, <2>2
<1>4. z[c[k - 1]] = <<Alias(m)>>
  <2>1. k - 1 \in 0 .. k - 1 /\ (k - 1) + 1 = k
    OBVIOUS
  <2>2. z[c[k - 1]] = <<Alias(c[(k - 1) + 1])>>
    BY <1>1, <2>1 DEF Path
  <2>. QED  BY <1>1, <2>1, <2>2
<1>. HIDE DEF e
<1>5. PathTo(z, d, c[k - 1], k - 1)
  BY <1>2, <1>3 DEF Path, PathTo
<1>. QED  BY <1>2, <1>4, <1>5

LEMMA PathStarts ==
    ASSUME NEW z, NEW d \in Names, NEW n
    PROVE  PathTo(z, d, n, 0) <=> n = d
<1>1. PathTo(z, d, d, 0)
  <2>1. Leads(z, d, d, 0)
    BY StartLeads
  <2>2. 0 .. 2 * 0 = {0}
    OBVIOUS
  <2>. QED  BY <2>1, <2>2 DEF Leads
<1>. QED  BY <1>1 DEF PathTo, Path

\* A name has one alias at most, so a path of each length leads to one name at most.
LEMMA OnePath ==
    ASSUME NEW z, NEW d \in Names, NEW k \in Nat, NEW m \in Names, NEW n \in Names,
           PathTo(z, d, m, k), PathTo(z, d, n, k)
    PROVE  m = n
<1>. DEFINE Forked == {i \in Nat : \E x, y \in Names : PathTo(z, d, x, i) /\ PathTo(z, d, y, i) /\ x # y}
<1>1. CASE Forked # {}
  <2>1. PICK i \in Forked : \A q \in Forked : i <= q
    <3>1. Forked \in SUBSET Nat
      OBVIOUS
    <3>. HIDE DEF Forked
    <3>. QED  BY <1>1, <3>1, LeastElement
  <2>2. PICK x, y \in Names : PathTo(z, d, x, i) /\ PathTo(z, d, y, i) /\ x # y
    OBVIOUS
  <2>3. i # 0
    BY <2>2, PathStarts
  <2>4. PICK v \in Names : PathTo(z, d, v, i - 1) /\ z[v] = <<Alias(x)>>
    BY <2>2, <2>3, PathSplits
  <2>5. PICK w \in Names : PathTo(z, d, w, i - 1) /\ z[w] = <<Alias(y)>>
    BY <2>2, <2>3, PathSplits
  <2>6. i - 1 \in Nat /\ ~ (i <= i - 1)
    BY <2>3
  <2>7. ~ (i - 1 \in Forked)
    BY <2>1, <2>6
  <2>8. v = w
    BY <2>4, <2>5, <2>6, <2>7
  <2>9. Alias(x) = Alias(y)
    BY <2>4, <2>5, <2>8
  <2>. QED  BY <2>2, <2>9 DEF Alias
<1>2. CASE Forked = {}
  BY <1>2
<1>. QED  BY <1>1, <1>2

\* Chain is what it must be: the one solution of its equation.
LEMMA ChainIsReached ==
    ASSUME domain \in Names
    PROVE  \A k \in Nat : Chain[k] = {m \in Names : PathTo(zone, domain, m, k)}
<1>. DEFINE Chains(f) == f = [k \in Nat |-> IF k = 0 THEN {domain} ELSE UNION {AliasOf(n) : n \in f[k - 1]}]
<1>1. Chains(Reached)
  <2>1. ASSUME NEW k \in Nat
        PROVE  Reached[k] = IF k = 0 THEN {domain} ELSE UNION {AliasOf(n) : n \in Reached[k - 1]}
    <3>1. CASE k = 0
      BY <3>1, PathStarts DEF Reached
    <3>2. CASE k # 0
      <4>1. k - 1 \in Nat /\ (k - 1) + 1 = k
        BY <3>2
      <4>2. Reached[k - 1] = {m \in Names : PathTo(zone, domain, m, k - 1)}
        BY <4>1 DEF Reached
      <4>3. ASSUME NEW m \in Reached[k]
            PROVE  \E n \in Reached[k - 1] : m \in AliasOf(n)
        <5>1. m \in Names /\ PathTo(zone, domain, m, k)
          BY <4>3 DEF Reached
        <5>2. PICK n \in Names : PathTo(zone, domain, n, k - 1) /\ zone[n] = <<Alias(m)>>
          BY <3>2, <5>1, PathSplits
        <5>. QED  BY <4>2, <5>1, <5>2 DEF AliasOf
      <4>4. ASSUME NEW n \in Reached[k - 1], NEW m \in AliasOf(n)
            PROVE  m \in Reached[k]
        <5>1. n \in Names /\ m \in Names /\ zone[n] = <<Alias(m)>> /\ PathTo(zone, domain, n, k - 1)
          BY <4>2 DEF AliasOf
        <5>2. PathTo(zone, domain, m, (k - 1) + 1)
          BY <4>1, <5>1, PathExtends
        <5>. QED  BY <4>1, <5>1, <5>2 DEF Reached
      <4>5. Reached[k] = UNION {AliasOf(n) : n \in Reached[k - 1]}
        BY <4>3, <4>4
      <4>. QED  BY <3>2, <4>5
    <3>. QED  BY <3>1, <3>2
  <2>. QED  BY <2>1 DEF Reached
<1>2. Chains(Chain)
  <2>1. Chain = CHOOSE f : Chains(f)
    BY DEF Chain
  <2>. HIDE DEF Chains
  <2>. QED  BY <1>1, <2>1
<1>. DEFINE Wrong == {k \in Nat : Chain[k] # Reached[k]}
<1>3. CASE Wrong # {}
  <2>1. PICK k \in Wrong : \A q \in Wrong : k <= q
    <3>1. Wrong \in SUBSET Nat
      OBVIOUS
    <3>. HIDE DEF Wrong
    <3>. QED  BY <1>3, <3>1, LeastElement
  <2>2. k \in Nat /\ Chain[k] # Reached[k]
    OBVIOUS
  <2>3. k # 0
    BY <1>1, <1>2, <2>2
  <2>4. k - 1 \in Nat /\ ~ (k <= k - 1)
    BY <2>2, <2>3
  <2>5. ~ (k - 1 \in Wrong)
    BY <2>1, <2>4
  <2>6. Chain[k - 1] = Reached[k - 1]
    BY <2>4, <2>5
  <2>. QED  BY <1>1, <1>2, <2>2, <2>3, <2>6
<1>4. CASE Wrong = {}
  BY <1>4 DEF Reached
<1>. QED  BY <1>3, <1>4

\* A name whose records are none or hold no config publishes nothing.
LEMMA NothingPublished ==
    ASSUME NEW n, \/ zone[n] \in NoRecord
                  \/ \E m : zone[n] = <<Alias(m)>>
    PROVE  EchOf(n) = {}
<1>1. \A l : Ech(l) # Service
  BY DEF Ech, Service
<1>2. \A l, m : Ech(l) # Alias(m)
  BY DEF Ech, Alias
<1>3. ASSUME NEW i \in DOMAIN zone[n]
      PROVE  zone[n][i] = Service \/ \E m : zone[n][i] = Alias(m)
  <2>1. CASE zone[n] = <<>>
    BY <2>1
  <2>2. CASE zone[n] = <<Service>>
    BY <2>2
  <2>3. ASSUME NEW m, zone[n] = <<Alias(m)>>  PROVE zone[n][i] = Alias(m)
    BY <2>3
  <2>. QED  BY <2>1, <2>2, <2>3 DEF NoRecord
<1>. QED  BY <1>1, <1>2, <1>3 DEF EchOf

\* What LookupECH returns is what DNS says, for every zone, limit and order of
\* datagrams: a list found is published on the alias chain, "no record" is true unless
\* a failure code was taken for it, and an error has a cause.
THEOREM LookupsAgree == LookupSpec => []LookupAgrees
<1>1. LookupInv => LookupAgrees
  <2>. SUFFICES ASSUME LookupInv, step = "returned"  PROVE LookupAgrees
    BY DEF LookupAgrees
  <2>. USE MaxAliasHopsAssumption
  <2>1. domain \in Names /\ Justified(zone, domain, answer, disturbed, servfail)
    BY DEF LookupInv
  <2>2. ASSUME NEW n \in Names, NEW j \in Nat, PathTo(zone, domain, n, j), j <= 2 * MaxAliasHops + 1
        PROVE  n \in OnChain
    <3>1. n \in Chain[j] /\ j \in 0 .. 2 * MaxAliasHops + 1
      BY <2>1, <2>2, ChainIsReached
    <3>. QED  BY <3>1 DEF OnChain
  <2>3. CASE answer.kind = "found"
    <3>1. PICK n \in Names : \E j \in 0 .. 2 * MaxAliasHops + 1 :
                               PathTo(zone, domain, n, j) /\ answer.list \in EchIn(zone[n])
      BY <2>1, <2>3 DEF Justified, LookupFailed
    <3>2. n \in OnChain /\ answer.list \in EchOf(n)
      BY <2>2, <3>1 DEF EchIn, EchOf
    <3>. QED  BY <2>3, <3>2 DEF LookupAgrees
  <2>4. CASE answer.kind = "absent"
    <3>1. CASE servfail
      BY <2>4, <3>1 DEF LookupAgrees
    <3>2. CASE ~servfail
      <4>1. PICK n \in Names : \E j \in 0 .. 2 * MaxAliasHops + 1 :
                                 PathTo(zone, domain, n, j) /\ zone[n] \in NoRecord
        BY <2>1, <2>4, <3>2 DEF Justified, LookupFailed
      <4>2. PICK j \in Nat : PathTo(zone, domain, n, j)
        BY <4>1
      <4>3. \A x \in Names : zone[n] # <<Alias(x)>>
        <5>1. \A x : Alias(x) # Service
          BY DEF Alias, Service
        <5>2. ASSUME NEW x \in Names, zone[n] = <<Alias(x)>>  PROVE FALSE
          BY <4>1, <5>1, <5>2 DEF NoRecord
        <5>. QED  BY <5>2
      <4>4. ASSUME NEW x \in OnChain  PROVE ~ Publishes(x)
        <5>1. PICK k \in Nat : x \in Names /\ PathTo(zone, domain, x, k)
          BY <2>1, ChainIsReached DEF OnChain
        <5>2. CASE k = j
          BY <2>1, <4>1, <4>2, <5>1, <5>2, OnePath, NothingPublished DEF Publishes
        <5>3. CASE k < j
          <6>1. k \in 0 .. j
            BY <5>3
          <6>2. PICK m \in Names : PathTo(zone, domain, m, k) /\ \E y \in Names : zone[m] = <<Alias(y)>>
            BY <4>2, <5>3, <6>1, PathShortens
          <6>3. m = x
            BY <2>1, <5>1, <6>2, OnePath
          <6>. QED  BY <6>2, <6>3, NothingPublished DEF Publishes
        <5>4. CASE j < k
          <6>1. j \in 0 .. k
            BY <5>4
          <6>2. PICK m \in Names : PathTo(zone, domain, m, j) /\ \E y \in Names : zone[m] = <<Alias(y)>>
            BY <5>1, <5>4, <6>1, PathShortens
          <6>3. m = n
            BY <2>1, <4>2, <6>2, OnePath
          <6>. QED  BY <4>3, <6>2, <6>3
        <5>. QED  BY <5>2, <5>3, <5>4
      <4>. QED  BY <2>4, <4>4 DEF LookupAgrees
    <3>. QED  BY <3>1, <3>2
  <2>5. CASE answer.kind = "error"
    <3>1. CASE disturbed
      BY <2>5, <3>1 DEF LookupAgrees
    <3>2. ASSUME NEW n \in Names, NEW j \in 0 .. 2 * MaxAliasHops + 1,
                 PathTo(zone, domain, n, j), zone[n] = <<Undecodable>>
          PROVE  LookupAgrees
      BY <2>2, <2>5, <3>2 DEF LookupAgrees
    <3>3. ASSUME NEW n \in Names, NEW j \in MaxAliasHops + 1 .. 2 * MaxAliasHops + 2,
                 PathTo(zone, domain, n, j)
          PROVE  LookupAgrees
      <4>1. j \in Nat /\ MaxAliasHops + 1 \in 0 .. j /\ MaxAliasHops + 1 \in Nat
        OBVIOUS
      <4>2. PICK m \in Names : PathTo(zone, domain, m, MaxAliasHops + 1)
        BY <3>3, <4>1, PathShortens
      <4>3. m \in Chain[MaxAliasHops + 1]
        BY <2>1, <4>1, <4>2, ChainIsReached
      <4>. QED  BY <2>5, <4>3 DEF LookupAgrees
    <3>. QED  BY <2>1, <2>5, <3>1, <3>2, <3>3 DEF Justified
  <2>. QED  BY <2>1, <2>3, <2>4, <2>5 DEF Justified, LookupFailed
<1>. QED  BY <1>1, LookupInvHolds, PTL

=============================================================================
