---------------------------- MODULE GreasyProofs ----------------------------
(***************************************************************************)
(* Proofs about Greasy and the probe it runs, for any command lines,       *)
(* servers, resolvers and limits: what is offered, what the validations    *)
(* say, what is reported, and the exit status.                             *)
(*                                                                         *)
(* The inductive invariant ties everything that the command and the probe  *)
(* know to the history of handshakes: the offer to the flags, the result   *)
(* to the first attempt, validation i to attempt i + 1, the comparison to  *)
(* the answer of the lookup, and the output to the result.                 *)
(***************************************************************************)
EXTENDS Greasy, LookupProofs

IsSequence(s) == s \in Seq({s[i] : i \in DOMAIN s})

\* What the result says of the first handshake.
FirstTold(where, res, offer, first) ==
    /\ first.offer = offer
    /\ \/ /\ where = "returned" /\ res.kind = "error"
          /\ first.got.kind = "rejected" /\ first.got.retry = Garbled
       \/ /\ where = "returned" /\ res.kind \in {"accepted", "plain", "failed"}
          /\ first.got.kind = res.kind /\ res.offered = offer
       \/ /\ res.kind = "rejected"
          /\ first.got.kind = "rejected" /\ first.got.retry = res.retry
          /\ res.retry # Garbled /\ IsConfigList(res.retry)

Most(all) == IF all THEN DefaultMaxValidations ELSE 1

TryCount(list, all) == IF Len(list) > Most(all) THEN Most(all) ELSE Len(list)

\* Validation i is about handshake i + 1, which offers the config at that place alone.
Tried(res, tries, all) ==
    /\ IsSequence(tries) /\ IsSequence(res.validations)
    /\ Len(tries) = Len(res.validations) + 1
    /\ res.kind # "rejected" => Len(res.validations) = 0
    /\ res.kind = "rejected" => Len(res.validations) <= TryCount(res.retry, all)
    /\ \A i \in 1 .. Len(res.validations) :
         /\ tries[i + 1].offer = <<res.retry[i]>>
         /\ res.validations[i].index = i - 1
         /\ res.validations[i].id = res.retry[i].config_id
         /\ res.validations[i].accepted <=> tries[i + 1].got = Accepted

\* What the result says of the lookup.
DnsTold(res, where, found) ==
    \/ res.dns = NoComparison
    \/ /\ where = "returned" /\ res.kind = "rejected" /\ res.dns.compared
       /\ res.dns.found <=> found.kind = "found"
       /\ res.dns.matches => found.kind = "found" /\ found.list = res.retry

ProbeInv ==
    /\ at \in {"idle", "dialing", "comparing", "validating", "returned"}
    /\ DOMAIN result = DOMAIN NoResult
    /\ at \in {"idle", "dialing"} => attempts = <<>> /\ result = NoResult
    /\ at \notin {"idle", "dialing"} =>
         /\ FirstTold(at, result, input.offer, attempts[1])
         /\ Tried(result, attempts, input.all)
    /\ at \in {"comparing", "validating"} => result.kind = "rejected"
    /\ at = "comparing" => Len(result.validations) = 0 /\ result.dns = NoComparison
    /\ (at = "returned" /\ result.kind = "rejected") =>
         Len(result.validations) = TryCount(result.retry, input.all)
    /\ DnsTold(result, step, answer)
    /\ at # "idle" =>
         /\ input = [offer |-> Offer, all |-> cmd.all, one |-> TRUE, max |-> 0]
         /\ ValidOptions /\ cmd.ech # Garbled

ReturnedAs(kinds) == at = "returned" /\ result.kind \in kinds

\* What has been printed at the end, and the status that goes with it.
Ended ==
    \/ status = "error" /\ output = Nothing
    \/ /\ ReturnedAs({"rejected", "accepted", "plain"})
       /\ status = "error" /\ output = [Nothing EXCEPT !.verdict = printStatus]
    \/ /\ ReturnedAs({"rejected"})
       /\ output = Payload(result.retry)
       /\ status = IF ExitWith(\E i \in DOMAIN result.validations :
                                  ~result.validations[i].accepted) THEN "error" ELSE "ok"
    \/ /\ ReturnedAs({"accepted", "plain"})
       /\ output = Payload(result.offered)
       /\ status = IF ExitWith(FALSE) THEN "error" ELSE "ok"

GreasyInv ==
    /\ cmd \in Commands
    /\ pc \in {"prerun", "resolve", "tls", "probing", "exit"}
    /\ pc # "exit" => status = "running" /\ output = Nothing
    /\ pc \in {"prerun", "resolve", "tls"} => at = "idle"
    /\ pc = "probing" => at # "idle"
    /\ pc \in {"resolve", "tls"} => ValidOptions
    /\ pc = "tls" => cmd.ech # Garbled
    /\ pc = "exit" => Ended
    /\ ProbeInv

-----------------------------------------------------------------------------
(* Sequences whose elements have no type                                   *)

LEMMA EmptyIsSequence == IsSequence(<<>>)
<1>1. <<>> \in Seq({<<>>[i] : i \in DOMAIN <<>>})
  BY EmptySeq
<1>. QED  BY <1>1 DEF IsSequence

LEMMA AppendToSequence ==
    ASSUME NEW s, IsSequence(s), NEW x
    PROVE  /\ IsSequence(Append(s, x))
           /\ Len(s) \in Nat
           /\ DOMAIN s = 1 .. Len(s)
           /\ Len(Append(s, x)) = Len(s) + 1
           /\ DOMAIN Append(s, x) = 1 .. Len(s) + 1
           /\ \A i \in DOMAIN s : Append(s, x)[i] = s[i]
           /\ Append(s, x)[Len(s) + 1] = x
           /\ Append(s, x) # <<>>
<1>. DEFINE S == {s[i] : i \in DOMAIN s}
            T == S \cup {x}
            a == Append(s, x)
<1>1. s \in Seq(S)
  BY DEF IsSequence
<1>2. s \in Seq(T) /\ x \in T
  BY <1>1
<1>. HIDE DEF S, T
<1>3. /\ a \in Seq(T)
      /\ Len(s) \in Nat /\ DOMAIN s = 1 .. Len(s)
      /\ Len(a) = Len(s) + 1 /\ DOMAIN a = 1 .. Len(s) + 1
      /\ \A i \in 1 .. Len(s) : a[i] = s[i]
      /\ a[Len(s) + 1] = x
  BY <1>2, AppendProperties
<1>. HIDE DEF a
<1>4. a \in Seq({a[i] : i \in DOMAIN a})
  <2>1. a \in [1 .. Len(s) + 1 -> {a[i] : i \in DOMAIN a}]
    <3>1. a = [i \in 1 .. Len(s) + 1 |-> a[i]]
      BY <1>3
    <3>2. \A i \in 1 .. Len(s) + 1 : a[i] \in {a[j] : j \in DOMAIN a}
      BY <1>3
    <3>. QED  BY <3>1, <3>2
  <2>. QED  BY <2>1, <1>3
<1>5. a # <<>>
  BY <1>3
<1>. QED  BY <1>3, <1>4, <1>5 DEF a, IsSequence

LEMMA ListIsSequence ==
    ASSUME NEW l, IsConfigList(l)
    PROVE  IsSequence(l) /\ Len(l) \in Nat /\ DOMAIN l = 1 .. Len(l)
<1>. DEFINE S == {l[i] : i \in DOMAIN l}
<1>1. l \in Seq(S)
  BY DEF IsConfigList
<1>. HIDE DEF S
<1>2. Len(l) \in Nat /\ DOMAIN l = 1 .. Len(l)
  BY <1>1, LenProperties
<1>. QED  BY <1>2 DEF IsConfigList, IsSequence

\* The configs to validate are the first ones of the list, TryCount of them.
LEMMA ToValidateIs ==
    ASSUME IsConfigList(result.retry), input.one, input.max = 0, input.all \in BOOLEAN
    PROVE  /\ TryCount(result.retry, input.all) \in Nat
           /\ TryCount(result.retry, input.all) <= Len(result.retry)
           /\ Len(toValidate) = TryCount(result.retry, input.all)
           /\ \A i \in 1 .. TryCount(result.retry, input.all) : toValidate[i] = result.retry[i]
<1>. DEFINE l == result.retry
            S == {l[i] : i \in DOMAIN l}
            n == TryCount(l, input.all)
            most == CASE input.all -> Cap(input.max)
                      [] ~input.all /\ input.one -> 1
                      [] OTHER -> 0
<1>1. Len(l) \in Nat /\ DOMAIN l = 1 .. Len(l)
  BY ListIsSequence
<1>2. most = Most(input.all) /\ Most(input.all) \in Nat
  BY CapAssumption DEF Cap, Most
<1>3. n \in Nat /\ n <= Len(l)
  <2>. HIDE DEF l
  <2>. QED  BY <1>1, <1>2 DEF TryCount
<1>4. toValidate = SubSeq(l, 1, n)
  <2>1. toValidate = SubSeq(l, 1, IF Len(l) > most THEN most ELSE Len(l))
    BY DEF toValidate
  <2>. HIDE DEF most, l
  <2>. QED  BY <1>2, <2>1 DEF TryCount
<1>5. \A i \in 1 .. n : l[i] \in S
  BY <1>1, <1>3
<1>. HIDE DEF l, n, S
<1>6. /\ Len(SubSeq(l, 1, n)) = IF 1 <= n THEN n - 1 + 1 ELSE 0
      /\ \A i \in 1 .. n - 1 + 1 : SubSeq(l, 1, n)[i] = l[1 + i - 1]
  BY <1>3, <1>5, SubSeqProperties
<1>7. Len(SubSeq(l, 1, n)) = n
  BY <1>3, <1>6
<1>8. \A i \in 1 .. n : SubSeq(l, 1, n)[i] = l[i]
  BY <1>3, <1>6
<1>. QED  BY <1>3, <1>4, <1>7, <1>8 DEF l, n

-----------------------------------------------------------------------------
(* The steps of a probe                                                    *)

\* What no step changes once the probe runs.
Calling == cmd' = cmd /\ domain' = domain /\ input' = input

LEMMA CallStays ==
    ASSUME Calling
    PROVE  Offer' = Offer /\ (ValidOptions <=> ValidOptions')
  BY DEF Calling, Offer, ValidOptions

LEMMA KindsOfOutcomes ==
    /\ Accepted.kind = "accepted" /\ Plain.kind = "plain"
    /\ \A r : Rejected(r).kind = "rejected" /\ Rejected(r).retry = r
    /\ \A e : Failed(e).kind = "failed"
  BY DEF Accepted, Plain, Rejected, Failed

LEMMA OutcomeForms ==
    ASSUME NEW offer, NEW got \in Outcomes(offer, ServerLists, Chains)
    PROVE  \/ got.kind = "accepted"
           \/ got.kind = "plain"
           \/ got.kind = "failed"
           \/ got.kind = "rejected" /\ got.retry \in ServerLists
  BY KindsOfOutcomes DEF Outcomes

LEMMA DialKeeps ==
    ASSUME ProbeInv, DialReturns, Calling
    PROVE  ProbeInv' /\ at' # "idle"
<1>1. PICK got \in Outcomes(input.offer, ServerLists, Chains) :
        /\ attempts' = Append(attempts, [offer |-> input.offer, got |-> got])
        /\ CASE got.kind = "rejected" -> runRejected(got.retry)
             [] got.kind = "failed" ->
                  ReturnRun([NoResult EXCEPT !.kind = "failed", !.class = Classify(got.chain)])
             [] OTHER -> ReturnRun([NoResult EXCEPT !.kind = got.kind])
  BY DEF DialReturns
<1>. DEFINE a == [offer |-> input.offer, got |-> got]
<1>2. /\ at = "dialing" /\ attempts = <<>>
      /\ input = [offer |-> Offer, all |-> cmd.all, one |-> TRUE, max |-> 0]
      /\ ValidOptions /\ cmd.ech # Garbled
  BY DEF ProbeInv, DialReturns
<1>3. a.offer = input.offer /\ a.got = got
  OBVIOUS
<1>4. /\ IsSequence(attempts') /\ Len(attempts') = 1 /\ attempts'[1] = a
  <2>1. attempts' = Append(<<>>, a)
    BY <1>1, <1>2
  <2>2. Len(<<>>) = 0
    BY EmptySeq
  <2>. DEFINE none == <<>>
  <2>3. attempts' = Append(none, a) /\ Len(none) = 0 /\ IsSequence(none)
    BY <2>1, <2>2, EmptyIsSequence
  <2>. HIDE DEF a, none
  <2>4. IsSequence(Append(none, a)) /\ Len(Append(none, a)) = Len(none) + 1 /\ Append(none, a)[Len(none) + 1] = a
    BY <2>3, AppendToSequence
  <2>. QED  BY <2>3, <2>4
<1>. HIDE DEF a
<1>5. /\ NoResult.kind = "none" /\ NoResult.dns = NoComparison
      /\ NoResult.validations = <<>> /\ Len(<<>>) = 0 /\ IsSequence(<<>>)
      /\ NoResult.retry = <<>>
      /\ DOMAIN NoResult = {"kind", "offered", "retry", "class", "dns", "validations"}
  BY EmptySeq, EmptyIsSequence DEF NoResult
\* Whatever came back, validations and comparison are those of NoResult.
<1>6. ASSUME at' # "idle", at' \in {"comparing", "returned"},
             DOMAIN result' = DOMAIN NoResult,
             result'.validations = <<>>, result'.dns = NoComparison,
             FirstTold(at', result', input.offer, a),
             at' = "comparing" => result'.kind = "rejected",
             (at' = "returned" /\ result'.kind = "rejected") => TryCount(result'.retry, input.all) = 0,
             result'.kind = "rejected" => TryCount(result'.retry, input.all) >= 0
      PROVE  ProbeInv'
  <2>1. Tried(result', attempts', input.all)
    BY <1>4, <1>5, <1>6 DEF Tried
  <2>2. input' = [offer |-> Offer', all |-> cmd'.all, one |-> TRUE, max |-> 0] /\ ValidOptions' /\ cmd' = cmd
        /\ input' = input
    BY <1>2, CallStays DEF Calling
  <2>3. DnsTold(result', step', answer')
    BY <1>6 DEF DnsTold
  <2>. QED  BY <1>2, <1>4, <1>5, <1>6, <2>1, <2>2, <2>3 DEF ProbeInv
<1>7. CASE got.kind = "rejected"
  <2>. DEFINE r == got.retry
  <2>1. r \in ServerLists /\ runRejected(r)
    BY <1>1, <1>7, OutcomeForms
  <2>2. r = Garbled \/ IsConfigList(r)
    BY <2>1, ServerListsAssumption
  <2>3. CASE r = Garbled
    <3>1. at' = "returned" /\ result' = [[NoResult EXCEPT !.kind = "error"] EXCEPT !.offered = input.offer]
      BY <2>1, <2>3, GarbledAssumption DEF runRejected, ReturnRun
    <3>2. /\ result'.kind = "error" /\ result'.validations = <<>> /\ result'.dns = NoComparison
          /\ DOMAIN result' = DOMAIN NoResult
      BY <3>1, <1>5 DEF NoResult
    <3>3. FirstTold(at', result', input.offer, a)
      BY <3>1, <3>2, <1>3, <1>7, <2>3 DEF FirstTold
    <3>. QED  BY <1>6, <3>1, <3>2, <3>3
  <2>4. CASE r # Garbled /\ r = <<>>
    <3>1. at' = "returned" /\ result' = [[NoResult EXCEPT !.kind = "rejected"] EXCEPT !.offered = input.offer]
      BY <2>1, <2>4 DEF runRejected, ReturnRun
    <3>2. /\ result'.kind = "rejected" /\ result'.validations = <<>> /\ result'.dns = NoComparison
          /\ result'.retry = <<>> /\ DOMAIN result' = DOMAIN NoResult
      BY <3>1, <1>5 DEF NoResult
    <3>3. FirstTold(at', result', input.offer, a)
      BY <3>2, <1>3, <1>7, <2>2, <2>4 DEF FirstTold
    <3>4. TryCount(<<>>, input.all) = 0
      BY <1>5, CapAssumption DEF TryCount, Most
    <3>. QED  BY <1>6, <3>1, <3>2, <3>3, <3>4
  <2>5. CASE r # Garbled /\ r # <<>>
    <3>1. /\ at' = "comparing"
          /\ result' = [NoResult EXCEPT !.kind = "rejected", !.retry = r, !.offered = input.offer]
      BY <2>1, <2>5 DEF runRejected
    <3>2. /\ result'.kind = "rejected" /\ result'.validations = <<>> /\ result'.dns = NoComparison
          /\ result'.retry = r /\ DOMAIN result' = DOMAIN NoResult
      BY <3>1, <1>5 DEF NoResult
    <3>3. FirstTold(at', result', input.offer, a)
      BY <3>2, <1>3, <1>7, <2>2, <2>5 DEF FirstTold
    <3>4. TryCount(r, input.all) >= 0
      <4>1. Len(r) \in Nat
        BY <2>2, <2>5, ListIsSequence
      <4>. HIDE DEF r
      <4>. QED  BY <4>1, CapAssumption DEF TryCount, Most
    <3>. QED  BY <1>6, <3>1, <3>2, <3>3, <3>4
  <2>. QED  BY <2>3, <2>4, <2>5
<1>8. CASE got.kind # "rejected"
  <2>1. got.kind \in {"accepted", "plain", "failed"}
    BY <1>8, OutcomeForms
  <2>2. at' = "returned"
    BY <1>1, <1>8, <2>1 DEF ReturnRun
  <2>3. /\ result'.kind = got.kind /\ result'.validations = <<>> /\ result'.dns = NoComparison
        /\ result'.offered = input.offer /\ DOMAIN result' = DOMAIN NoResult
    <3>1. CASE got.kind = "failed"
      <4>1. result' = [[NoResult EXCEPT !.kind = "failed", !.class = Classify(got.chain)]
                         EXCEPT !.offered = input.offer]
        BY <1>1, <3>1 DEF ReturnRun
      <4>. QED  BY <3>1, <4>1, <1>5 DEF NoResult
    <3>2. CASE got.kind # "failed"
      <4>1. result' = [[NoResult EXCEPT !.kind = got.kind] EXCEPT !.offered = input.offer]
        BY <1>1, <1>8, <3>2 DEF ReturnRun
      <4>. QED  BY <4>1, <1>5 DEF NoResult
    <3>. QED  BY <3>1, <3>2
  <2>4. FirstTold(at', result', input.offer, a)
    BY <1>3, <2>1, <2>2, <2>3 DEF FirstTold
  <2>. QED  BY <1>6, <2>1, <2>2, <2>3, <2>4
<1>. QED
  <2>1. at' # "idle"
    BY <1>1, OutcomeForms DEF runRejected, ReturnRun
  <2>. QED  BY <1>7, <1>8, <2>1

LEMMA CompareKeeps ==
    ASSUME ProbeInv, CompareReturns, Calling, UNCHANGED lookupVars
    PROVE  ProbeInv' /\ at' # "idle"
<1>1. /\ at = "comparing" /\ at' = "validating" /\ step = "returned" /\ attempts' = attempts
      /\ input' = input /\ cmd' = cmd /\ step' = step /\ answer' = answer
  BY DEF CompareReturns, Calling, lookupVars
<1>2. /\ result.kind = "rejected" /\ Len(result.validations) = 0
      /\ DOMAIN result = DOMAIN NoResult
      /\ FirstTold(at, result, input.offer, attempts[1]) /\ Tried(result, attempts, input.all)
      /\ input = [offer |-> Offer, all |-> cmd.all, one |-> TRUE, max |-> 0]
      /\ ValidOptions /\ cmd.ech # Garbled
  BY <1>1 DEF ProbeInv
<1>. DEFINE dns == [compared |-> TRUE, found |-> answer.kind = "found",
                    matches |-> answer.kind = "found" /\ answer.list = result.retry]
<1>3. result' = [result EXCEPT !.dns = dns]
  BY DEF CompareReturns
<1>4. /\ dns.compared /\ (dns.found <=> answer.kind = "found")
      /\ (dns.matches => answer.kind = "found" /\ answer.list = result.retry)
  OBVIOUS
<1>. HIDE DEF dns
<1>5. /\ result'.dns = dns /\ result'.kind = result.kind /\ result'.retry = result.retry
      /\ result'.validations = result.validations /\ DOMAIN result' = DOMAIN NoResult
  BY <1>2, <1>3 DEF NoResult
<1>6. FirstTold(at', result', input.offer, attempts[1])
  BY <1>2, <1>5 DEF FirstTold
<1>7. Tried(result', attempts', input.all)
  BY <1>1, <1>2, <1>5 DEF Tried
<1>8. DnsTold(result', step', answer')
  BY <1>1, <1>2, <1>4, <1>5 DEF DnsTold
<1>9. Offer' = Offer /\ ValidOptions'
  BY <1>2, CallStays
<1>. QED  BY <1>1, <1>2, <1>5, <1>6, <1>7, <1>8, <1>9 DEF ProbeInv

LEMMA ValidateKeeps ==
    ASSUME ProbeInv, ValidateConfig, Calling, UNCHANGED lookupVars, cmd.all \in BOOLEAN
    PROVE  ProbeInv' /\ at' # "idle"
<1>1. /\ at = "validating" /\ at' = at
      /\ input' = input /\ cmd' = cmd /\ step' = step /\ answer' = answer
  BY DEF ValidateConfig, Calling, lookupVars
<1>2. /\ result.kind = "rejected" /\ DnsTold(result, step, answer)
      /\ DOMAIN result = DOMAIN NoResult
      /\ FirstTold(at, result, input.offer, attempts[1]) /\ Tried(result, attempts, input.all)
      /\ input = [offer |-> Offer, all |-> cmd.all, one |-> TRUE, max |-> 0]
      /\ ValidOptions /\ cmd.ech # Garbled
  BY <1>1 DEF ProbeInv
<1>. DEFINE v == result.validations
            n == Len(v)
            list == result.retry
            c == TryCount(list, input.all)
<1>3. /\ c \in Nat /\ Len(toValidate) = c
      /\ \A i \in 1 .. c : toValidate[i] = list[i]
  <2>1. IsConfigList(list)
    BY <1>1, <1>2 DEF FirstTold
  <2>2. input.one /\ input.max = 0 /\ input.all \in BOOLEAN
    BY <1>2
  <2>. QED  BY <2>1, <2>2, ToValidateIs
<1>4. /\ IsSequence(v) /\ IsSequence(attempts) /\ Len(attempts) = n + 1 /\ n \in Nat
      /\ DOMAIN v = 1 .. n
      /\ \A i \in 1 .. n :
           /\ attempts[i + 1].offer = <<list[i]>>
           /\ v[i].index = i - 1
           /\ v[i].id = list[i].config_id
           /\ v[i].accepted <=> attempts[i + 1].got = Accepted
  BY <1>2, AppendToSequence DEF Tried
<1>5. n < c /\ toValidate[n + 1] = list[n + 1]
  <2>1. n < c
    BY <1>3 DEF ValidateConfig
  <2>. HIDE DEF n, c
  <2>. QED  BY <1>3, <1>4, <2>1
<1>6. PICK got : /\ attempts' = Append(attempts, [offer |-> <<list[n + 1]>>, got |-> got])
                 /\ result' = [result EXCEPT !.validations =
                                 Append(@, [index |-> n, id |-> list[n + 1].config_id,
                                            accepted |-> got = Accepted])]
  BY <1>5 DEF ValidateConfig
<1>. DEFINE a == [offer |-> <<list[n + 1]>>, got |-> got]
            w == [index |-> n, id |-> list[n + 1].config_id, accepted |-> got = Accepted]
<1>7. /\ attempts' = Append(attempts, a)
      /\ result'.validations = Append(v, w) /\ result'.kind = result.kind
      /\ result'.retry = list /\ result'.dns = result.dns
      /\ DOMAIN result' = DOMAIN NoResult
  <2>1. result' = [result EXCEPT !.validations = Append(v, w)]
    BY <1>6
  <2>2. attempts' = Append(attempts, a)
    BY <1>6
  <2>. HIDE DEF w, a, v
  <2>. QED  BY <1>2, <2>1, <2>2 DEF NoResult
<1>8. /\ a.offer = <<list[n + 1]>> /\ a.got = got
      /\ w.index = n /\ w.id = list[n + 1].config_id /\ (w.accepted <=> got = Accepted)
  OBVIOUS
<1>. HIDE DEF a, w, v, n, list, c
<1>9. /\ IsSequence(attempts') /\ Len(attempts') = n + 2
      /\ \A i \in 1 .. n + 1 : attempts'[i] = attempts[i]
      /\ attempts'[n + 2] = a
  <2>1. /\ IsSequence(Append(attempts, a)) /\ Len(Append(attempts, a)) = Len(attempts) + 1
        /\ DOMAIN attempts = 1 .. Len(attempts)
        /\ \A i \in DOMAIN attempts : Append(attempts, a)[i] = attempts[i]
        /\ Append(attempts, a)[Len(attempts) + 1] = a
    BY <1>4, AppendToSequence
  <2>2. Len(attempts) = n + 1 /\ Len(attempts) + 1 = n + 2
    BY <1>4
  <2>. QED  BY <1>7, <2>1, <2>2
<1>10. /\ IsSequence(result'.validations) /\ Len(result'.validations) = n + 1
       /\ \A i \in 1 .. n : result'.validations[i] = v[i]
       /\ result'.validations[n + 1] = w
  <2>1. /\ IsSequence(Append(v, w)) /\ Len(Append(v, w)) = Len(v) + 1
        /\ DOMAIN v = 1 .. Len(v)
        /\ \A i \in DOMAIN v : Append(v, w)[i] = v[i]
        /\ Append(v, w)[Len(v) + 1] = w
    BY <1>4, AppendToSequence
  <2>. QED  BY <1>7, <2>1 DEF n
<1>11. ASSUME NEW i \in 1 .. n + 1
       PROVE  /\ attempts'[i + 1].offer = <<list[i]>>
              /\ result'.validations[i].index = i - 1
              /\ result'.validations[i].id = list[i].config_id
              /\ result'.validations[i].accepted <=> attempts'[i + 1].got = Accepted
  <2>1. CASE i \in 1 .. n
    <3>1. i + 1 \in 1 .. n + 1
      BY <1>4, <2>1
    <3>. QED  BY <1>4, <1>9, <1>10, <2>1, <3>1
  <2>2. CASE i = n + 1
    <3>1. i + 1 = n + 2 /\ i - 1 = n
      BY <1>4, <2>2
    <3>. QED  BY <1>8, <1>9, <1>10, <2>2, <3>1
  <2>. QED  BY <1>4, <2>1, <2>2
<1>12. Tried(result', attempts', input.all)
  <2>1. n + 1 <= c /\ n + 2 = (n + 1) + 1
    BY <1>3, <1>4, <1>5
  <2>. QED  BY <1>2, <1>7, <1>9, <1>10, <1>11, <2>1 DEF Tried, c
<1>13. FirstTold(at', result', input.offer, attempts'[1])
  <2>1. attempts'[1] = attempts[1]
    BY <1>4, <1>9
  <2>. QED  BY <1>1, <1>2, <1>7, <2>1 DEF FirstTold, list
<1>14. DnsTold(result', step', answer')
  BY <1>1, <1>2, <1>7 DEF DnsTold, list
<1>15. Offer' = Offer /\ ValidOptions'
  BY <1>2, CallStays
<1>. QED  BY <1>1, <1>2, <1>7, <1>12, <1>13, <1>14, <1>15 DEF ProbeInv

LEMMA DoneKeeps ==
    ASSUME ProbeInv, ValidationsDone, Calling, UNCHANGED lookupVars, cmd.all \in BOOLEAN
    PROVE  ProbeInv' /\ at' # "idle"
<1>1. /\ at = "validating" /\ at' = "returned" /\ Len(result.validations) = Len(toValidate)
      /\ result' = result /\ attempts' = attempts
      /\ input' = input /\ cmd' = cmd /\ step' = step /\ answer' = answer
  BY DEF ValidationsDone, Calling, lookupVars
<1>2. /\ result.kind = "rejected" /\ DnsTold(result, step, answer)
      /\ DOMAIN result = DOMAIN NoResult
      /\ FirstTold(at, result, input.offer, attempts[1]) /\ Tried(result, attempts, input.all)
      /\ input = [offer |-> Offer, all |-> cmd.all, one |-> TRUE, max |-> 0]
      /\ ValidOptions /\ cmd.ech # Garbled
  BY <1>1 DEF ProbeInv
<1>3. Len(toValidate) = TryCount(result.retry, input.all)
  <2>1. IsConfigList(result.retry)
    BY <1>1, <1>2 DEF FirstTold
  <2>2. input.one /\ input.max = 0 /\ input.all \in BOOLEAN
    BY <1>2
  <2>. QED  BY <2>1, <2>2, ToValidateIs
<1>4. FirstTold(at', result', input.offer, attempts'[1])
  BY <1>1, <1>2 DEF FirstTold
<1>5. Offer' = Offer /\ ValidOptions'
  BY <1>2, CallStays
<1>. QED  BY <1>1, <1>2, <1>3, <1>4, <1>5 DEF ProbeInv

\* While the lookup runs, nothing is known of it.
LEMMA LookupKeeps ==
    ASSUME ProbeInv, at = "comparing", UNCHANGED <<cmd, probeVars, domain>>
    PROVE  ProbeInv' /\ at' # "idle"
<1>1. /\ at' = at /\ result' = result /\ attempts' = attempts /\ input' = input
      /\ cmd' = cmd /\ domain' = domain
  BY DEF probeVars
<1>2. result.dns = NoComparison
  BY DEF ProbeInv
<1>3. DnsTold(result', step', answer')
  BY <1>1, <1>2 DEF DnsTold
<1>4. Offer' = Offer /\ (ValidOptions <=> ValidOptions')
  BY <1>1, CallStays DEF Calling
<1>. QED  BY <1>1, <1>3, <1>4 DEF ProbeInv

\* A lookup is a lookup of its own: no step of the command disturbs it.
LEMMA StepsOfLookup ==
    ASSUME Next
    PROVE  (LookupNext \/ UNCHANGED lookupVars) /\ domain' = domain
<1>1. LookupNext => domain' = domain
  BY DEF LookupNext, LookupMoves, CallLookup, systemServer, SendQuery, ExchangeFails,
         DatagramArrives, Receive
<1>2. ASSUME Probing \/ Hearing  PROVE LookupNext \/ UNCHANGED lookupVars
  BY <1>2 DEF Probing, Hearing, ProbeMoves, ProbeHears, LookupNext
<1>3. ASSUME validate \/ resolveConfigList \/ run \/ ProbeFailed \/ renderRejected \/ renderOutcome
      PROVE  UNCHANGED lookupVars
  BY <1>3 DEF validate, resolveConfigList, run, ProbeFailed, renderRejected, renderOutcome, Render
<1>. QED  BY <1>1, <1>2, <1>3 DEF Next, Works, lookupVars

\* What the proofs about DnsLookup establish holds of the lookups of greasy and conn.
THEOREM GreasyRunsLookups == Spec => LookupSpec
<1>1. Init => LookupIdle
  BY DEF Init
<1>2. [Next]_vars => [LookupNext]_lookupVars
  BY StepsOfLookup DEF vars
<1>. QED  BY <1>1, <1>2, PTL DEF Spec, LookupSpec

LEMMA ProbingKeeps ==
    ASSUME ProbeInv, Probing \/ Hearing, domain' = domain, cmd.all \in BOOLEAN, at # "idle"
    PROVE  ProbeInv' /\ at' # "idle"
<1>1. cmd' = cmd
  BY DEF Probing, Hearing, greasyVars
<1>2. CASE DialReturns /\ UNCHANGED lookupVars
  BY <1>1, <1>2, DialKeeps DEF Calling, DialReturns
<1>3. CASE at = "comparing" /\ UNCHANGED probeVars
  BY <1>1, <1>3, LookupKeeps
<1>4. CASE CompareReturns /\ UNCHANGED lookupVars
  BY <1>1, <1>4, CompareKeeps DEF Calling, CompareReturns
<1>5. CASE ValidateConfig /\ UNCHANGED lookupVars
  BY <1>1, <1>5, ValidateKeeps DEF Calling, ValidateConfig
<1>6. CASE ValidationsDone /\ UNCHANGED lookupVars
  BY <1>1, <1>6, DoneKeeps DEF Calling, ValidationsDone
<1>. QED  BY <1>2, <1>3, <1>4, <1>5, <1>6 DEF Probing, Hearing, ProbeMoves, ProbeHears

-----------------------------------------------------------------------------
(* The steps of a command                                                  *)

THEOREM GreasyInvHolds == Spec => []GreasyInv
<1>1. Init => GreasyInv
  <2>. SUFFICES ASSUME Init  PROVE GreasyInv
    OBVIOUS
  <2>1. NoResult.dns = NoComparison
    BY DEF NoResult
  <2>. QED  BY <2>1 DEF Init, ProbeIdle, LookupIdle, GreasyInv, ProbeInv, DnsTold
<1>2. GreasyInv /\ [Next]_vars => GreasyInv'
  <2>. SUFFICES ASSUME GreasyInv, [Next]_vars  PROVE GreasyInv'
    OBVIOUS
  <2>0. cmd \in Commands /\ IsCommand(cmd) /\ cmd.all \in BOOLEAN
    BY CommandsAssumption DEF GreasyInv, IsCommand
  <2>1. ASSUME UNCHANGED <<cmd, domain, probeVars>>, UNCHANGED <<step, answer>>
        PROVE  /\ ProbeInv' /\ (ValidOptions <=> ValidOptions')
               /\ at' = at /\ cmd' = cmd /\ result' = result
    <3>1. Offer' = Offer /\ (ValidOptions <=> ValidOptions')
      BY <2>1, CallStays DEF Calling, probeVars
    <3>. QED  BY <2>1, <3>1 DEF GreasyInv, ProbeInv, probeVars
  <2>2. CASE validate
    <3>1. ProbeInv' /\ (ValidOptions <=> ValidOptions') /\ at' = at /\ cmd' = cmd /\ result' = result
      BY <2>1, <2>2 DEF validate, lookupVars
    <3>2. /\ pc = "prerun" /\ output' = output
          /\ \/ ValidOptions /\ pc' = "resolve" /\ status' = status
             \/ pc' = "exit" /\ status' = "error"
      BY <2>2 DEF validate, Exit
    <3>. QED  BY <3>1, <3>2 DEF GreasyInv, Ended
  <2>3. CASE resolveConfigList
    <3>1. ProbeInv' /\ (ValidOptions <=> ValidOptions') /\ at' = at /\ cmd' = cmd /\ result' = result
      BY <2>1, <2>3 DEF resolveConfigList, lookupVars
    <3>2. /\ pc = "resolve" /\ output' = output
          /\ \/ cmd.ech # Garbled /\ pc' = "tls" /\ status' = status
             \/ pc' = "exit" /\ status' = "error"
      BY <2>3 DEF resolveConfigList, Exit
    <3>. QED  BY <3>1, <3>2 DEF GreasyInv, Ended
  <2>4. CASE run
    <3>1. CASE CallRun(Offer, cmd.all, TRUE, 0) /\ pc' = "probing" /\ UNCHANGED status
      <4>1. /\ at = "idle" /\ at' = "dialing" /\ result' = result /\ attempts' = attempts
            /\ input' = [offer |-> Offer, all |-> cmd.all, one |-> TRUE, max |-> 0]
            /\ cmd' = cmd /\ output' = output /\ domain' = domain /\ step' = step /\ answer' = answer
            /\ pc = "tls"
        BY <2>4, <3>1 DEF run, CallRun, lookupVars
      <4>2. Offer' = Offer /\ (ValidOptions <=> ValidOptions')
        BY <4>1 DEF Offer, ValidOptions
      <4>3. result.dns = NoComparison /\ result = NoResult /\ attempts = <<>>
        <5>1. result = NoResult /\ attempts = <<>>
          BY <4>1 DEF GreasyInv, ProbeInv
        <5>2. NoResult.dns = NoComparison
          BY DEF NoResult
        <5>. QED  BY <5>1, <5>2
      <4>4. ProbeInv'
        BY <4>1, <4>2, <4>3 DEF GreasyInv, ProbeInv, DnsTold
      <4>. QED  BY <3>1, <4>1, <4>2, <4>4 DEF GreasyInv
    <3>2. CASE Exit("error") /\ UNCHANGED probeVars
      <4>1. ProbeInv' /\ at' = at /\ cmd' = cmd /\ result' = result
        BY <2>1, <2>4, <3>2 DEF run, lookupVars
      <4>2. pc = "tls" /\ output' = output /\ pc' = "exit" /\ status' = "error"
        BY <2>4, <3>2 DEF run, Exit
      <4>. QED  BY <4>1, <4>2 DEF GreasyInv, Ended
    <3>. QED  BY <2>4, <3>1, <3>2 DEF run
  <2>5. CASE Probing \/ Hearing
    <3>1. /\ pc = "probing" /\ cmd' = cmd /\ pc' = pc /\ output' = output /\ status' = status
      BY <2>5 DEF Probing, Hearing, greasyVars
    <3>2. domain' = domain
      BY <2>5, StepsOfLookup DEF Next, Works
    <3>3. ProbeInv' /\ at' # "idle"
      BY <2>0, <2>5, <3>1, <3>2, ProbingKeeps DEF GreasyInv
    <3>. QED  BY <3>1, <3>3 DEF GreasyInv
  <2>6. CASE ProbeFailed
    <3>1. ProbeInv' /\ at' = at /\ cmd' = cmd /\ result' = result
      BY <2>1, <2>6 DEF ProbeFailed, lookupVars
    <3>2. pc = "probing" /\ output' = output /\ pc' = "exit" /\ status' = "error"
      BY <2>6 DEF ProbeFailed, Returned, Exit
    <3>. QED  BY <3>1, <3>2 DEF GreasyInv, Ended
  <2>7. ASSUME NEW list, NEW err \in BOOLEAN, Render(list, err)
        PROVE  /\ ProbeInv' /\ at' = at /\ cmd' = cmd /\ result' = result /\ pc' = "exit"
               /\ \/ output' = Payload(list) /\ status' = IF err THEN "error" ELSE "ok"
                  \/ status' = "error" /\ output' = [Nothing EXCEPT !.verdict = printStatus]
    <3>1. ProbeInv' /\ at' = at /\ cmd' = cmd /\ result' = result
      BY <2>1, <2>7 DEF Render, lookupVars
    <3>. QED  BY <2>7, <3>1 DEF Render, Exit
  <2>8. CASE renderRejected
    <3>. DEFINE err == ExitWith(\E i \in DOMAIN result.validations : ~result.validations[i].accepted)
    <3>1. at = "returned" /\ result.kind = "rejected" /\ Render(result.retry, err)
      BY <2>8 DEF renderRejected, Returned
    <3>2. /\ ProbeInv' /\ at' = at /\ cmd' = cmd /\ result' = result /\ pc' = "exit"
          /\ \/ output' = Payload(result.retry) /\ status' = IF err THEN "error" ELSE "ok"
             \/ status' = "error" /\ output' = [Nothing EXCEPT !.verdict = printStatus]
      <4>1. err \in BOOLEAN
        BY DEF ExitWith
      <4>. HIDE DEF err
      <4>. QED  BY <2>7, <3>1, <4>1
    <3>3. Ended'
      BY <3>1, <3>2 DEF Ended, ReturnedAs, Payload, printStatus, ExitWith
    <3>. QED  BY <3>2, <3>3 DEF GreasyInv
  <2>9. CASE renderOutcome
    <3>. DEFINE err == ExitWith(FALSE)
    <3>1. at = "returned" /\ result.kind \in {"accepted", "plain"} /\ Render(result.offered, err)
      BY <2>9 DEF renderOutcome, Returned
    <3>2. /\ ProbeInv' /\ at' = at /\ cmd' = cmd /\ result' = result /\ pc' = "exit"
          /\ \/ output' = Payload(result.offered) /\ status' = IF err THEN "error" ELSE "ok"
             \/ status' = "error" /\ output' = [Nothing EXCEPT !.verdict = printStatus]
      <4>1. err \in BOOLEAN
        BY DEF ExitWith
      <4>. HIDE DEF err
      <4>. QED  BY <2>7, <3>1, <4>1
    <3>3. Ended'
      BY <3>1, <3>2 DEF Ended, ReturnedAs, Payload, printStatus, ExitWith
    <3>. QED  BY <3>2, <3>3 DEF GreasyInv
  <2>10. CASE UNCHANGED vars
    <3>1. ProbeInv' /\ (ValidOptions <=> ValidOptions') /\ at' = at /\ cmd' = cmd /\ result' = result
      BY <2>1, <2>10 DEF vars, greasyVars, lookupVars
    <3>2. pc' = pc /\ status' = status /\ output' = output
      BY <2>10 DEF vars, greasyVars
    <3>3. Ended => Ended'
      BY <3>1, <3>2 DEF Ended, ReturnedAs, Payload, printStatus, ExitWith
    <3>. QED  BY <3>1, <3>2, <3>3 DEF GreasyInv
  <2>. QED  BY <2>2, <2>3, <2>4, <2>5, <2>6, <2>8, <2>9, <2>10 DEF Next, Works
<1>. QED  BY <1>1, <1>2, PTL DEF Spec

-----------------------------------------------------------------------------
(* What follows                                                            *)

\* The handshakes after the first, as the history has them.
LEMMA Retries ==
    ASSUME ProbeInv, at \notin {"idle", "dialing"}
    PROVE  /\ Len(result.validations) \in Nat
           /\ DOMAIN result.validations = 1 .. Len(result.validations)
           /\ Len(attempts) = Len(result.validations) + 1
           /\ attempts # <<>>
           /\ DOMAIN SubSeq(attempts, 2, Len(attempts)) = 1 .. Len(result.validations)
           /\ Len(SubSeq(attempts, 2, Len(attempts))) = Len(result.validations)
           /\ \A i \in 1 .. Len(result.validations) : SubSeq(attempts, 2, Len(attempts))[i] = attempts[i + 1]
<1>. DEFINE n == Len(result.validations)
            S == {attempts[i] : i \in DOMAIN attempts}
<1>1. IsSequence(attempts) /\ IsSequence(result.validations) /\ Len(attempts) = n + 1
  BY DEF ProbeInv, Tried
<1>2. n \in Nat /\ DOMAIN result.validations = 1 .. n /\ DOMAIN attempts = 1 .. Len(attempts)
  BY <1>1, AppendToSequence
<1>3. attempts # <<>>
  <2>1. Len(attempts) # 0
    BY <1>1, <1>2
  <2>. QED  BY <2>1, EmptySeq
<1>4. \A i \in 2 .. Len(attempts) : attempts[i] \in S
  BY <1>1, <1>2
<1>. HIDE DEF n, S
<1>5. /\ SubSeq(attempts, 2, n + 1) \in Seq(S)
      /\ Len(SubSeq(attempts, 2, n + 1)) = IF 2 <= n + 1 THEN n + 1 - 2 + 1 ELSE 0
      /\ \A i \in 1 .. n + 1 - 2 + 1 : SubSeq(attempts, 2, n + 1)[i] = attempts[2 + i - 1]
  BY <1>1, <1>2, <1>4, SubSeqProperties
<1>6. Len(SubSeq(attempts, 2, n + 1)) = n /\ DOMAIN SubSeq(attempts, 2, n + 1) = 1 .. n
  <2>1. Len(SubSeq(attempts, 2, n + 1)) = n
    BY <1>2, <1>5
  <2>. QED  BY <1>5, <2>1, LenProperties
<1>7. ASSUME NEW i \in 1 .. n  PROVE SubSeq(attempts, 2, n + 1)[i] = attempts[i + 1]
  <2>1. 2 + i - 1 = i + 1 /\ i \in 1 .. n + 1 - 2 + 1
    BY <1>2
  <2>. QED  BY <1>5, <2>1
<1>. QED  BY <1>1, <1>2, <1>3, <1>6, <1>7 DEF n

\* What Run says of a retry config is what a handshake of its own showed, for every
\* list of a server and every cap, and no config up to the cap is left out
\* (ValidateConfigs).
THEOREM ValidationsTellTheWire == Spec => []ValidationsAreHandshakes
<1>1. GreasyInv => ValidationsAreHandshakes
  <2>. SUFFICES ASSUME GreasyInv, at = "returned"  PROVE ValidationsAreHandshakes
    BY DEF ValidationsAreHandshakes
  <2>. DEFINE tries == SubSeq(attempts, 2, Len(attempts))
              n == Len(result.validations)
              most == IF input.all THEN Cap(input.max) ELSE 1
  <2>1. ProbeInv
    BY DEF GreasyInv
  <2>2. /\ n \in Nat /\ Len(tries) = n
        /\ \A i \in 1 .. n : tries[i] = attempts[i + 1]
    BY <2>1, Retries
  <2>3. DOMAIN tries = 1 .. n
    BY <2>1, Retries
  <2>4. most = Most(input.all) /\ most \in Nat
    <3>1. input.max = 0
      BY <2>1 DEF ProbeInv
    <3>. QED  BY <3>1, CapAssumption DEF Cap, Most
  <2>5. ASSUME result.kind = "rejected"
        PROVE  n = most \/ (n < most /\ n = Len(result.retry))
    <3>1. n = TryCount(result.retry, input.all)
      BY <2>1, <2>5 DEF ProbeInv
    <3>2. Len(result.retry) \in Nat
      BY <2>1, <2>5, ListIsSequence DEF ProbeInv, FirstTold
    <3>. HIDE DEF n, most
    <3>. QED  BY <2>4, <3>1, <3>2 DEF TryCount
  <2>6. \A i \in 1 .. n :
          /\ attempts[i + 1].offer = <<result.retry[i]>>
          /\ result.validations[i].index = i - 1
          /\ result.validations[i].id = result.retry[i].config_id
          /\ result.validations[i].accepted <=> attempts[i + 1].got = Accepted
    BY <2>1 DEF ProbeInv, Tried
  <2>7. ASSUME NEW i \in 1 .. n
        PROVE  /\ tries[i].offer = <<result.retry[result.validations[i].index + 1]>>
               /\ result.validations[i].index = i - 1
               /\ result.validations[i].id = result.retry[i].config_id
               /\ result.validations[i].accepted <=> tries[i].got = Accepted
    <3>1. result.validations[i].index + 1 = i
      BY <2>2, <2>6
    <3>. HIDE DEF tries, n
    <3>. QED  BY <2>2, <2>6, <3>1
  <2>. HIDE DEF n
  <2>. QED  BY <2>2, <2>3, <2>5, <2>7 DEF ValidationsAreHandshakes, n
<1>. QED  BY <1>1, GreasyInvHolds, PTL

\* The exit status is the verdict of the handshakes, for every command line and every
\* answer of server and resolver, and an error that comes with a report has a reason in
\* them (renderRejected, renderOutcome).
THEOREM ExitStatusTellsTheVerdict == Spec => []ExitStatusIsVerdict
<1>1. GreasyInv => ExitStatusIsVerdict
  <2>. SUFFICES ASSUME GreasyInv  PROVE ExitStatusIsVerdict
    OBVIOUS
  <2>. DEFINE tries == {attempts[i].got : i \in 2 .. Len(attempts)}
              n == Len(result.validations)
              works ==
                /\ attempts # <<>>
                /\ \/ First = "accepted"
                   \/ First = "plain" /\ ~cmd.require
                   \/ /\ First = "rejected" /\ ~cmd.require
                      /\ attempts[1].got.retry # Garbled
                      /\ attempts[1].got.retry # <<>> => tries # {}
                      /\ \A got \in tries : got = Accepted
  <2>0. cmd.require \in BOOLEAN
    BY CommandsAssumption DEF GreasyInv, IsCommand
  <2>1. pc # "exit" => status = "running" /\ output = Nothing
    BY DEF GreasyInv
  <2>2. ~Nothing.shown /\ \A v : ~[Nothing EXCEPT !.verdict = v].shown
    BY DEF Nothing
  <2>3. CASE pc # "exit" \/ (status = "error" /\ output = Nothing)
             \/ (status = "error" /\ output = [Nothing EXCEPT !.verdict = printStatus])
    BY <2>1, <2>2, <2>3 DEF ExitStatusIsVerdict
  <2>4. ASSUME at = "returned"  PROVE ProbeInv /\ attempts # <<>> /\ n \in Nat /\ Len(attempts) = n + 1
    BY <2>4, Retries DEF GreasyInv
  <2>5. \A list : Payload(list).shown
    BY DEF Payload, Nothing
  <2>6. ASSUME at = "returned", result.kind = "rejected", output = Payload(result.retry),
               status = IF ExitWith(\E i \in DOMAIN result.validations : ~result.validations[i].accepted)
                        THEN "error" ELSE "ok"
        PROVE  ExitStatusIsVerdict
    <3>1. /\ First = "rejected" /\ attempts[1].got.retry = result.retry
          /\ result.retry # Garbled /\ IsConfigList(result.retry)
      BY <2>4, <2>6 DEF ProbeInv, FirstTold, First
    <3>2. ExitWith(\E i \in DOMAIN result.validations : ~result.validations[i].accepted)
            <=> cmd.require \/ \E i \in 1 .. n : ~result.validations[i].accepted
      BY <2>4, <2>6, Retries DEF ExitWith
    <3>3. tries = {attempts[i + 1].got : i \in 1 .. n}
      <4>. HIDE DEF n
      <4>1. \A i \in 2 .. n + 1 : i - 1 \in 1 .. n /\ (i - 1) + 1 = i
        BY <2>4, <2>6
      <4>2. \A i \in 1 .. n : i + 1 \in 2 .. n + 1
        BY <2>4, <2>6
      <4>3. Len(attempts) = n + 1
        BY <2>4, <2>6
      <4>. QED  BY <4>1, <4>2, <4>3
    <3>4. \A i \in 1 .. n : result.validations[i].accepted <=> attempts[i + 1].got = Accepted
      BY <2>4, <2>6 DEF ProbeInv, Tried
    <3>5. (\E i \in 1 .. n : ~result.validations[i].accepted) <=> ~ \A got \in tries : got = Accepted
      <4>. HIDE DEF tries, n
      <4>. QED  BY <3>3, <3>4
    <3>6. result.retry # <<>> => tries # {}
      <4>1. n = TryCount(result.retry, input.all)
        BY <2>4, <2>6 DEF ProbeInv
      <4>2. Len(result.retry) \in Nat /\ (result.retry # <<>> => Len(result.retry) # 0)
        <5>1. \E S : result.retry \in Seq(S)
          BY <3>1 DEF IsConfigList
        <5>. QED  BY <5>1, EmptySeq, LenProperties
      <4>3. result.retry # <<>> => n \in Nat /\ n # 0
        <5>. HIDE DEF n
        <5>. QED  BY <4>1, <4>2, CapAssumption DEF TryCount, Most
      <4>4. result.retry # <<>> => 1 \in 1 .. n
        <5>. HIDE DEF n
        <5>. QED  BY <4>3
      <4>. HIDE DEF n, tries
      <4>. QED  BY <3>3, <4>4
    <3>7. works <=> ~cmd.require /\ \A got \in tries : got = Accepted
      <4>. HIDE DEF tries, n
      <4>. QED  BY <2>0, <2>4, <2>6, <3>1, <3>6
    <3>8. (status = "ok") <=> works
      BY <2>6, <3>2, <3>5, <3>7
    <3>9. status = "error" => ~works
      BY <3>8
    <3>10. output.shown
      BY <2>5, <2>6
    <3>. HIDE DEF tries, n
    <3>. QED  BY <3>8, <3>9, <3>10 DEF ExitStatusIsVerdict, tries
  <2>7. ASSUME at = "returned", result.kind \in {"accepted", "plain"}, output = Payload(result.offered),
               status = IF ExitWith(FALSE) THEN "error" ELSE "ok"
        PROVE  ExitStatusIsVerdict
    <3>1. First = result.kind
      BY <2>4, <2>7 DEF ProbeInv, FirstTold, First
    <3>2. ExitWith(FALSE) <=> cmd.require /\ First # "accepted"
      BY <3>1 DEF ExitWith
    <3>3. works <=> ~ (cmd.require /\ First # "accepted")
      <4>. HIDE DEF tries
      <4>. QED  BY <2>0, <2>4, <2>7, <3>1
    <3>4. output.shown
      BY <2>5, <2>7
    <3>. HIDE DEF tries
    <3>. QED  BY <2>7, <3>2, <3>3, <3>4 DEF ExitStatusIsVerdict, tries
  <2>8. pc = "exit" => Ended
    BY DEF GreasyInv
  <2>. QED  BY <2>3, <2>6, <2>7, <2>8 DEF Ended, ReturnedAs
<1>. QED  BY <1>1, GreasyInvHolds, PTL

\* What is printed is what happened on the wire and in DNS, for every server, resolver
\* and selection of configs: the verdict, the configs, the comparison with DNS and the
\* validations (printStatus, Render, renderJSON, CompareAndLog).
THEOREM ReportsAreTrue == Spec => []ReportIsTrue
<1>1. GreasyInv /\ LookupInv /\ LookupAgrees => ReportIsTrue
  <2>. SUFFICES ASSUME GreasyInv, LookupInv, LookupAgrees, status # "running"  PROVE ReportIsTrue
    BY DEF ReportIsTrue
  <2>1. pc = "exit" /\ Ended /\ ProbeInv
    BY DEF GreasyInv
  <2>2. /\ Nothing.verdict = "none" /\ ~Nothing.shown /\ Nothing.dns = NoComparison /\ Nothing.validations = <<>>
        /\ ~NoComparison.matches /\ ~NoComparison.compared
        /\ DOMAIN <<>> = {}
    BY EmptySeq DEF Nothing, NoComparison
  <2>3. CASE output = Nothing
    <3>1. \A i \in DOMAIN output.validations : FALSE
      BY <2>2, <2>3
    <3>. QED  BY <2>2, <2>3, <3>1 DEF ReportIsTrue
  <2>4. ASSUME ReturnedAs({"rejected", "accepted", "plain"})
        PROVE  /\ First = result.kind /\ at = "returned"
               /\ attempts[1].offer = input.offer
               /\ result.kind = "rejected" => attempts[1].got.retry = result.retry
               /\ result.kind # "rejected" => result.offered = input.offer
    BY <2>1, <2>4 DEF ReturnedAs, ProbeInv, FirstTold, First
  <2>5. CASE ReturnedAs({"rejected", "accepted", "plain"}) /\ output = [Nothing EXCEPT !.verdict = printStatus]
    <3>1. /\ output.verdict = printStatus /\ ~output.shown /\ output.dns = NoComparison
          /\ output.validations = <<>>
      BY <2>5, <2>2 DEF Nothing
    <3>2. printStatus # "none" => printStatus = First
      BY <2>4, <2>5 DEF printStatus
    <3>3. \A i \in DOMAIN output.validations : FALSE
      BY <2>2, <3>1
    <3>. QED  BY <2>2, <3>1, <3>2, <3>3 DEF ReportIsTrue
  <2>6. ASSUME ReturnedAs({"rejected", "accepted", "plain"}),
               NEW list, list = IF result.kind = "rejected" THEN result.retry ELSE result.offered,
               output = Payload(list)
        PROVE  ReportIsTrue
    <3>1. /\ output.verdict = (IF cmd.format = "json" THEN result.kind ELSE printStatus)
          /\ output.configs = selectConfigs(list, cmd.show)
          /\ output.dns = (IF cmd.format = "json" THEN result.dns ELSE NoComparison)
          /\ output.validations = (IF cmd.format = "json" THEN result.validations ELSE <<>>)
      BY <2>6 DEF Payload, Nothing
    <3>2. output.verdict # "none" => output.verdict = First
      BY <2>4, <2>6, <3>1 DEF printStatus
    <3>3. output.configs = IF cmd.show = -1 THEN list ELSE <<list[cmd.show + 1]>>
      <4>1. cmd.show \in Int /\ cmd.show >= -1
        <5>1. ValidOptions /\ IsCommand(cmd)
          BY <2>1, <2>4, <2>6, CommandsAssumption DEF ProbeInv, GreasyInv
        <5>. QED  BY <5>1 DEF ValidOptions, IsCommand
      <4>2. cmd.show < 0 <=> cmd.show = -1
        BY <4>1
      <4>. QED  BY <3>1, <4>2 DEF selectConfigs
    <3>4. list = IF First = "rejected" THEN attempts[1].got.retry ELSE attempts[1].offer
      BY <2>4, <2>6
    <3>5. ASSUME output.dns.compared \/ output.dns.matches
          PROVE  /\ step = "returned" /\ result.kind = "rejected"
                 /\ output.dns.found <=> answer.kind = "found"
                 /\ output.dns.matches => answer.kind = "found" /\ answer.list = result.retry
      <4>1. output.dns = result.dns /\ result.dns # NoComparison
        BY <2>2, <3>1, <3>5
      <4>2. DnsTold(result, step, answer)
        BY <2>1 DEF ProbeInv
      <4>. QED  BY <4>1, <4>2 DEF DnsTold
    <3>6. output.dns.matches => \E n \in OnChain : attempts[1].got.retry \in EchOf(n)
      BY <2>4, <2>6, <3>5 DEF LookupAgrees
    <3>7. (output.dns.compared /\ ~output.dns.found) =>
             disturbed \/ servfail \/ answer = LookupFailed \/ ~\E n \in OnChain : Publishes(n)
      <4>. SUFFICES ASSUME output.dns.compared, ~output.dns.found
                    PROVE  disturbed \/ servfail \/ answer = LookupFailed \/ ~\E n \in OnChain : Publishes(n)
        OBVIOUS
      <4>1. step = "returned" /\ answer.kind # "found"
        BY <3>5
      <4>2. answer.kind = "absent" \/ answer = LookupFailed
        BY <4>1 DEF LookupInv, Justified
      <4>3. CASE answer.kind = "absent"
        BY <4>1, <4>3 DEF LookupAgrees
      <4>. QED  BY <4>2, <4>3
    <3>8. \A i \in DOMAIN output.validations :
             output.validations[i].accepted <=> attempts[i + 1].got = Accepted
      <4>1. DOMAIN result.validations = 1 .. Len(result.validations)
        BY <2>1, <2>4, <2>6, Retries
      <4>2. \A i \in DOMAIN result.validations :
              result.validations[i].accepted <=> attempts[i + 1].got = Accepted
        BY <2>1, <2>4, <2>6, <4>1 DEF ProbeInv, Tried
      <4>3. CASE output.validations = result.validations
        BY <4>2, <4>3
      <4>4. CASE output.validations = <<>>
        <5>1. \A i \in DOMAIN output.validations : FALSE
          BY <2>2, <4>4
        <5>. QED  BY <5>1
      <4>. QED  BY <3>1, <4>3, <4>4
    <3>. QED  BY <3>2, <3>3, <3>4, <3>6, <3>7, <3>8 DEF ReportIsTrue
  <2>. QED  BY <2>1, <2>3, <2>5, <2>6 DEF Ended, ReturnedAs
<1>. QED  BY <1>1, GreasyInvHolds, GreasyRunsLookups, LookupInvHolds, LookupsAgree, PTL

LEMMA BytesStay == \A n \in 0 .. 255 : uint8(n) = n
  BY DEF uint8

\* A GREASE config has every flag that was given, and the defaults otherwise.
LEMMA GreaseIs ==
    ASSUME IsCommand(cmd), ValidOptions, cmd.ech = NoList
    PROVE  LET g == Grease(cmd.values, pubNameOr(cmd.values, domain), RandomId)
               values == cmd.values
           IN  /\ g.config_id \in 0 .. 255
               /\ values.config_id # -1 => g.config_id = values.config_id
               /\ g.version = values.version /\ g.max_name_length = values.max_name_length
               /\ "cipher_suites" \in cmd.changed => g.cipher_suites = values.cipher_suites
               /\ g.public_name = IF values.public_name = "" THEN domain ELSE values.public_name
<1>. DEFINE g == Grease(cmd.values, pubNameOr(cmd.values, domain), RandomId)
            id == cmd.values.config_id
<1>1. /\ g.config_id = (IF id >= 0 THEN uint8(id) ELSE RandomId)
      /\ g.version = cmd.values.version /\ g.max_name_length = cmd.values.max_name_length
      /\ g.cipher_suites = (IF cmd.values.cipher_suites = <<>> THEN <<"all">> ELSE cmd.values.cipher_suites)
      /\ g.public_name = IF cmd.values.public_name = "" THEN domain ELSE cmd.values.public_name
  BY DEF Grease, pubNameOr
<1>2. id \in -1 .. 255 /\ ("cipher_suites" \in cmd.changed => cmd.values.cipher_suites # <<>>)
  BY DEF IsCommand, ValidOptions, ValidConfigId
<1>. HIDE DEF g, id
<1>3. g.config_id \in 0 .. 255 /\ (id # -1 => g.config_id = id)
  <2>1. CASE id = -1
    <3>1. ~ (id >= 0)
      BY <2>1
    <3>2. g.config_id = RandomId
      BY <1>1, <3>1
    <3>. QED  BY <2>1, <3>2, RandomIdAssumption
  <2>2. CASE id # -1
    <3>1. id \in 0 .. 255 /\ id >= 0
      BY <1>2, <2>2
    <3>. QED  BY <1>1, <3>1, BytesStay
  <2>. QED  BY <2>1, <2>2
<1>. QED  BY <1>1, <1>2, <1>3 DEF g, id

\* Overrides change the fields whose flags were given, in every config of the list.
LEMMA OverriddenIs ==
    ASSUME IsCommand(cmd), ValidOptions, IsConfigList(cmd.ech)
    PROVE  LET offer == ApplyList(Resolve(cmd.values, cmd.changed), cmd.ech)
           IN  /\ DOMAIN offer = DOMAIN cmd.ech /\ Len(offer) = Len(cmd.ech)
               /\ \A i \in DOMAIN cmd.ech :
                    /\ offer[i].config_id \in 0 .. 255
                    /\ \A f \in cmd.changed :
                         ~ (f = "config_id" /\ cmd.values[f] = -1) => offer[i][f] = cmd.values[f]
                    /\ \A f \in Fields \ cmd.changed : offer[i][f] = cmd.ech[i][f]
<1>. DEFINE ov == Resolve(cmd.values, cmd.changed)
            list == cmd.ech
            offer == ApplyList(ov, list)
            id == cmd.values.config_id
<1>1. DOMAIN list = 1 .. Len(list) /\ Len(list) \in Nat
  BY ListIsSequence
<1>2. id \in -1 .. 255 /\ cmd.changed \subseteq Flags
  BY DEF IsCommand, ValidOptions, ValidConfigId
<1>3. /\ DOMAIN ov = cmd.changed
      /\ \A f \in cmd.changed : ov[f] = IF f = "config_id" THEN uint8(id) ELSE cmd.values[f]
  BY DEF Resolve
<1>4. "config_id" \in Fields /\ Flags \subseteq Fields
  BY DEF Fields, Flags, Compared
<1>5. uint8(id) \in 0 .. 255 /\ (id # -1 => uint8(id) = id)
  <2>1. uint8(id) \in 0 .. 255
    BY <1>2 DEF uint8
  <2>2. id # -1 => id \in 0 .. 255
    BY <1>2
  <2>. QED  BY <2>1, <2>2, BytesStay
<1>6. \A i \in DOMAIN list : list[i].config_id \in 0 .. 255
  BY DEF IsConfigList
<1>. HIDE DEF ov, list, id
<1>7. DOMAIN offer = DOMAIN list /\ Len(offer) = Len(list)
  <2>1. offer = [i \in 1 .. Len(list) |-> Apply(ov, list[i])]
    BY <1>1 DEF ApplyList
  <2>. HIDE DEF offer
  <2>2. DOMAIN offer = 1 .. Len(list)
    BY <2>1
  <2>. QED  BY <1>1, <2>1, <2>2
<1>8. ASSUME NEW i \in DOMAIN list, NEW f \in Fields
      PROVE  offer[i][f] = IF f \in cmd.changed THEN ov[f] ELSE list[i][f]
  BY <1>3, <1>8 DEF ApplyList, Apply
<1>9. ASSUME NEW i \in DOMAIN list
      PROVE  /\ offer[i].config_id \in 0 .. 255
             /\ \A f \in cmd.changed :
                  ~ (f = "config_id" /\ cmd.values[f] = -1) => offer[i][f] = cmd.values[f]
             /\ \A f \in Fields \ cmd.changed : offer[i][f] = list[i][f]
  <2>. HIDE DEF offer
  <2>1. offer[i]["config_id"] \in 0 .. 255
    BY <1>3, <1>4, <1>5, <1>6, <1>8, <1>9
  <2>2. ASSUME NEW f \in cmd.changed, ~ (f = "config_id" /\ cmd.values[f] = -1)
        PROVE  offer[i][f] = cmd.values[f]
    <3>1. offer[i][f] = ov[f]
      BY <1>2, <1>4, <1>8, <1>9
    <3>2. CASE f = "config_id"
      BY <1>3, <1>5, <2>2, <3>1, <3>2 DEF id
    <3>3. CASE f # "config_id"
      BY <1>3, <3>1, <3>3
    <3>. QED  BY <3>2, <3>3
  <2>3. \A f \in Fields \ cmd.changed : offer[i][f] = list[i][f]
    BY <1>8, <1>9
  <2>. QED  BY <2>1, <2>2, <2>3
<1>. HIDE DEF offer
<1>. QED  BY <1>7, <1>9 DEF offer, ov, list

\* Every flag that was given is what the offered configs have on the wire, and nothing
\* else of a user's config changes, for all flag values and lists (Resolve, ApplyList,
\* GreaseOptions).
THEOREM FlagsAreOffered == Spec => []FlagsReachTheWire
<1>1. GreasyInv => FlagsReachTheWire
  <2>. SUFFICES ASSUME GreasyInv, attempts # <<>>  PROVE FlagsReachTheWire
    BY DEF FlagsReachTheWire
  <2>. DEFINE offer == attempts[1].offer
              given == {f \in cmd.changed :
                          /\ ~(f = "config_id" /\ cmd.values[f] = -1)
                          /\ ~(f = "public_name" /\ cmd.values[f] = "" /\ cmd.ech = NoList)}
  <2>1. offer = Offer /\ ValidOptions /\ cmd.ech # Garbled
    BY DEF GreasyInv, ProbeInv, FirstTold
  <2>2. IsCommand(cmd)
    BY CommandsAssumption DEF GreasyInv
  <2>. HIDE DEF offer
  <2>3. CASE cmd.ech = NoList
    <3>. DEFINE g == Grease(cmd.values, pubNameOr(cmd.values, domain), RandomId)
                values == cmd.values
    <3>1. offer = <<g>>
      BY <2>1, <2>3 DEF Offer
    <3>2. /\ g.config_id \in 0 .. 255
          /\ values.config_id # -1 => g.config_id = values.config_id
          /\ g.version = values.version /\ g.max_name_length = values.max_name_length
          /\ "cipher_suites" \in cmd.changed => g.cipher_suites = values.cipher_suites
          /\ g.public_name = IF values.public_name = "" THEN domain ELSE values.public_name
      BY <2>1, <2>2, <2>3, GreaseIs
    <3>. HIDE DEF g, values
    <3>3. DOMAIN offer = {1} /\ offer[1] = g /\ Len(offer) = 1
      BY <3>1
    <3>4. cmd.changed \subseteq Flags /\ \A f \in Flags \ cmd.changed : values[f] = Defaults[f]
      BY <2>2 DEF IsCommand, values
    <3>5. ASSUME NEW f \in given  PROVE g[f] = values[f]
      <4>1. f \in Flags /\ f \in cmd.changed
        BY <3>4, <3>5
      <4>. QED  BY <2>3, <3>2, <3>5, <4>1 DEF Flags, values
    <3>6. "public_name" \notin given => g.public_name = domain
      <4>1. Defaults["public_name"] = "" /\ "public_name" \in Flags
        BY DEF Defaults, Flags
      <4>. QED  BY <2>3, <3>2, <3>4, <4>1 DEF values
    <3>7. \A f \in {"version", "max_name_length"} \ given : g[f] = Defaults[f]
      <4>1. {"version", "max_name_length"} \subseteq Flags
        BY DEF Flags
      <4>. QED  BY <2>3, <3>2, <3>4, <4>1
    <3>. HIDE DEF given
    <3>. QED  BY <2>3, <3>2, <3>3, <3>5, <3>6, <3>7 DEF FlagsReachTheWire, offer, given, values
  <2>4. CASE cmd.ech # NoList
    <3>1. IsConfigList(cmd.ech) /\ cmd.changed \subseteq Flags
      BY <2>1, <2>2, <2>4 DEF IsCommand
    <3>2. offer = ApplyList(Resolve(cmd.values, cmd.changed), cmd.ech)
      BY <2>1, <2>4 DEF Offer
    <3>3. /\ DOMAIN offer = DOMAIN cmd.ech /\ Len(offer) = Len(cmd.ech)
          /\ \A i \in DOMAIN cmd.ech :
               /\ offer[i].config_id \in 0 .. 255
               /\ \A f \in cmd.changed :
                    ~ (f = "config_id" /\ cmd.values[f] = -1) => offer[i][f] = cmd.values[f]
               /\ \A f \in Fields \ cmd.changed : offer[i][f] = cmd.ech[i][f]
      BY <2>1, <2>2, <3>1, <3>2, OverriddenIs
    <3>. QED  BY <2>4, <3>3 DEF FlagsReachTheWire, offer
  <2>. QED  BY <2>3, <2>4
<1>. QED  BY <1>1, GreasyInvHolds, PTL

=============================================================================
