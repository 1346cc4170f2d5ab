----------------------------- MODULE DnsLookup ------------------------------
(***************************************************************************)
(* pkg/dnsrr: LookupECH, the search for the ECHConfigList of a domain in   *)
(* its HTTPS RR, with one UDP exchange per name and at most MaxAliasHops   *)
(* AliasMode records followed.                                             *)
(*                                                                         *)
(* What a name's RRset holds is decided when it is first asked for, and    *)
(* stays: what is never asked does not matter.  A datagram that arrives    *)
(* answers this query or an earlier one, and may be truncated, malformed   *)
(* or a failure of the resolver.  The 16-bit ids of one lookup's queries   *)
(* are taken to differ, so that a query is named by its place in `sent`.   *)
(***************************************************************************)
EXTENDS Integers, Sequences

CONSTANTS
    Names,        \* domain names
    Unasked,      \* not a name's RRset: it has not been asked for yet
    Lists,        \* ECHConfigLists published in DNS
    MaxAliasHops

ASSUME MaxAliasHopsAssumption == MaxAliasHops \in Nat

VARIABLES
    zone,      \* zone[n]: the HTTPS RRset of n
    step,      \* where LookupECH is
    domain,    \* the name it was called for
    sent,      \* names queried so far, one query each
    answer,    \* its result: kind and list
    disturbed, \* an exchange failed, or an answer was unusable
    servfail   \* an answer carried a failure code instead of records

lookupVars == <<zone, step, domain, sent, answer, disturbed, servfail>>

Steps == {"idle", "server", "query", "reply", "returned"}

-----------------------------------------------------------------------------
(* Records and messages                                                    *)

Other == [kind |-> "other"]
Broken == [kind |-> "broken"]
Alias(n) == [kind |-> "alias", target |-> n]
Service == [kind |-> "plain"]
Undecodable == [kind |-> "undecodable"]
Ech(list) == [kind |-> "ech", list |-> list]

\* AliasMode and ServiceMode do not mix at one name.
RRsets ==
    {<<>>, <<Service>>, <<Undecodable>>}
        \cup {<<Alias(n)>> : n \in Names}
        \cup {<<Ech(l)>> : l \in Lists}
        \cup {<<Service, Ech(l)>> : l \in Lists}

ASSUME UnaskedAssumption == Unasked \notin RRsets

\* A resolver may put the records of an alias' target into the same answer.
Chased(n) ==
    {zone[n] \o zone[m] : m \in {m \in Names : zone[n] = <<Alias(m)>>}}

Answers(n) == {zone[n], <<Other>> \o zone[n], <<Other, Broken>>} \cup Chased(n)

\* A datagram about query i: an answer, the part of it that fits, or a failure.
Datagrams(i) ==
    [id : {i}, truncated : {FALSE}, failure : {FALSE}, answers : Answers(sent[i])]
        \cup [id : {i}, truncated : {TRUE}, failure : {FALSE}, answers : {<<>>}]
        \cup [id : {i}, truncated : {FALSE}, failure : {TRUE}, answers : {<<>>}]

Absent == [kind |-> "absent"]
LookupFailed == [kind |-> "error"]
Found(list) == [kind |-> "found", list |-> list]
Continue(n) == [kind |-> "alias", target |-> n]

-----------------------------------------------------------------------------
(* Faulty variants of definitions below                                    *)

AcceptableTruncated(d) == d.id = Len(sent)

TooManyHopsLate(hops) == hops > MaxAliasHops

NoDeadline == FALSE

-----------------------------------------------------------------------------

\* The records at which the scan of an answer ends.
Ends(rr) == rr.kind \in {"broken", "undecodable", "ech"}

\* The first of them decides; without one the last AliasMode record does.
parseHTTPSAnswers(rrs) ==
    LET ends == {i \in DOMAIN rrs : Ends(rrs[i])}
        aliases == {i \in DOMAIN rrs : rrs[i].kind = "alias"}
        first == CHOOSE i \in ends : \A j \in ends : i <= j
        last == CHOOSE i \in aliases : \A j \in aliases : j <= i
    IN  CASE ends # {} /\ rrs[first].kind = "ech" -> Found(rrs[first].list)
          [] ends # {} /\ rrs[first].kind # "ech" -> LookupFailed
          [] ends = {} /\ aliases # {}            -> Continue(rrs[last].target)
          [] OTHER                                -> Absent

\* checkResponseID, and no truncation.
Acceptable(d) == d.id = Len(sent) /\ ~d.truncated

TooManyHops(hops) == hops >= MaxAliasHops

LookupIdle ==
    /\ zone = [n \in Names |-> Unasked]
    /\ step = "idle"
    /\ domain \in Names
    /\ sent = <<>>
    /\ answer = Absent
    /\ disturbed = FALSE
    /\ servfail = FALSE

\* With --dns-server the resolver's address is known.
CallLookup ==
    /\ step = "idle"
    /\ step' \in {"server", "query"}
    /\ UNCHANGED <<zone, domain, sent, answer, disturbed, servfail>>

ReturnLookup(result) ==
    /\ step' = "returned"
    /\ answer' = result

\* The name the next query is about.
Queried == IF answer.kind = "alias" THEN answer.target ELSE domain

systemServer ==
    /\ step = "server"
    /\ \/ step' = "query" /\ UNCHANGED <<answer, disturbed>>
       \/ ReturnLookup(LookupFailed) /\ disturbed' = TRUE
    /\ UNCHANGED <<zone, domain, sent, servfail>>

\* The RRset of n is decided.
Learn(z, n, rrs) == IF z[n] = Unasked THEN [z EXCEPT ![n] = rrs] ELSE z

SendQuery ==
    /\ step = "query"
    /\ sent' = Append(sent, Queried)
    /\ step' = "reply"
    /\ \E rrs, targets \in RRsets :
         LET z == Learn(zone, Queried, rrs)
             m == {m \in Names : z[Queried] = <<Alias(m)>>}
         IN  zone' = [n \in Names |-> IF n \in m THEN Learn(z, n, targets)[n] ELSE z[n]]
    /\ UNCHANGED <<domain, answer, disturbed, servfail>>

\* Dialing, writing or reading fails, the last by lookupTimeout for one.
ExchangeFails ==
    /\ step = "reply"
    /\ ReturnLookup(LookupFailed)
    /\ disturbed' = TRUE
    /\ UNCHANGED <<zone, domain, sent, servfail>>

\* The response code of an answer is not looked at.
Receive(d) ==
    /\ step = "reply"
    /\ servfail' = (servfail \/ d.failure)
    /\ disturbed' = (disturbed \/ d.truncated \/ d.id # Len(sent)
                               \/ \E i \in DOMAIN d.answers : d.answers[i] = Broken)
    /\ LET parsed == IF Acceptable(d) THEN parseHTTPSAnswers(d.answers) ELSE LookupFailed
       IN  CASE parsed.kind # "alias" -> ReturnLookup(parsed)
             [] parsed.kind = "alias" /\ TooManyHops(Len(sent) - 1) -> ReturnLookup(LookupFailed)
             [] OTHER -> step' = "query" /\ answer' = parsed
    /\ UNCHANGED <<zone, domain, sent>>

\* What it does by itself.
LookupMoves == CallLookup \/ systemServer \/ SendQuery \/ ExchangeFails

DatagramArrives ==
    /\ step = "reply"
    /\ \E i \in DOMAIN sent : \E d \in Datagrams(i) : Receive(d)

LookupNext == LookupMoves \/ DatagramArrives

LookupSpec == LookupIdle /\ [][LookupNext]_lookupVars

-----------------------------------------------------------------------------
(* Properties                                                              *)

\* The names an alias chain from the domain visits, as far as they were asked.
AliasOf(n) == {m \in Names : zone[n] = <<Alias(m)>>}

Chain[k \in Nat] ==
    IF k = 0 THEN {domain} ELSE UNION {AliasOf(n) : n \in Chain[k - 1]}

OnChain == UNION {Chain[k] : k \in 0 .. 2 * MaxAliasHops + 1}

EchOf(n) == {rr.list : rr \in {zone[n][i] : i \in DOMAIN zone[n]} \cap {Ech(l) : l \in Lists}}

Publishes(n) == zone[n] # Unasked /\ EchOf(n) # {}

\* What LookupECH returns is what DNS says, whatever datagrams arrive in between: a
\* list found is published on the alias chain of the domain, "no record" is true
\* unless an answer was a failure code, and an error has a cause: the network, an
\* undecodable list, or a chain of more than MaxAliasHops aliases, where a chain of
\* just as many still is followed.
LookupAgrees ==
    step = "returned" =>
        CASE answer.kind = "found" -> \E n \in OnChain : answer.list \in EchOf(n)
          [] answer.kind = "absent" -> servfail \/ ~\E n \in OnChain : Publishes(n)
          [] answer.kind = "error" -> \/ disturbed
                                      \/ \E n \in OnChain : zone[n] = <<Undecodable>>
                                      \/ Chain[MaxAliasHops + 1] # {}

\* Alias loops end: whatever names publish, a lookup sends at most MaxAliasHops + 1
\* queries, one for the target and one for each alias it follows (LookupECH).
QueriesBounded == Len(sent) <= MaxAliasHops + 1

\* dnsrr.go:236-242 tells a failed lookup from one without a record, and
\* variations.go:161-162 elicits a config by GREASE "if the target has no ECH record
\* in DNS": "no record" means that there is none.
AbsentMeansAbsent ==
    (step = "returned" /\ answer.kind = "absent") => ~\E n \in OnChain : Publishes(n)

=============================================================================
