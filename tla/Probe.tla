------------------------------- MODULE Probe --------------------------------
(***************************************************************************)
(* pkg/probe: Run, one ECH handshake and what follows from its rejection:  *)
(* the comparison of the retry configs with DNS (CompareAndLog, a lookup   *)
(* of DnsLookup) and fresh handshakes that offer them one by one.          *)
(*                                                                         *)
(* `domain` of the lookup is the target.  `attempts` is a history of what  *)
(* was offered on the wire and what came of it.                            *)
(***************************************************************************)
EXTENDS DnsLookup, EchConfigs

CONSTANTS
    ServerLists,          \* retry lists that servers send
    Chains,               \* errors that dialing ends with
    DefaultMaxValidations

ASSUME CapAssumption == DefaultMaxValidations \in Nat \ {0}

ASSUME ServerListsAssumption == \A l \in ServerLists : l = Garbled \/ IsConfigList(l)

VARIABLES
    at,       \* where Run is
    input,    \* what it was called with
    result,   \* its Result
    attempts  \* handshakes so far: what was offered, what came back

probeVars == <<at, input, result, attempts>>

NoComparison == [compared |-> FALSE, found |-> FALSE, matches |-> FALSE]

NoResult ==
    [kind |-> "none", offered |-> <<>>, retry |-> <<>>, class |-> "",
     dns |-> NoComparison, validations |-> <<>>]

Unencodable == [kind |-> "unencodable"]

-----------------------------------------------------------------------------

ProbeIdle ==
    /\ at = "idle"
    /\ result = NoResult
    /\ attempts = <<>>

\* all and one are ValidateAllConfigs and ValidateConfig, max is MaxValidations.
CallRun(offer, all, one, max) ==
    /\ at = "idle"
    /\ at' = "dialing"
    /\ input' = [offer |-> offer, all |-> all, one |-> one, max |-> max]
    /\ UNCHANGED <<result, attempts>>

ReturnRun(res) ==
    /\ at' = "returned"
    /\ result' = [res EXCEPT !.offered = input.offer]

\* An empty retry list ends it, one that does not decode is an error.
runRejected(retry) ==
    CASE retry = Garbled -> ReturnRun([NoResult EXCEPT !.kind = "error"])
      [] retry = <<>>    -> ReturnRun([NoResult EXCEPT !.kind = "rejected"])
      [] OTHER -> /\ at' = "comparing"
                  /\ result' = [NoResult EXCEPT !.kind = "rejected", !.retry = retry,
                                                !.offered = input.offer]

DialReturns ==
    /\ at = "dialing"
    /\ \E got \in Outcomes(input.offer, ServerLists, Chains) :
         /\ attempts' = Append(attempts, [offer |-> input.offer, got |-> got])
         /\ CASE got.kind = "rejected" -> runRejected(got.retry)
              [] got.kind = "failed" ->
                   ReturnRun([NoResult EXCEPT !.kind = "failed", !.class = Classify(got.chain)])
              [] OTHER -> ReturnRun([NoResult EXCEPT !.kind = got.kind])
    /\ UNCHANGED input

Cap(max) == IF max <= 0 THEN DefaultMaxValidations ELSE max

\* The retry configs to offer again.
toValidate ==
    LET most == CASE input.all -> Cap(input.max)
                  [] ~input.all /\ input.one -> 1
                  [] OTHER -> 0
    IN  SubSeq(result.retry, 1, IF Len(result.retry) > most THEN most ELSE Len(result.retry))

\* A faulty variant of ValidationsDone, below.
ValidationsDoneAtFailure ==
    /\ at = "validating"
    /\ \/ Len(result.validations) = Len(toValidate)
       \/ \E i \in DOMAIN result.validations : ~result.validations[i].accepted
    /\ at' = "returned"
    /\ UNCHANGED <<input, result, attempts>>

\* CompareAndLog: a lookup that failed counts as nothing found.
CompareReturns ==
    /\ at = "comparing"
    /\ step = "returned"
    /\ at' = "validating"
    /\ result' = [result EXCEPT !.dns =
                    [compared |-> TRUE,
                     found |-> answer.kind = "found",
                     matches |-> answer.kind = "found" /\ answer.list = result.retry]]
    /\ UNCHANGED <<input, attempts>>

\* AttemptECH for the next config; a failure does not stop the ones after it.
ValidateConfig ==
    /\ at = "validating"
    /\ Len(result.validations) < Len(toValidate)
    /\ LET config == toValidate[Len(result.validations) + 1]
       IN  \E got \in Outcomes(<<config>>, ServerLists, Chains) \cup {Unencodable} :
             /\ attempts' = Append(attempts, [offer |-> <<config>>, got |-> got])
             /\ result' = [result EXCEPT !.validations =
                             Append(@, [index |-> Len(@), id |-> config.config_id,
                                        accepted |-> got = Accepted])]
    /\ UNCHANGED <<at, input>>

ValidationsDone ==
    /\ at = "validating"
    /\ Len(result.validations) = Len(toValidate)
    /\ at' = "returned"
    /\ UNCHANGED <<input, result, attempts>>

\* What it does by itself, and what it waits for.
ProbeMoves ==
    \/ DialReturns /\ UNCHANGED lookupVars
    \/ at = "comparing" /\ LookupMoves /\ UNCHANGED probeVars
    \/ CompareReturns /\ UNCHANGED lookupVars
    \/ ValidateConfig /\ UNCHANGED lookupVars
    \/ ValidationsDone /\ UNCHANGED lookupVars

ProbeHears == at = "comparing" /\ DatagramArrives /\ UNCHANGED probeVars

-----------------------------------------------------------------------------
(* Properties                                                              *)

\* What Run says of a retry config is what a handshake of its own, which offered
\* this config alone and at its place in the server's list, showed; every config up
\* to the cap got one, or the first only, whatever became of those before it
\* (ValidateConfigs, and its callers' cap in runRejected).
ValidationsAreHandshakes ==
    at = "returned" =>
        LET tries == SubSeq(attempts, 2, Len(attempts))
            most == IF input.all THEN Cap(input.max) ELSE 1
        IN  /\ Len(tries) = Len(result.validations)
            /\ result.kind = "rejected" =>
                 Len(tries) = most \/ (Len(tries) < most /\ Len(tries) = Len(result.retry))
            /\ \A i \in DOMAIN tries :
                 /\ tries[i].offer = <<result.retry[result.validations[i].index + 1]>>
                 /\ result.validations[i].index = i - 1
                 /\ result.validations[i].id = result.retry[i].config_id
                 /\ result.validations[i].accepted <=> tries[i].got = Accepted

=============================================================================
