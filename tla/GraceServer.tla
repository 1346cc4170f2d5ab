---------------------------- MODULE GraceServer -----------------------------
(***************************************************************************)
(* The tracker of one domain (GraceTracker) in front of a server that      *)
(* rotates its ECH keys and a resolver that lags behind it: does what is   *)
(* measured happen to the server?                                          *)
(*                                                                         *)
(* The server hands out the config `current` in every rejection, accepts   *)
(* the configs `accepts`, and never takes back a config it retired.  A     *)
(* handshake is decided by the server at some moment of the call, and its  *)
(* outcome reaches the tracker later, or is lost on the way.  Network calls*)
(* take up to MaxCall (dial.Timeout, lookupTimeout), and a goroutine that  *)
(* can run does so before time goes on.                                    *)
(***************************************************************************)
EXTENDS GraceProperties

CONSTANT MaxCall  \* clock units a network call takes at most

ASSUME MaxCallAssumption == MaxCall \in Nat

VARIABLES
    current,   \* the config the server hands out
    accepts,   \* the configs whose keys the server holds
    retired,   \* retired[c]: when the server dropped the key of c, 0 = it did not
    dns,       \* the config the resolver answers with
    decision,  \* what the server made of the handshake under way
    offered,   \* the retry config it sent with a rejection
    calling    \* clock units the network call under way has taken

keys == <<current, accepts, retired, dns>>
handshake == <<decision, offered>>
serverVars == <<vars, keys, handshake, calling>>

-----------------------------------------------------------------------------

\* The resolver may still answer with the predecessor of the current config.
ServerInit ==
    /\ Init
    /\ current \in Configs
    /\ dns \in Configs
    /\ accepts = {current, dns}
    /\ retired = [c \in Configs |-> 0]
    /\ decision = "none"
    /\ offered = NoConfig
    /\ calling = 0

Rotate(c) ==
    /\ c \notin accepts
    /\ retired[c] = 0
    /\ current' = c
    /\ accepts' = accepts \cup {c}
    /\ UNCHANGED <<vars, retired, dns, handshake, calling>>

Publish ==
    /\ dns # current
    /\ dns' = current
    /\ UNCHANGED <<vars, current, accepts, retired, handshake, calling>>

Retire(c) ==
    /\ c \in accepts \ {current}
    /\ accepts' = accepts \ {c}
    /\ retired' = [retired EXCEPT ![c] = clock]
    /\ UNCHANGED <<vars, current, dns, handshake, calling>>

\* A GREASE offer is rejected like one whose key the server does not hold.
Decide ==
    /\ pc \in {"grease", "attempt"}
    /\ decision = "none"
    /\ IF pc = "attempt" /\ underTest \in accepts
         THEN decision' = "accepted" /\ offered' = NoConfig
         ELSE decision' = "rejected" /\ offered' = current
    /\ UNCHANGED <<vars, keys, calling>>

\* The call ends with the server's decision, or fails on the way to it or back.
HandshakeReturns ==
    /\ \/ decision = "rejected" /\ GreaseSucceeds(offered)
       \/ GreaseFails
       \/ decision = "accepted" /\ AttemptAccepted
       \/ decision = "rejected" /\ AttemptRejected(offered)
       \/ AttemptFailed
    /\ decision' = "none"
    /\ offered' = NoConfig
    /\ calling' = 0
    /\ UNCHANGED keys

LookupReturns ==
    /\ \E c \in {dns, NoConfig} : PollBaseline(c) \/ PollTick(c)
    /\ calling' = 0
    /\ UNCHANGED <<keys, handshake>>

Proceed ==
    /\ Internal
    /\ calling' = 0
    /\ UNCHANGED <<keys, handshake>>

ContextEnds ==
    /\ Cancel
    /\ UNCHANGED <<keys, handshake, calling>>

Calling == pc \in Blocking \ {"select", "backoff"}

\* A select with a ready case does not wait, and a call lasts MaxCall at most.

TimePassesBounded ==
    /\ TimePasses
    /\ IF Calling
         THEN calling < MaxCall /\ calling' = calling + 1
         ELSE ~fired /\ ~cancelled /\ UNCHANGED calling
    /\ UNCHANGED <<keys, handshake>>

Over ==
    /\ Terminated
    /\ UNCHANGED serverVars

ServerNext ==
    \/ \E c \in Configs : Rotate(c) \/ Retire(c)
    \/ Publish
    \/ Decide
    \/ HandshakeReturns
    \/ LookupReturns
    \/ Proceed
    \/ ContextEnds
    \/ TimePassesBounded
    \/ Over

ServerSpec == ServerInit /\ [][ServerNext]_serverVars

-----------------------------------------------------------------------------
(* Properties                                                              *)

Later(a, b) == IF a < b THEN b ELSE a

\* "Only ech_rejected is a clean signal that the server stopped accepting the
\* config" (store.go:36): a death of that kind is never dated before the server
\* retired the config, and not long after: the attempt that was decided before,
\* an interval, a lookup and the attempt that finds out, or all of these after a
\* baseline lookup when the config was retired while the sample was set up.
CleanDeathIsRetirement ==
    (Died(report) /\ report.deathReason = "ech_rejected" /\ clock < MaxTime) =>
        LET gone == retired[underTest] IN
        /\ gone # 0
        /\ gone <= report.death
        /\ report.death <= Later(gone, report.firstSeen) + 3 * MaxCall + Interval

\* The retry channel speaks for the server: it reports a rotation only once the
\* config under test is retired, whatever the resolver says (recordIfChanged).
RetryRotationIsReal ==
    report.retryChanged # 0 =>
        /\ retired[underTest] # 0
        /\ retired[underTest] <= report.retryChanged

\* A rerun that is handed the config of the sample before follows a death that
\* was none: not one of its failures was a rejection (repeatedConfig, deathReason).
RepeatFollowsConnectFailures ==
    \A i \in DOMAIN summaries :
        summaries[i].repeatedConfig =>
            summaries[i - 1].deathReason = "connect_failed"

=============================================================================
