---------------------------- MODULE ConfigWatch -----------------------------
(***************************************************************************)
(* What `echtool test grace-period` promises for one domain, without       *)
(* clocks, DNS, retry configs or the network: a sequence of samples, one   *)
(* after the other, each of which obtains a config, counts the consecutive *)
(* failures of that config, and ends dead exactly when it has counted      *)
(* MaxFailures of them.  Only a death is followed by another sample.       *)
(***************************************************************************)
EXTENDS Naturals, Sequences

CONSTANTS
    MaxFailures,  \* failures in a row that make a config dead
    Samples       \* samples at most; 0 = unbounded

VARIABLES
    phase,    \* what the domain's tracker is doing
    strikes,  \* failures in a row of the config under test
    outcomes  \* how the samples that ended did end

cwVars == <<phase, strikes, outcomes>>

Outcomes == {"failed", "alive", "dead"}

Phases == {"idle", "eliciting", "watching", "over"} \cup Outcomes

CWTypeOK ==
    /\ phase \in Phases
    /\ strikes \in 0 .. MaxFailures
    /\ outcomes \in Seq(Outcomes)

CWInit ==
    /\ phase = "idle"
    /\ strikes = 0
    /\ outcomes = <<>>

Begin ==
    /\ phase = "idle"
    /\ Samples = 0 \/ Len(outcomes) < Samples
    /\ phase' = "eliciting"
    /\ UNCHANGED <<strikes, outcomes>>

Exhausted ==
    /\ phase = "idle"
    /\ Samples # 0 /\ Len(outcomes) = Samples
    /\ phase' = "over"
    /\ UNCHANGED <<strikes, outcomes>>

Elicited ==
    /\ phase = "eliciting"
    /\ phase' \in {"watching", "failed"}
    /\ UNCHANGED <<strikes, outcomes>>

Accepted ==
    /\ phase = "watching"
    /\ strikes < MaxFailures
    /\ strikes' = 0
    /\ UNCHANGED <<phase, outcomes>>

Missed ==
    /\ phase = "watching"
    /\ strikes < MaxFailures
    /\ strikes' = strikes + 1
    /\ UNCHANGED <<phase, outcomes>>

\* The config is dead as soon as, and only if, the strikes are all there.
Ended ==
    /\ phase = "watching"
    /\ phase' = IF strikes = MaxFailures THEN "dead" ELSE "alive"
    /\ strikes' = 0
    /\ UNCHANGED outcomes

Concluded ==
    /\ phase \in Outcomes
    /\ outcomes' = Append(outcomes, phase)
    /\ phase' = IF phase = "dead" THEN "idle" ELSE "over"
    /\ UNCHANGED strikes

CWNext ==
    \/ Begin
    \/ Exhausted
    \/ Elicited
    \/ Accepted
    \/ Missed
    \/ Ended
    \/ Concluded

CWSpec == CWInit /\ [][CWNext]_cwVars

=============================================================================
