----------------------------- MODULE MCGraceRun -----------------------------
(* An instance for TLC: two targets of the same host, which share its log  *)
(* and its summary file.                                                   *)
EXTENDS GraceRun

CONSTANTS log, summary

SharedFiles == {log, summary}
SharedTargets == 1 .. N
SharedFilesOf == [t \in SharedTargets |-> SharedFiles]
SharedLog == [t \in SharedTargets |-> log]
SharedSummary == [t \in SharedTargets |-> summary]

=============================================================================
