--------------------------- MODULE MCAppendStore ----------------------------
(* An instance of the store for TLC: two targets of the same host, which   *)
(* share its log and its summary file.                                     *)
EXTENDS AppendStore

CONSTANTS w1, w2, log, summary

SharedFiles == {log, summary}
SharedFilesOf == [w \in {w1, w2} |-> SharedFiles]

=============================================================================
