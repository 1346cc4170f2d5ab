--------------------------- MODULE MCGraceServer ----------------------------
(* Finite instances of GraceServer for TLC.                                *)
EXTENDS GraceServer, TLC

\* Configs are only compared with each other.
ConfigSymmetry == Permutations(Configs)

=============================================================================
