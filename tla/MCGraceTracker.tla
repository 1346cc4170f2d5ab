--------------------------- MODULE MCGraceTracker ---------------------------
(* Instances of one domain's tracker for TLC.                              *)
EXTENDS GraceProperties, TLC

\* Configs are only compared for equality.
ConfigSymmetry == Permutations(Configs)

\* A run that nobody cancels, whose select takes a tick as soon as it is there.
UninterruptedNext ==
    /\ Next
    /\ UNCHANGED cancelled
    /\ pc = "select" /\ fired => UNCHANGED clock

UninterruptedSpec == Init /\ [][UninterruptedNext]_vars

=============================================================================
