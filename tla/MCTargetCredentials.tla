----------------------- MODULE MCTargetCredentials -----------------------
(* Three executions over three grants of each stage.                          *)
EXTENDS TargetCredentials, TLC

CONSTANTS p1, p2, p3, a1, a2, a3, b1, b2, b3

Symmetry == Permutations(Procs) \cup Permutations(Grants8)
                \cup Permutations(Grants9)
=============================================================================
