-------------------------- MODULE MCClusterTeardown --------------------------
(***************************************************************************)
(* Two commands at once on a cluster installed twice.                      *)
(***************************************************************************)
EXTENDS ClusterTeardown, TLC

Symmetry == Permutations(Procs)
=============================================================================
