------------------------------ MODULE MCFullRun ------------------------------
(***************************************************************************)
(* Small instances of FullRun: two callers of one object, and a second     *)
(* process after the first.                                                *)
(***************************************************************************)
EXTENDS FullRun, TLC

Symmetry == Permutations(Caller)
=============================================================================
