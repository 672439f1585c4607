------------------------ MODULE MCStageAuthorization ------------------------
(***************************************************************************)
(* Small instances of StageAuthorization.                                  *)
(***************************************************************************)
EXTENDS StageAuthorization, TLC

Symmetry == Permutations(Call)
=============================================================================
