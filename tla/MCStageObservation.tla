------------------------- MODULE MCStageObservation -------------------------
(* Instances of StageObservation for TLC. *)
EXTENDS StageObservation

MCNodes == {"n1", "n2"}
MCApps == {"a1", "a2"}
MCMaxChanges == [f \in Families |-> IF f = "lifecycle" THEN 3 ELSE IF f = "aggregate" THEN 1 ELSE 2]
=============================================================================
