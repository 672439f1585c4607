-------------------------- MODULE MCSubmissionPlan --------------------------
(***************************************************************************)
(* A small instance of SubmissionPlan: every stage, one change of a file   *)
(* while the files are read, and planes of up to two objects submitted to  *)
(* a server on which two more objects may come into being.  The shortest   *)
(* plane of the operation over both planes that names a Cluster has three. *)
(***************************************************************************)
EXTENDS SubmissionPlan

MCMaxPlane == [s \in Stages |-> IF s = "create-cluster" THEN 3 ELSE 2]
=============================================================================
