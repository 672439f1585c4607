--------------------------- MODULE MCRuntimeBinding ---------------------------
(* Two executors, two predecessor receipts, and for a stage of another kind *)
(* a success and a stop; for the binding stage, whose results also differ   *)
(* only in evidence, two StorageClasses, one after the other, two paths and *)
(* three runs.                                                              *)
EXTENDS RuntimeBinding, TLC

MCResult ==
    {[outcome |-> "SUCCEEDED", evidence |-> <<1, "seen">>],
     [outcome |-> "STOPPED", evidence |-> <<1, "seen">>]}
        \cup BindingResult

Symmetry ==
    Permutations(Process) \cup Permutations(Predecessor)
        \cup Permutations(Outputs)
=============================================================================
