---------------------------- MODULE MCStageLedger ----------------------------
(***************************************************************************)
(* Small instances of StageLedger: two executors, and two grants for the   *)
(* same stage, as a retried predecessor receipt produces them.             *)
(***************************************************************************)
EXTENDS StageLedger, TLC

CONSTANTS p1, p2, g1, g2, s1

MCStageOf == [g \in Grant |-> s1]
MCNotBefore == [g \in Grant |-> 0]
MCNotAfter == [g \in Grant |-> 1]
MCMutationResult ==
    {[outcome |-> "SUCCEEDED", mutation |-> "ATTEMPTED"],
     [outcome |-> "SUCCEEDED", mutation |-> "NOT_ATTEMPTED"],
     [outcome |-> "SUCCEEDED", mutation |-> "UNKNOWN"]}
MCPredecessorAt == [g \in Grant |-> IF g = g1 THEN 0 ELSE 1]

=============================================================================
