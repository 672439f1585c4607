------------------------------ MODULE GrantOnce ------------------------------
(***************************************************************************)
(* What the grant ledger promises, without stores, processes or crashes: a *)
(* grant is consumed once, takes effect at most once and only after it was *)
(* consumed, and gets at most one outcome, only after its effect, which    *)
(* never changes.  A grant that was consumed is never available again.     *)
(***************************************************************************)
EXTENDS Naturals

CONSTANTS Grant, Result, NoResult

VARIABLES
    consumed,   \* the grant can no longer be claimed
    effects,    \* how often the grant took effect on a cluster
    recorded    \* the outcome on record

vars == <<consumed, effects, recorded>>

Init ==
    /\ consumed = [g \in Grant |-> FALSE]
    /\ effects = [g \in Grant |-> 0]
    /\ recorded = [g \in Grant |-> NoResult]

Consume(g) ==
    /\ ~consumed[g]
    /\ consumed' = [consumed EXCEPT ![g] = TRUE]
    /\ UNCHANGED <<effects, recorded>>

TakeEffect(g) ==
    /\ consumed[g]
    /\ effects[g] = 0
    /\ recorded[g] = NoResult
    /\ effects' = [effects EXCEPT ![g] = 1]
    /\ UNCHANGED <<consumed, recorded>>

Record(g, r) ==
    /\ effects[g] = 1
    /\ recorded[g] = NoResult
    /\ recorded' = [recorded EXCEPT ![g] = r]
    /\ UNCHANGED <<consumed, effects>>

Next ==
    \E g \in Grant :
        \/ Consume(g)
        \/ TakeEffect(g)
        \/ \E r \in Result : Record(g, r)

Spec == Init /\ [][Next]_vars
=============================================================================
