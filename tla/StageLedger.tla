----------------------------- MODULE StageLedger -----------------------------
(***************************************************************************)
(* The single-use grant ledger (internal/ledger) driven by concurrent runs *)
(* of StagedOperation.Run (internal/execution/staged.go), at the           *)
(* granularity of one call of the record store.                            *)
(*                                                                         *)
(* The store only creates records that are absent and reads them back.  It *)
(* has two implementations.  The file store opens the file exclusively and *)
(* then writes it, so a crash or a failed write in between leaves a Torn   *)
(* file, which exists but does not decode.  The Kubernetes store creates a *)
(* ConfigMap in one request whose answer may be lost; a request that its   *)
(* client gave up, or that was under way when the process died, may still  *)
(* be served at any later time, or never.  The backend is chosen when the  *)
(* ledger is opened.                                                       *)
(*                                                                         *)
(* A run holds its claim receipt only in memory; a crash forgets it.  The  *)
(* clock is read by every run on its own host and is not synchronised, so  *)
(* each reading is an arbitrary member of Time.                            *)
(***************************************************************************)
EXTENDS Naturals

CONSTANTS
    Process,        \* concurrently running executors
    Grant,          \* verified stage grants, by grant ID
    Stage,          \* mutating stages of the plan
    StageOf,        \* the stage a grant authorises
    EnsureStage,    \* the stages that may succeed without a write
    NotBefore,      \* first instant at which a grant can be consumed
    NotAfter,       \* first instant at which it no longer can
    PredecessorAt,  \* completion time of the predecessor receipt of a grant
    Time,           \* readings of a clock
    MutationResult, \* the results mutators report, consistent or not
    Absent,         \* no record under the key
    Torn            \* a record that exists and cannot be decoded

ASSUME StageLedgerAssumption ==
    /\ StageOf \in [Grant -> Stage]
    /\ EnsureStage \subseteq Stage
    /\ Time \subseteq Nat
    /\ NotBefore \in [Grant -> Nat]
    /\ NotAfter \in [Grant -> Nat]
    /\ PredecessorAt \in [Grant -> Nat]

Outcome == {"SUCCEEDED", "FAILED", "STOPPED"}
MutationState == {"NOT_ATTEMPTED", "ATTEMPTED", "UNKNOWN"}

ASSUME ResultAssumption ==
    MutationResult \subseteq [outcome : Outcome, mutation : MutationState]

(***************************************************************************)
(* The three kinds of record.  A digest identifies the whole record it is  *)
(* taken of, so where the code embeds a digest the model embeds the record *)
(* itself.                                                                 *)
(***************************************************************************)
StageClaimReceipt == [grant : Grant, claimedAt : Time]

StageOutcomeReceipt ==
    [claim : StageClaimReceipt, result : MutationResult, completedAt : Time]

StageReceipt == [stage : Stage, outcome : StageOutcomeReceipt]

ASSUME StoreAssumption ==
    /\ Absent # Torn
    /\ {Absent, Torn} \cap (Grant \cup MutationResult \cup StageClaimReceipt \cup StageOutcomeReceipt \cup StageReceipt) = {}

VARIABLES
    fileBacked, \* TRUE: the file store;  FALSE: the Kubernetes store
    claims,     \* category "claims", by grant
    outcomes,   \* category "outcomes", by grant
    slot,       \* category "stage-receipts", the deterministic slot of a stage
    attempt,    \* category "stage-receipts", the digest-addressed slots
    late,       \* creates nobody waits for any more and not yet served
    pc,         \* where a run of StagedOperation.Run stands
    grant,      \* the grant the run was given
    held,       \* local variable claim of the run
    result,     \* the outcome the run is about to record or to finalize
    reply,      \* what the last finished run of the process returned
    mutated     \* how often the mutator was invoked under a grant (history)

store == <<claims, outcomes, slot, attempt>>
local == <<pc, grant, held, result, reply>>
vars == <<fileBacked, store, late, local, mutated>>

Step == {"idle", "inspect", "readOutcome", "claim", "claimWrite", "mutate",
         "mutating", "complete", "outcomeWrite", "finalize", "slot", "slotWrite",
         "slotRead", "attempt", "attemptWrite", "attemptRead"}

RunState == {"NONE", "PRECLAIM", "CLAIMED_INDETERMINATE_STOP", "COMPLETED"}

(***************************************************************************)
(* What a returned StagedOperationReceipt tells the caller: its state and, *)
(* for COMPLETED_x, the identity of the receipt that was finalized.        *)
(***************************************************************************)
Reply == [state : RunState, receipt : StageReceipt \cup {Absent}]

NoReply == [state |-> "NONE", receipt |-> Absent]

(***************************************************************************)
(* The creates of the Kubernetes store, by the place they are meant for.   *)
(* The name of the ConfigMap follows from the record.                      *)
(***************************************************************************)
Post ==
    [to : {"claims"}, record : StageClaimReceipt] \cup
    [to : {"outcomes"}, record : StageOutcomeReceipt] \cup
    [to : {"slot", "attempt"}, record : StageReceipt]

Init ==
    /\ fileBacked \in BOOLEAN
    /\ claims = [g \in Grant |-> Absent]
    /\ outcomes = [g \in Grant |-> Absent]
    /\ slot = [s \in Stage |-> Absent]
    /\ attempt = [r \in StageReceipt |-> Absent]
    /\ late = {}
    /\ pc = [p \in Process |-> "idle"]
    /\ grant = [p \in Process |-> Absent]
    /\ held = [p \in Process |-> Absent]
    /\ result = [p \in Process |-> Absent]
    /\ reply = [p \in Process |-> NoReply]
    /\ mutated = [g \in Grant |-> 0]

Recorded(r) == r \notin {Absent, Torn}

(***************************************************************************)
(* A create succeeds only if nothing exists under the key: the file is     *)
(* opened with O_EXCL, the API server answers 409 for an existing name.    *)
(* The variants, used to test the properties, replace a torn record and    *)
(* any record.                                                             *)
(***************************************************************************)
CreatableOverTorn(r) == r \in {Absent, Torn}
CreatableAlways(r) == TRUE
Creatable(r) == r = Absent

(***************************************************************************)
(* verifiedLinks: a receipt must not complete before its predecessor.      *)
(***************************************************************************)
FollowsAnything(g, o) == TRUE
FollowsPredecessor(g, o) == PredecessorAt[g] <= o.completedAt

(***************************************************************************)
(* StoreStageReceipt accepts a record that is already there only if it has *)
(* the same bytes.                                                         *)
(***************************************************************************)
ExactReplay(rec, r) == rec = r

(***************************************************************************)
(* ReceiptFor: stagereceipt.NewWithTargetClusterUIDDigest as called by     *)
(* FinalizeStageReceipt.  Everything in the receipt comes from the durable *)
(* outcome, its time included.                                             *)
(***************************************************************************)
ReceiptFor(o) == [stage |-> StageOf[o.claim.grant], outcome |-> o]

(***************************************************************************)
(* CompleteStageWithTarget and validateStageMutationResult accept the same *)
(* pairs: a success must have attempted its mutation, except for the stage *)
(* that only ensures prerequisites.                                        *)
(***************************************************************************)
AcceptedResult(s, r) ==
    r.outcome = "SUCCEEDED" =>
        r.mutation = "ATTEMPTED" \/ (s \in EnsureStage /\ r.mutation = "NOT_ATTEMPTED")

Goto(p, l) == pc' = [pc EXCEPT ![p] = l]

(***************************************************************************)
(* The run ends and its locals are gone; the caller keeps the reply.       *)
(***************************************************************************)
Forget(p) ==
    /\ Goto(p, "idle")
    /\ held' = [held EXCEPT ![p] = Absent]
    /\ result' = [result EXCEPT ![p] = Absent]
    /\ grant' = [grant EXCEPT ![p] = Absent]

Return(p, state, receipt) ==
    /\ Forget(p)
    /\ reply' = [reply EXCEPT ![p] = [state |-> state, receipt |-> receipt]]

Fail(p) ==
    Return(p, IF held[p] = Absent THEN "PRECLAIM" ELSE "CLAIMED_INDETERMINATE_STOP", Absent)

(***************************************************************************)
(* The process dies: what it had in memory is lost.                        *)
(***************************************************************************)
Dies(p) ==
    /\ Forget(p)
    /\ reply' = [reply EXCEPT ![p] = NoReply]

-----------------------------------------------------------------------------
(***************************************************************************)
(* StagedOperation.Run up to the first read of the ledger: plan, cursor,   *)
(* grant and mutator bindings are checked and either stop the run without  *)
(* a trace or let it inspect the ledger.                                   *)
(***************************************************************************)
Run(p, g) ==
    /\ pc[p] = "idle"
    /\ grant' = [grant EXCEPT ![p] = g]
    /\ reply' = [reply EXCEPT ![p] = NoReply]
    /\ Goto(p, "inspect")
    /\ UNCHANGED <<fileBacked, store, late, held, result, mutated>>

(***************************************************************************)
(* InspectStage, first read.  Only an absent claim makes the grant         *)
(* AVAILABLE; a claim that does not decode, or a failed read, is an error. *)
(***************************************************************************)
InspectStage(p) ==
    /\ pc[p] = "inspect"
    /\ \/ /\ claims[grant[p]] = Absent
          /\ Goto(p, "claim")
          /\ UNCHANGED <<grant, held, result, reply>>
       \/ /\ Recorded(claims[grant[p]])
          /\ Goto(p, "readOutcome")
          /\ UNCHANGED <<grant, held, result, reply>>
       \/ Fail(p)
    /\ UNCHANGED <<fileBacked, store, late, mutated>>

(***************************************************************************)
(* InspectStage, second read, and the switch of Run over its verdict.      *)
(***************************************************************************)
InspectOutcome(p) ==
    /\ pc[p] = "readOutcome"
    /\ LET o == outcomes[grant[p]] IN
       \/ /\ o = Absent
          /\ Return(p, "CLAIMED_INDETERMINATE_STOP", Absent)
       \/ /\ Recorded(o)
          /\ o.claim = claims[grant[p]]
          /\ Goto(p, "finalize")
          /\ UNCHANGED <<grant, held, result, reply>>
       \/ Fail(p)
    /\ UNCHANGED <<fileBacked, store, late, mutated>>

-----------------------------------------------------------------------------
(***************************************************************************)
(* ClaimStage.  The claim time is checked against the window of the grant, *)
(* then the claim record is created.  An existing record, complete or not, *)
(* means the grant is consumed.                                            *)
(***************************************************************************)
ActiveUntilEnd(g, at) == NotBefore[g] <= at /\ at <= NotAfter[g]
ActiveAt(g, at) == NotBefore[g] <= at /\ at < NotAfter[g]

ClaimStage(p, at) ==
    LET g == grant[p]
        claim == [grant |-> g, claimedAt |-> at]
    IN
    /\ pc[p] = "claim"
    /\ \/ /\ ActiveAt(g, at)
          /\ Creatable(claims[g])
          /\ IF fileBacked
             THEN /\ claims' = [claims EXCEPT ![g] = Torn]
                  /\ held' = [held EXCEPT ![p] = claim]
                  /\ Goto(p, "claimWrite")
                  /\ UNCHANGED <<grant, result, reply>>
             ELSE /\ claims' = [claims EXCEPT ![g] = claim]
                  /\ \/ /\ held' = [held EXCEPT ![p] = claim]
                        /\ Goto(p, "mutate")
                        /\ UNCHANGED <<grant, result, reply>>
                     \/ Fail(p)
       \/ /\ Fail(p)
          /\ UNCHANGED claims
    /\ UNCHANGED <<fileBacked, outcomes, slot, attempt, late, mutated>>

(***************************************************************************)
(* writeExclusive after the exclusive open of the claim.  A failed write   *)
(* leaves the torn file; a failed fsync leaves a complete one; both make   *)
(* ClaimStage return an error, and Run then still reports PRECLAIM.        *)
(***************************************************************************)
ClaimWrite(p) ==
    /\ pc[p] = "claimWrite"
    /\ \/ /\ claims' = [claims EXCEPT ![grant[p]] = held[p]]
          /\ Goto(p, "mutate")
          /\ UNCHANGED <<grant, held, result, reply>>
       \/ /\ claims' \in {claims, [claims EXCEPT ![grant[p]] = held[p]]}
          /\ Return(p, "PRECLAIM", Absent)
    /\ UNCHANGED <<fileBacked, outcomes, slot, attempt, late, mutated>>

-----------------------------------------------------------------------------
(***************************************************************************)
(* StageMutator.Mutate: the call that reaches the cluster.                 *)
(***************************************************************************)
MutateWithRetry(p) ==
    /\ pc[p] = "mutate"
    /\ mutated' = [mutated EXCEPT ![grant[p]] = @ + 1]
    /\ Goto(p, "mutating") \/ UNCHANGED pc
    /\ UNCHANGED <<fileBacked, store, late, grant, held, result, reply>>

Mutate(p) ==
    /\ pc[p] = "mutate"
    /\ mutated' = [mutated EXCEPT ![grant[p]] = @ + 1]
    /\ Goto(p, "mutating")
    /\ UNCHANGED <<fileBacked, store, late, grant, held, result, reply>>

(***************************************************************************)
(* The mutator returns.  validateStageMutationResult turns an inconsistent *)
(* result into an error, which leaves the claim without an outcome.  The   *)
(* completion time is read here, when CompleteStageWithTarget is called.   *)
(***************************************************************************)
MutateReturns(p, r, at) ==
    /\ pc[p] = "mutating"
    /\ \/ /\ AcceptedResult(StageOf[grant[p]], r)
          /\ result' = [result EXCEPT ![p] =
                 [claim |-> held[p], result |-> r, completedAt |-> at]]
          /\ Goto(p, "complete")
          /\ UNCHANGED <<grant, held, reply>>
       \/ Fail(p)
    /\ UNCHANGED <<fileBacked, store, late, mutated>>

(***************************************************************************)
(* CompleteStageWithTarget: the stored claim must be the one the caller    *)
(* presents, the completion must not precede it, and the outcome record is *)
(* created.  If one exists, an identical one counts as success.  A create  *)
(* that is given up before it is served is GiveUp below.                   *)
(***************************************************************************)
CanComplete(p) ==
    claims[grant[p]] = held[p] /\ held[p].claimedAt <= result[p].completedAt

CompleteStageWithTarget(p) ==
    LET g == grant[p] IN
    /\ pc[p] = "complete"
    /\ \/ /\ CanComplete(p)
          /\ Creatable(outcomes[g]) \/ ExactReplay(outcomes[g], result[p])
          /\ IF fileBacked /\ Creatable(outcomes[g])
             THEN /\ outcomes' = [outcomes EXCEPT ![g] = Torn]
                  /\ Goto(p, "outcomeWrite")
                  /\ UNCHANGED <<grant, held, result, reply>>
             ELSE /\ outcomes' = [outcomes EXCEPT ![g] = result[p]]
                  /\ \/ /\ Goto(p, "finalize")
                        /\ UNCHANGED <<grant, held, result, reply>>
                     \/ Fail(p)
       \/ /\ Fail(p)
          /\ UNCHANGED outcomes
    /\ UNCHANGED <<fileBacked, claims, slot, attempt, late, mutated>>

OutcomeWrite(p) ==
    /\ pc[p] = "outcomeWrite"
    /\ \/ /\ outcomes' = [outcomes EXCEPT ![grant[p]] = result[p]]
          /\ Goto(p, "finalize")
          /\ UNCHANGED <<grant, held, result, reply>>
       \/ /\ outcomes' \in {outcomes, [outcomes EXCEPT ![grant[p]] = result[p]]}
          /\ Fail(p)
    /\ UNCHANGED <<fileBacked, claims, slot, attempt, late, mutated>>

-----------------------------------------------------------------------------
(***************************************************************************)
(* FinalizeStageReceipt: inspects the grant once more, and derives the     *)
(* receipt from the durable outcome.  A completion time before that of the *)
(* predecessor receipt is refused by verifiedLinks.                        *)
(***************************************************************************)
FinalizeStageReceipt(p) ==
    LET g == grant[p] IN
    /\ pc[p] = "finalize"
    /\ \/ /\ Recorded(claims[g])
          /\ Recorded(outcomes[g])
          /\ outcomes[g].claim = claims[g]
          /\ FollowsPredecessor(g, outcomes[g])
          /\ result' = [result EXCEPT ![p] = outcomes[g]]
          /\ Goto(p, "slot")
          /\ UNCHANGED <<grant, held, reply>>
       \/ Fail(p)
    /\ UNCHANGED <<fileBacked, store, late, mutated>>

Completed(p) == Return(p, "COMPLETED", ReceiptFor(result[p]))

(***************************************************************************)
(* StoreStageReceipt, deterministic slot of the stage.                     *)
(***************************************************************************)
StoreSlot(p) ==
    LET r == ReceiptFor(result[p]) IN
    /\ pc[p] = "slot"
    /\ \/ /\ Creatable(slot[r.stage])
          /\ IF fileBacked
             THEN /\ slot' = [slot EXCEPT ![r.stage] = Torn]
                  /\ Goto(p, "slotWrite")
                  /\ UNCHANGED <<grant, held, result, reply>>
             ELSE /\ slot' = [slot EXCEPT ![r.stage] = r]
                  /\ Completed(p) \/ Fail(p)
       \/ /\ ~Creatable(slot[r.stage])
          /\ Goto(p, "slotRead")
          /\ UNCHANGED <<slot, grant, held, result, reply>>
       \/ /\ Fail(p)
          /\ UNCHANGED slot
    /\ UNCHANGED <<fileBacked, claims, outcomes, attempt, late, mutated>>

SlotWrite(p) ==
    LET r == ReceiptFor(result[p]) IN
    /\ pc[p] = "slotWrite"
    /\ \/ /\ slot' = [slot EXCEPT ![r.stage] = r]
          /\ Completed(p)
       \/ /\ slot' \in {slot, [slot EXCEPT ![r.stage] = r]}
          /\ Fail(p)
    /\ UNCHANGED <<fileBacked, claims, outcomes, attempt, late, mutated>>

(***************************************************************************)
(* The slot is taken.  The same bytes are an exact replay; anything else,  *)
(* a torn file included, sends the receipt to its own attempt slot.        *)
(***************************************************************************)
SlotRead(p) ==
    LET r == ReceiptFor(result[p]) IN
    /\ pc[p] = "slotRead"
    /\ \/ /\ ExactReplay(slot[r.stage], r)
          /\ Completed(p)
       \/ /\ ~ExactReplay(slot[r.stage], r)
          /\ Goto(p, "attempt")
          /\ UNCHANGED <<grant, held, result, reply>>
       \/ Fail(p)
    /\ UNCHANGED <<fileBacked, store, late, mutated>>

(***************************************************************************)
(* StoreStageReceipt, attempt slot named after the digest of the receipt.  *)
(***************************************************************************)
StoreAttempt(p) ==
    LET r == ReceiptFor(result[p]) IN
    /\ pc[p] = "attempt"
    /\ \/ /\ Creatable(attempt[r])
          /\ IF fileBacked
             THEN /\ attempt' = [attempt EXCEPT ![r] = Torn]
                  /\ Goto(p, "attemptWrite")
                  /\ UNCHANGED <<grant, held, result, reply>>
             ELSE /\ attempt' = [attempt EXCEPT ![r] = r]
                  /\ Completed(p) \/ Fail(p)
       \/ /\ ~Creatable(attempt[r])
          /\ Goto(p, "attemptRead")
          /\ UNCHANGED <<attempt, grant, held, result, reply>>
       \/ /\ Fail(p)
          /\ UNCHANGED attempt
    /\ UNCHANGED <<fileBacked, claims, outcomes, slot, late, mutated>>

AttemptWrite(p) ==
    LET r == ReceiptFor(result[p]) IN
    /\ pc[p] = "attemptWrite"
    /\ \/ /\ attempt' = [attempt EXCEPT ![r] = r]
          /\ Completed(p)
       \/ /\ attempt' \in {attempt, [attempt EXCEPT ![r] = r]}
          /\ Fail(p)
    /\ UNCHANGED <<fileBacked, claims, outcomes, slot, late, mutated>>

AttemptRead(p) ==
    LET r == ReceiptFor(result[p]) IN
    /\ pc[p] = "attemptRead"
    /\ \/ /\ ExactReplay(attempt[r], r)
          /\ Completed(p)
       \/ Fail(p)
    /\ UNCHANGED <<fileBacked, store, late, mutated>>

(***************************************************************************)
(* One of the four creates of a run over the Kubernetes store is given up  *)
(* at the timeout of the client or the end of the context, or the process  *)
(* dies meanwhile, before the server has processed it.  (A create under a  *)
(* name that is taken has no effect, whenever it is served.)               *)
(***************************************************************************)
Unserved(to, record) == late' = late \cup {[to |-> to, record |-> record]}

GiveUp(p) ==
    LET g == grant[p]
        r == ReceiptFor(result[p])
    IN
    /\ ~fileBacked
    /\ \/ /\ pc[p] = "claim"
          /\ Creatable(claims[g])
          /\ \E at \in Time :
                ActiveAt(g, at) /\ Unserved("claims", [grant |-> g, claimedAt |-> at])
       \/ /\ pc[p] = "complete"
          /\ Creatable(outcomes[g])
          /\ CanComplete(p) /\ Unserved("outcomes", result[p])
       \/ pc[p] = "slot" /\ Creatable(slot[r.stage]) /\ Unserved("slot", r)
       \/ pc[p] = "attempt" /\ Creatable(attempt[r]) /\ Unserved("attempt", r)
    /\ Fail(p) \/ Dies(p)
    /\ UNCHANGED <<fileBacked, store, mutated>>

(***************************************************************************)
(* The process dies with no request under way: the store stays as it is.   *)
(***************************************************************************)
Crash(p) ==
    /\ pc[p] # "idle"
    /\ Dies(p)
    /\ UNCHANGED <<fileBacked, store, late, mutated>>

(***************************************************************************)
(* The API server serves a create that nobody waits for any more, under    *)
(* the rule it serves all others by.                                       *)
(***************************************************************************)
Served(stored, record) == IF Creatable(stored) THEN record ELSE stored

ServeLate(post) ==
    LET r == post.record IN
    /\ late' = late \ {post}
    /\ \/ /\ post.to = "claims"
          /\ claims' = [claims EXCEPT ![r.grant] = Served(@, r)]
          /\ UNCHANGED <<outcomes, slot, attempt>>
       \/ /\ post.to = "outcomes"
          /\ outcomes' = [outcomes EXCEPT ![r.claim.grant] = Served(@, r)]
          /\ UNCHANGED <<claims, slot, attempt>>
       \/ /\ post.to = "slot"
          /\ slot' = [slot EXCEPT ![r.stage] = Served(@, r)]
          /\ UNCHANGED <<claims, outcomes, attempt>>
       \/ /\ post.to = "attempt"
          /\ attempt' = [attempt EXCEPT ![r] = Served(@, r)]
          /\ UNCHANGED <<claims, outcomes, slot>>
    /\ UNCHANGED <<fileBacked, local, mutated>>

RunStep(p) ==
    \/ InspectStage(p)
    \/ InspectOutcome(p)
    \/ \E at \in Time : ClaimStage(p, at)
    \/ ClaimWrite(p)
    \/ Mutate(p)
    \/ \E r \in MutationResult, at \in Time : MutateReturns(p, r, at)
    \/ CompleteStageWithTarget(p)
    \/ OutcomeWrite(p)
    \/ FinalizeStageReceipt(p)
    \/ StoreSlot(p)
    \/ SlotWrite(p)
    \/ SlotRead(p)
    \/ StoreAttempt(p)
    \/ AttemptWrite(p)
    \/ AttemptRead(p)

Next ==
    \/ \E p \in Process :
          \/ \E g \in Grant : Run(p, g)
          \/ RunStep(p)
          \/ GiveUp(p)
          \/ Crash(p)
    \/ \E post \in late : ServeLate(post)

Spec == Init /\ [][Next]_vars

-----------------------------------------------------------------------------
(***************************************************************************)
(* LoadStageReceipt: the receipt of a given digest is looked up in the     *)
(* deterministic slot of its stage, then in the slot of its own digest.    *)
(***************************************************************************)
LoadStageReceipt(r) == slot[r.stage] = r \/ attempt[r] = r

TypeOK ==
    /\ claims \in [Grant -> StageClaimReceipt \cup {Absent, Torn}]
    /\ outcomes \in [Grant -> StageOutcomeReceipt \cup {Absent, Torn}]
    /\ slot \in [Stage -> StageReceipt \cup {Absent, Torn}]
    /\ attempt \in [StageReceipt -> StageReceipt \cup {Absent, Torn}]
    /\ late \subseteq Post
    /\ pc \in [Process -> Step]
    /\ grant \in [Process -> Grant \cup {Absent}]
    /\ held \in [Process -> StageClaimReceipt \cup {Absent}]
    /\ result \in [Process -> StageOutcomeReceipt \cup {Absent}]
    /\ reply \in [Process -> Reply]
    /\ mutated \in [Grant -> Nat]

(***************************************************************************)
(* "Run invokes at most one mutator", taken over all runs, restarts and    *)
(* lost answers: however many processes are given the same grant, and      *)
(* wherever they crash, the cluster is written at most once under it, and  *)
(* only after a complete claim is durable.                                 *)
(***************************************************************************)
AtMostOneMutation ==
    \A g \in Grant : mutated[g] <= 1 /\ (mutated[g] = 1 => Recorded(claims[g]))

(***************************************************************************)
(* A durable outcome is the outcome of the one mutation made under the     *)
(* stored claim: it embeds that claim, made inside the grant's window, does*)
(* not precede it, and reports a success only of a mutation attempted.     *)
(***************************************************************************)
OutcomeBoundToClaim ==
    \A g \in Grant : Recorded(outcomes[g]) =>
        /\ outcomes[g].claim = claims[g]
        /\ claims[g].grant = g
        /\ claims[g].claimedAt <= outcomes[g].completedAt
        /\ NotBefore[g] <= claims[g].claimedAt /\ claims[g].claimedAt < NotAfter[g]
        /\ outcomes[g].result.outcome = "SUCCEEDED" /\ StageOf[g] \notin EnsureStage
              => outcomes[g].result.mutation = "ATTEMPTED"
        /\ mutated[g] = 1

(***************************************************************************)
(* Every receipt of a mutating stage, in whichever slot, is the one that   *)
(* FinalizeStageReceipt derives from the durable outcome of its grant, so  *)
(* no interleaving of finalizations makes two receipts out of one outcome; *)
(* and a digest a caller got back with COMPLETED_x stays loadable for the  *)
(* bridge to the next stage, also when the deterministic slot is torn or   *)
(* taken by the receipt of another grant.                                  *)
(***************************************************************************)
StoredReceipts == {slot[s] : s \in Stage} \cup {attempt[r] : r \in StageReceipt}

ReceiptBoundToOutcome ==
    /\ \A r \in StoredReceipts \ {Absent, Torn} :
          LET g == r.outcome.claim.grant IN
          /\ outcomes[g] = r.outcome
          /\ r.stage = StageOf[g]
          /\ PredecessorAt[g] <= r.outcome.completedAt
    /\ \A p \in Process :
          reply[p].state = "COMPLETED" => LoadStageReceipt(reply[p].receipt)

(***************************************************************************)
(* "Absence after a claim means STOP/INDETERMINATE, never permission to    *)
(* retry": once the run that consumed a grant is gone and no outcome is on *)
(* record, no later run touches the cluster under the grant or records an  *)
(* outcome of its own.  The grant stays indeterminate, unless the API      *)
(* server still serves the outcome that this very run had posted before it *)
(* gave up or died; there is at most one.                                  *)
(***************************************************************************)
Orphaned(g) ==
    /\ claims[g] # Absent
    /\ outcomes[g] = Absent
    /\ \A p \in Process :
          grant[p] = g => pc[p] \notin {"claimWrite", "mutate", "mutating", "complete"}

LateOutcomes(g) ==
    {post.record : post \in {q \in late : q.to = "outcomes" /\ q.record.claim.grant = g}}

OrphanKept(g) ==
    /\ mutated'[g] = mutated[g]
    /\ \A o1, o2 \in LateOutcomes(g) : o1 = o2
    /\ LateOutcomes(g)' \subseteq LateOutcomes(g)
    /\ Orphaned(g)' \/ outcomes'[g] \in LateOutcomes(g)

OrphanNeverRetried == [][\A g \in Grant : Orphaned(g) => OrphanKept(g)]_vars

(***************************************************************************)
(* The ledger and its concurrent, crashing clients implement GrantOnce: a  *)
(* claim record of any kind consumes the grant, and a complete outcome     *)
(* record is its result.                                                   *)
(***************************************************************************)
Once == INSTANCE GrantOnce WITH
    Result <- MutationResult,
    NoResult <- Absent,
    consumed <- [g \in Grant |-> claims[g] # Absent],
    effects <- mutated,
    recorded <- [g \in Grant |-> IF Recorded(outcomes[g]) THEN outcomes[g].result ELSE Absent]

ImplementsGrantOnce == Once!Spec

=============================================================================
