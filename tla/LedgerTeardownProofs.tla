------------------------ MODULE LedgerTeardownProofs -------------------------
(***************************************************************************)
(* Proofs about the two durable records that decide what may be done to a  *)
(* cluster: the ledger of grants (StageLedger), for any number of executors,*)
(* grants and stages, any clock readings and both kinds of store; and the  *)
(* record of a teardown (ClusterTeardown), for any number of commands,     *)
(* disks, installations and objects that somebody else deletes.  The two   *)
(* do not interact.                                                        *)
(***************************************************************************)
EXTENDS StageLedger, ClusterTeardown, TLAPS

(***************************************************************************)
(* The steps between the creation of the claim and that of the outcome.    *)
(* The run in one of them is the only owner of its grant.                  *)
(***************************************************************************)
Owning == {"claimWrite", "mutate", "mutating", "complete", "outcomeWrite"}

OneOwner ==
    \A p, q \in Process :
        pc[p] \in Owning /\ pc[q] \in Owning /\ grant[p] = grant[q] => p = q

(***************************************************************************)
(* What an owner knows about the records of its grant.                     *)
(***************************************************************************)
OwnerKnows ==
    \A p \in Process : pc[p] \in Owning =>
        LET g == grant[p] IN
        /\ g \in Grant
        /\ held[p] \in StageClaimReceipt
        /\ held[p].grant = g
        /\ ActiveAt(g, held[p].claimedAt)
        /\ claims[g] = (IF pc[p] = "claimWrite" THEN Torn ELSE held[p])
        /\ mutated[g] = (IF pc[p] \in {"claimWrite", "mutate"} THEN 0 ELSE 1)
        /\ outcomes[g] = (IF pc[p] = "outcomeWrite" THEN Torn ELSE Absent)
        /\ pc[p] \in {"complete", "outcomeWrite"} =>
              /\ result[p] \in StageOutcomeReceipt
              /\ result[p].claim = held[p]
              /\ AcceptedResult(StageOf[g], result[p].result)
        /\ pc[p] = "outcomeWrite" => held[p].claimedAt <= result[p].completedAt

(***************************************************************************)
(* A run that is under way has a grant; one that finalizes has an outcome  *)
(* in hand.                                                                *)
(***************************************************************************)
Storing == {"slot", "slotWrite", "slotRead", "attempt", "attemptWrite", "attemptRead"}

RunnerKnows ==
    \A p \in Process :
        /\ pc[p] # "idle" => grant[p] \in Grant
        /\ pc[p] \in {"idle", "inspect", "readOutcome", "claim"} => held[p] = Absent
        /\ pc[p] \in Storing => result[p] \in StageOutcomeReceipt

(***************************************************************************)
(* How the records of one grant depend on each other.                      *)
(***************************************************************************)
RecordsAgree ==
    \A g \in Grant :
        /\ mutated[g] \in {0, 1}
        /\ mutated[g] = 1 => Recorded(claims[g])
        /\ outcomes[g] # Absent => mutated[g] = 1
        /\ Recorded(claims[g]) => claims[g].grant = g /\ ActiveAt(g, claims[g].claimedAt)

(***************************************************************************)
(* What a create that nobody waits for any more may still bring about.  An *)
(* outcome among them is that of the one run that owned its grant: nobody  *)
(* owns the grant since, and no other outcome of it is under way.          *)
(***************************************************************************)
Posted(to, record) == [to |-> to, record |-> record] \in late

Left(o) ==
    LET g == o.claim.grant IN
    /\ claims[g] = o.claim
    /\ mutated[g] = 1
    /\ o.claim.claimedAt <= o.completedAt
    /\ AcceptedResult(StageOf[g], o.result)
    /\ \A p \in Process : pc[p] \in Owning => grant[p] # g
    /\ \A x \in StageOutcomeReceipt :
          Posted("outcomes", x) /\ x.claim.grant = g => x = o

LateKnows ==
    /\ \A r \in StageClaimReceipt : Posted("claims", r) => ActiveAt(r.grant, r.claimedAt)
    /\ \A o \in StageOutcomeReceipt : Posted("outcomes", o) => Left(o)

IInv ==
    /\ TypeOK
    /\ OneOwner /\ OwnerKnows /\ RunnerKnows
    /\ RecordsAgree /\ OutcomeBoundToClaim
    /\ LateKnows

-----------------------------------------------------------------------------
(***************************************************************************)
(* The markers of a missing and of a torn record are not records.          *)
(***************************************************************************)
LEMMA Markers ==
    /\ Absent # Torn
    /\ Absent \notin StageClaimReceipt /\ Torn \notin StageClaimReceipt
    /\ Absent \notin StageOutcomeReceipt /\ Torn \notin StageOutcomeReceipt
    /\ Absent \notin StageReceipt /\ Torn \notin StageReceipt
    /\ Absent \notin Grant /\ Absent \notin MutationResult
BY StoreAssumption

(***************************************************************************)
(* A stored claim or outcome is complete exactly when it is a record.      *)
(***************************************************************************)
LEMMA RecordedIsRecord ==
    ASSUME TypeOK, NEW g \in Grant
    PROVE  /\ Recorded(claims[g]) <=> claims[g] \in StageClaimReceipt
           /\ Recorded(outcomes[g]) <=> outcomes[g] \in StageOutcomeReceipt
BY Markers DEF TypeOK, Recorded

LEMMA InitIInv == Init => IInv
BY Markers, StageLedgerAssumption
   DEF Init, IInv, TypeOK, OneOwner, OwnerKnows, RunnerKnows, RecordsAgree,
       OutcomeBoundToClaim, LateKnows, Posted, Owning, Storing, Step, Recorded, NoReply,
       Reply, RunState

(***************************************************************************)
(* Both ways to end a run, and the step to another label, keep the types   *)
(* of a run's variables.                                                   *)
(***************************************************************************)
LocalOK ==
    /\ pc \in [Process -> Step]
    /\ grant \in [Process -> Grant \cup {Absent}]
    /\ held \in [Process -> StageClaimReceipt \cup {Absent}]
    /\ result \in [Process -> StageOutcomeReceipt \cup {Absent}]
    /\ reply \in [Process -> Reply]

LEMMA ReceiptForType ==
    ASSUME NEW o \in StageOutcomeReceipt
    PROVE  ReceiptFor(o) \in StageReceipt
BY StageLedgerAssumption DEF ReceiptFor, StageReceipt, StageOutcomeReceipt, StageClaimReceipt

LEMMA ReturnType ==
    ASSUME TypeOK, NEW p \in Process, NEW state \in RunState,
           NEW receipt \in StageReceipt \cup {Absent}, Return(p, state, receipt)
    PROVE  LocalOK'
<1>1. [state |-> state, receipt |-> receipt] \in Reply
    BY DEF Reply
<1>2. reply' \in [Process -> Reply]
    BY <1>1 DEF TypeOK, Return
<1> QED
    BY <1>2 DEF LocalOK, TypeOK, Return, Forget, Goto, Step

LEMMA FailType ==
    ASSUME TypeOK, NEW p \in Process, Fail(p)
    PROVE  LocalOK'
BY ReturnType DEF Fail, RunState

LEMMA CompletedType ==
    ASSUME TypeOK, NEW p \in Process, result[p] \in StageOutcomeReceipt, Completed(p)
    PROVE  LocalOK'
BY ReturnType, ReceiptForType DEF Completed, RunState

(***************************************************************************)
(* A quiet step of a run leaves claims, outcomes and mutations alone, does *)
(* not make the run an owner and leaves no outcome behind that is still to *)
(* be served.  Reading the ledger, storing a receipt, returning, crashing  *)
(* and giving up any create but that of an outcome are quiet.              *)
(***************************************************************************)
QuietStep(p) ==
    /\ UNCHANGED <<claims, outcomes, mutated>>
    /\ \A r \in StageClaimReceipt :
          Posted("claims", r)' => Posted("claims", r) \/ ActiveAt(r.grant, r.claimedAt)
    /\ \A o \in StageOutcomeReceipt : Posted("outcomes", o)' => Posted("outcomes", o)
    /\ pc'[p] \notin Owning
    /\ pc'[p] # "idle" => grant'[p] \in Grant
    /\ pc'[p] \in {"idle", "inspect", "readOutcome", "claim"} => held'[p] = Absent
    /\ pc'[p] \in Storing => result'[p] \in StageOutcomeReceipt
    /\ \A q \in Process \ {p} :
          /\ pc'[q] = pc[q] /\ grant'[q] = grant[q]
          /\ held'[q] = held[q] /\ result'[q] = result[q]

(***************************************************************************)
(* Quiet steps preserve the inductive invariant.                           *)
(***************************************************************************)
LEMMA QuietIInv ==
    ASSUME IInv, TypeOK', NEW p \in Process, QuietStep(p)
    PROVE  IInv'
<1>1. OneOwner'
    BY DEF IInv, QuietStep, OneOwner
<1>2. OwnerKnows'
    BY DEF IInv, QuietStep, OwnerKnows
<1>3. RunnerKnows'
    BY DEF IInv, QuietStep, RunnerKnows
<1>4. RecordsAgree'
    BY DEF IInv, QuietStep, RecordsAgree
<1>5. OutcomeBoundToClaim'
    BY DEF IInv, QuietStep, OutcomeBoundToClaim
<1>6. LateKnows'
  <2>1. \A q \in Process : pc'[q] \in Owning => pc[q] \in Owning /\ grant'[q] = grant[q]
      BY DEF QuietStep
  <2>2. ASSUME NEW o \in StageOutcomeReceipt, Posted("outcomes", o)' PROVE Left(o)'
      BY <2>1, <2>2 DEF IInv, QuietStep, LateKnows, Left
  <2>3. ASSUME NEW r \in StageClaimReceipt, Posted("claims", r)'
        PROVE  ActiveAt(r.grant, r.claimedAt)
      BY <2>3 DEF IInv, QuietStep, LateKnows
  <2> QED
      BY <2>2, <2>3 DEF LateKnows
<1> QED
    BY <1>1, <1>2, <1>3, <1>4, <1>5, <1>6 DEF IInv

(***************************************************************************)
(* Every other step of a run concerns one grant, of which no outcome is    *)
(* left to be served: an owner's, or one that has no claim yet.            *)
(***************************************************************************)
LEMMA LateStays ==
    ASSUME IInv, UNCHANGED late, NEW g \in Grant,
           \A o \in StageOutcomeReceipt : Posted("outcomes", o) => o.claim.grant # g,
           \A h \in Grant \ {g} : claims'[h] = claims[h] /\ mutated'[h] = mutated[h],
           \A q \in Process : pc'[q] \in Owning =>
              grant'[q] = g \/ (pc[q] \in Owning /\ grant'[q] = grant[q])
    PROVE  LateKnows'
<1>1. ASSUME NEW o \in StageOutcomeReceipt, Posted("outcomes", o)' PROVE Left(o)'
  <2>1. Posted("outcomes", o) /\ o.claim.grant # g /\ o.claim.grant \in Grant
      BY <1>1 DEF Posted, StageOutcomeReceipt, StageClaimReceipt
  <2> QED
      BY <2>1 DEF IInv, LateKnows, Left, Posted
<1> QED
    BY <1>1 DEF IInv, LateKnows, Posted

LEMMA OwnerLeftNothing ==
    ASSUME IInv, NEW p \in Process, pc[p] \in Owning
    PROVE  /\ grant[p] \in Grant
           /\ \A o \in StageOutcomeReceipt : Posted("outcomes", o) => o.claim.grant # grant[p]
BY DEF IInv, OwnerKnows, LateKnows, Left

-----------------------------------------------------------------------------
(***************************************************************************)
(* One lemma per action.  The first group are the quiet ones.              *)
(***************************************************************************)
LEMMA RunIInv ==
    ASSUME IInv, NEW p \in Process, NEW g \in Grant, Run(p, g)
    PROVE  IInv'
<1>2. TypeOK'
    BY Markers
       DEF IInv, Run, Forget, Goto, TypeOK, Step, Reply, RunState, NoReply,
           store
<1>3. QuietStep(p)
    BY Markers
       DEF IInv, Run, QuietStep, Posted, TypeOK, RunnerKnows, Fail, Return, Completed,
           Forget, Goto, store, Owning, Storing
<1> QED
    BY <1>2, <1>3, QuietIInv

LEMMA InspectStageIInv ==
    ASSUME IInv, NEW p \in Process, InspectStage(p)
    PROVE  IInv'
<1>2. TypeOK'
    BY Markers, FailType, CompletedType, ReturnType
       DEF IInv, InspectStage, TypeOK, LocalOK, Goto, store, Step, RunState,
           RunnerKnows, Storing
<1>3. QuietStep(p)
    BY Markers
       DEF IInv, InspectStage, QuietStep, Posted, TypeOK, RunnerKnows, Fail, Return,
           Completed, Forget, Goto, store, Owning, Storing
<1> QED
    BY <1>2, <1>3, QuietIInv

LEMMA InspectOutcomeIInv ==
    ASSUME IInv, NEW p \in Process, InspectOutcome(p)
    PROVE  IInv'
<1>2. TypeOK'
    BY Markers, FailType, CompletedType, ReturnType
       DEF IInv, InspectOutcome, TypeOK, LocalOK, Goto, store, Step, RunState,
           RunnerKnows, Storing
<1>3. QuietStep(p)
    BY Markers
       DEF IInv, InspectOutcome, QuietStep, Posted, TypeOK, RunnerKnows, Fail, Return,
           Completed, Forget, Goto, store, Owning, Storing
<1> QED
    BY <1>2, <1>3, QuietIInv

LEMMA FinalizeStageReceiptIInv ==
    ASSUME IInv, NEW p \in Process, FinalizeStageReceipt(p)
    PROVE  IInv'
<1>1. Recorded(outcomes[grant[p]]) => outcomes[grant[p]] \in StageOutcomeReceipt
    BY RecordedIsRecord DEF IInv, FinalizeStageReceipt, RunnerKnows
<1>2. TypeOK'
    BY <1>1, Markers, FailType, CompletedType, ReturnType
       DEF IInv, FinalizeStageReceipt, TypeOK, LocalOK, Goto, store, Step,
           RunState, RunnerKnows, Storing
<1>3. QuietStep(p)
    BY <1>1, Markers
       DEF IInv, FinalizeStageReceipt, QuietStep, Posted, TypeOK, RunnerKnows, Fail,
           Return, Completed, Forget, Goto, store, Owning, Storing
<1> QED
    BY <1>2, <1>3, QuietIInv

LEMMA StoreSlotIInv ==
    ASSUME IInv, NEW p \in Process, StoreSlot(p)
    PROVE  IInv'
<1>1. /\ ReceiptFor(result[p]) \in StageReceipt
      /\ ReceiptFor(result[p]).stage \in Stage
    BY ReceiptForType DEF IInv, StoreSlot, RunnerKnows, Storing, StageReceipt
<1>2. TypeOK'
    BY <1>1, Markers, FailType, CompletedType, ReturnType
       DEF IInv, StoreSlot, TypeOK, LocalOK, Goto, store, Step, RunState,
           RunnerKnows, Storing
<1>3. QuietStep(p)
    BY <1>1, Markers
       DEF IInv, StoreSlot, QuietStep, Posted, TypeOK, RunnerKnows, Fail, Return,
           Completed, Forget, Goto, store, Owning, Storing
<1> QED
    BY <1>2, <1>3, QuietIInv

LEMMA SlotWriteIInv ==
    ASSUME IInv, NEW p \in Process, SlotWrite(p)
    PROVE  IInv'
<1>1. /\ ReceiptFor(result[p]) \in StageReceipt
      /\ ReceiptFor(result[p]).stage \in Stage
    BY ReceiptForType DEF IInv, SlotWrite, RunnerKnows, Storing, StageReceipt
<1>2. TypeOK'
    BY <1>1, Markers, FailType, CompletedType, ReturnType
       DEF IInv, SlotWrite, TypeOK, LocalOK, Goto, store, Step, RunState,
           RunnerKnows, Storing
<1>3. QuietStep(p)
    BY <1>1, Markers
       DEF IInv, SlotWrite, QuietStep, Posted, TypeOK, RunnerKnows, Fail, Return,
           Completed, Forget, Goto, store, Owning, Storing
<1> QED
    BY <1>2, <1>3, QuietIInv

LEMMA SlotReadIInv ==
    ASSUME IInv, NEW p \in Process, SlotRead(p)
    PROVE  IInv'
<1>2. TypeOK'
    BY Markers, FailType, CompletedType, ReturnType
       DEF IInv, SlotRead, TypeOK, LocalOK, Goto, store, Step, RunState,
           RunnerKnows, Storing
<1>3. QuietStep(p)
    BY Markers
       DEF IInv, SlotRead, QuietStep, Posted, TypeOK, RunnerKnows, Fail, Return,
           Completed, Forget, Goto, store, Owning, Storing
<1> QED
    BY <1>2, <1>3, QuietIInv

LEMMA StoreAttemptIInv ==
    ASSUME IInv, NEW p \in Process, StoreAttempt(p)
    PROVE  IInv'
<1>1. /\ ReceiptFor(result[p]) \in StageReceipt
      /\ ReceiptFor(result[p]).stage \in Stage
    BY ReceiptForType
       DEF IInv, StoreAttempt, RunnerKnows, Storing, StageReceipt
<1>2. TypeOK'
    BY <1>1, Markers, FailType, CompletedType, ReturnType
       DEF IInv, StoreAttempt, TypeOK, LocalOK, Goto, store, Step, RunState,
           RunnerKnows, Storing
<1>3. QuietStep(p)
    BY <1>1, Markers
       DEF IInv, StoreAttempt, QuietStep, Posted, TypeOK, RunnerKnows, Fail, Return,
           Completed, Forget, Goto, store, Owning, Storing
<1> QED
    BY <1>2, <1>3, QuietIInv

LEMMA AttemptWriteIInv ==
    ASSUME IInv, NEW p \in Process, AttemptWrite(p)
    PROVE  IInv'
<1>1. /\ ReceiptFor(result[p]) \in StageReceipt
      /\ ReceiptFor(result[p]).stage \in Stage
    BY ReceiptForType
       DEF IInv, AttemptWrite, RunnerKnows, Storing, StageReceipt
<1>2. TypeOK'
  <2>1. LocalOK'
      BY FailType, CompletedType DEF IInv, AttemptWrite, RunnerKnows, Storing
  <2>2. attempt' \in [StageReceipt -> StageReceipt \cup {Absent, Torn}]
      BY <1>1 DEF IInv, AttemptWrite, TypeOK
  <2>3. UNCHANGED <<claims, outcomes, slot, late, mutated>>
      BY DEF AttemptWrite
  <2> QED
      BY <2>1, <2>2, <2>3 DEF IInv, TypeOK, LocalOK
<1>3. QuietStep(p)
    BY <1>1, Markers
       DEF IInv, AttemptWrite, QuietStep, Posted, TypeOK, RunnerKnows, Fail, Return,
           Completed, Forget, Goto, store, Owning, Storing
<1> QED
    BY <1>2, <1>3, QuietIInv

LEMMA AttemptReadIInv ==
    ASSUME IInv, NEW p \in Process, AttemptRead(p)
    PROVE  IInv'
<1>2. TypeOK'
    BY Markers, FailType, CompletedType, ReturnType
       DEF IInv, AttemptRead, TypeOK, LocalOK, Goto, store, Step, RunState,
           RunnerKnows, Storing
<1>3. QuietStep(p)
    BY Markers
       DEF IInv, AttemptRead, QuietStep, Posted, TypeOK, RunnerKnows, Fail, Return,
           Completed, Forget, Goto, store, Owning, Storing
<1> QED
    BY <1>2, <1>3, QuietIInv

LEMMA CrashIInv ==
    ASSUME IInv, NEW p \in Process, Crash(p)
    PROVE  IInv'
<1>2. TypeOK'
    BY Markers
       DEF IInv, Crash, Dies, Forget, Goto, TypeOK, Step, Reply, RunState, NoReply,
           store
<1>3. QuietStep(p)
    BY Markers
       DEF IInv, Crash, Dies, NoReply, QuietStep, Posted, TypeOK, RunnerKnows, Fail, Return,
           Completed, Forget, Goto, store, Owning, Storing
<1> QED
    BY <1>2, <1>3, QuietIInv

-----------------------------------------------------------------------------
(***************************************************************************)
(* The second group: the steps that make a run the owner of its grant, and *)
(* those that an owner takes.                                              *)
(***************************************************************************)
LEMMA ClaimStageIInv ==
    ASSUME IInv, NEW p \in Process, NEW at \in Time, ClaimStage(p, at)
    PROVE  IInv'
<1>0. [grant |-> grant[p], claimedAt |-> at] \in StageClaimReceipt
    BY DEF IInv, ClaimStage, RunnerKnows, StageClaimReceipt
<1>1. TypeOK'
    BY <1>0, Markers, FailType, ReturnType
       DEF IInv, ClaimStage, TypeOK, LocalOK, Goto, store, Step, RunState,
           OwnerKnows, RunnerKnows, Owning, ExactReplay
<1>2. OneOwner'
    BY <1>0, Markers, RecordedIsRecord, StageLedgerAssumption
       DEF IInv, ClaimStage, Fail, Return, Forget, Goto, store, TypeOK,
           OneOwner, OwnerKnows, RunnerKnows, Owning, Recorded, Creatable
<1>3. OwnerKnows'
    BY <1>0, Markers, RecordedIsRecord, StageLedgerAssumption
       DEF IInv, ClaimStage, Fail, Return, Forget, Goto, store, TypeOK,
           OneOwner, OwnerKnows, RunnerKnows, RecordsAgree, Owning, Recorded,
           Creatable
<1>4. RunnerKnows'
    BY <1>0, Markers, RecordedIsRecord, StageLedgerAssumption
       DEF IInv, ClaimStage, Fail, Return, Forget, Goto, store, TypeOK,
           OwnerKnows, RunnerKnows, Owning, Storing, Recorded, Creatable
<1>5. RecordsAgree'
    BY <1>0, Markers, RecordedIsRecord, StageLedgerAssumption
       DEF IInv, ClaimStage, Fail, Return, Forget, Goto, store, TypeOK,
           OwnerKnows, RunnerKnows, RecordsAgree, Owning, Recorded, Creatable,
           ExactReplay
<1>6. OutcomeBoundToClaim'
    BY <1>0, Markers, RecordedIsRecord, StageLedgerAssumption
       DEF IInv, ClaimStage, Fail, Return, Forget, Goto, store, TypeOK,
           OwnerKnows, RunnerKnows, RecordsAgree, OutcomeBoundToClaim,
           ActiveAt, AcceptedResult, Owning, Recorded, Creatable, ExactReplay
<1>7. LateKnows'
  <2>1. CASE UNCHANGED claims /\ Fail(p)
    <3>1. UNCHANGED <<outcomes, late, mutated>>
        BY DEF ClaimStage
    <3>2. QuietStep(p)
        BY <2>1, <3>1, Markers
           DEF IInv, QuietStep, Posted, TypeOK, RunnerKnows, Fail, Return, Forget, Goto,
               Owning, Storing
    <3> QED
        BY <1>1, <3>2, QuietIInv DEF IInv
  <2>2. CASE claims[grant[p]] = Absent
    <3>1. /\ grant[p] \in Grant
          /\ \A o \in StageOutcomeReceipt : Posted("outcomes", o) => o.claim.grant # grant[p]
        BY <2>2, Markers
           DEF IInv, RunnerKnows, LateKnows, Left, StageOutcomeReceipt, ClaimStage
    <3>2. /\ UNCHANGED late
          /\ \A h \in Grant \ {grant[p]} : claims'[h] = claims[h] /\ mutated'[h] = mutated[h]
        BY DEF IInv, TypeOK, ClaimStage
    <3>3. \A q \in Process : pc'[q] \in Owning =>
             grant'[q] = grant[p] \/ (pc[q] \in Owning /\ grant'[q] = grant[q])
        BY DEF IInv, TypeOK, ClaimStage, Fail, Return, Forget, Goto, Owning
    <3> QED
        BY <3>1, <3>2, <3>3, LateStays
  <2> QED
      BY <2>1, <2>2 DEF ClaimStage, Creatable
<1> QED
    BY <1>1, <1>2, <1>3, <1>4, <1>5, <1>6, <1>7 DEF IInv

LEMMA ClaimWriteIInv ==
    ASSUME IInv, NEW p \in Process, ClaimWrite(p)
    PROVE  IInv'
<1>1. TypeOK'
    BY Markers, FailType, ReturnType
       DEF IInv, ClaimWrite, TypeOK, LocalOK, Goto, store, Step, RunState,
           OwnerKnows, RunnerKnows, Owning, ExactReplay
<1>2. OneOwner'
    BY Markers, RecordedIsRecord
       DEF IInv, ClaimWrite, Fail, Return, Forget, Goto, store, TypeOK,
           OneOwner, OwnerKnows, RunnerKnows, Owning, Recorded, Creatable
<1>3. OwnerKnows'
    BY Markers, RecordedIsRecord
       DEF IInv, ClaimWrite, Fail, Return, Forget, Goto, store, TypeOK,
           OneOwner, OwnerKnows, RunnerKnows, RecordsAgree, Owning, Recorded,
           Creatable
<1>4. RunnerKnows'
    BY Markers, RecordedIsRecord
       DEF IInv, ClaimWrite, Fail, Return, Forget, Goto, store, TypeOK,
           OwnerKnows, RunnerKnows, Owning, Storing, Recorded, Creatable
<1>5. RecordsAgree'
    BY Markers, RecordedIsRecord
       DEF IInv, ClaimWrite, Fail, Return, Forget, Goto, store, TypeOK,
           OwnerKnows, RunnerKnows, RecordsAgree, Owning, Recorded, Creatable,
           ExactReplay
<1>6. OutcomeBoundToClaim'
    BY Markers, RecordedIsRecord
       DEF IInv, ClaimWrite, Fail, Return, Forget, Goto, store, TypeOK,
           OwnerKnows, RunnerKnows, RecordsAgree, OutcomeBoundToClaim,
           ActiveAt, AcceptedResult, Owning, Recorded, Creatable, ExactReplay
<1>7. LateKnows'
  <2>1. /\ UNCHANGED late
        /\ \A h \in Grant \ {grant[p]} : claims'[h] = claims[h] /\ mutated'[h] = mutated[h]
      BY DEF IInv, TypeOK, ClaimWrite, store
  <2>2. \A q \in Process : pc'[q] \in Owning =>
           grant'[q] = grant[p] \/ (pc[q] \in Owning /\ grant'[q] = grant[q])
      BY DEF IInv, TypeOK, ClaimWrite, Fail, Return, Forget, Goto, Owning
  <2>3. pc[p] \in Owning
      BY DEF ClaimWrite, Owning
  <2> QED
      BY <2>1, <2>2, <2>3, OwnerLeftNothing, LateStays
<1> QED
    BY <1>1, <1>2, <1>3, <1>4, <1>5, <1>6, <1>7 DEF IInv

LEMMA MutateIInv ==
    ASSUME IInv, NEW p \in Process, Mutate(p)
    PROVE  IInv'
<1>1. TypeOK'
    BY Markers, FailType, ReturnType
       DEF IInv, Mutate, TypeOK, LocalOK, Goto, store, Step, RunState,
           OwnerKnows, RunnerKnows, Owning, ExactReplay
<1>2. OneOwner'
    BY Markers, RecordedIsRecord
       DEF IInv, Mutate, Fail, Return, Forget, Goto, store, TypeOK, OneOwner,
           OwnerKnows, RunnerKnows, Owning, Recorded, Creatable
<1>3. OwnerKnows'
    BY Markers, RecordedIsRecord
       DEF IInv, Mutate, Fail, Return, Forget, Goto, store, TypeOK, OneOwner,
           OwnerKnows, RunnerKnows, RecordsAgree, Owning, Recorded, Creatable
<1>4. RunnerKnows'
    BY Markers, RecordedIsRecord
       DEF IInv, Mutate, Fail, Return, Forget, Goto, store, TypeOK,
           OwnerKnows, RunnerKnows, Owning, Storing, Recorded, Creatable
<1>5. RecordsAgree'
    BY Markers, RecordedIsRecord
       DEF IInv, Mutate, Fail, Return, Forget, Goto, store, TypeOK,
           OwnerKnows, RunnerKnows, RecordsAgree, Owning, Recorded, Creatable,
           ExactReplay
<1>6. OutcomeBoundToClaim'
    BY Markers, RecordedIsRecord
       DEF IInv, Mutate, Fail, Return, Forget, Goto, store, TypeOK,
           OwnerKnows, RunnerKnows, RecordsAgree, OutcomeBoundToClaim,
           ActiveAt, AcceptedResult, Owning, Recorded, Creatable, ExactReplay
<1>7. LateKnows'
  <2>1. /\ UNCHANGED late
        /\ \A h \in Grant \ {grant[p]} : claims'[h] = claims[h] /\ mutated'[h] = mutated[h]
      BY DEF IInv, TypeOK, Mutate, store
  <2>2. \A q \in Process : pc'[q] \in Owning =>
           grant'[q] = grant[p] \/ (pc[q] \in Owning /\ grant'[q] = grant[q])
      BY DEF IInv, TypeOK, Mutate, Fail, Return, Forget, Goto, Owning
  <2>3. pc[p] \in Owning
      BY DEF Mutate, Owning
  <2> QED
      BY <2>1, <2>2, <2>3, OwnerLeftNothing, LateStays
<1> QED
    BY <1>1, <1>2, <1>3, <1>4, <1>5, <1>6, <1>7 DEF IInv

LEMMA MutateReturnsIInv ==
    ASSUME IInv, NEW p \in Process, NEW r \in MutationResult, NEW at \in Time,
           MutateReturns(p, r, at)
    PROVE  IInv'
<1>0. [claim |-> held[p], result |-> r, completedAt |-> at] \in StageOutcomeReceipt
    BY DEF IInv, MutateReturns, OwnerKnows, Owning, StageOutcomeReceipt
<1>1. TypeOK'
    BY <1>0, Markers, FailType, ReturnType
       DEF IInv, MutateReturns, TypeOK, LocalOK, Goto, store, Step, RunState,
           OwnerKnows, RunnerKnows, Owning, ExactReplay
<1>2. OneOwner'
    BY <1>0, Markers, RecordedIsRecord, StageLedgerAssumption
       DEF IInv, MutateReturns, Fail, Return, Forget, Goto, store, TypeOK,
           OneOwner, OwnerKnows, RunnerKnows, Owning, Recorded, Creatable
<1>3. OwnerKnows'
    BY <1>0, Markers, RecordedIsRecord, StageLedgerAssumption
       DEF IInv, MutateReturns, Fail, Return, Forget, Goto, store, TypeOK,
           OneOwner, OwnerKnows, RunnerKnows, RecordsAgree, Owning, Recorded,
           Creatable
<1>4. RunnerKnows'
    BY <1>0, Markers, RecordedIsRecord, StageLedgerAssumption
       DEF IInv, MutateReturns, Fail, Return, Forget, Goto, store, TypeOK,
           OwnerKnows, RunnerKnows, Owning, Storing, Recorded, Creatable
<1>5. RecordsAgree'
    BY <1>0, Markers, RecordedIsRecord, StageLedgerAssumption
       DEF IInv, MutateReturns, Fail, Return, Forget, Goto, store, TypeOK,
           OwnerKnows, RunnerKnows, RecordsAgree, Owning, Recorded, Creatable,
           ExactReplay
<1>6. OutcomeBoundToClaim'
    BY <1>0, Markers, RecordedIsRecord, StageLedgerAssumption
       DEF IInv, MutateReturns, Fail, Return, Forget, Goto, store, TypeOK,
           OwnerKnows, RunnerKnows, RecordsAgree, OutcomeBoundToClaim,
           ActiveAt, AcceptedResult, Owning, Recorded, Creatable, ExactReplay
<1>7. LateKnows'
  <2>1. /\ UNCHANGED late
        /\ \A h \in Grant \ {grant[p]} : claims'[h] = claims[h] /\ mutated'[h] = mutated[h]
      BY DEF IInv, TypeOK, MutateReturns, store
  <2>2. \A q \in Process : pc'[q] \in Owning =>
           grant'[q] = grant[p] \/ (pc[q] \in Owning /\ grant'[q] = grant[q])
      BY DEF IInv, TypeOK, MutateReturns, Fail, Return, Forget, Goto, Owning
  <2>3. pc[p] \in Owning
      BY DEF MutateReturns, Owning
  <2> QED
      BY <2>1, <2>2, <2>3, OwnerLeftNothing, LateStays
<1> QED
    BY <1>1, <1>2, <1>3, <1>4, <1>5, <1>6, <1>7 DEF IInv

LEMMA CompleteStageWithTargetIInv ==
    ASSUME IInv, NEW p \in Process, CompleteStageWithTarget(p)
    PROVE  IInv'
<1>1. TypeOK'
    BY Markers, FailType, ReturnType
       DEF IInv, CompleteStageWithTarget, CanComplete, TypeOK, LocalOK, Goto, store, Step,
           RunState, OwnerKnows, RunnerKnows, Owning, ExactReplay
<1>2. OneOwner'
    BY Markers, RecordedIsRecord
       DEF IInv, CompleteStageWithTarget, CanComplete, Fail, Return, Forget, Goto, store,
           TypeOK, OneOwner, OwnerKnows, RunnerKnows, Owning, Recorded,
           Creatable
<1>3. OwnerKnows'
    BY Markers, RecordedIsRecord
       DEF IInv, CompleteStageWithTarget, CanComplete, Fail, Return, Forget, Goto, store,
           TypeOK, OneOwner, OwnerKnows, RunnerKnows, RecordsAgree, Owning,
           Recorded, Creatable
<1>4. RunnerKnows'
    BY Markers, RecordedIsRecord
       DEF IInv, CompleteStageWithTarget, CanComplete, Fail, Return, Forget, Goto, store,
           TypeOK, OwnerKnows, RunnerKnows, Owning, Storing, Recorded,
           Creatable
<1>5. RecordsAgree'
    BY Markers, RecordedIsRecord
       DEF IInv, CompleteStageWithTarget, CanComplete, Fail, Return, Forget, Goto, store,
           TypeOK, OwnerKnows, RunnerKnows, RecordsAgree, Owning, Recorded,
           Creatable, ExactReplay
<1>6. OutcomeBoundToClaim'
    BY Markers, RecordedIsRecord
       DEF IInv, CompleteStageWithTarget, CanComplete, Fail, Return, Forget, Goto, store,
           TypeOK, OwnerKnows, RunnerKnows, RecordsAgree, OutcomeBoundToClaim,
           ActiveAt, AcceptedResult, Owning, Recorded, Creatable, ExactReplay
<1>7. LateKnows'
  <2>1. /\ UNCHANGED late
        /\ \A h \in Grant \ {grant[p]} : claims'[h] = claims[h] /\ mutated'[h] = mutated[h]
      BY DEF IInv, TypeOK, CompleteStageWithTarget, store
  <2>2. \A q \in Process : pc'[q] \in Owning =>
           grant'[q] = grant[p] \/ (pc[q] \in Owning /\ grant'[q] = grant[q])
      BY DEF IInv, TypeOK, CompleteStageWithTarget, Fail, Return, Forget, Goto, Owning
  <2>3. pc[p] \in Owning
      BY DEF CompleteStageWithTarget, Owning
  <2> QED
      BY <2>1, <2>2, <2>3, OwnerLeftNothing, LateStays
<1> QED
    BY <1>1, <1>2, <1>3, <1>4, <1>5, <1>6, <1>7 DEF IInv

LEMMA OutcomeWriteIInv ==
    ASSUME IInv, NEW p \in Process, OutcomeWrite(p)
    PROVE  IInv'
<1>1. TypeOK'
    BY Markers, FailType, ReturnType
       DEF IInv, OutcomeWrite, TypeOK, LocalOK, Goto, store, Step, RunState,
           OwnerKnows, RunnerKnows, Owning, ExactReplay
<1>2. OneOwner'
    BY Markers, RecordedIsRecord
       DEF IInv, OutcomeWrite, Fail, Return, Forget, Goto, store, TypeOK,
           OneOwner, OwnerKnows, RunnerKnows, Owning, Recorded, Creatable
<1>3. OwnerKnows'
    BY Markers, RecordedIsRecord
       DEF IInv, OutcomeWrite, Fail, Return, Forget, Goto, store, TypeOK,
           OneOwner, OwnerKnows, RunnerKnows, RecordsAgree, Owning, Recorded,
           Creatable
<1>4. RunnerKnows'
    BY Markers, RecordedIsRecord
       DEF IInv, OutcomeWrite, Fail, Return, Forget, Goto, store, TypeOK,
           OwnerKnows, RunnerKnows, Owning, Storing, Recorded, Creatable
<1>5. RecordsAgree'
    BY Markers, RecordedIsRecord
       DEF IInv, OutcomeWrite, Fail, Return, Forget, Goto, store, TypeOK,
           OwnerKnows, RunnerKnows, RecordsAgree, Owning, Recorded, Creatable,
           ExactReplay
<1>6. OutcomeBoundToClaim'
    BY Markers, RecordedIsRecord
       DEF IInv, OutcomeWrite, Fail, Return, Forget, Goto, store, TypeOK,
           OwnerKnows, RunnerKnows, RecordsAgree, OutcomeBoundToClaim,
           ActiveAt, AcceptedResult, Owning, Recorded, Creatable, ExactReplay
<1>7. LateKnows'
  <2>1. /\ UNCHANGED late
        /\ \A h \in Grant \ {grant[p]} : claims'[h] = claims[h] /\ mutated'[h] = mutated[h]
      BY DEF IInv, TypeOK, OutcomeWrite, store
  <2>2. \A q \in Process : pc'[q] \in Owning =>
           grant'[q] = grant[p] \/ (pc[q] \in Owning /\ grant'[q] = grant[q])
      BY DEF IInv, TypeOK, OutcomeWrite, Fail, Return, Forget, Goto, Owning
  <2>3. pc[p] \in Owning
      BY DEF OutcomeWrite, Owning
  <2> QED
      BY <2>1, <2>2, <2>3, OwnerLeftNothing, LateStays
<1> QED
    BY <1>1, <1>2, <1>3, <1>4, <1>5, <1>6, <1>7 DEF IInv

-----------------------------------------------------------------------------
(***************************************************************************)
(* The third group: creates that are given up, and served late.            *)
(***************************************************************************)
LEMMA GiveUpEnds ==
    ASSUME IInv, NEW p \in Process, GiveUp(p)
    PROVE  /\ LocalOK'
           /\ UNCHANGED <<store, mutated>>
           /\ pc'[p] = "idle" /\ held'[p] = Absent /\ reply'[p].state # "COMPLETED"
           /\ \A q \in Process \ {p} :
                 /\ pc'[q] = pc[q] /\ grant'[q] = grant[q] /\ held'[q] = held[q]
                 /\ result'[q] = result[q] /\ reply'[q] = reply[q]
<1>1. Fail(p) \/ Dies(p)
    BY DEF GiveUp
<1>2. CASE Fail(p)
    BY <1>2, FailType DEF IInv, TypeOK, GiveUp, Fail, Return, Forget, Goto
<1>3. CASE Dies(p)
    BY <1>3 DEF IInv, TypeOK, LocalOK, GiveUp, Dies, Forget, Goto, NoReply, Reply, RunState,
                Step
<1> QED
    BY <1>1, <1>2, <1>3

LEMMA GiveUpLeaves ==
    ASSUME IInv, NEW p \in Process, GiveUp(p)
    PROVE  \E post \in Post :
              /\ late' = late \cup {post}
              /\ \/ /\ post.to = "claims"
                    /\ claims[post.record.grant] = Absent
                    /\ ActiveAt(post.record.grant, post.record.claimedAt)
                 \/ /\ post.to = "outcomes" /\ post.record = result[p]
                    /\ pc[p] = "complete" /\ CanComplete(p)
                 \/ /\ post.to \in {"slot", "attempt"}
                    /\ post.record = ReceiptFor(result[p]) /\ pc[p] \in Storing
<1>1. CASE pc[p] = "claim"
  <2>1. PICK at \in Time :
            /\ claims[grant[p]] = Absent /\ ActiveAt(grant[p], at)
            /\ late' = late \cup {[to |-> "claims",
                                   record |-> [grant |-> grant[p], claimedAt |-> at]]}
      BY <1>1 DEF GiveUp, Unserved, Creatable
  <2>2. [grant |-> grant[p], claimedAt |-> at] \in StageClaimReceipt
      BY <1>1 DEF IInv, RunnerKnows, StageClaimReceipt
  <2>3. [to |-> "claims", record |-> [grant |-> grant[p], claimedAt |-> at]] \in Post
      BY <2>2 DEF Post
  <2> QED
      BY <2>1, <2>3
<1>2. CASE pc[p] = "complete"
  <2>1. result[p] \in StageOutcomeReceipt
      BY <1>2 DEF IInv, OwnerKnows, Owning
  <2>2. CanComplete(p) /\ late' = late \cup {[to |-> "outcomes", record |-> result[p]]}
      BY <1>2 DEF GiveUp, Unserved
  <2>3. [to |-> "outcomes", record |-> result[p]] \in Post
      BY <2>1 DEF Post
  <2> QED
      BY <1>2, <2>2, <2>3
<1>3. ASSUME NEW to \in {"slot", "attempt"}, pc[p] = to,
             late' = late \cup {[to |-> to, record |-> ReceiptFor(result[p])]}
      PROVE  \E post \in Post :
                /\ late' = late \cup {post}
                /\ post.to \in {"slot", "attempt"}
                /\ post.record = ReceiptFor(result[p]) /\ pc[p] \in Storing
  <2>1. ReceiptFor(result[p]) \in StageReceipt
      BY <1>3, ReceiptForType DEF IInv, RunnerKnows, Storing
  <2>2. [to |-> to, record |-> ReceiptFor(result[p])] \in Post
      BY <2>1 DEF Post
  <2> QED
      BY <1>3, <2>2 DEF Storing
<1> QED
    BY <1>1, <1>2, <1>3 DEF GiveUp, Unserved

LEMMA PostedType ==
    ASSUME IInv, NEW to, NEW record, Posted(to, record)
    PROVE  /\ to = "claims" => record \in StageClaimReceipt
           /\ to = "outcomes" => record \in StageOutcomeReceipt
           /\ to \in {"slot", "attempt"} => record \in StageReceipt
BY DEF IInv, TypeOK, Posted, Post

LEMMA GiveUpIInv ==
    ASSUME IInv, NEW p \in Process, GiveUp(p)
    PROVE  IInv'
<1>1. PICK post \in Post :
          /\ late' = late \cup {post}
          /\ \/ /\ post.to = "claims"
                /\ claims[post.record.grant] = Absent
                /\ ActiveAt(post.record.grant, post.record.claimedAt)
             \/ /\ post.to = "outcomes" /\ post.record = result[p]
                /\ pc[p] = "complete" /\ CanComplete(p)
             \/ /\ post.to \in {"slot", "attempt"}
                /\ post.record = ReceiptFor(result[p]) /\ pc[p] \in Storing
    BY GiveUpLeaves
<1>2. TypeOK'
    BY <1>1, GiveUpEnds DEF IInv, TypeOK, LocalOK, store
<1>3. \A r : /\ Posted("claims", r)' => Posted("claims", r) \/ (post.to = "claims" /\ post.record = r)
             /\ Posted("outcomes", r)' =>
                    Posted("outcomes", r) \/ (post.to = "outcomes" /\ post.record = r)
    BY <1>1 DEF Posted
<1>4. CASE post.to # "outcomes"
  <2>1. QuietStep(p)
      BY <1>1, <1>3, <1>4, GiveUpEnds DEF QuietStep, Owning, Storing, store
  <2> QED
      BY <1>2, <2>1, QuietIInv
<1>5. CASE post.to = "outcomes"
  <2>1. grant[p] \in Grant /\ result[p] \in StageOutcomeReceipt
      BY <1>1, <1>5 DEF IInv, OwnerKnows, Owning
  <2>2. PICK g \in Grant, o \in StageOutcomeReceipt : g = grant[p] /\ o = result[p]
      BY <2>1
  <2>3. /\ g \in Grant /\ o \in StageOutcomeReceipt /\ o.claim = claims[g] /\ o.claim.grant = g
        /\ mutated[g] = 1 /\ o.claim.claimedAt <= o.completedAt
        /\ AcceptedResult(StageOf[g], o.result)
      BY <1>1, <1>5, <2>2 DEF IInv, OwnerKnows, Owning, CanComplete
  <2>4. \A q \in Process : pc'[q] \in Owning => pc[q] \in Owning /\ grant'[q] = grant[q] /\ q # p
      BY GiveUpEnds DEF Owning
  <2>5. \A q \in Process : pc'[q] \in Owning => grant'[q] # g
      BY <1>1, <1>5, <2>2, <2>4 DEF IInv, OneOwner, Owning
  <2>6. \A x \in StageOutcomeReceipt : Posted("outcomes", x) => x.claim.grant # g
      BY <1>1, <1>5, <2>2, OwnerLeftNothing DEF Owning
  <2>7. \A x \in StageOutcomeReceipt : Posted("outcomes", x)' => Posted("outcomes", x) \/ x = o
      BY <1>1, <1>3, <1>5, <2>2
  <2>8. UNCHANGED <<claims, outcomes, mutated>>
      BY GiveUpEnds DEF store
  <2>9. LateKnows'
    <3>1. ASSUME NEW x \in StageOutcomeReceipt, Posted("outcomes", x)', x # o PROVE Left(x)'
      <4>1. Posted("outcomes", x) /\ Left(x)
          BY <2>7, <3>1 DEF IInv, LateKnows
      <4>2. x.claim.grant # g
          BY <2>6, <4>1
      <4> QED
          BY <2>3, <2>4, <2>7, <2>8, <4>1, <4>2 DEF Left
    <3>2. Left(o)'
        BY <2>3, <2>5, <2>6, <2>7, <2>8 DEF Left
    <3>3. \A r \in StageClaimReceipt : Posted("claims", r)' => Posted("claims", r)
        BY <1>3, <1>5
    <3> QED
        BY <3>1, <3>2, <3>3 DEF IInv, LateKnows
  <2>10. OneOwner' /\ RunnerKnows'
      BY <2>4, GiveUpEnds DEF IInv, OneOwner, RunnerKnows, Storing
  <2>11. OwnerKnows'
      BY <2>4, <2>8, GiveUpEnds DEF IInv, OwnerKnows
  <2>12. RecordsAgree' /\ OutcomeBoundToClaim'
      BY <2>8 DEF IInv, RecordsAgree, OutcomeBoundToClaim
  <2> QED
      BY <1>2, <2>9, <2>10, <2>11, <2>12 DEF IInv
<1> QED
    BY <1>4, <1>5

(***************************************************************************)
(* What serving a late create does to the place it is meant for.           *)
(***************************************************************************)
LEMMA ServeLateIInv ==
    ASSUME IInv, NEW post \in late, ServeLate(post)
    PROVE  IInv'
<1> DEFINE r == post.record
<1>1. /\ UNCHANGED <<pc, grant, held, result, reply, mutated>>
      /\ late' \subseteq late /\ Posted(post.to, r)
    BY DEF IInv, TypeOK, Post, Posted, ServeLate, local
<1>2. CASE post.to = "claims"
  <2>1. /\ r \in StageClaimReceipt /\ r.grant \in Grant /\ ActiveAt(r.grant, r.claimedAt)
        /\ UNCHANGED <<outcomes, slot, attempt>>
        /\ claims' = [claims EXCEPT ![r.grant] =
                          IF claims[r.grant] = Absent THEN r ELSE claims[r.grant]]
      BY <1>1, <1>2, PostedType DEF IInv, LateKnows, StageClaimReceipt, ServeLate, Served, Creatable
  <2>2. /\ \A h \in Grant : claims[h] # Absent => claims'[h] = claims[h]
        /\ \A h \in Grant : claims'[h] = claims[h] \/ (h = r.grant /\ claims'[h] = r)
        /\ claims' \in [Grant -> StageClaimReceipt \cup {Absent, Torn}]
      BY <2>1 DEF IInv, TypeOK
  <2> HIDE DEF r
  <2>3. TypeOK'
      BY <1>1, <2>1, <2>2 DEF IInv, TypeOK
  <2>4. OneOwner' /\ RunnerKnows'
      BY <1>1 DEF IInv, OneOwner, RunnerKnows
  <2>5. OwnerKnows'
      BY <1>1, <2>1, <2>2, Markers DEF IInv, OwnerKnows
  <2>6. RecordsAgree'
      BY <1>1, <2>1, <2>2 DEF IInv, RecordsAgree, Recorded
  <2>7. OutcomeBoundToClaim'
    <3>1. \A g \in Grant : Recorded(outcomes[g]) => claims'[g] = claims[g]
        BY <2>2, Markers, RecordedIsRecord
           DEF IInv, OutcomeBoundToClaim, StageOutcomeReceipt
    <3> QED
        BY <1>1, <2>1, <3>1 DEF IInv, OutcomeBoundToClaim
  <2>8. LateKnows'
    <3>1. ASSUME NEW o \in StageOutcomeReceipt, Posted("outcomes", o)' PROVE Left(o)'
      <4>1. Left(o) /\ o.claim.grant \in Grant /\ o.claim # Absent
          BY <1>1, <3>1, Markers DEF IInv, LateKnows, Posted, StageOutcomeReceipt, StageClaimReceipt
      <4> QED
          BY <1>1, <2>2, <4>1 DEF Left, Posted
    <3> QED
        BY <1>1, <3>1 DEF IInv, LateKnows, Posted
  <2> QED
      BY <2>3, <2>4, <2>5, <2>6, <2>7, <2>8 DEF IInv
<1>3. CASE post.to = "outcomes"
  <2> DEFINE g == r.claim.grant
  <2>1. /\ r \in StageOutcomeReceipt /\ g \in Grant /\ Left(r)
        /\ UNCHANGED <<claims, slot, attempt>>
        /\ outcomes' = [outcomes EXCEPT ![g] = IF outcomes[g] = Absent THEN r ELSE outcomes[g]]
      BY <1>1, <1>3, PostedType
         DEF IInv, LateKnows, StageOutcomeReceipt, StageClaimReceipt, ServeLate, Served, Creatable
  <2>2. /\ \A h \in Grant : outcomes'[h] = outcomes[h] \/ (h = g /\ outcomes'[h] = r)
        /\ outcomes' \in [Grant -> StageOutcomeReceipt \cup {Absent, Torn}]
      BY <2>1 DEF IInv, TypeOK
  <2>3. TypeOK'
      BY <1>1, <2>1, <2>2 DEF IInv, TypeOK
  <2>4. OneOwner' /\ RunnerKnows'
      BY <1>1 DEF IInv, OneOwner, RunnerKnows
  <2>5. OwnerKnows'
    <3>1. \A p \in Process : pc[p] \in Owning => grant[p] # g
        BY <2>1 DEF Left
    <3> HIDE DEF r, g
    <3> QED
        BY <1>1, <2>1, <2>2, <3>1 DEF IInv, OwnerKnows
  <2>6. mutated[g] = 1
      BY <2>1 DEF Left
  <2>7. RecordsAgree'
    <3> HIDE DEF r, g
    <3> QED
        BY <1>1, <2>1, <2>2, <2>6 DEF IInv, RecordsAgree
  <2>8. OutcomeBoundToClaim'
    <3>1. /\ r.claim = claims[g] /\ claims[g].grant = g /\ Recorded(claims[g])
          /\ r.claim.claimedAt <= r.completedAt
          /\ AcceptedResult(StageOf[g], r.result)
        BY <2>1, Markers DEF Left, Recorded, StageOutcomeReceipt
    <3>2. ActiveAt(g, claims[g].claimedAt)
        BY <2>1, <3>1 DEF IInv, RecordsAgree
    <3> DEFINE Rests(h, o) ==
                  /\ o.claim = claims[h] /\ claims[h].grant = h
                  /\ claims[h].claimedAt <= o.completedAt
                  /\ NotBefore[h] <= claims[h].claimedAt /\ claims[h].claimedAt < NotAfter[h]
                  /\ o.result.outcome = "SUCCEEDED" /\ StageOf[h] \notin EnsureStage
                        => o.result.mutation = "ATTEMPTED"
                  /\ mutated[h] = 1
    <3>3. Rests(g, r)
        BY <2>6, <3>1, <3>2 DEF AcceptedResult, ActiveAt
    <3>4. \A h \in Grant : Recorded(outcomes[h]) => Rests(h, outcomes[h])
        BY DEF IInv, OutcomeBoundToClaim
    <3>5. \A h \in Grant : Recorded(outcomes'[h]) => Rests(h, outcomes'[h])
      <4> HIDE DEF Rests
      <4> QED
          BY <2>2, <3>3, <3>4
    <3> HIDE DEF r, g
    <3> QED
        BY <1>1, <2>1, <3>5 DEF OutcomeBoundToClaim, Recorded
  <2>9. LateKnows'
      BY <1>1, <2>1 DEF IInv, LateKnows, Left, Posted
  <2> QED
      BY <2>3, <2>4, <2>5, <2>7, <2>8, <2>9 DEF IInv
<1>4. CASE post.to \in {"slot", "attempt"}
  <2>1. /\ r \in StageReceipt /\ r.stage \in Stage /\ UNCHANGED <<claims, outcomes>>
        /\ slot' = slot \/ slot' = [slot EXCEPT ![r.stage] = r]
        /\ attempt' = attempt \/ attempt' = [attempt EXCEPT ![r] = r]
    <3>1. r \in StageReceipt /\ r.stage \in Stage
        BY <1>1, <1>4, PostedType DEF StageReceipt
    <3> QED
        BY <1>4, <3>1 DEF IInv, TypeOK, ServeLate, Served
  <2>2. TypeOK'
      BY <1>1, <2>1 DEF IInv, TypeOK
  <2>3. OneOwner' /\ OwnerKnows' /\ RunnerKnows'
      BY <1>1, <2>1 DEF IInv, OneOwner, OwnerKnows, RunnerKnows
  <2>4. RecordsAgree' /\ OutcomeBoundToClaim'
      BY <1>1, <2>1 DEF IInv, RecordsAgree, OutcomeBoundToClaim
  <2>5. LateKnows'
      BY <1>1, <2>1 DEF IInv, LateKnows, Left, Posted
  <2> QED
      BY <2>2, <2>3, <2>4, <2>5 DEF IInv
<1> QED
    BY <1>2, <1>3, <1>4 DEF ServeLate

-----------------------------------------------------------------------------
(***************************************************************************)
(* IInv is inductive.                                                      *)
(***************************************************************************)
LEMMA NextIInv == IInv /\ [Next]_vars => IInv'
<1> SUFFICES ASSUME IInv, [Next]_vars PROVE IInv'
    OBVIOUS
<1>1. CASE UNCHANGED vars
  <2>1. /\ UNCHANGED <<fileBacked, claims, outcomes, slot, attempt, late>>
        /\ UNCHANGED <<pc, grant, held, result, reply, mutated>>
      BY <1>1 DEF vars, store, local
  <2>2. TypeOK'
      BY <2>1 DEF IInv, TypeOK
  <2>3. OneOwner' /\ OwnerKnows'
      BY <2>1 DEF IInv, OneOwner, OwnerKnows
  <2>4. RunnerKnows'
      BY <2>1 DEF IInv, RunnerKnows
  <2>5. RecordsAgree' /\ OutcomeBoundToClaim'
      BY <2>1 DEF IInv, RecordsAgree, OutcomeBoundToClaim
  <2>6. LateKnows'
      BY <2>1 DEF IInv, LateKnows, Left, Posted
  <2> QED
      BY <2>2, <2>3, <2>4, <2>5, <2>6 DEF IInv
<1>2. ASSUME NEW p \in Process, NEW g \in Grant, Run(p, g) PROVE IInv'
    BY <1>2, RunIInv
<1>3. ASSUME NEW p \in Process, Crash(p) PROVE IInv'
    BY <1>3, CrashIInv
<1>4. ASSUME NEW p \in Process, RunStep(p) PROVE IInv'
  <2>1. CASE InspectStage(p)
      BY <2>1, InspectStageIInv
  <2>2. CASE InspectOutcome(p)
      BY <2>2, InspectOutcomeIInv
  <2>3. CASE ClaimWrite(p)
      BY <2>3, ClaimWriteIInv
  <2>4. CASE Mutate(p)
      BY <2>4, MutateIInv
  <2>5. CASE CompleteStageWithTarget(p)
      BY <2>5, CompleteStageWithTargetIInv
  <2>6. CASE OutcomeWrite(p)
      BY <2>6, OutcomeWriteIInv
  <2>7. CASE FinalizeStageReceipt(p)
      BY <2>7, FinalizeStageReceiptIInv
  <2>8. CASE StoreSlot(p)
      BY <2>8, StoreSlotIInv
  <2>9. CASE SlotWrite(p)
      BY <2>9, SlotWriteIInv
  <2>10. CASE SlotRead(p)
      BY <2>10, SlotReadIInv
  <2>11. CASE StoreAttempt(p)
      BY <2>11, StoreAttemptIInv
  <2>12. CASE AttemptWrite(p)
      BY <2>12, AttemptWriteIInv
  <2>13. CASE AttemptRead(p)
      BY <2>13, AttemptReadIInv
  <2>14. CASE \E at \in Time : ClaimStage(p, at)
      BY <2>14, ClaimStageIInv
  <2>15. CASE \E r \in MutationResult, at \in Time : MutateReturns(p, r, at)
      BY <2>15, MutateReturnsIInv
  <2> QED
      BY <1>4, <2>1, <2>2, <2>3, <2>4, <2>5, <2>6, <2>7, <2>8, <2>9, <2>10,
         <2>11, <2>12, <2>13, <2>14, <2>15 DEF RunStep
<1>5. ASSUME NEW p \in Process, GiveUp(p) PROVE IInv'
    BY <1>5, GiveUpIInv
<1>6. ASSUME NEW post \in late, ServeLate(post) PROVE IInv'
    BY <1>6, ServeLateIInv
<1> QED
    BY <1>1, <1>2, <1>3, <1>4, <1>5, <1>6 DEF Next

(***************************************************************************)
(* The inductive invariant holds in every reachable state.                 *)
(***************************************************************************)
LEMMA SpecIInv == Spec => []IInv
    BY InitIInv, NextIInv, PTL DEF Spec

(***************************************************************************)
(* Type correctness of the ledger and of the runs that use it.             *)
(***************************************************************************)
THEOREM TypeCorrect == Spec => []TypeOK
BY SpecIInv, PTL DEF IInv

(***************************************************************************)
(* Single use: whatever the runs that are given a grant do, fail at or     *)
(* crash in, its mutator is invoked at most once, after a complete claim.  *)
(***************************************************************************)
THEOREM SingleUse == Spec => []AtMostOneMutation
<1>1. IInv => AtMostOneMutation
    BY DEF IInv, RecordsAgree, AtMostOneMutation
<1> QED
    BY <1>1, SpecIInv, PTL

(***************************************************************************)
(* Every durable outcome embeds the stored claim, made inside the grant's  *)
(* window, and reports the one mutation made under it.                     *)
(***************************************************************************)
THEOREM OutcomesBound == Spec => []OutcomeBoundToClaim
<1>1. IInv => OutcomeBoundToClaim
    BY DEF IInv
<1> QED
    BY <1>1, SpecIInv, PTL

-----------------------------------------------------------------------------
(***************************************************************************)
(* The outcomes of a grant that may still be served late: at most one.     *)
(***************************************************************************)
LEMMA LateOutcomesAre ==
    ASSUME IInv, NEW g
    PROVE  /\ \A o : o \in LateOutcomes(g) <=> o.claim.grant = g /\ Posted("outcomes", o)
           /\ \A o1, o2 \in LateOutcomes(g) : o1 = o2
<1>1. ASSUME NEW o, o \in LateOutcomes(g) PROVE o.claim.grant = g /\ Posted("outcomes", o)
  <2>1. PICK post \in late : post.to = "outcomes" /\ post.record = o /\ o.claim.grant = g
      BY <1>1 DEF LateOutcomes
  <2>2. post = [to |-> "outcomes", record |-> o]
      BY <2>1 DEF IInv, TypeOK, Post
  <2> QED
      BY <2>1, <2>2 DEF Posted
<1>2. ASSUME NEW o, o.claim.grant = g, Posted("outcomes", o) PROVE o \in LateOutcomes(g)
  <2>1. PICK post \in late : post = [to |-> "outcomes", record |-> o]
      BY <1>2 DEF Posted
  <2>2. post.to = "outcomes" /\ post.record = o
      BY <2>1
  <2> QED
      BY <1>2, <2>2 DEF LateOutcomes
<1>3. \A o \in LateOutcomes(g) :
         o \in StageOutcomeReceipt /\ o.claim.grant = g /\ Posted("outcomes", o)
    BY <1>1, PostedType
<1>4. \A o1, o2 \in LateOutcomes(g) : o1 = o2
    BY <1>3 DEF IInv, LateKnows, Left
<1> QED
    BY <1>1, <1>2, <1>4

LEMMA NoMoreLate ==
    ASSUME IInv, IInv', NEW g,
           \A o \in StageOutcomeReceipt :
              o.claim.grant = g /\ Posted("outcomes", o)' => Posted("outcomes", o)
    PROVE  LateOutcomes(g)' \subseteq LateOutcomes(g)
<1> SUFFICES ASSUME NEW o \in LateOutcomes(g)' PROVE o \in LateOutcomes(g)
    OBVIOUS
<1>1. PICK post \in late' : post.to = "outcomes" /\ post.record = o /\ o.claim.grant = g
    BY DEF LateOutcomes
<1>2. post = [to |-> "outcomes", record |-> o] /\ o \in StageOutcomeReceipt
    BY <1>1 DEF IInv, TypeOK, Post
<1>3. Posted("outcomes", o)'
    BY <1>1, <1>2 DEF Posted
<1> QED
    BY <1>1, <1>2, <1>3, LateOutcomesAre

(***************************************************************************)
(* An orphaned grant is not retried: from the invariant, the only run that *)
(* could still write its outcome, or call its mutator, is an owner, and an *)
(* existing claim record keeps every other run from becoming one.          *)
(***************************************************************************)
LEMMA OrphanStep ==
    ASSUME IInv, NEW g \in Grant, Orphaned(g), NEW p \in Process,
           (\E h \in Grant : Run(p, h)) \/ RunStep(p) \/ Crash(p)
    PROVE  Orphaned(g)' /\ mutated'[g] = mutated[g] /\ UNCHANGED late
<1>1. \A q \in Process : grant[q] = g => pc[q] \notin Owning
    BY Markers DEF IInv, OwnerKnows, Owning, Orphaned
<1>2. ASSUME NEW h \in Grant, Run(p, h)
      PROVE  Orphaned(g)' /\ mutated'[g] = mutated[g] /\ UNCHANGED late
    BY <1>2 DEF IInv, TypeOK, Orphaned, Run, Goto, store
<1>3. ASSUME Crash(p)
      PROVE  Orphaned(g)' /\ mutated'[g] = mutated[g] /\ UNCHANGED late
    BY <1>3, Markers DEF IInv, TypeOK, Orphaned, Crash, Dies, Forget, Goto, store
<1>4. ASSUME RunStep(p)
      PROVE  Orphaned(g)' /\ mutated'[g] = mutated[g] /\ UNCHANGED late
  <2> USE Markers DEF IInv, TypeOK, Orphaned, Fail, Return, Completed, Forget, Goto, store
  <2>1. CASE InspectStage(p)
      BY <2>1 DEF InspectStage
  <2>2. CASE InspectOutcome(p)
      BY <2>2 DEF InspectOutcome
  <2>3. CASE \E at \in Time : ClaimStage(p, at)
      BY <2>3 DEF ClaimStage, Creatable
  <2>4. CASE ClaimWrite(p)
      BY <2>4, <1>1 DEF ClaimWrite, Owning
  <2>5. CASE Mutate(p)
      BY <2>5, <1>1 DEF Mutate, Owning
  <2>6. CASE \E r \in MutationResult, at \in Time : MutateReturns(p, r, at)
      BY <2>6, <1>1 DEF MutateReturns, Owning
  <2>7. CASE CompleteStageWithTarget(p)
      BY <2>7, <1>1 DEF CompleteStageWithTarget, Owning
  <2>8. CASE OutcomeWrite(p)
      BY <2>8, <1>1 DEF OutcomeWrite, Owning
  <2>9. CASE FinalizeStageReceipt(p)
      BY <2>9 DEF FinalizeStageReceipt
  <2>10. CASE StoreSlot(p) \/ SlotWrite(p) \/ SlotRead(p)
      BY <2>10 DEF StoreSlot, SlotWrite, SlotRead
  <2>11. CASE StoreAttempt(p) \/ AttemptWrite(p) \/ AttemptRead(p)
      BY <2>11 DEF StoreAttempt, AttemptWrite, AttemptRead
  <2> QED
      BY <1>4, <2>1, <2>2, <2>3, <2>4, <2>5, <2>6, <2>7, <2>8, <2>9, <2>10, <2>11
         DEF RunStep
<1> QED
    BY <1>2, <1>3, <1>4

LEMMA OrphanGiveUp ==
    ASSUME IInv, IInv', NEW g \in Grant, Orphaned(g), NEW p \in Process, GiveUp(p)
    PROVE  /\ Orphaned(g)' /\ mutated'[g] = mutated[g]
           /\ LateOutcomes(g)' \subseteq LateOutcomes(g)
<1>1. Orphaned(g)' /\ mutated'[g] = mutated[g]
    BY GiveUpEnds DEF Orphaned, store
<1>2. PICK post \in Post :
          /\ late' = late \cup {post}
          /\ post.to = "outcomes" => post.record = result[p] /\ pc[p] = "complete"
    BY GiveUpLeaves
<1>3. ASSUME NEW o \in StageOutcomeReceipt, o.claim.grant = g, Posted("outcomes", o)'
      PROVE  Posted("outcomes", o)
  <2>1. Posted("outcomes", o) \/ (o = result[p] /\ pc[p] = "complete")
      BY <1>2, <1>3 DEF Posted
  <2>2. pc[p] = "complete" => grant[p] # g /\ result[p].claim.grant = grant[p]
      BY DEF IInv, OwnerKnows, Owning, Orphaned
  <2> QED
      BY <1>3, <2>1, <2>2
<1> QED
    BY <1>1, <1>3, NoMoreLate

LEMMA OrphanServed ==
    ASSUME IInv, IInv', NEW g \in Grant, Orphaned(g), NEW post \in late, ServeLate(post)
    PROVE  /\ mutated'[g] = mutated[g]
           /\ LateOutcomes(g)' \subseteq LateOutcomes(g)
           /\ Orphaned(g)' \/ outcomes'[g] \in LateOutcomes(g)
<1>1. /\ UNCHANGED <<pc, grant, mutated>> /\ late' \subseteq late
      /\ Posted(post.to, post.record)
    BY DEF IInv, TypeOK, Post, Posted, ServeLate, local
<1>2. claims'[g] # Absent
    BY <1>1, PostedType, Markers
       DEF IInv, TypeOK, Orphaned, ServeLate, Served, Creatable, StageClaimReceipt
<1>3. outcomes'[g] = Absent \/ outcomes'[g] \in LateOutcomes(g)
  <2>1. CASE UNCHANGED outcomes
      BY <2>1 DEF Orphaned
  <2>2. CASE post.to = "outcomes"
    <3>1. outcomes'[g] = Absent \/ (outcomes'[g] = post.record /\ post.record.claim.grant = g)
        BY <2>2 DEF IInv, TypeOK, Orphaned, ServeLate, Served
    <3> QED
        BY <1>1, <2>2, <3>1, LateOutcomesAre
  <2> QED
      BY <2>1, <2>2 DEF ServeLate
<1>4. LateOutcomes(g)' \subseteq LateOutcomes(g)
    BY <1>1, NoMoreLate DEF Posted
<1> QED
    BY <1>1, <1>2, <1>3, <1>4 DEF Orphaned

(***************************************************************************)
(* "Absence after a claim means STOP/INDETERMINATE, never permission to    *)
(* retry", for every number of runs and every pattern of crashes, and of   *)
(* creates that are served after their run gave them up or died.           *)
(***************************************************************************)
THEOREM OrphansAreNotRetried == Spec => OrphanNeverRetried
<1>1. ASSUME IInv, IInv', Next, NEW g \in Grant, Orphaned(g) PROVE OrphanKept(g)
  <2>1. CASE \E p \in Process : (\E h \in Grant : Run(p, h)) \/ RunStep(p) \/ Crash(p)
    <3>1. Orphaned(g)' /\ mutated'[g] = mutated[g] /\ UNCHANGED late
        BY <1>1, <2>1, OrphanStep
    <3>2. LateOutcomes(g)' = LateOutcomes(g)
        BY <3>1 DEF LateOutcomes
    <3> QED
        BY <1>1, <3>1, <3>2, LateOutcomesAre DEF OrphanKept
  <2>2. CASE \E p \in Process : GiveUp(p)
      BY <1>1, <2>2, OrphanGiveUp, LateOutcomesAre DEF OrphanKept
  <2>3. CASE \E post \in late : ServeLate(post)
      BY <1>1, <2>3, OrphanServed, LateOutcomesAre DEF OrphanKept
  <2> QED
      BY <1>1, <2>1, <2>2, <2>3 DEF Next
<1>2. IInv /\ IInv' /\ [Next]_vars => [\A g \in Grant : Orphaned(g) => OrphanKept(g)]_vars
    BY <1>1
<1> QED
    BY <1>2, SpecIInv, PTL DEF Spec, OrphanNeverRetried

-----------------------------------------------------------------------------
(***************************************************************************)
(* A step that keeps claims consumed, outcomes and mutations as they are   *)
(* is invisible in GrantOnce.                                              *)
(***************************************************************************)
SameGrants ==
    /\ \A g \in Grant : claims'[g] # Absent <=> claims[g] # Absent
    /\ UNCHANGED mutated
    /\ \A g \in Grant : Recorded(outcomes'[g]) <=> Recorded(outcomes[g])
    /\ \A g \in Grant : Recorded(outcomes[g]) => outcomes'[g] = outcomes[g]

LEMMA SameGrantsStutter == SameGrants => UNCHANGED Once!vars
<1> SUFFICES ASSUME SameGrants PROVE UNCHANGED Once!vars
    OBVIOUS
<1>1. [g \in Grant |-> claims[g] # Absent]' = [g \in Grant |-> claims[g] # Absent]
    BY DEF SameGrants
<1>2. [g \in Grant |-> IF Recorded(outcomes[g]) THEN outcomes[g].result ELSE Absent]'
         = [g \in Grant |-> IF Recorded(outcomes[g]) THEN outcomes[g].result ELSE Absent]
    BY DEF SameGrants, Recorded
<1> QED
    BY <1>1, <1>2 DEF SameGrants, Once!vars

(***************************************************************************)
(* The step in which a run creates a claim consumes its grant.             *)
(***************************************************************************)
LEMMA ClaimRefines ==
    ASSUME IInv, NEW p \in Process, NEW g \in Grant, g = grant[p],
           NEW at \in Time, ClaimStage(p, at)
    PROVE  SameGrants \/ Once!Consume(g)
<1>1. CASE UNCHANGED claims
    BY <1>1 DEF ClaimStage, SameGrants
<1>2. CASE claims' # claims
  <2> DEFINE rec == IF fileBacked THEN Torn ELSE [grant |-> g, claimedAt |-> at]
  <2>1. rec # Absent
      BY Markers DEF StageClaimReceipt
  <2>2. claims[g] = Absent /\ claims' = [claims EXCEPT ![g] = rec]
        /\ UNCHANGED <<outcomes, mutated>>
      BY <1>2 DEF ClaimStage, Creatable
  <2> HIDE DEF rec
  <2>3. [h \in Grant |-> claims[h] # Absent]'
           = [[h \in Grant |-> claims[h] # Absent] EXCEPT ![g] = TRUE]
      BY <2>1, <2>2 DEF IInv, TypeOK
  <2> QED
      BY <2>2, <2>3 DEF Once!Consume
<1> QED
    BY <1>1, <1>2

(***************************************************************************)
(* The call of the mutator is the effect of the grant.                     *)
(***************************************************************************)
LEMMA MutateRefines ==
    ASSUME IInv, NEW p \in Process, NEW g \in Grant, g = grant[p], Mutate(p)
    PROVE  Once!TakeEffect(g)
<1>1. mutated[g] = 0 /\ claims[g] # Absent /\ ~Recorded(outcomes[g])
    BY Markers DEF IInv, OwnerKnows, Owning, Mutate, Recorded
<1>2. mutated' = [mutated EXCEPT ![g] = 1]
    BY <1>1 DEF Mutate, IInv, TypeOK
<1> QED
    BY <1>1, <1>2 DEF Once!TakeEffect, Mutate, store

(***************************************************************************)
(* The step that completes the outcome record is the record of GrantOnce.  *)
(***************************************************************************)
LEMMA OutcomeRefines ==
    ASSUME IInv, NEW p \in Process, pc[p] \in {"complete", "outcomeWrite"},
           NEW g \in Grant, g = grant[p], NEW r \in MutationResult, r = result[p].result,
           outcomes' = [outcomes EXCEPT ![g] = result[p]],
           UNCHANGED <<claims, mutated>>
    PROVE  Once!Record(g, r)
<1> DEFINE rec == [h \in Grant |->
                      IF Recorded(outcomes[h]) THEN outcomes[h].result ELSE Absent]
<1>1. /\ mutated[g] = 1 /\ ~Recorded(outcomes[g])
      /\ result[p] \in StageOutcomeReceipt
    BY Markers DEF IInv, OwnerKnows, Owning, Recorded
<1>2. Recorded(result[p])
    BY <1>1, Markers DEF Recorded
<1>3. rec' = [rec EXCEPT ![g] = r]
    BY <1>1, <1>2 DEF IInv, TypeOK
<1> QED
    BY <1>1, <1>3 DEF Once!Record

(***************************************************************************)
(* A claim that is served late consumes its grant, an outcome that is      *)
(* served late is the record of its grant; a late receipt is invisible.    *)
(***************************************************************************)
LEMMA LateRefines ==
    ASSUME IInv, NEW post \in late, ServeLate(post)
    PROVE  Once!Next \/ SameGrants
<1>1. Posted(post.to, post.record) /\ UNCHANGED mutated
    BY DEF IInv, TypeOK, Post, Posted, ServeLate
<1>2. CASE post.to = "claims"
  <2>1. post.record \in StageClaimReceipt /\ post.record # Absent
      BY <1>1, <1>2, PostedType, Markers
  <2>2. PICK g \in Grant : g = post.record.grant
      BY <2>1 DEF StageClaimReceipt
  <2>3. /\ UNCHANGED outcomes
        /\ claims' = claims \/ (claims[g] = Absent /\ claims' = [claims EXCEPT ![g] = post.record])
      BY <1>2, <2>2 DEF IInv, TypeOK, ServeLate, Served, Creatable
  <2>4. CASE claims' = claims
      BY <1>1, <2>3, <2>4 DEF SameGrants
  <2>5. CASE claims[g] = Absent /\ claims' = [claims EXCEPT ![g] = post.record]
    <3>1. [h \in Grant |-> claims[h] # Absent]'
             = [[h \in Grant |-> claims[h] # Absent] EXCEPT ![g] = TRUE]
        BY <2>1, <2>5 DEF IInv, TypeOK
    <3>2. Once!Consume(g)
        BY <1>1, <2>3, <2>5, <3>1 DEF Once!Consume
    <3> QED
        BY <3>2 DEF Once!Next
  <2> QED
      BY <2>3, <2>4, <2>5
<1>3. CASE post.to = "outcomes"
  <2>1. post.record \in StageOutcomeReceipt /\ Recorded(post.record) /\ Left(post.record)
      BY <1>1, <1>3, PostedType, Markers DEF IInv, LateKnows, Recorded
  <2>2. PICK g \in Grant, r \in MutationResult :
            g = post.record.claim.grant /\ r = post.record.result
      BY <2>1 DEF StageOutcomeReceipt, StageClaimReceipt
  <2>3. /\ UNCHANGED claims /\ mutated[g] = 1
        /\ \/ outcomes' = outcomes
           \/ outcomes[g] = Absent /\ outcomes' = [outcomes EXCEPT ![g] = post.record]
      BY <1>3, <2>1, <2>2 DEF IInv, TypeOK, ServeLate, Served, Creatable, Left
  <2>4. CASE outcomes' = outcomes
      BY <1>1, <2>3, <2>4 DEF SameGrants
  <2>5. CASE outcomes[g] = Absent /\ outcomes' = [outcomes EXCEPT ![g] = post.record]
    <3> DEFINE rec == [h \in Grant |->
                          IF Recorded(outcomes[h]) THEN outcomes[h].result ELSE Absent]
    <3>1. rec' = [rec EXCEPT ![g] = r] /\ rec[g] = Absent
        BY <2>1, <2>2, <2>5 DEF IInv, TypeOK, Recorded
    <3>2. Once!Record(g, r)
        BY <1>1, <2>3, <3>1 DEF Once!Record
    <3> QED
        BY <3>2 DEF Once!Next
  <2> QED
      BY <2>3, <2>4, <2>5
<1> QED
    BY <1>1, <1>2, <1>3 DEF ServeLate, SameGrants

(***************************************************************************)
(* Every step of the ledger is a step of GrantOnce or invisible there.     *)
(***************************************************************************)
LEMMA StepRefines ==
    ASSUME IInv, Next
    PROVE  Once!Next \/ UNCHANGED Once!vars
<1>1. ASSUME NEW p \in Process, NEW g \in Grant, Run(p, g) PROVE SameGrants
    BY <1>1 DEF SameGrants, Run, store
<1>2. ASSUME NEW p \in Process, Crash(p) \/ GiveUp(p) PROVE SameGrants
    BY <1>2 DEF SameGrants, Crash, GiveUp, store
<1>3. ASSUME NEW p \in Process, RunStep(p) PROVE Once!Next \/ SameGrants
  <2>1. CASE \E at \in Time : ClaimStage(p, at)
    <3>1. PICK g \in Grant : g = grant[p]
        BY <2>1 DEF IInv, RunnerKnows, ClaimStage
    <3>2. SameGrants \/ Once!Consume(g)
        BY <2>1, <3>1, ClaimRefines
    <3> QED
        BY <3>2 DEF Once!Next
  <2>2. CASE ClaimWrite(p)
      BY <2>2, Markers DEF ClaimWrite, IInv, TypeOK, OwnerKnows, Owning, SameGrants
  <2>3. CASE Mutate(p)
    <3>1. PICK g \in Grant : g = grant[p]
        BY <2>3 DEF IInv, RunnerKnows, Mutate
    <3>2. Once!TakeEffect(g)
        BY <2>3, <3>1, MutateRefines
    <3> QED
        BY <3>2 DEF Once!Next
  <2>4. CASE CompleteStageWithTarget(p) \/ OutcomeWrite(p)
    <3>1. pc[p] \in {"complete", "outcomeWrite"} /\ UNCHANGED <<claims, mutated>>
        BY <2>4 DEF CompleteStageWithTarget, OutcomeWrite
    <3>2. /\ grant[p] \in Grant /\ ~Recorded(outcomes[grant[p]])
          /\ result[p] \in StageOutcomeReceipt /\ result[p].result \in MutationResult
        BY <3>1 DEF IInv, OwnerKnows, Owning, Recorded, StageOutcomeReceipt
    <3>3. CASE outcomes' = [outcomes EXCEPT ![grant[p]] = result[p]]
      <4>1. PICK g \in Grant, r \in MutationResult : g = grant[p] /\ r = result[p].result
          BY <3>2
      <4>2. Once!Record(g, r)
          BY <3>1, <3>3, <4>1, OutcomeRefines
      <4> QED
          BY <4>2 DEF Once!Next
    <3>4. CASE outcomes' = outcomes \/ outcomes' = [outcomes EXCEPT ![grant[p]] = Torn]
        BY <3>1, <3>2, <3>4 DEF IInv, TypeOK, SameGrants, Recorded
    <3> QED
        BY <2>4, <3>3, <3>4 DEF CompleteStageWithTarget, OutcomeWrite
  <2>5. CASE InspectStage(p) \/ InspectOutcome(p) \/ FinalizeStageReceipt(p)
      BY <2>5 DEF InspectStage, InspectOutcome, FinalizeStageReceipt, SameGrants, store
  <2>6. CASE \E r \in MutationResult, at \in Time : MutateReturns(p, r, at)
      BY <2>6 DEF MutateReturns, SameGrants, store
  <2>7. CASE StoreSlot(p) \/ SlotWrite(p) \/ SlotRead(p)
      BY <2>7 DEF StoreSlot, SlotWrite, SlotRead, SameGrants, store
  <2>8. CASE StoreAttempt(p) \/ AttemptWrite(p) \/ AttemptRead(p)
      BY <2>8 DEF StoreAttempt, AttemptWrite, AttemptRead, SameGrants, store
  <2> QED
      BY <1>3, <2>1, <2>2, <2>3, <2>4, <2>5, <2>6, <2>7, <2>8 DEF RunStep
<1> QED
    BY <1>1, <1>2, <1>3, LateRefines, SameGrantsStutter DEF Next

(***************************************************************************)
(* The initial states of the ledger are those of GrantOnce.                *)
(***************************************************************************)
LEMMA InitRefines == Init => Once!Init
BY DEF Init, Once!Init, Recorded

(***************************************************************************)
(* Refinement: the ledger, its two stores and the crashing, concurrent     *)
(* runs implement the promise of GrantOnce.                                *)
(***************************************************************************)
THEOREM LedgerImplementsGrantOnce == Spec => ImplementsGrantOnce
<1>1. UNCHANGED vars => UNCHANGED Once!vars
    BY SameGrantsStutter DEF SameGrants, vars, store
<1>2. IInv /\ [Next]_vars => [Once!Next]_Once!vars
    BY <1>1, StepRefines
<1> QED
    BY <1>2, InitRefines, SpecIInv, PTL DEF Spec, ImplementsGrantOnce, Once!Spec

-----------------------------------------------------------------------------
(***************************************************************************)
(* The receipts.  An outcome is bound when it is the durable one of its    *)
(* grant and does not precede the predecessor's receipt; a receipt is      *)
(* bound when it is the one derived from a bound outcome.                  *)
(***************************************************************************)
Bound(o) ==
    /\ o.claim.grant \in Grant
    /\ outcomes[o.claim.grant] = o
    /\ PredecessorAt[o.claim.grant] <= o.completedAt

BoundReceipt(r) == r.stage = StageOf[r.outcome.claim.grant] /\ Bound(r.outcome)

(***************************************************************************)
(* A run stores only a receipt of a bound outcome.  The one that creates   *)
(* the file of a slot is its only writer until the file is complete, so no *)
(* complete slot is written again.                                         *)
(***************************************************************************)
SlotOf(p) == StageOf[result[p].claim.grant]

WritersKnow ==
    /\ \A p \in Process : pc[p] \in Storing => Bound(result[p])
    /\ \A p \in Process : pc[p] = "slotWrite" => slot[SlotOf(p)] = Torn
    /\ \A p, q \in Process :
          pc[p] = "slotWrite" /\ pc[q] = "slotWrite" /\ SlotOf(p) = SlotOf(q) => p = q

StoredKnow ==
    /\ \A s \in Stage : Recorded(slot[s]) => BoundReceipt(slot[s])
    /\ \A r \in StageReceipt :
          /\ attempt[r] \in {Absent, Torn, r}
          /\ attempt[r] = r => BoundReceipt(r)

RepliesRest ==
    \A p \in Process : reply[p].state = "COMPLETED" =>
        reply[p].receipt \in StageReceipt /\ LoadStageReceipt(reply[p].receipt)

LateReceiptsKnow ==
    \A r \in StageReceipt : Posted("slot", r) \/ Posted("attempt", r) => BoundReceipt(r)

RInv == IInv /\ WritersKnow /\ StoredKnow /\ RepliesRest /\ LateReceiptsKnow

LEMMA InitRInv == Init => RInv
BY InitIInv, Markers, StageLedgerAssumption
   DEF Init, RInv, WritersKnow, StoredKnow, RepliesRest, LateReceiptsKnow, Posted, Storing,
       Recorded, NoReply

(***************************************************************************)
(* A complete outcome record is never written again.                       *)
(***************************************************************************)
OutcomesKept == \A g \in Grant : Recorded(outcomes[g]) => outcomes'[g] = outcomes[g]

LEMMA StepKeepsOutcomes ==
    ASSUME IInv, Next
    PROVE  OutcomesKept
<1>1. ASSUME NEW p \in Process, NEW g \in Grant, Run(p, g) PROVE OutcomesKept
    BY <1>1 DEF OutcomesKept, Run, store
<1>2. ASSUME NEW p \in Process, Crash(p) \/ GiveUp(p) PROVE OutcomesKept
    BY <1>2 DEF OutcomesKept, Crash, GiveUp, store
<1>3. ASSUME NEW p \in Process, RunStep(p) PROVE OutcomesKept
  <2>1. CASE CompleteStageWithTarget(p) \/ OutcomeWrite(p)
    <3>1. ~Recorded(outcomes[grant[p]])
        BY <2>1 DEF IInv, OwnerKnows, Owning, Recorded, CompleteStageWithTarget, OutcomeWrite
    <3> QED
        BY <2>1, <3>1
           DEF IInv, TypeOK, OutcomesKept, CompleteStageWithTarget, OutcomeWrite
  <2>2. CASE UNCHANGED outcomes
      BY <2>2 DEF OutcomesKept
  <2> QED
      BY <1>3, <2>1, <2>2
         DEF RunStep, InspectStage, InspectOutcome, ClaimStage, ClaimWrite, Mutate,
             MutateReturns, FinalizeStageReceipt, StoreSlot, SlotWrite, SlotRead,
             StoreAttempt, AttemptWrite, AttemptRead, store
<1>4. ASSUME NEW post \in late, ServeLate(post) PROVE OutcomesKept
    BY <1>4 DEF IInv, TypeOK, OutcomesKept, ServeLate, Served, Creatable, Recorded
<1> QED
    BY <1>1, <1>2, <1>3, <1>4 DEF Next

LEMMA BoundStays ==
    ASSUME IInv, OutcomesKept, NEW o, o \notin {Absent, Torn}, Bound(o)
    PROVE  Bound(o)'
BY DEF OutcomesKept, Bound, Recorded

(***************************************************************************)
(* What a run, and the stored receipts, rest on is kept by every step in   *)
(* which the process does not write a receipt.                             *)
(***************************************************************************)
Elsewhere(p) ==
    \A q \in Process \ {p} :
        pc'[q] = pc[q] /\ result'[q] = result[q] /\ reply'[q] = reply[q]

LEMMA ReadingStep ==
    ASSUME RInv, IInv', OutcomesKept, NEW p \in Process, Elsewhere(p),
           UNCHANGED <<slot, attempt>>,
           \A r \in StageReceipt :
              (Posted("slot", r) \/ Posted("attempt", r))' =>
                 Posted("slot", r) \/ Posted("attempt", r) \/ BoundReceipt(r),
           pc'[p] # "slotWrite",
           pc'[p] \in Storing => Bound(result'[p]),
           reply'[p].state = "COMPLETED" =>
               reply'[p].receipt \in StageReceipt /\ LoadStageReceipt(reply'[p].receipt)
    PROVE  RInv'
<1>1. \A q \in Process : pc'[q] \in Storing => result'[q] \notin {Absent, Torn}
    BY Markers DEF RInv, IInv, RunnerKnows
<1>2. \A q \in Process : pc'[q] \in Storing => Bound(result'[q])
    BY DEF RInv, WritersKnow, Elsewhere
<1>3. \A q \in Process : pc'[q] \in Storing => Bound(result[q])'
    BY <1>1, <1>2, BoundStays DEF RInv, Bound, OutcomesKept, Recorded
<1>4. WritersKnow'
    BY <1>3 DEF RInv, WritersKnow, Elsewhere, SlotOf
<1>5. StoredKnow'
  <2>1. ASSUME NEW r \in StageReceipt, BoundReceipt(r) PROVE BoundReceipt(r)'
      BY <2>1, BoundStays, Markers DEF RInv, BoundReceipt, StageReceipt
  <2>2. \A s \in Stage : Recorded(slot[s]) => slot[s] \in StageReceipt
      BY DEF RInv, IInv, TypeOK, Recorded
  <2>3. \A s \in Stage : Recorded(slot[s]) => BoundReceipt(slot[s])'
      BY <2>1, <2>2 DEF RInv, StoredKnow, BoundReceipt, Bound, OutcomesKept
  <2> QED
      BY <2>1, <2>3 DEF RInv, StoredKnow, BoundReceipt, Bound
<1>6. RepliesRest'
    BY DEF RInv, RepliesRest, Elsewhere, LoadStageReceipt
<1>7. LateReceiptsKnow'
  <2>1. ASSUME NEW r \in StageReceipt, BoundReceipt(r) PROVE BoundReceipt(r)'
      BY <2>1, BoundStays, Markers DEF RInv, BoundReceipt, StageReceipt
  <2> QED
      BY <2>1 DEF RInv, LateReceiptsKnow
<1> QED
    BY <1>4, <1>5, <1>6, <1>7 DEF RInv

(***************************************************************************)
(* What an action does to the process that takes it.                       *)
(***************************************************************************)
LEMMA NextElsewhere ==
    ASSUME IInv, NEW p \in Process,
           (\E g \in Grant : Run(p, g)) \/ RunStep(p) \/ GiveUp(p) \/ Crash(p)
    PROVE  Elsewhere(p)
<1>1. CASE (\E g \in Grant : Run(p, g)) \/ Crash(p)
    BY <1>1 DEF IInv, TypeOK, Elsewhere, Run, Crash, Dies, Forget, Goto
<1>2. CASE \/ InspectStage(p) \/ InspectOutcome(p) \/ ClaimWrite(p)
            \/ \E at \in Time : ClaimStage(p, at)
    BY <1>2 DEF IInv, TypeOK, Elsewhere, InspectStage, InspectOutcome, ClaimStage,
                ClaimWrite, Fail, Return, Completed, Forget, Goto
<1>3. CASE \/ Mutate(p) \/ CompleteStageWithTarget(p) \/ OutcomeWrite(p)
            \/ \E r \in MutationResult, at \in Time : MutateReturns(p, r, at)
    BY <1>3 DEF IInv, TypeOK, Elsewhere, Mutate, MutateReturns, CompleteStageWithTarget,
                OutcomeWrite, Fail, Return, Completed, Forget, Goto
<1>4. CASE FinalizeStageReceipt(p) \/ StoreSlot(p) \/ SlotWrite(p) \/ SlotRead(p)
    BY <1>4 DEF IInv, TypeOK, Elsewhere, FinalizeStageReceipt, StoreSlot, SlotWrite,
                SlotRead, Fail, Return, Completed, Forget, Goto
<1>5. CASE StoreAttempt(p) \/ AttemptWrite(p) \/ AttemptRead(p)
    BY <1>5 DEF IInv, TypeOK, Elsewhere, StoreAttempt, AttemptWrite, AttemptRead, Fail,
                Return, Completed, Forget, Goto
<1>6. CASE GiveUp(p)
    BY <1>6, GiveUpEnds DEF Elsewhere
<1> QED
    BY <1>1, <1>2, <1>3, <1>4, <1>5, <1>6 DEF RunStep

LEMMA EarlyStepRInv ==
    ASSUME RInv, IInv', OutcomesKept, NEW p \in Process, Elsewhere(p),
           \/ \E g \in Grant : Run(p, g)
           \/ Crash(p)
           \/ InspectStage(p) \/ InspectOutcome(p)
           \/ (\E at \in Time : ClaimStage(p, at)) \/ ClaimWrite(p) \/ Mutate(p)
           \/ (\E r \in MutationResult, at \in Time : MutateReturns(p, r, at))
           \/ CompleteStageWithTarget(p) \/ OutcomeWrite(p)
    PROVE  RInv'
<1>1. pc'[p] \notin Storing
    BY DEF RInv, IInv, TypeOK, Run, Crash, InspectStage, InspectOutcome, ClaimStage,
           ClaimWrite, Mutate, MutateReturns, CompleteStageWithTarget, OutcomeWrite,
           Dies, Fail, Return, Forget, Goto, Storing
<1>2. UNCHANGED <<slot, attempt, late>>
    BY DEF Run, Crash, InspectStage, InspectOutcome, ClaimStage,
           ClaimWrite, Mutate, MutateReturns, CompleteStageWithTarget, OutcomeWrite, store
<1>3. reply'[p] = reply[p] \/ reply'[p].state # "COMPLETED"
    BY DEF RInv, IInv, TypeOK, Run, Crash, InspectStage, InspectOutcome, ClaimStage,
           ClaimWrite, Mutate, MutateReturns, CompleteStageWithTarget, OutcomeWrite,
           Dies, Fail, Return, Forget, Goto, NoReply
<1> QED
    BY <1>1, <1>2, <1>3, ReadingStep DEF RInv, RepliesRest, Storing, Posted

(***************************************************************************)
(* The reply to a finished run: none, a failure, or the receipt of the     *)
(* outcome it finalized.                                                   *)
(***************************************************************************)
LEMMA ReplyOf ==
    ASSUME IInv, NEW p \in Process
    PROVE  /\ Fail(p) => reply'[p].state # "COMPLETED" /\ pc'[p] = "idle"
           /\ Completed(p) => reply'[p].receipt = ReceiptFor(result[p]) /\ pc'[p] = "idle"
BY DEF IInv, TypeOK, Fail, Completed, Return, Forget, Goto

LEMMA FinalizeStageReceiptRInv ==
    ASSUME RInv, IInv', OutcomesKept, NEW p \in Process, Elsewhere(p),
           FinalizeStageReceipt(p)
    PROVE  RInv'
<1>1. grant[p] \in Grant
    BY DEF RInv, IInv, RunnerKnows, FinalizeStageReceipt
<1>2. pc'[p] # "slotWrite" /\ (pc'[p] \in Storing => Bound(result'[p]))
    BY <1>1, ReplyOf
       DEF RInv, IInv, TypeOK, RecordsAgree, FinalizeStageReceipt, FollowsPredecessor,
           Bound, Goto, Storing
<1>3. reply'[p] = reply[p] \/ reply'[p].state # "COMPLETED"
    BY ReplyOf DEF RInv, FinalizeStageReceipt
<1> QED
    BY <1>2, <1>3, ReadingStep DEF RInv, RepliesRest, FinalizeStageReceipt, Posted, store

LEMMA SlotReadRInv ==
    ASSUME RInv, IInv', OutcomesKept, NEW p \in Process, Elsewhere(p),
           SlotRead(p) \/ AttemptRead(p)
    PROVE  RInv'
<1> DEFINE r == ReceiptFor(result[p])
<1>1. r \in StageReceipt /\ Bound(result[p])
    BY ReceiptForType DEF RInv, IInv, RunnerKnows, WritersKnow, SlotRead, AttemptRead, Storing
<1>2. pc'[p] # "slotWrite" /\ (pc'[p] \in Storing => Bound(result'[p]))
    BY <1>1, ReplyOf DEF RInv, IInv, TypeOK, SlotRead, AttemptRead, Goto, Storing
<1>3. \/ reply'[p] = reply[p] \/ reply'[p].state # "COMPLETED"
      \/ reply'[p].receipt = r /\ LoadStageReceipt(r)
    BY ReplyOf DEF RInv, SlotRead, AttemptRead, ExactReplay, LoadStageReceipt
<1>4. UNCHANGED <<slot, attempt, late>>
    BY DEF SlotRead, AttemptRead, store
<1> QED
    BY <1>1, <1>2, <1>3, <1>4, ReadingStep DEF RInv, RepliesRest, Posted

(***************************************************************************)
(* A create that is given up leaves the receipt of a bound outcome behind, *)
(* if it leaves a receipt.                                                 *)
(***************************************************************************)
LEMMA GiveUpRInv ==
    ASSUME RInv, IInv', OutcomesKept, NEW p \in Process, Elsewhere(p), GiveUp(p)
    PROVE  RInv'
<1>1. PICK post \in Post :
          /\ late' = late \cup {post}
          /\ post.to \in {"slot", "attempt"} =>
                post.record = ReceiptFor(result[p]) /\ pc[p] \in Storing
    BY GiveUpLeaves DEF RInv
<1>2. pc[p] \in Storing => BoundReceipt(ReceiptFor(result[p]))
    BY DEF RInv, WritersKnow, BoundReceipt, ReceiptFor, Bound
<1>3. \A r \in StageReceipt :
         (Posted("slot", r) \/ Posted("attempt", r))' =>
            Posted("slot", r) \/ Posted("attempt", r) \/ BoundReceipt(r)
    BY <1>1, <1>2 DEF Posted
<1>4. /\ UNCHANGED <<slot, attempt>>
      /\ pc'[p] = "idle" /\ reply'[p].state # "COMPLETED"
    BY GiveUpEnds DEF RInv, store
<1> QED
    BY <1>3, <1>4, ReadingStep DEF Storing

(***************************************************************************)
(* The four steps that write a receipt.  Only the slot of the stage can    *)
(* hold the receipt of another grant, and it is written by its creator.    *)
(***************************************************************************)
LEMMA BoundByOutcomes ==
    ASSUME UNCHANGED outcomes, NEW o, Bound(o)
    PROVE  Bound(o)'
BY DEF Bound

LEMMA SlotStepRInv ==
    ASSUME RInv, IInv', NEW p \in Process, Elsewhere(p), StoreSlot(p) \/ SlotWrite(p)
    PROVE  RInv'
<1> DEFINE r == ReceiptFor(result[p])
           s == StageOf[result[p].claim.grant]
<1>1. /\ r \in StageReceipt /\ r.stage = s /\ s \in Stage /\ r.outcome = result[p]
      /\ Bound(result[p]) /\ BoundReceipt(r) /\ pc[p] \in Storing
    BY ReceiptForType, StageLedgerAssumption
       DEF RInv, IInv, RunnerKnows, WritersKnow, StoreSlot, SlotWrite, Storing,
           ReceiptFor, BoundReceipt, Bound
<1>2. UNCHANGED <<claims, outcomes, attempt>>
    BY DEF StoreSlot, SlotWrite
<1>3. slot[s] \in {Absent, Torn} \/ UNCHANGED slot
    BY <1>1 DEF RInv, WritersKnow, StoreSlot, SlotWrite, Creatable, SlotOf
<1>4. slot' = slot \/ slot' = [slot EXCEPT ![s] = Torn] \/ slot' = [slot EXCEPT ![s] = r]
    BY <1>1 DEF StoreSlot, SlotWrite
<1>5. \A t \in Stage \ {s} : slot'[t] = slot[t]
    BY <1>4 DEF RInv, IInv, TypeOK
<1>6. slot'[s] \in {slot[s], Torn, r}
    BY <1>1, <1>4 DEF RInv, IInv, TypeOK
<1>7. \A t \in Stage : Recorded(slot[t]) => slot'[t] = slot[t]
    BY <1>3, <1>5 DEF Recorded
<1>8. \A x \in StageReceipt : BoundReceipt(x) => BoundReceipt(x)'
    BY <1>2 DEF BoundReceipt, Bound
<1>9. StoredKnow'
  <2>1. \A t \in Stage : Recorded(slot'[t]) => slot'[t] = slot[t] \/ slot'[t] = r
      BY <1>5, <1>6 DEF Recorded
  <2>2. \A t \in Stage : Recorded(slot'[t]) => BoundReceipt(slot'[t])
      BY <1>1, <2>1 DEF RInv, StoredKnow
  <2>3. \A t \in Stage : Recorded(slot'[t]) => BoundReceipt(slot[t])'
      BY <1>2, <2>2 DEF BoundReceipt, Bound
  <2> QED
      BY <1>2, <1>8, <2>3 DEF RInv, StoredKnow, Recorded
<1>10. WritersKnow'
  <2>1. pc'[p] = "slotWrite" => slot[s] = Absent /\ slot'[s] = Torn /\ result'[p] = result[p]
    <3>1. SlotWrite(p) => pc'[p] = "idle"
        BY ReplyOf DEF RInv, SlotWrite
    <3>2. CASE StoreSlot(p) /\ pc'[p] = "slotWrite"
      <4>1. ~Fail(p) /\ ~Completed(p) /\ ~Goto(p, "slotRead")
          BY <3>2, ReplyOf DEF RInv, IInv, TypeOK, Goto
      <4>2. slot[s] = Absent /\ slot' = [slot EXCEPT ![s] = Torn] /\ result' = result
          BY <1>1, <3>2, <4>1 DEF StoreSlot, Creatable
      <4> QED
          BY <1>1, <4>2 DEF RInv, IInv, TypeOK
    <3> QED
        BY <3>1, <3>2
  <2>2. pc'[p] \in Storing => result'[p] = result[p]
      BY ReplyOf DEF RInv, IInv, TypeOK, StoreSlot, SlotWrite, Storing
  <2>3. \A q \in Process : pc'[q] \in Storing => Bound(result'[q])
      BY <1>1, <2>2 DEF RInv, WritersKnow, Elsewhere
  <2>4. \A q \in Process : pc'[q] \in Storing => Bound(result[q])'
      BY <1>2, <2>3 DEF Bound
  <2>5. \A q \in Process \ {p} : pc[q] = "slotWrite" => slot[SlotOf(q)] = Torn
      BY DEF RInv, WritersKnow
  <2>6. \A q \in Process \ {p} : pc[q] = "slotWrite" => SlotOf(q) \in Stage
      BY StageLedgerAssumption DEF RInv, WritersKnow, SlotOf, Bound, Storing
  <2>7. ASSUME NEW q \in Process \ {p}, pc[q] = "slotWrite", SlotOf(q) = s
        PROVE  slot'[s] = slot[s] /\ pc'[p] # "slotWrite"
    <3>1. pc[p] # "slotWrite"
        BY <2>7 DEF RInv, WritersKnow, SlotOf
    <3>2. slot[s] = Torn
        BY <2>5, <2>7
    <3> QED
        BY <3>1, <3>2, <1>1, <2>1, Markers DEF StoreSlot, SlotWrite, Creatable
  <2>8. \A q \in Process \ {p} : pc[q] = "slotWrite" =>
            slot'[SlotOf(q)] = Torn /\ (SlotOf(q) = s => pc'[p] # "slotWrite")
      BY <1>5, <2>5, <2>6, <2>7
  <2>9. \A q \in Process \ {p} : pc'[q] = pc[q] /\ SlotOf(q)' = SlotOf(q)
      BY DEF Elsewhere, SlotOf
  <2>10. pc'[p] = "slotWrite" => SlotOf(p)' = s
      BY <2>1 DEF SlotOf
  <2>11. \A q \in Process : pc'[q] = "slotWrite" => slot'[SlotOf(q)'] = Torn
      BY <2>1, <2>8, <2>9, <2>10
  <2>12. \A q1, q2 \in Process :
            pc'[q1] = "slotWrite" /\ pc'[q2] = "slotWrite" /\ SlotOf(q1)' = SlotOf(q2)'
               => q1 = q2
      BY <2>8, <2>9, <2>10 DEF RInv, WritersKnow
  <2> QED
      BY <2>4, <2>11, <2>12 DEF WritersKnow
<1>11. RepliesRest'
  <2>1. \A x \in StageReceipt : LoadStageReceipt(x) => LoadStageReceipt(x)'
      BY <1>2, <1>7, Markers DEF LoadStageReceipt, Recorded, StageReceipt
  <2>2. \/ reply'[p] = reply[p] \/ reply'[p].state # "COMPLETED"
        \/ reply'[p].receipt = r /\ slot' = [slot EXCEPT ![s] = r]
      BY <1>1, ReplyOf DEF RInv, StoreSlot, SlotWrite
  <2>3. ASSUME NEW x \in StageReceipt, x = r, slot' = [slot EXCEPT ![s] = r]
        PROVE  LoadStageReceipt(x)'
    <3>1. slot'[s] = x /\ x.stage = s
        BY <1>1, <2>3 DEF RInv, IInv, TypeOK
    <3> QED
        BY <3>1 DEF LoadStageReceipt
  <2>4. reply'[p].state = "COMPLETED" =>
            reply'[p].receipt \in StageReceipt /\ LoadStageReceipt(reply[p].receipt)'
    <3>1. CASE reply'[p] = reply[p] /\ reply[p].state = "COMPLETED"
      <4>1. PICK x \in StageReceipt : x = reply[p].receipt /\ LoadStageReceipt(x)
          BY <3>1 DEF RInv, RepliesRest
      <4> QED
          BY <4>1, <3>1, <2>1 DEF LoadStageReceipt
    <3>2. CASE reply'[p].receipt = r /\ slot' = [slot EXCEPT ![s] = r]
      <4>1. PICK x \in StageReceipt : x = r
          BY <1>1
      <4> QED
          BY <4>1, <3>2, <2>3 DEF LoadStageReceipt
    <3> QED
        BY <2>2, <3>1, <3>2
  <2>5. ASSUME NEW q \in Process \ {p}, reply'[q].state = "COMPLETED"
        PROVE  reply'[q].receipt \in StageReceipt /\ LoadStageReceipt(reply[q].receipt)'
    <3>1. PICK x \in StageReceipt : x = reply[q].receipt /\ LoadStageReceipt(x)
        BY <2>5 DEF RInv, RepliesRest, Elsewhere
    <3> QED
        BY <3>1, <2>1 DEF LoadStageReceipt, Elsewhere
  <2> QED
      BY <2>4, <2>5 DEF RepliesRest
<1>12. LateReceiptsKnow'
    BY <1>8 DEF RInv, LateReceiptsKnow, Posted, StoreSlot, SlotWrite
<1> QED
    BY <1>9, <1>10, <1>11, <1>12 DEF RInv

LEMMA AttemptStepRInv ==
    ASSUME RInv, IInv', NEW p \in Process, Elsewhere(p), StoreAttempt(p) \/ AttemptWrite(p)
    PROVE  RInv'
<1>1. /\ ReceiptFor(result[p]) \in StageReceipt
      /\ ReceiptFor(result[p]).outcome = result[p]
      /\ Bound(result[p]) /\ BoundReceipt(ReceiptFor(result[p]))
    BY ReceiptForType
       DEF RInv, IInv, RunnerKnows, WritersKnow, StoreAttempt, AttemptWrite, Storing,
           ReceiptFor, BoundReceipt, Bound
<1>2. PICK r \in StageReceipt : r = ReceiptFor(result[p])
    BY <1>1
<1>3. UNCHANGED <<claims, outcomes, slot>>
    BY DEF StoreAttempt, AttemptWrite
<1>4. /\ attempt'[r] \in {attempt[r], Torn, r}
      /\ attempt[r] = r => attempt'[r] = r
      /\ \A x \in StageReceipt \ {r} : attempt'[x] = attempt[x]
    BY <1>2, Markers DEF RInv, IInv, TypeOK, StoreAttempt, AttemptWrite, Creatable
<1>5. \A x \in StageReceipt : BoundReceipt(x) => BoundReceipt(x)'
    BY <1>3 DEF BoundReceipt, Bound
<1>6. StoredKnow'
  <2>1. \A t \in Stage : Recorded(slot[t]) => BoundReceipt(slot[t])'
      BY <1>3 DEF RInv, StoredKnow, BoundReceipt, Bound
  <2>2. \A x \in StageReceipt : attempt'[x] \in {Absent, Torn, x}
      BY <1>4 DEF RInv, StoredKnow
  <2>3. \A x \in StageReceipt : attempt'[x] = x => attempt[x] = x \/ x = r
      BY <1>4
  <2> QED
      BY <1>1, <1>2, <1>3, <1>5, <2>1, <2>2, <2>3 DEF RInv, StoredKnow, Recorded
<1>7. pc'[p] # "slotWrite" /\ (pc'[p] \in Storing => result'[p] = result[p])
    BY ReplyOf DEF RInv, IInv, TypeOK, StoreAttempt, AttemptWrite, Goto, Storing
<1>8. WritersKnow'
  <2>1. \A q \in Process : pc'[q] \in Storing => Bound(result'[q])
      BY <1>1, <1>7 DEF RInv, WritersKnow, Elsewhere
  <2>2. \A q \in Process : pc'[q] \in Storing => Bound(result[q])'
      BY <1>3, <2>1 DEF Bound
  <2> QED
      BY <1>3, <1>7, <2>2 DEF RInv, WritersKnow, Elsewhere, SlotOf
<1>9. RepliesRest'
  <2>1. \A x \in StageReceipt : LoadStageReceipt(x) => LoadStageReceipt(x)'
      BY <1>3, <1>4 DEF LoadStageReceipt
  <2>2. \/ reply'[p] = reply[p] \/ reply'[p].state # "COMPLETED"
        \/ reply'[p].receipt = r /\ attempt'[r] = r
      BY <1>2, ReplyOf DEF RInv, IInv, TypeOK, StoreAttempt, AttemptWrite
  <2>3. ASSUME NEW q \in Process, reply'[q].state = "COMPLETED"
        PROVE  reply'[q].receipt \in StageReceipt /\ LoadStageReceipt(reply[q].receipt)'
    <3>1. CASE reply'[q] = reply[q]
      <4>1. PICK x \in StageReceipt : x = reply[q].receipt /\ LoadStageReceipt(x)
          BY <2>3, <3>1 DEF RInv, RepliesRest
      <4> QED
          BY <4>1, <3>1, <2>1 DEF LoadStageReceipt
    <3>2. CASE q = p /\ reply'[p].receipt = r /\ attempt'[r] = r
        BY <3>2 DEF LoadStageReceipt
    <3> QED
        BY <2>2, <2>3, <3>1, <3>2 DEF Elsewhere
  <2> QED
      BY <2>3 DEF RepliesRest
<1>10. LateReceiptsKnow'
    BY <1>5 DEF RInv, LateReceiptsKnow, Posted, StoreAttempt, AttemptWrite
<1> QED
    BY <1>6, <1>8, <1>9, <1>10 DEF RInv

(***************************************************************************)
(* A receipt that is served late takes its slot only if that is free.      *)
(***************************************************************************)
LEMMA ServeLateRInv ==
    ASSUME RInv, IInv', OutcomesKept, NEW post \in late, ServeLate(post)
    PROVE  RInv'
<1>1. /\ UNCHANGED <<pc, grant, held, result, reply>>
      /\ late' \subseteq late /\ Posted(post.to, post.record)
    BY DEF RInv, IInv, TypeOK, Post, Posted, ServeLate, local
<1>2. \A x \in StageReceipt : BoundReceipt(x) => BoundReceipt(x)'
    BY BoundStays, Markers DEF RInv, BoundReceipt, StageReceipt
<1>3. /\ \A s \in Stage : \/ slot'[s] = slot[s]
                          \/ /\ slot[s] = Absent /\ slot'[s] = post.record
                             /\ post.record \in StageReceipt /\ Posted("slot", post.record)
      /\ \A x \in StageReceipt : \/ attempt'[x] = attempt[x]
                                 \/ /\ attempt[x] = Absent /\ attempt'[x] = x
                                    /\ Posted("attempt", x)
  <2>1. CASE post.to = "slot"
    <3>1. post.record \in StageReceipt /\ Posted("slot", post.record)
        BY <1>1, <2>1, PostedType DEF RInv
    <3> QED
        BY <2>1, <3>1 DEF RInv, IInv, TypeOK, ServeLate, Served, Creatable
  <2>2. CASE post.to = "attempt"
    <3>1. post.record \in StageReceipt /\ Posted("attempt", post.record)
        BY <1>1, <2>2, PostedType DEF RInv
    <3> QED
        BY <2>2, <3>1 DEF RInv, IInv, TypeOK, ServeLate, Served, Creatable
  <2> QED
      BY <2>1, <2>2 DEF ServeLate
<1>4. WritersKnow'
  <2>1. ASSUME NEW q \in Process, pc[q] \in Storing PROVE Bound(result[q])'
    <3>1. PICK o \in StageOutcomeReceipt : o = result[q] /\ Bound(o)
        BY <2>1 DEF RInv, IInv, RunnerKnows, WritersKnow
    <3>2. Bound(o)'
        BY <3>1, BoundStays, Markers DEF RInv
    <3> QED
        BY <1>1, <3>1, <3>2 DEF Bound
  <2>2. \A q \in Process : pc[q] = "slotWrite" => SlotOf(q) \in Stage /\ slot[SlotOf(q)] = Torn
      BY StageLedgerAssumption DEF RInv, WritersKnow, SlotOf, Bound, Storing
  <2>3. \A q \in Process : pc[q] = "slotWrite" => slot'[SlotOf(q)] = Torn
      BY <1>3, <2>2, Markers
  <2> QED
      BY <1>1, <2>1, <2>3 DEF RInv, WritersKnow, SlotOf, Bound
<1>5. StoredKnow'
  <2>1. ASSUME NEW s \in Stage, Recorded(slot'[s]) PROVE BoundReceipt(slot[s])'
    <3>1. PICK x \in StageReceipt : x = slot'[s] /\ BoundReceipt(x)
        BY <1>3, <2>1 DEF RInv, IInv, TypeOK, StoredKnow, LateReceiptsKnow, Recorded
    <3> QED
        BY <1>2, <3>1 DEF BoundReceipt, Bound
  <2>2. ASSUME NEW x \in StageReceipt
        PROVE  /\ attempt'[x] \in {Absent, Torn, x}
               /\ attempt'[x] = x => BoundReceipt(x)'
      BY <1>2, <1>3, Markers DEF RInv, StoredKnow, LateReceiptsKnow
  <2> QED
      BY <2>1, <2>2 DEF StoredKnow, Recorded
<1>6. RepliesRest'
  <2>1. ASSUME NEW x \in StageReceipt, LoadStageReceipt(x) PROVE LoadStageReceipt(x)'
      BY <1>3, <2>1, Markers DEF LoadStageReceipt, StageReceipt
  <2>2. ASSUME NEW q \in Process, reply[q].state = "COMPLETED"
        PROVE  reply[q].receipt \in StageReceipt /\ LoadStageReceipt(reply[q].receipt)'
    <3>1. PICK x \in StageReceipt : x = reply[q].receipt /\ LoadStageReceipt(x)
        BY <2>2 DEF RInv, RepliesRest
    <3> QED
        BY <1>1, <2>1, <3>1 DEF LoadStageReceipt
  <2> QED
      BY <1>1, <2>2 DEF RepliesRest
<1>7. LateReceiptsKnow'
    BY <1>1, <1>2 DEF RInv, LateReceiptsKnow, Posted
<1> QED
    BY <1>4, <1>5, <1>6, <1>7 DEF RInv

(***************************************************************************)
(* RInv is inductive.                                                      *)
(***************************************************************************)
LEMMA NextRInv == RInv /\ [Next]_vars => RInv'
<1> SUFFICES ASSUME RInv, [Next]_vars PROVE RInv'
    OBVIOUS
<1>1. IInv'
    BY NextIInv DEF RInv
<1>2. CASE UNCHANGED vars
    BY <1>1, <1>2
       DEF RInv, WritersKnow, StoredKnow, RepliesRest, LateReceiptsKnow, Posted,
           BoundReceipt, Bound, SlotOf, LoadStageReceipt, vars, store, local
<1>3. ASSUME NEW p \in Process,
             (\E g \in Grant : Run(p, g)) \/ RunStep(p) \/ GiveUp(p) \/ Crash(p)
      PROVE  RInv'
  <2>1. OutcomesKept
      BY <1>3, StepKeepsOutcomes DEF RInv, Next
  <2>2. Elsewhere(p)
      BY <1>3, NextElsewhere DEF RInv
  <2>3. CASE GiveUp(p)
      BY <1>1, <2>1, <2>2, <2>3, GiveUpRInv
  <2>4. CASE \/ \E g \in Grant : Run(p, g)
             \/ Crash(p)
             \/ InspectStage(p) \/ InspectOutcome(p)
             \/ (\E at \in Time : ClaimStage(p, at)) \/ ClaimWrite(p) \/ Mutate(p)
             \/ (\E r \in MutationResult, at \in Time : MutateReturns(p, r, at))
             \/ CompleteStageWithTarget(p) \/ OutcomeWrite(p)
      BY <1>1, <2>1, <2>2, <2>4, EarlyStepRInv
  <2>5. CASE FinalizeStageReceipt(p)
      BY <1>1, <2>1, <2>2, <2>5, FinalizeStageReceiptRInv
  <2>6. CASE StoreSlot(p) \/ SlotWrite(p)
      BY <1>1, <2>2, <2>6, SlotStepRInv
  <2>7. CASE SlotRead(p) \/ AttemptRead(p)
      BY <1>1, <2>1, <2>2, <2>7, SlotReadRInv
  <2>8. CASE StoreAttempt(p) \/ AttemptWrite(p)
      BY <1>1, <2>2, <2>8, AttemptStepRInv
  <2> QED
      BY <1>3, <2>3, <2>4, <2>5, <2>6, <2>7, <2>8 DEF RunStep
<1>4. ASSUME NEW post \in late, ServeLate(post) PROVE RInv'
  <2>1. OutcomesKept
      BY <1>4, StepKeepsOutcomes DEF RInv, Next
  <2> QED
      BY <1>1, <1>4, <2>1, ServeLateRInv
<1> QED
    BY <1>2, <1>3, <1>4 DEF Next

(***************************************************************************)
(* Every receipt in a slot is the one derived from the durable outcome of  *)
(* its grant, in the order of the plan, and a receipt a caller was told of *)
(* stays loadable, whichever slot it went to and whoever else writes.      *)
(***************************************************************************)
THEOREM ReceiptsBound == Spec => []ReceiptBoundToOutcome
<1>1. RInv => ReceiptBoundToOutcome
  <2> SUFFICES ASSUME RInv PROVE ReceiptBoundToOutcome
      OBVIOUS
  <2>1. \A r \in StoredReceipts \ {Absent, Torn} : BoundReceipt(r)
      BY DEF RInv, StoredKnow, StoredReceipts, Recorded
  <2> QED
      BY <2>1 DEF RInv, RepliesRest, ReceiptBoundToOutcome, BoundReceipt, Bound
<1> QED
    BY <1>1, InitRInv, NextRInv, PTL DEF Spec

-----------------------------------------------------------------------------
(***************************************************************************)
(* ClusterTeardown.  What of the world a record can be compared with: what *)
(* exists, by identity.                                                    *)
(***************************************************************************)
World ==
    [split |-> split, gen |-> gen, cluster |-> cluster.uid,
     ns |-> [plane \in Planes |-> ns[plane].uid],
     disks |-> disks, made |-> made, pv |-> pv, lh |-> lh, snaps |-> snaps,
     reused |-> reused]

Objects == [uid : Nat, by : {"nobody", "run", "other"}]

ObjectsTyped == cluster \in Objects /\ ns \in [Planes -> Objects]

(***************************************************************************)
(* An identity is never given again; on one plane both namespaces are one; *)
(* a claim lives in the namespace and has the volume it was provisioned    *)
(* with, if any; only an installation into a namespace it found makes the  *)
(* Cluster differ from its namespaces.                                     *)
(***************************************************************************)
Sound(w) ==
    /\ w.split \in BOOLEAN /\ w.reused \in BOOLEAN /\ w.gen \in Nat
    /\ w.cluster \in 0..w.gen
    /\ w.ns \in [Planes -> 0..w.gen]
    /\ ~w.split => w.ns["provider"] = w.ns["management"]
    /\ w.made \subseteq Disks /\ w.disks \subseteq w.made
    /\ w.pv \in [Disks -> 0..2] /\ w.lh \in [Disks -> 0..2]
    /\ \A d \in w.disks : w.pv[d] # 2 /\ w.lh[d] # 2
    /\ w.ns["provider"] = 0 => w.disks = {}
    /\ ~w.reused => \A plane \in Planes :
          w.cluster = 0 \/ w.ns[plane] = 0 \/ w.ns[plane] = w.cluster

(***************************************************************************)
(* A record names what has been there.                                     *)
(***************************************************************************)
Record(w, rec) ==
    /\ rec \in TeardownRecords
    /\ rec.cluster \in 1..w.gen
    /\ \A plane \in Planes : rec.ns[plane] \in 1..w.gen
    /\ rec.disks \subseteq w.made
    /\ \A d \in Disks : rec.pv[d] \in 0..1 /\ rec.lh[d] \in 0..1
    /\ ~w.split => rec.ns["provider"] = rec.ns["management"]
    /\ ~w.reused => \A plane \in Planes : rec.ns[plane] = rec.cluster

Pending(w, rec) == Record(w, rec) /\ ~rec.complete

Cleaned(w, rec, d) ==
    /\ w.pv[d] # 1 /\ (w.split /\ w.pv[d] # 0 => w.pv[d] # rec.pv[d])
    /\ w.split /\ w.lh[d] # 0 => w.lh[d] # rec.lh[d]

(***************************************************************************)
(* Nothing of what a record names is left.                                 *)
(***************************************************************************)
Over(w, rec) ==
    /\ w.cluster # rec.cluster
    /\ \A plane \in Planes : w.ns[plane] # rec.ns[plane]
    /\ w.snaps \cap rec.disks = {}
    /\ \A d \in rec.disks : Cleaned(w, rec, d)

(***************************************************************************)
(* One record, not completed, holds what another one does.                 *)
(***************************************************************************)
Covers(l, rec) == Grows(rec, l) /\ ~l.complete

LedgerTrue(w, l) == l # None => Record(w, l) /\ (l.complete => Over(w, l))

(***************************************************************************)
(* The steps of a command from the deletion of the Cluster on.             *)
(***************************************************************************)
Cleaning == {"volumes", "backing", "authorization", "finish"}
AtNamespaces == {"namespace", "awaitNamespace", "namespaceAfter"} \cup Cleaning
AfterCluster == {"refresh", "saveRefresh"} \cup AtNamespaces
Working == {"cluster", "awaitCluster", "clusterAfter"} \cup AfterCluster
Preparing ==
    {"idle", "read", "completed", "fresh", "recheck", "record", "bind",
     "pruneCheck", "pruneDelete", "migrateWrite", "migrateDelete"}

Runs ==
    [pc : Preparing \cup {"confirm", "removeLocal"} \cup Working,
     render : BOOLEAN, seen : TeardownRecords \cup {None},
     rec : TeardownRecords \cup {None}, next : TeardownRecords \cup {None},
     fresh : BOOLEAN, failed : BOOLEAN, ready : BOOLEAN, plane : Planes,
     todo : SUBSET Disks]

Shaped(r) ==
    /\ r \in Runs
    /\ r.pc = "idle" => r = Idle
    /\ r.pc # "confirm" => ~r.fresh
    /\ (r.pc \in Preparing /\ r.pc # "bind") \/ r.fresh => ~r.ready
    /\ r.pc \notin AtNamespaces => r.plane = "provider" \/ r.pc = "removeLocal"

(***************************************************************************)
(* Works from the record it read or has stored.                            *)
(***************************************************************************)
Taken(r) == r.pc \in Working \cup {"bind"} \/ (r.pc = "confirm" /\ ~r.fresh)

(***************************************************************************)
(* Is about to store a record of its own.                                  *)
(***************************************************************************)
Fresh(r) == r.pc \in {"recheck", "record"} \/ r.fresh

(***************************************************************************)
(* A namespace that is recorded is still there: then nothing the record    *)
(* does not know is in it, and nothing will be.                            *)
(***************************************************************************)
Exposed(w, rec) ==
    ~w.reused /\ \E plane \in Planes : w.ns[plane] = rec.ns[plane]

Inventoried(w, rec, known) ==
    Exposed(w, rec) =>
        w.disks \subseteq known.disks /\ (w.ns["provider"] = 0 \/ w.cluster = 0)

(***************************************************************************)
(* What a command may rely on.                                             *)
(***************************************************************************)
Relies(w, l, r) ==
    /\ Taken(r) =>
          Pending(w, r.rec) /\ r.seen = r.rec /\ (Covers(l, r.rec) \/ Over(w, r.rec))
    /\ Fresh(r) => Pending(w, r.rec)
    /\ Fresh(r) \/ r.pc = "fresh" => r.seen = None \/ r.seen.complete
    /\ r.pc \in {"completed", "pruneCheck", "pruneDelete"} =>
          r.seen # None /\ r.seen.complete
    /\ r.pc = "completed" => r.rec = r.seen
    /\ r.pc = "migrateWrite" => Pending(w, r.rec) /\ r.seen \in {None, r.rec}

(***************************************************************************)
(* What of the installation it has seen deleted.                           *)
(***************************************************************************)
NamespaceLeft(w, rec) ==
    w.ns["provider"] # rec.ns["provider"] /\ w.disks \cap rec.disks = {}

Achieved(w, r) ==
    /\ r.pc \in AfterCluster => w.cluster # r.rec.cluster
    /\ Taken(r) /\ r.ready => Inventoried(w, r.rec, r.rec)
    /\ r.pc = "saveRefresh" =>
          /\ r.next # None /\ Record(w, r.next) /\ Covers(r.next, r.rec)
          /\ Inventoried(w, r.rec, r.next)
    /\ r.pc \in AtNamespaces /\ (r.pc \in Cleaning \/ r.plane = "management") =>
          NamespaceLeft(w, r.rec)
    /\ r.pc \in Cleaning => w.ns["management"] # r.rec.ns["management"]

(***************************************************************************)
(* What of the storage it has cleaned up, unless something failed.         *)
(***************************************************************************)
CleanedUp(w, r) ==
    /\ r.pc \in {"volumes", "backing"} => r.todo # {} /\ r.todo \subseteq r.rec.disks
    /\ r.pc \in {"volumes", "backing"} /\ ~r.failed =>
          \A d \in r.rec.disks \ r.todo : Cleaned(w, r.rec, d)
    /\ r.pc = "backing" /\ ~r.failed => w.pv[CHOOSE d \in r.todo : TRUE] # 1
    /\ r.pc \in {"authorization", "finish"} /\ ~r.failed =>
          \A d \in r.rec.disks : Cleaned(w, r.rec, d)
    /\ r.pc = "finish" /\ ~r.failed => w.snaps \cap r.rec.disks = {}

Knows(w, l, r) ==
    Shaped(r) /\ Relies(w, l, r) /\ Achieved(w, r) /\ CleanedUp(w, r)

TInv ==
    /\ ObjectsTyped /\ Sound(World)
    /\ LedgerTrue(World, ledger)
    /\ legacy # None => Pending(World, legacy)
    /\ rendered \in BOOLEAN /\ run \in [Procs -> Runs]
    /\ \A p \in Procs : Knows(World, ledger, run[p])

-----------------------------------------------------------------------------
(***************************************************************************)
(* What a step may do to the world: what is gone comes back, if at all, as *)
(* something else, and a claim is added only while a Cluster and the       *)
(* namespace are there.                                                    *)
(***************************************************************************)
Moves(w, x) ==
    /\ x.split = w.split /\ w.gen <= x.gen /\ w.made \subseteq x.made
    /\ w.reused => x.reused
    /\ x.cluster \in {w.cluster, 0} \/ x.cluster > w.gen
    /\ \A plane \in Planes : x.ns[plane] \in {w.ns[plane], 0} \/ x.ns[plane] > w.gen
    /\ x.disks \cap w.made \subseteq w.disks
    /\ x.snaps \cap w.made \subseteq w.snaps
    /\ \A d \in w.made : x.pv[d] \in {w.pv[d], 0, 2} /\ x.lh[d] \in {w.lh[d], 0, 2}
    /\ x.disks \subseteq w.disks \/ (w.ns["provider"] # 0 /\ w.cluster # 0)
    /\ ~x.reused /\ (\E plane \in Planes : w.ns[plane] # 0 /\ x.ns[plane] = w.ns[plane]) =>
          /\ w.cluster = 0 => x.cluster = 0
          /\ w.ns["provider"] = 0 => x.ns["provider"] = 0

(***************************************************************************)
(* And to the durable record: an incomplete one only grows, and is         *)
(* completed when nothing of it is left.                                   *)
(***************************************************************************)
Succeeds(w, l, m) ==
    l = None \/ l.complete \/ (Grows(l, m) /\ (m.complete => Over(w, l)))

LEMMA RecordIsOne == ASSUME NEW w, NEW rec, Record(w, rec) PROVE rec # None
BY NoneAssumption DEF Record

LEMMA RecordMoves ==
    ASSUME NEW w, NEW x, Sound(w), Sound(x), Moves(w, x), NEW rec, Record(w, rec)
    PROVE  Record(x, rec)
BY DEF Record, Sound, Moves

LEMMA CleanedMoves ==
    ASSUME NEW w, NEW x, Sound(w), Sound(x), Moves(w, x), NEW rec, Record(w, rec),
           NEW d \in w.made, Cleaned(w, rec, d)
    PROVE  Cleaned(x, rec, d)
<1>1. d \in Disks
    BY DEF Sound
<1>2. x.pv[d] \in {w.pv[d], 0, 2} /\ x.lh[d] \in {w.lh[d], 0, 2} /\ x.split = w.split
    BY DEF Moves
<1>3. rec.pv[d] \in 0..1 /\ rec.lh[d] \in 0..1
    BY <1>1 DEF Record
<1> QED
    BY <1>2, <1>3 DEF Cleaned

LEMMA OverMoves ==
    ASSUME NEW w, NEW x, Sound(w), Sound(x), Moves(w, x), NEW rec, Record(w, rec),
           Over(w, rec)
    PROVE  Over(x, rec)
<1>1. \A d \in rec.disks : Cleaned(x, rec, d)
    BY CleanedMoves DEF Over, Record
<1>2. x.cluster # rec.cluster
    BY DEF Over, Record, Moves, Sound
<1>3. \A plane \in Planes : x.ns[plane] # rec.ns[plane]
    BY DEF Over, Record, Moves, Sound
<1>4. x.snaps \cap rec.disks = {}
    BY DEF Over, Record, Moves
<1> QED
    BY <1>1, <1>2, <1>3, <1>4 DEF Over

LEMMA InventoriedMoves ==
    ASSUME NEW w, NEW x, Sound(w), Sound(x), Moves(w, x), NEW rec, Record(w, rec),
           NEW known, Inventoried(w, rec, known)
    PROVE  Inventoried(x, rec, known)
<1> SUFFICES ASSUME Exposed(x, rec)
             PROVE  x.disks \subseteq known.disks /\ (x.ns["provider"] = 0 \/ x.cluster = 0)
    BY DEF Inventoried
<1>1. ~x.reused /\ ~w.reused
    BY DEF Exposed, Moves, Sound
<1>2. PICK plane \in Planes : x.ns[plane] = rec.ns[plane]
    BY DEF Exposed
<1>3. rec.ns[plane] \in 1..w.gen /\ w.gen \in Nat
    BY DEF Record, Sound
<1>4. x.ns[plane] \in {w.ns[plane], 0} \/ x.ns[plane] > w.gen
    BY DEF Moves
<1>5. x.ns[plane] = w.ns[plane] /\ w.ns[plane] # 0
    BY <1>2, <1>3, <1>4
<1>6. Exposed(w, rec)
    BY <1>1, <1>2, <1>5 DEF Exposed
<1>7. w.disks \subseteq known.disks /\ (w.ns["provider"] = 0 \/ w.cluster = 0)
    BY <1>6 DEF Inventoried
<1> QED
    BY <1>1, <1>5, <1>7 DEF Moves

LEMMA KnowsMoves ==
    ASSUME NEW w, NEW x, Sound(w), Sound(x), Moves(w, x), NEW l, NEW r, Knows(w, l, r)
    PROVE  Knows(x, l, r)
<1> USE DEF Knows
<1>1. \A rec : Record(w, rec) => Record(x, rec) /\ (Over(w, rec) => Over(x, rec))
    BY RecordMoves, OverMoves
<1>2. \A rec, known : Record(w, rec) /\ Inventoried(w, rec, known) => Inventoried(x, rec, known)
    BY InventoriedMoves
<1>3. Relies(x, l, r)
    BY <1>1 DEF Relies, Pending
<1>4. Taken(r) => Record(w, r.rec)
    BY DEF Relies, Pending
<1>5. r.pc \in AfterCluster => Taken(r)
    BY DEF Taken, Working
<1>6. Achieved(x, r)
  <2>1. Taken(r) /\ w.cluster # r.rec.cluster => x.cluster # r.rec.cluster
      BY <1>4 DEF Record, Moves, Sound
  <2>2. ASSUME NEW plane \in Planes, Taken(r), w.ns[plane] # r.rec.ns[plane]
        PROVE  x.ns[plane] # r.rec.ns[plane]
      BY <1>4, <2>2 DEF Record, Moves, Sound
  <2>3. Taken(r) /\ w.disks \cap r.rec.disks = {} => x.disks \cap r.rec.disks = {}
      BY <1>4 DEF Record, Moves
  <2>4. Taken(r) /\ NamespaceLeft(w, r.rec) => NamespaceLeft(x, r.rec)
      BY <2>2, <2>3 DEF NamespaceLeft, Planes
  <2>5. r.pc = "saveRefresh" \/ r.pc \in AtNamespaces \/ r.pc \in Cleaning => r.pc \in AfterCluster
      BY DEF AfterCluster, AtNamespaces
  <2> QED
      BY <1>1, <1>2, <1>4, <1>5, <2>1, <2>2, <2>4, <2>5 DEF Achieved, Planes
<1>7. CleanedUp(x, r)
  <2>1. r.pc \in {"volumes", "backing", "authorization", "finish"} =>
            Record(w, r.rec) /\ r.rec.disks \subseteq w.made
      BY <1>4, <1>5 DEF AfterCluster, AtNamespaces, Cleaning, Record
  <2>2. r.pc \in {"volumes", "backing", "authorization", "finish"} =>
            \A d \in r.rec.disks : Cleaned(w, r.rec, d) => Cleaned(x, r.rec, d)
      BY <2>1, CleanedMoves
  <2>3. r.pc = "finish" /\ w.snaps \cap r.rec.disks = {} => x.snaps \cap r.rec.disks = {}
      BY <2>1 DEF Moves
  <2>4. r.pc = "backing" => (CHOOSE d \in r.todo : TRUE) \in w.made
      BY <2>1 DEF CleanedUp
  <2>5. \A d \in w.made : w.pv[d] # 1 => x.pv[d] # 1
      BY DEF Moves
  <2> QED
      BY <2>2, <2>3, <2>4, <2>5 DEF CleanedUp
<1> QED
    BY <1>3, <1>6, <1>7

LEMMA OverGrows ==
    ASSUME NEW w, NEW l, NEW rec, Grows(rec, l), Over(w, l)
    PROVE  Over(w, rec)
BY DEF Grows, Over, Cleaned

LEMMA KnowsSucceeds ==
    ASSUME NEW w, NEW l, NEW m, Succeeds(w, l, m), NEW r, Knows(w, l, r)
    PROVE  Knows(w, m, r)
<1>1. ASSUME NEW rec, Covers(l, rec)
      PROVE  Covers(m, rec) \/ Over(w, rec)
  <2>1. l # None /\ ~l.complete /\ Grows(rec, l) /\ Grows(l, m)
      BY <1>1 DEF Covers, Grows, Succeeds
  <2>2. Grows(rec, m)
      BY <2>1 DEF Grows
  <2>3. CASE m.complete
      BY <2>1, <2>3, OverGrows DEF Succeeds
  <2> QED
      BY <2>2, <2>3 DEF Covers
<1> QED
    BY <1>1 DEF Knows, Relies

LEMMA KnowsIdle == ASSUME NEW w, NEW l PROVE Knows(w, l, Idle) /\ Idle \in Runs
<1>1. Idle \in Runs
    BY DEF Idle, Runs, Preparing, Planes
<1>2. Idle.pc = "idle" /\ ~Idle.fresh /\ ~Idle.ready /\ Idle.plane = "provider"
    BY DEF Idle
<1>3. Shaped(Idle)
    BY <1>1, <1>2 DEF Shaped
<1> HIDE DEF Idle
<1> QED
    BY <1>1, <1>2, <1>3 DEF Knows, Relies, Achieved, CleanedUp, Taken, Fresh, Working,
       AfterCluster, AtNamespaces, Cleaning

-----------------------------------------------------------------------------
LEMMA WorldSame ==
    ASSUME UNCHANGED <<world, reused>>
    PROVE  World' = World /\ (ObjectsTyped => ObjectsTyped')
BY DEF world, objects, World, ObjectsTyped

LEMMA MovesSelf == ASSUME NEW w, Sound(w) PROVE Moves(w, w)
BY DEF Moves, Sound

LEMMA SucceedsSelf ==
    ASSUME NEW w, NEW l, LedgerTrue(w, l) PROVE Succeeds(w, l, l)
BY DEF Succeeds, LedgerTrue, Grows

(***************************************************************************)
(* A step of one command, or of none.                                      *)
(***************************************************************************)
LEMMA Framed ==
    ASSUME TInv, ObjectsTyped', Sound(World'), Moves(World, World'),
           Succeeds(World', ledger, ledger'), LedgerTrue(World', ledger'),
           legacy' \in {legacy, None}, rendered' \in BOOLEAN,
           run' \in [Procs -> Runs],
           \A p \in Procs : run'[p] = run[p] \/ Knows(World', ledger', run'[p])
    PROVE  TInv'
<1>1. ASSUME NEW p \in Procs, run'[p] = run[p]
      PROVE  Knows(World', ledger', run'[p])
    BY <1>1, KnowsMoves, KnowsSucceeds DEF TInv
<1>2. legacy' # None => Pending(World', legacy')
    BY RecordMoves DEF TInv, Pending
<1> QED
    BY <1>1, <1>2 DEF TInv

LEMMA Reads ==
    ASSUME TInv, UNCHANGED <<world, records, bounds>>,
           NEW p \in Procs, NEW s \in Runs, run' = [run EXCEPT ![p] = s],
           Knows(World, ledger, s)
    PROVE  TInv'
<1>1. World' = World /\ ObjectsTyped' /\ ledger' = ledger /\ legacy' = legacy
    BY WorldSame DEF TInv, records, bounds
<1>4. rendered' \in BOOLEAN
    BY DEF TInv, records
<1>2. Moves(World, World) /\ Succeeds(World, ledger, ledger)
    BY MovesSelf, SucceedsSelf DEF TInv
<1>3. run' \in [Procs -> Runs] /\ \A q \in Procs : run'[q] = run[q] \/ run'[q] = s
    BY DEF TInv
<1> QED
    BY <1>1, <1>2, <1>3, <1>4, Framed DEF TInv

LEMMA Writes ==
    ASSUME TInv, UNCHANGED <<world, bounds>>, legacy' \in {legacy, None},
           rendered' \in BOOLEAN,
           NEW p \in Procs, NEW s \in Runs, run' = [run EXCEPT ![p] = s],
           LedgerTrue(World, ledger'), Succeeds(World, ledger, ledger'),
           Knows(World, ledger', s)
    PROVE  TInv'
<1>1. World' = World /\ ObjectsTyped'
    BY WorldSame DEF TInv, bounds
<1>2. Moves(World, World)
    BY MovesSelf DEF TInv
<1>3. run' \in [Procs -> Runs] /\ \A q \in Procs : run'[q] = run[q] \/ run'[q] = s
    BY DEF TInv
<1> QED
    BY <1>1, <1>2, <1>3, Framed DEF TInv

LEMMA Acts ==
    ASSUME TInv, UNCHANGED records, ObjectsTyped', Sound(World'), Moves(World, World'),
           NEW p \in Procs, NEW s \in Runs, run' = [run EXCEPT ![p] = s],
           Knows(World', ledger, s)
    PROVE  TInv'
<1>1. ledger' = ledger /\ legacy' = legacy /\ rendered' \in BOOLEAN
    BY DEF TInv, records
<1>2. LedgerTrue(World', ledger)
    BY RecordMoves, OverMoves DEF TInv, LedgerTrue
<1>3. Succeeds(World', ledger, ledger)
    BY <1>2, SucceedsSelf
<1>4. run' \in [Procs -> Runs] /\ \A q \in Procs : run'[q] = run[q] \/ run'[q] = s
    BY DEF TInv
<1> QED
    BY <1>1, <1>2, <1>3, <1>4, Framed

LEMMA Outside ==
    ASSUME TInv, UNCHANGED <<ledger, legacy, run>>, rendered' \in BOOLEAN, ObjectsTyped', Sound(World'),
           Moves(World, World')
    PROVE  TInv'
<1>1. ledger' = ledger /\ legacy' = legacy
    OBVIOUS
<1>2. LedgerTrue(World', ledger)
    BY RecordMoves, OverMoves DEF TInv, LedgerTrue
<1>3. Succeeds(World', ledger, ledger)
    BY <1>2, SucceedsSelf
<1>4. run' \in [Procs -> Runs] /\ \A q \in Procs : run'[q] = run[q]
    BY DEF TInv
<1> QED
    BY <1>1, <1>2, <1>3, <1>4, Framed

(***************************************************************************)
(* How a command goes on: at another step, with or without a failure.      *)
(***************************************************************************)
Turns(r, s, to, failed) ==
    /\ s \in Runs /\ s.pc = to /\ s.failed = failed
    /\ s.render = r.render /\ s.seen = r.seen /\ s.rec = r.rec /\ s.next = r.next
    /\ s.fresh = r.fresh /\ s.ready = r.ready /\ s.plane = r.plane /\ s.todo = r.todo

Turned(r, to, failed) == [r EXCEPT !.pc = to, !.failed = failed]

Steps == Preparing \cup {"confirm", "removeLocal"} \cup Working

LEMMA TurnsTo ==
    ASSUME NEW r \in Runs, NEW to \in Steps, NEW failed \in BOOLEAN
    PROVE  Turns(r, Turned(r, to, failed), to, failed)
BY DEF Turns, Turned, Runs, Steps

LEMMA MovesToTurns ==
    ASSUME run \in [Procs -> Runs], NEW p \in Procs, NEW to, MovesTo(p, to)
    PROVE  run' = [run EXCEPT ![p] = Turned(run[p], to, run[p].failed)]
<1>1. run[p] \in Runs
    OBVIOUS
<1>2. [run[p] EXCEPT !.pc = to] = Turned(run[p], to, run[p].failed)
    BY <1>1 DEF Turned, Runs
<1> QED
    BY <1>2 DEF MovesTo

LEMMA FailToTurns ==
    ASSUME run \in [Procs -> Runs], NEW p \in Procs, NEW to, FailTo(p, to)
    PROVE  run' = [run EXCEPT ![p] = Turned(run[p], to, TRUE)]
<1>1. run[p] \in Runs
    OBVIOUS
<1> QED
    BY <1>1 DEF FailTo, Turned

LEMMA StopKeeps ==
    ASSUME TInv, UNCHANGED <<world, records, bounds>>, NEW p \in Procs, Stop(p)
    PROVE  TInv'
BY KnowsIdle, Reads DEF Stop

-----------------------------------------------------------------------------
(***************************************************************************)
(* The memory of a command, field by field.                                *)
(***************************************************************************)
LEMMA MemoryFields ==
    ASSUME NEW r \in Runs
    PROVE  /\ r.pc \in Steps /\ r.render \in BOOLEAN /\ r.fresh \in BOOLEAN
           /\ r.failed \in BOOLEAN /\ r.ready \in BOOLEAN /\ r.plane \in Planes
           /\ r.seen \in TeardownRecords \cup {None} /\ r.rec \in TeardownRecords \cup {None}
           /\ r.next \in TeardownRecords \cup {None} /\ r.todo \in SUBSET Disks
BY DEF Runs, Steps

LEMMA Knowing ==
    ASSUME TInv, NEW p \in Procs
    PROVE  /\ run[p] \in Runs /\ Knows(World, ledger, run[p]) /\ Sound(World)
           /\ LedgerTrue(World, ledger)
BY DEF TInv

LEMMA StartKeeps == ASSUME TInv, NEW p \in Procs, Start(p) PROVE TInv'
<1> DEFINE r == run[p]
           s == [r EXCEPT !.pc = "read", !.render = rendered]
<1>1. r \in Runs /\ Knows(World, ledger, r) /\ r = Idle /\ rendered \in BOOLEAN
    BY Knowing DEF Start, At, Knows, Shaped, TInv
<1>2. run' = [run EXCEPT ![p] = s]
    BY DEF Start, TInv
<1>3. s = [Idle EXCEPT !.pc = "read", !.render = rendered]
    BY <1>1
<1>4. s \in Runs /\ s.pc = "read" /\ ~s.fresh /\ ~s.ready /\ s.plane = "provider"
    BY <1>1, <1>3 DEF Idle, Runs, Preparing, Planes
<1> HIDE DEF s
<1>5. Knows(World, ledger, s)
    BY <1>4 DEF Knows, Shaped, Relies, Achieved, CleanedUp, Taken, Fresh, Working,
       AfterCluster, AtNamespaces, Cleaning
<1> QED
    BY <1>2, <1>4, <1>5, Reads DEF Start

LEMMA ReadRecordKeeps == ASSUME TInv, NEW p \in Procs, ReadRecord(p) PROVE TInv'
<1> DEFINE r == run[p]
           to == IF ledger = None THEN "fresh"
                 ELSE IF ledger.complete THEN "completed" ELSE "bind"
           render == r.render /\ ledger # None /\ ledger.complete
           s == [r EXCEPT !.seen = ledger, !.rec = ledger, !.render = render, !.pc = to]
<1>1. r \in Runs /\ Knows(World, ledger, r) /\ r.pc = "read"
    BY Knowing DEF ReadRecord, At
<1>2. ledger \in TeardownRecords \cup {None} /\ (ledger # None => ledger.complete \in BOOLEAN)
    BY DEF TInv, LedgerTrue, Record, TeardownRecords
<1>3. CASE Stop(p)
    BY <1>3, StopKeeps DEF ReadRecord
<1>4. CASE ~Stop(p)
  <2>1. run' = [run EXCEPT ![p] = s]
      BY <1>4 DEF ReadRecord, TInv
  <2>2. render \in BOOLEAN /\ to \in Steps
      BY <1>1, <1>2, MemoryFields DEF Steps, Preparing
  <2> HIDE DEF render, to
  <2>3. s \in Runs /\ s.pc = to /\ s.seen = ledger /\ s.rec = ledger /\ s.fresh = r.fresh
        /\ s.ready = r.ready /\ s.plane = r.plane
      BY <1>1, <1>2, <2>2 DEF Runs, Steps
  <2> HIDE DEF s
  <2>4. ~s.fresh /\ ~s.ready /\ s.plane = "provider"
      BY <1>1, <2>3 DEF Knows, Shaped, Preparing, AtNamespaces, Cleaning
  <2>5. to \in {"fresh", "completed", "bind"}
      BY DEF to
  <2>6. Shaped(s)
      BY <2>3, <2>4, <2>5 DEF Shaped
  <2>7. Relies(World, ledger, s)
      BY <2>3, <2>4 DEF to, Relies, Taken, Fresh, Working, AfterCluster, AtNamespaces,
         Cleaning, TInv, LedgerTrue, Covers, Grows, Pending
  <2>8. Achieved(World, s) /\ CleanedUp(World, s)
      BY <2>3, <2>4, <2>5 DEF Achieved, CleanedUp, AfterCluster, AtNamespaces, Cleaning
  <2> QED
      BY <2>1, <2>3, <2>6, <2>7, <2>8, Reads DEF ReadRecord, Knows
<1> QED
    BY <1>3, <1>4

(***************************************************************************)
(* What carries over when a command goes on with the same record.          *)
(***************************************************************************)
LEMMA TurnsRelies ==
    ASSUME NEW w, NEW l, NEW r, NEW s, NEW to, NEW failed, Knows(w, l, r),
           Turns(r, s, to, failed), Taken(r), to \in Working
    PROVE  Relies(w, l, s) /\ Taken(s) /\ Record(w, r.rec)
<1>1. r.pc # "confirm" => ~r.fresh
    BY DEF Knows, Shaped
<1>2. r.pc = "confirm" => ~r.fresh
    BY DEF Taken, Working, AfterCluster, AtNamespaces, Cleaning
<1>3. ~Fresh(s) /\ Taken(s) /\ to \notin {"fresh", "completed", "pruneCheck", "pruneDelete", "migrateWrite"}
    BY <1>1, <1>2 DEF Turns, Fresh, Taken, Working, AfterCluster, AtNamespaces, Cleaning
<1> QED
    BY <1>3 DEF Turns, Relies, Pending, Knows

LEMMA TurnsShaped ==
    ASSUME NEW r, NEW s, NEW to, NEW failed, Shaped(r), Turns(r, s, to, failed),
           to # "idle", r.fresh => to = "confirm",
           to \in Preparing \ {"bind"} => r.pc \in Preparing \ {"bind"} \/ r.fresh,
           to \in AtNamespaces \/ to = "removeLocal" \/ r.pc \notin AtNamespaces \cup {"removeLocal"}
    PROVE  Shaped(s)
BY DEF Shaped, Turns

LEMMA CheckCompletedKeeps ==
    ASSUME TInv, NEW p \in Procs, CheckCompleted(p) PROVE TInv'
<1> DEFINE r == run[p]
           s == [r EXCEPT !.rec = None, !.render = FALSE, !.pc = "fresh"]
           t == Turned(r, "removeLocal", r.failed)
<1>1. r \in Runs /\ Knows(World, ledger, r) /\ r.pc = "completed"
    BY Knowing DEF CheckCompleted, At
<1>2. ~r.fresh /\ ~r.ready /\ r.plane = "provider" /\ r.seen # None /\ r.seen.complete
    BY <1>1 DEF Knows, Shaped, Relies, Preparing, AtNamespaces, Cleaning
<1>3. CASE Stop(p)
    BY <1>3, StopKeeps DEF CheckCompleted
<1>4. CASE MovesTo(p, "removeLocal")
  <2>1. run' = [run EXCEPT ![p] = t]
      BY <1>4, MovesToTurns DEF TInv
  <2>2. Turns(r, t, "removeLocal", r.failed)
      BY <1>1, TurnsTo, MemoryFields DEF Steps
  <2> HIDE DEF t
  <2>3. Knows(World, ledger, t)
      BY <1>1, <1>2, <2>2 DEF Turns, Knows, Shaped, Relies, Achieved, CleanedUp, Taken, Fresh,
         Preparing, Working, AfterCluster, AtNamespaces, Cleaning
  <2> QED
      BY <2>1, <2>2, <2>3, Reads DEF CheckCompleted, Turns
<1>5. CASE run' = [run EXCEPT ![p].rec = None, ![p].render = FALSE, ![p].pc = "fresh"]
  <2>1. run' = [run EXCEPT ![p] = s]
      BY <1>5 DEF TInv
  <2>2. s \in Runs /\ s.pc = "fresh" /\ s.seen = r.seen /\ s.fresh = r.fresh
        /\ s.ready = r.ready /\ s.plane = r.plane
      BY <1>1 DEF Runs, Preparing
  <2> HIDE DEF s
  <2>3. Knows(World, ledger, s)
      BY <1>2, <2>2 DEF Knows, Shaped, Relies, Achieved, CleanedUp, Taken, Fresh,
         Preparing, Working, AfterCluster, AtNamespaces, Cleaning
  <2> QED
      BY <2>1, <2>2, <2>3, Reads DEF CheckCompleted
<1> QED
    BY <1>3, <1>4, <1>5 DEF CheckCompleted

(***************************************************************************)
(* On one plane either namespace is the one.                               *)
(***************************************************************************)
LEMMA NamespaceIsOne ==
    ASSUME TInv, NEW plane \in Planes
    PROVE  Namespace(plane).uid = World.ns[plane] /\ ns[plane].uid = World.ns[plane]
<1>1. World.ns[plane] = ns[plane].uid
    BY DEF World
<1>2. ~split => World.ns["provider"] = World.ns["management"]
    BY DEF TInv, Sound, World
<1>3. World.ns["management"] = ns["management"].uid /\ World.ns["provider"] = ns["provider"].uid
    BY DEF World, Planes
<1> QED
    BY <1>1, <1>2, <1>3 DEF Namespace, Planes

LEMMA BindKeeps == ASSUME TInv, NEW p \in Procs, Bind(p) PROVE TInv'
<1> DEFINE r == run[p]
           ready == Namespace("provider").uid = 0
           s == [r EXCEPT !.pc = "confirm", !.ready = ready]
<1>1. r \in Runs /\ Knows(World, ledger, r) /\ r.pc = "bind"
    BY Knowing DEF Bind, At
<1>2. ~r.fresh /\ r.plane = "provider" /\ Taken(r)
    BY <1>1 DEF Knows, Shaped, AtNamespaces, Cleaning, Taken
<1>3. CASE Stop(p)
    BY <1>3, StopKeeps DEF Bind
<1>4. CASE ~Stop(p)
  <2>1. run' = [run EXCEPT ![p] = s]
      BY <1>4 DEF Bind, TInv
  <2>2. ready \in BOOLEAN /\ (ready <=> World.ns["provider"] = 0)
      BY NamespaceIsOne DEF Planes
  <2> HIDE DEF ready
  <2>3. s \in Runs /\ s.pc = "confirm" /\ s.rec = r.rec /\ s.seen = r.seen
        /\ s.fresh = r.fresh /\ s.ready = ready /\ s.plane = r.plane
      BY <1>1, <2>2 DEF Runs
  <2> HIDE DEF s
  <2>4. Shaped(s)
      BY <1>2, <2>3 DEF Shaped, Preparing
  <2>5. Relies(World, ledger, s)
      BY <1>1, <1>2, <2>3 DEF Knows, Relies, Taken, Fresh, Working, AfterCluster, AtNamespaces,
         Cleaning
  <2>6. ready => Inventoried(World, r.rec, r.rec)
      BY <2>2 DEF TInv, Sound, Inventoried
  <2>7. Achieved(World, s) /\ CleanedUp(World, s)
      BY <2>3, <2>6 DEF Achieved, CleanedUp, AfterCluster, AtNamespaces, Cleaning
  <2> QED
      BY <2>1, <2>3, <2>4, <2>5, <2>7, Reads DEF Bind, Knows
<1> QED
    BY <1>3, <1>4

(***************************************************************************)
(* An inventory adds what is there, with the UIDs it has now.              *)
(***************************************************************************)
LEMMA InventoryOf ==
    ASSUME TInv, NEW rec, Pending(World, rec), ~InventoryFails(rec)
    PROVE  /\ Pending(World, Inventory(rec)) /\ Covers(Inventory(rec), rec)
           /\ disks \subseteq Inventory(rec).disks
<1> DEFINE found == disks \ rec.disks
           pvs == [d \in Disks |-> IF d \in found THEN Captured(found, pv)[d] ELSE rec.pv[d]]
           lhs == [d \in Disks |-> IF d \in found THEN Captured(found, lh)[d] ELSE rec.lh[d]]
           new == [rec EXCEPT !.disks = rec.disks \cup found, !.pv = pvs, !.lh = lhs]
<1>1. /\ disks \subseteq made /\ made \subseteq Disks /\ rec.disks \subseteq made
      /\ pv \in [Disks -> 0..2] /\ lh \in [Disks -> 0..2]
      /\ \A d \in disks : pv[d] # 2 /\ lh[d] # 2
    BY DEF TInv, Sound, World, Pending, Record
<1>2. \A d \in found : pvs[d] \in 0..1 /\ lhs[d] \in 0..1
    BY <1>1 DEF Captured
<1>3. \A d \in Disks \ found : pvs[d] = rec.pv[d] /\ lhs[d] = rec.lh[d]
    OBVIOUS
<1>4. pvs \in [Disks -> 0..1] /\ lhs \in [Disks -> 0..1]
    BY <1>2, <1>3 DEF Pending, Record
<1>5. Inventory(rec) = new
    BY DEF Inventory
<1> HIDE DEF pvs, lhs, new
<1>6. /\ rec \in TeardownRecords /\ rec.disks \cup found \in SUBSET Disks
      /\ pvs \in [Disks -> Nat] /\ lhs \in [Disks -> Nat]
    BY <1>1, <1>4 DEF Pending, Record
<1> HIDE DEF found
<1> USE DEF new
<1>7. /\ new \in TeardownRecords /\ new.cluster = rec.cluster /\ new.ns = rec.ns
      /\ new.disks = rec.disks \cup found /\ new.complete = rec.complete
      /\ new.pv = pvs /\ new.lh = lhs
    BY <1>6 DEF TeardownRecords
<1>8. found = disks \ rec.disks /\ found \subseteq made
    BY <1>1 DEF found
<1> HIDE DEF new
<1>9. Pending(World, new)
    BY <1>1, <1>4, <1>7, <1>8 DEF Pending, Record, World
<1>10. Covers(new, rec)
    BY <1>3, <1>7, <1>8, <1>9, <1>1, RecordIsOne DEF Pending, Covers, Grows
<1> QED
    BY <1>5, <1>7, <1>8, <1>9, <1>10

LEMMA TakeInventoryKeeps ==
    ASSUME TInv, NEW p \in Procs, TakeInventory(p) PROVE TInv'
<1> DEFINE r == run[p]
           rec == Inventory(EmptyRecord)
           s == [r EXCEPT !.rec = rec, !.fresh = TRUE, !.pc = "confirm"]
<1>1. r \in Runs /\ Knows(World, ledger, r) /\ r.pc = "fresh"
    BY Knowing DEF TakeInventory, At
<1>2. ~r.ready /\ r.plane = "provider" /\ (r.seen = None \/ r.seen.complete)
    BY <1>1 DEF Knows, Shaped, Relies, Preparing, AtNamespaces, Cleaning
<1>3. CASE Stop(p)
    BY <1>3, StopKeeps DEF TakeInventory
<1>4. CASE ~Stop(p)
  <2>1. /\ run' = [run EXCEPT ![p] = s]
        /\ cluster.uid # 0 /\ \A plane \in Planes : Namespace(plane).uid # 0
        /\ ~InventoryFails(EmptyRecord)
      BY <1>4 DEF TakeInventory, TInv
  <2>2. Pending(World, EmptyRecord)
    <3>1. /\ World.gen \in Nat /\ World.cluster \in 1..World.gen /\ World.cluster = cluster.uid
          /\ World.cluster \in Nat
          /\ \A plane \in Planes : World.ns[plane] \in 1..World.gen /\ World.ns[plane] \in Nat
        BY <2>1, NamespaceIsOne DEF TInv, Sound, World
    <3>2. /\ EmptyRecord.cluster = World.cluster /\ EmptyRecord.disks = {}
          /\ ~EmptyRecord.complete
          /\ \A plane \in Planes : EmptyRecord.ns[plane] = World.ns[plane]
          /\ \A d \in Disks : EmptyRecord.pv[d] = 0 /\ EmptyRecord.lh[d] = 0
        BY <3>1, NamespaceIsOne DEF EmptyRecord
    <3>3. EmptyRecord \in TeardownRecords
        BY <3>1, NamespaceIsOne DEF EmptyRecord, TeardownRecords
    <3>4. ~World.split => World.ns["provider"] = World.ns["management"]
        BY DEF TInv, Sound
    <3>5. ~World.reused => \A plane \in Planes : World.ns[plane] = World.cluster
        BY <3>1 DEF TInv, Sound
    <3> HIDE DEF EmptyRecord
    <3> QED
        BY <3>1, <3>2, <3>3, <3>4, <3>5 DEF Pending, Record, Planes
  <2>3. Pending(World, rec) /\ rec \in TeardownRecords
      BY <2>1, <2>2, InventoryOf DEF Pending, Record
  <2> HIDE DEF rec
  <2>4. s \in Runs /\ s.pc = "confirm" /\ s.rec = rec /\ s.seen = r.seen
        /\ s.fresh /\ s.ready = r.ready /\ s.plane = r.plane
      BY <1>1, <2>3 DEF Runs
  <2> HIDE DEF s
  <2>5. Knows(World, ledger, s)
      BY <1>2, <2>3, <2>4 DEF Knows, Shaped, Relies, Achieved, CleanedUp, Taken, Fresh,
         Preparing, Working, AfterCluster, AtNamespaces, Cleaning
  <2> QED
      BY <2>1, <2>4, <2>5, Reads DEF TakeInventory
<1> QED
    BY <1>3, <1>4

LEMMA ConfirmKeeps == ASSUME TInv, NEW p \in Procs, Confirm(p) PROVE TInv'
<1> DEFINE r == run[p]
           to == IF r.fresh THEN "recheck" ELSE "cluster"
           s == [r EXCEPT !.fresh = FALSE, !.pc = to]
<1>1. r \in Runs /\ Knows(World, ledger, r) /\ r.pc = "confirm"
    BY Knowing DEF Confirm, At
<1>2. r.plane = "provider" /\ (r.fresh => ~r.ready)
    BY <1>1 DEF Knows, Shaped, AtNamespaces, Cleaning
<1>3. CASE Stop(p)
    BY <1>3, StopKeeps DEF Confirm
<1>4. CASE ~Stop(p)
  <2>1. run' = [run EXCEPT ![p] = s]
      BY <1>4 DEF Confirm, TInv
  <2>2. to \in Steps /\ to \in {"recheck", "cluster"} /\ (to = "recheck" <=> r.fresh)
      BY <1>1, MemoryFields DEF Steps, Preparing, Working
  <2> HIDE DEF to
  <2>3. s \in Runs /\ s.pc = to /\ s.rec = r.rec /\ s.seen = r.seen
        /\ s.fresh = FALSE /\ s.ready = r.ready /\ s.plane = r.plane
      BY <1>1, <2>2 DEF Runs, Steps
  <2> HIDE DEF s
  <2>4. Shaped(s)
      BY <1>2, <2>2, <2>3 DEF Shaped, Preparing
  <2>5. Relies(World, ledger, s)
      BY <1>1, <2>2, <2>3 DEF Knows, Relies, Taken, Fresh, Working, AfterCluster,
         AtNamespaces, Cleaning
  <2>6. Achieved(World, s) /\ CleanedUp(World, s)
      BY <1>1, <1>2, <2>2, <2>3 DEF Knows, Achieved, CleanedUp, Taken, Working, AfterCluster,
         AtNamespaces, Cleaning
  <2> QED
      BY <2>1, <2>3, <2>4, <2>5, <2>6, Reads DEF Confirm, Knows
<1> QED
    BY <1>3, <1>4

LEMMA RecheckKeeps == ASSUME TInv, NEW p \in Procs, Recheck(p) PROVE TInv'
<1> DEFINE r == run[p]
           s == Turned(r, "record", r.failed)
<1>1. r \in Runs /\ Knows(World, ledger, r) /\ r.pc = "recheck"
    BY Knowing DEF Recheck, At
<1>2. CASE Stop(p)
    BY <1>2, StopKeeps DEF Recheck
<1>3. CASE MovesTo(p, "record")
  <2>1. run' = [run EXCEPT ![p] = s]
      BY <1>3, MovesToTurns DEF TInv
  <2>2. Turns(r, s, "record", r.failed)
      BY <1>1, TurnsTo, MemoryFields DEF Steps, Preparing
  <2> HIDE DEF s
  <2>3. Knows(World, ledger, s)
      BY <1>1, <2>2 DEF Turns, Knows, Shaped, Relies, Achieved, CleanedUp, Taken, Fresh,
         Preparing, Working, AfterCluster, AtNamespaces, Cleaning
  <2> QED
      BY <2>1, <2>2, <2>3, Reads DEF Recheck, Turns
<1> QED
    BY <1>2, <1>3 DEF Recheck

LEMMA PendingTrue == ASSUME NEW w, NEW l, Pending(w, l) PROVE LedgerTrue(w, l) /\ Grows(l, l)
BY RecordIsOne DEF Pending, LedgerTrue, Grows

LEMMA RecordFirstKeeps == ASSUME TInv, NEW p \in Procs, RecordFirst(p) PROVE TInv'
<1> DEFINE r == run[p]
           s == [r EXCEPT !.pc = "cluster", !.seen = r.rec]
<1>1. r \in Runs /\ Knows(World, ledger, r) /\ r.pc = "record"
    BY Knowing DEF RecordFirst, At
<1>2. /\ Pending(World, r.rec) /\ (r.seen = None \/ r.seen.complete)
      /\ ~r.ready /\ ~r.fresh /\ r.plane = "provider"
    BY <1>1 DEF Knows, Shaped, Relies, Fresh, Preparing, AtNamespaces, Cleaning
<1>3. LedgerTrue(World, r.rec) /\ Grows(r.rec, r.rec) /\ r.rec \in TeardownRecords
    BY <1>2, PendingTrue DEF Pending, Record
<1>4. CASE Writable(p) /\ ledger' = r.rec
  <2>1. Succeeds(World, ledger, ledger')
      BY <1>2, <1>4 DEF Writable, Succeeds
  <2>2. s \in Runs /\ s.pc = "cluster" /\ s.rec = r.rec /\ s.seen = r.rec
        /\ s.fresh = r.fresh /\ s.ready = r.ready /\ s.plane = r.plane
      BY <1>1, <1>3 DEF Runs, Working
  <2>3. CASE run' = [run EXCEPT ![p].pc = "cluster", ![p].seen = run[p].rec]
    <3>1. run' = [run EXCEPT ![p] = s]
        BY <2>3 DEF TInv
    <3> HIDE DEF s
    <3>2. Knows(World, ledger', s)
        BY <1>2, <1>3, <1>4, <2>2 DEF Pending, Knows, Shaped, Relies, Achieved, CleanedUp,
           Taken, Fresh, Covers, Preparing, Working, AfterCluster, AtNamespaces, Cleaning
    <3> QED
        BY <1>3, <1>4, <2>1, <2>2, <3>1, <3>2, Writes DEF RecordFirst, TInv
  <2>4. CASE Stop(p)
      BY <1>3, <1>4, <2>1, <2>4, KnowsIdle, Writes DEF RecordFirst, TInv, Stop
  <2> QED
      BY <1>4, <2>3, <2>4, <1>1, <1>2 DEF RecordFirst
<1>5. CASE Stop(p) /\ UNCHANGED ledger
    BY <1>5, StopKeeps DEF RecordFirst, records
<1> QED
    BY <1>4, <1>5 DEF RecordFirst

(***************************************************************************)
(* A command goes on to a step that asks for nothing new but what is said. *)
(***************************************************************************)
LEMMA WorkTurns ==
    ASSUME NEW w, NEW l, NEW r \in Runs, NEW s, Knows(w, l, r), Taken(r),
           NEW to \in Working \ (Cleaning \cup {"saveRefresh"}), NEW failed \in BOOLEAN,
           Turns(r, s, to, failed),
           to \in AtNamespaces \/ r.pc \notin AtNamespaces,
           to \in AfterCluster => w.cluster # r.rec.cluster,
           to \in AtNamespaces /\ r.plane = "management" => NamespaceLeft(w, r.rec)
    PROVE  Knows(w, l, s)
<1>1. Relies(w, l, s) /\ Taken(s)
    BY TurnsRelies
<1>2. Shaped(s)
    BY DEF Knows, Shaped, Turns, Taken, Working, AfterCluster, AtNamespaces, Cleaning, Preparing
<1>3. Achieved(w, s)
    BY <1>1 DEF Knows, Achieved, Turns, Cleaning
<1>4. CleanedUp(w, s)
    BY DEF CleanedUp, Turns, Cleaning
<1> QED
    BY <1>1, <1>2, <1>3, <1>4 DEF Knows

LEMMA Continues ==
    ASSUME TInv, NEW p \in Procs, NEW to, MovesTo(p, to) \/ FailTo(p, to)
    PROVE  \E failed \in BOOLEAN : run' = [run EXCEPT ![p] = Turned(run[p], to, failed)]
<1>1. run \in [Procs -> Runs] /\ run[p].failed \in BOOLEAN
    BY Knowing, MemoryFields DEF TInv
<1>2. CASE MovesTo(p, to)
    BY <1>1, <1>2, MovesToTurns
<1>3. CASE FailTo(p, to)
    BY <1>1, <1>3, FailToTurns
<1> QED
    BY <1>2, <1>3

LEMMA WorkReads ==
    ASSUME TInv, UNCHANGED <<world, records, bounds>>, NEW p \in Procs, Taken(run[p]),
           NEW to \in Working \ (Cleaning \cup {"saveRefresh"}),
           MovesTo(p, to) \/ FailTo(p, to),
           to \in AtNamespaces \/ run[p].pc \notin AtNamespaces,
           to \in AfterCluster => World.cluster # run[p].rec.cluster,
           to \in AtNamespaces /\ run[p].plane = "management" => NamespaceLeft(World, run[p].rec)
    PROVE  TInv'
<1>1. PICK failed \in BOOLEAN : run' = [run EXCEPT ![p] = Turned(run[p], to, failed)]
    BY Continues
<1>2. Turns(run[p], Turned(run[p], to, failed), to, failed) /\ run[p] \in Runs
    BY Knowing, TurnsTo DEF Steps
<1>3. Knows(World, ledger, Turned(run[p], to, failed))
    BY <1>2, Knowing, WorkTurns
<1> QED
    BY <1>1, <1>2, <1>3, Reads DEF Turns

LEMMA AtWork ==
    ASSUME TInv, NEW p \in Procs, run[p].pc \in Working
    PROVE  /\ Taken(run[p]) /\ Pending(World, run[p].rec) /\ run[p].seen = run[p].rec
           /\ Covers(ledger, run[p].rec) \/ Over(World, run[p].rec)
           /\ ~run[p].fresh
           /\ run[p].pc \notin AtNamespaces => run[p].plane = "provider"
           /\ run[p].rec.cluster # 0 /\ \A plane \in Planes : run[p].rec.ns[plane] # 0
<1>1. Taken(run[p]) /\ Knows(World, ledger, run[p])
    BY Knowing DEF Taken
<1>2. run[p].pc # "confirm" /\ run[p].pc # "removeLocal"
    BY DEF Working, AfterCluster, AtNamespaces, Cleaning
<1>3. Pending(World, run[p].rec)
    BY <1>1 DEF Knows, Relies
<1>4. run[p].rec.cluster # 0 /\ \A plane \in Planes : run[p].rec.ns[plane] # 0
    BY <1>3 DEF Pending, Record
<1> QED
    BY <1>1, <1>2, <1>3, <1>4 DEF Knows, Relies, Shaped

LEMMA SameUids ==
    ASSUME TInv, UNCHANGED <<split, gen, made, disks, pv, lh, snaps, bounds>>,
           cluster' \in Objects, ns' \in [Planes -> Objects],
           cluster'.uid = cluster.uid,
           \A plane \in Planes : ns'[plane].uid = ns[plane].uid
    PROVE  /\ World' = World /\ ObjectsTyped' /\ Sound(World') /\ Moves(World, World')
<1>1. World' = World
    BY DEF World, bounds
<1> QED
    BY <1>1, MovesSelf DEF TInv, ObjectsTyped

LEMMA DeleteClusterKeeps == ASSUME TInv, NEW p \in Procs, DeleteCluster(p) PROVE TInv'
<1> DEFINE r == run[p]
<1>1. r.pc = "cluster" /\ r.pc \in Working /\ r.pc \notin AtNamespaces
    BY DEF DeleteCluster, At, Working, AfterCluster, AtNamespaces, Cleaning
<1>2. Taken(r) /\ r.plane = "provider"
    BY <1>1, AtWork
<1>3. \A to \in {"awaitCluster", "clusterAfter"} :
          to \in Working \ (Cleaning \cup {"saveRefresh"}) /\ to \notin AfterCluster
          /\ to \notin AtNamespaces
    BY DEF Working, AfterCluster, AtNamespaces, Cleaning
<1>4. CASE UNCHANGED cluster
  <2>1. UNCHANGED <<world, records, bounds>>
      BY <1>4 DEF DeleteCluster, world, objects
  <2>2. PICK to \in {"awaitCluster", "clusterAfter"} : MovesTo(p, to) \/ FailTo(p, to)
      BY <1>4 DEF DeleteCluster
  <2> QED
      BY <1>1, <1>2, <1>3, <2>1, <2>2, WorkReads
<1>5. CASE cluster' = [cluster EXCEPT !.by = "run"]
  <2>1. cluster' \in Objects /\ cluster'.uid = cluster.uid
      BY <1>5 DEF TInv, ObjectsTyped, Objects
  <2>2. World' = World /\ ObjectsTyped' /\ Sound(World') /\ Moves(World, World')
      BY <2>1, SameUids DEF DeleteCluster, TInv, ObjectsTyped
  <2>3. PICK to \in {"awaitCluster", "clusterAfter"} : MovesTo(p, to) \/ FailTo(p, to)
      BY <1>5 DEF DeleteCluster
  <2>4. PICK failed \in BOOLEAN : run' = [run EXCEPT ![p] = Turned(run[p], to, failed)]
      BY <2>3, Continues
  <2>5. Turns(run[p], Turned(run[p], to, failed), to, failed) /\ run[p] \in Runs
      BY <1>3, Knowing, TurnsTo DEF Steps
  <2>6. Knows(World, ledger, Turned(run[p], to, failed))
      BY <1>1, <1>2, <1>3, <2>5, Knowing, WorkTurns
  <2> QED
      BY <2>2, <2>4, <2>5, <2>6, Acts DEF DeleteCluster, Turns
<1> QED
    BY <1>4, <1>5 DEF DeleteCluster

LEMMA AwaitClusterKeeps == ASSUME TInv, NEW p \in Procs, AwaitCluster(p) PROVE TInv'
<1>1. run[p].pc \in Working /\ run[p].pc \notin AtNamespaces
    BY DEF AwaitCluster, At, Working, AfterCluster, AtNamespaces, Cleaning
<1>2. /\ "clusterAfter" \in Working \ (Cleaning \cup {"saveRefresh"})
      /\ "clusterAfter" \notin AfterCluster /\ "clusterAfter" \notin AtNamespaces
    BY DEF Working, AfterCluster, AtNamespaces, Cleaning
<1> QED
    BY <1>1, <1>2, AtWork, WorkReads DEF AwaitCluster

LEMMA ClusterAfterKeeps == ASSUME TInv, NEW p \in Procs, ClusterAfter(p) PROVE TInv'
<1> DEFINE to == IF run[p].ready THEN "namespace" ELSE "refresh"
<1>1. run[p].pc \in Working /\ run[p].pc \notin AtNamespaces
    BY DEF ClusterAfter, At, Working, AfterCluster, AtNamespaces, Cleaning
<1>2. CASE Stop(p)
    BY <1>2, StopKeeps DEF ClusterAfter
<1>3. CASE cluster.uid = 0 /\ MovesTo(p, to)
  <2>1. World.cluster # run[p].rec.cluster
      BY <1>1, <1>3, AtWork DEF World
  <2>2. to \in Working \ (Cleaning \cup {"saveRefresh"}) /\ run[p].plane # "management"
      BY <1>1, AtWork DEF Working, AfterCluster, AtNamespaces, Cleaning
  <2> QED
      BY <1>1, <1>3, <2>1, <2>2, AtWork, WorkReads DEF ClusterAfter
<1> QED
    BY <1>2, <1>3 DEF ClusterAfter

LEMMA RefreshKeeps == ASSUME TInv, NEW p \in Procs, Refresh(p) PROVE TInv'
<1> DEFINE r == run[p]
           next == Inventory(r.rec)
           s == [r EXCEPT !.pc = "saveRefresh", !.next = next]
<1>1. /\ r \in Runs /\ Knows(World, ledger, r) /\ r.pc = "refresh"
      /\ r.pc \in Working /\ r.pc \in AfterCluster /\ r.pc \notin AtNamespaces
    BY Knowing DEF Refresh, At, Working, AfterCluster, AtNamespaces, Cleaning
<1>2. /\ Taken(r) /\ Pending(World, r.rec) /\ World.cluster # r.rec.cluster
      /\ r.plane = "provider" /\ ~r.fresh
    BY <1>1, AtWork DEF Knows, Achieved
<1>3. CASE FailTo(p, "namespace")
  <2>1. "namespace" \in Working \ (Cleaning \cup {"saveRefresh"}) /\ "namespace" \in AtNamespaces
      BY DEF Working, AfterCluster, AtNamespaces, Cleaning
  <2> QED
      BY <1>2, <1>3, <2>1, WorkReads DEF Refresh
<1>4. CASE ~FailTo(p, "namespace")
  <2>1. ~InventoryFails(r.rec) /\ run' = [run EXCEPT ![p] = s]
      BY <1>4 DEF Refresh, TInv
  <2>2. Pending(World, next) /\ Covers(next, r.rec) /\ disks \subseteq next.disks
      BY <1>2, <2>1, InventoryOf
  <2>3. next \in TeardownRecords /\ next # None
      BY <2>2, RecordIsOne DEF Pending, Record
  <2> HIDE DEF next
  <2>4. s \in Runs /\ s.pc = "saveRefresh" /\ s.rec = r.rec /\ s.seen = r.seen
        /\ s.next = next /\ s.fresh = r.fresh /\ s.ready = r.ready /\ s.plane = r.plane
      BY <1>1, <2>3 DEF Runs, Working, AfterCluster
  <2> HIDE DEF s
  <2>5. World.ns["provider"] = r.rec.ns["provider"]
      BY <2>1, NamespaceIsOne DEF InventoryFails, Planes
  <2>6. ~World.reused => World.cluster = 0 \/ World.ns["provider"] = 0
      BY <1>2, <2>5 DEF TInv, Sound, Pending, Record, Planes
  <2>7. Inventoried(World, r.rec, next)
      BY <2>2, <2>6 DEF Inventoried, Exposed, World
  <2>8. Knows(World, ledger, s)
      BY <1>1, <1>2, <2>2, <2>3, <2>4, <2>7 DEF Pending, Knows, Shaped, Relies, Achieved,
         CleanedUp, Taken, Fresh, Preparing, Working, AfterCluster, AtNamespaces, Cleaning
  <2> QED
      BY <2>1, <2>4, <2>8, Reads DEF Refresh
<1> QED
    BY <1>3, <1>4

LEMMA SaveRefreshKeeps == ASSUME TInv, NEW p \in Procs, SaveRefresh(p) PROVE TInv'
<1> DEFINE r == run[p]
           new == r.next
           s == [r EXCEPT !.pc = "namespace", !.rec = new, !.seen = new, !.ready = TRUE,
                          !.next = None]
           t == [r EXCEPT !.pc = "namespace", !.failed = TRUE, !.next = None]
<1>1. /\ r \in Runs /\ Knows(World, ledger, r) /\ r.pc = "saveRefresh"
      /\ r.pc \in Working /\ r.pc \in AfterCluster /\ r.pc \notin AtNamespaces
    BY Knowing DEF SaveRefresh, At, Working, AfterCluster, AtNamespaces, Cleaning
<1>2. /\ Taken(r) /\ Pending(World, r.rec) /\ World.cluster # r.rec.cluster
      /\ r.plane = "provider" /\ ~r.fresh /\ r.seen = r.rec
      /\ Covers(ledger, r.rec) \/ Over(World, r.rec)
    BY <1>1, AtWork DEF Knows, Achieved
<1>3. Pending(World, new) /\ Covers(new, r.rec) /\ Inventoried(World, r.rec, new)
    BY <1>1 DEF Knows, Achieved, Pending, Covers
<1>4. new \in TeardownRecords /\ LedgerTrue(World, new) /\ Grows(new, new)
    BY <1>3, PendingTrue DEF Pending, Record
<1>5. new.cluster = r.rec.cluster /\ new.ns = r.rec.ns
    BY <1>3 DEF Covers, Grows
<1> HIDE DEF new
<1>6. s \in Runs /\ s.pc = "namespace" /\ s.rec = new /\ s.seen = new
      /\ s.fresh = r.fresh /\ s.ready /\ s.plane = r.plane
    BY <1>1, <1>4 DEF Runs, Working, AfterCluster, AtNamespaces
<1>7. t \in Runs /\ t.pc = "namespace" /\ t.rec = r.rec /\ t.seen = r.seen
      /\ t.fresh = r.fresh /\ t.ready = r.ready /\ t.plane = r.plane
    BY <1>1 DEF Runs, Working, AfterCluster, AtNamespaces
<1>8. \/ run' = [run EXCEPT ![p] = s] /\ Writable(p) /\ ledger' = new
      \/ run' = [run EXCEPT ![p] = t] /\ Writable(p) /\ ledger' = new
      \/ run' = [run EXCEPT ![p] = t] /\ UNCHANGED ledger
    BY DEF SaveRefresh, TInv, new
<1> HIDE DEF s, t
<1>9. ASSUME NEW l, Covers(l, r.rec) \/ Over(World, r.rec)
      PROVE  Knows(World, l, t)
    BY <1>1, <1>2, <1>7, <1>9 DEF Knows, Shaped, Relies, Achieved, CleanedUp, Taken, Fresh,
       Preparing, Working, AfterCluster, AtNamespaces, Cleaning
<1>10. CASE Writable(p) /\ ledger' = new
  <2>1. Succeeds(World, ledger, ledger')
      BY <1>2, <1>3, <1>10 DEF Writable, Succeeds, Covers
  <2>2. Knows(World, ledger', t)
      BY <1>3, <1>9, <1>10
  <2>3. Inventoried(World, new, new)
      BY <1>3, <1>5 DEF Inventoried, Exposed
  <2>4. Covers(ledger', new)
      BY <1>3, <1>4, <1>10 DEF Covers
  <2>5. Knows(World, ledger', s)
      BY <1>2, <1>3, <1>5, <1>6, <2>3, <2>4 DEF Knows, Shaped, Relies, Achieved, CleanedUp,
         Taken, Fresh, Preparing, Working, AfterCluster, AtNamespaces, Cleaning
  <2>6. UNCHANGED <<world, bounds>> /\ legacy' = legacy /\ rendered' \in BOOLEAN
      BY DEF SaveRefresh, TInv
  <2>7. LedgerTrue(World, ledger')
      BY <1>4, <1>10
  <2>8. CASE run' = [run EXCEPT ![p] = s]
      BY <1>6, <2>1, <2>5, <2>6, <2>7, <2>8, Writes
  <2>9. CASE run' = [run EXCEPT ![p] = t]
      BY <1>7, <2>1, <2>2, <2>6, <2>7, <2>9, Writes
  <2> QED
      BY <1>8, <2>8, <2>9
<1>11. CASE run' = [run EXCEPT ![p] = t] /\ UNCHANGED ledger
  <2>1. UNCHANGED <<world, records, bounds>>
      BY <1>11 DEF SaveRefresh, records
  <2> QED
      BY <1>2, <1>7, <1>9, <1>11, <2>1, Reads
<1> QED
    BY <1>8, <1>10, <1>11

LEMMA DeletedBy ==
    ASSUME TInv, NEW whom \in {"run", "other"}, NEW plane
    PROVE  /\ NamespaceDeletedBy(whom, plane) \in [Planes -> Objects]
           /\ \A q \in Planes : NamespaceDeletedBy(whom, plane)[q].uid = ns[q].uid
<1>1. ASSUME NEW q \in Planes
      PROVE  [ns[q] EXCEPT !.by = whom] \in Objects /\ [ns[q] EXCEPT !.by = whom].uid = ns[q].uid
    BY <1>1 DEF TInv, ObjectsTyped, Objects
<1>2. \A q \in Planes : ns[q] \in Objects
    BY DEF TInv, ObjectsTyped
<1> QED
    BY <1>1, <1>2 DEF NamespaceDeletedBy

LEMMA InNamespace ==
    ASSUME TInv, NEW p \in Procs, run[p].pc \in AtNamespaces
    PROVE  /\ run[p].pc \in Working /\ Taken(run[p]) /\ run[p].plane \in Planes
           /\ World.cluster # run[p].rec.cluster
           /\ run[p].pc \in Cleaning \/ run[p].plane = "management" =>
                 NamespaceLeft(World, run[p].rec)
<1>1. run[p].pc \in Working /\ run[p].pc \in AfterCluster
    BY DEF Working, AfterCluster
<1> QED
    BY <1>1, AtWork, Knowing, MemoryFields DEF Knows, Achieved

LEMMA DeleteNamespaceKeeps == ASSUME TInv, NEW p \in Procs, DeleteNamespace(p) PROVE TInv'
<1> DEFINE r == run[p]
<1>1. r.pc = "namespace" /\ r.pc \in AtNamespaces
    BY DEF DeleteNamespace, At, AtNamespaces
<1>2. /\ Taken(r) /\ r.plane \in Planes /\ World.cluster # r.rec.cluster
      /\ r.plane = "management" => NamespaceLeft(World, r.rec)
    BY <1>1, InNamespace
<1>3. \A to \in {"awaitNamespace", "namespaceAfter"} :
          to \in Working \ (Cleaning \cup {"saveRefresh"}) /\ to \in AtNamespaces
    BY DEF Working, AfterCluster, AtNamespaces, Cleaning
<1>4. PICK to \in {"awaitNamespace", "namespaceAfter"} : MovesTo(p, to) \/ FailTo(p, to)
    BY DEF DeleteNamespace
<1>5. CASE UNCHANGED ns
  <2>1. UNCHANGED <<world, records, bounds>>
      BY <1>5 DEF DeleteNamespace, world, objects
  <2> QED
      BY <1>2, <1>3, <1>4, <2>1, WorkReads
<1>6. CASE ns' = NamespaceDeletedBy("run", r.plane)
  <2>1. ns' \in [Planes -> Objects] /\ \A q \in Planes : ns'[q].uid = ns[q].uid
      BY <1>6, DeletedBy
  <2>2. World' = World /\ ObjectsTyped' /\ Sound(World') /\ Moves(World, World')
      BY <2>1, SameUids DEF DeleteNamespace, TInv, ObjectsTyped
  <2>3. PICK failed \in BOOLEAN : run' = [run EXCEPT ![p] = Turned(run[p], to, failed)]
      BY <1>4, Continues
  <2>4. Turns(run[p], Turned(run[p], to, failed), to, failed) /\ run[p] \in Runs
      BY <1>3, Knowing, TurnsTo DEF Steps
  <2>5. Knows(World, ledger, Turned(run[p], to, failed))
      BY <1>1, <1>2, <1>3, <2>4, Knowing, WorkTurns
  <2> QED
      BY <2>2, <2>3, <2>4, <2>5, Acts DEF DeleteNamespace, Turns
<1> QED
    BY <1>5, <1>6 DEF DeleteNamespace

LEMMA AwaitNamespaceKeeps == ASSUME TInv, NEW p \in Procs, AwaitNamespace(p) PROVE TInv'
<1>1. run[p].pc = "awaitNamespace" /\ run[p].pc \in AtNamespaces
    BY DEF AwaitNamespace, At, AtNamespaces
<1>2. "namespaceAfter" \in Working \ (Cleaning \cup {"saveRefresh"})
      /\ "namespaceAfter" \in AtNamespaces
    BY DEF Working, AfterCluster, AtNamespaces, Cleaning
<1> QED
    BY <1>1, <1>2, InNamespace, WorkReads DEF AwaitNamespace

LEMMA NamespaceAfterKeeps == ASSUME TInv, NEW p \in Procs, NamespaceAfter(p) PROVE TInv'
<1> DEFINE r == run[p]
           s == [r EXCEPT !.pc = "namespace", !.plane = "management"]
           to == IF r.rec.disks = {} THEN "authorization" ELSE "volumes"
           t == [r EXCEPT !.todo = r.rec.disks, !.pc = to]
<1>1. r.pc = "namespaceAfter" /\ r.pc \in AtNamespaces /\ r \in Runs /\ Knows(World, ledger, r)
    BY Knowing DEF NamespaceAfter, At, AtNamespaces
<1>2. /\ Taken(r) /\ r.plane \in Planes /\ World.cluster # r.rec.cluster /\ r.pc \in Working
      /\ r.plane = "management" => NamespaceLeft(World, r.rec)
    BY <1>1, InNamespace
<1>3. /\ Pending(World, r.rec) /\ ~r.fresh /\ r.seen = r.rec
      /\ Covers(ledger, r.rec) \/ Over(World, r.rec)
      /\ \A plane \in Planes : r.rec.ns[plane] # 0
    BY <1>2, AtWork
<1>4. r.ready => Inventoried(World, r.rec, r.rec)
    BY <1>1, <1>2 DEF Knows, Achieved
<1>5. CASE Stop(p)
    BY <1>5, StopKeeps DEF NamespaceAfter
<1>6. CASE ~Stop(p)
  <2>1. World.ns[r.plane] = 0
      BY <1>2, <1>6, NamespaceIsOne DEF NamespaceAfter
  <2>2. r.plane = "provider" => NamespaceLeft(World, r.rec)
      BY <1>3, <2>1 DEF TInv, Sound, NamespaceLeft, Planes
  <2>3. NamespaceLeft(World, r.rec)
      BY <1>2, <2>2 DEF Planes
  <2>4. CASE run' = [run EXCEPT ![p].pc = "namespace", ![p].plane = "management"]
    <3>1. run' = [run EXCEPT ![p] = s]
        BY <2>4 DEF TInv
    <3>2. s \in Runs /\ s.pc = "namespace" /\ s.rec = r.rec /\ s.seen = r.seen
          /\ s.fresh = r.fresh /\ s.ready = r.ready
        BY <1>1 DEF Runs, Working, AfterCluster, AtNamespaces, Planes
    <3> HIDE DEF s
    <3>3. Knows(World, ledger, s)
        BY <1>2, <1>3, <1>4, <2>3, <3>2 DEF Knows, Shaped, Relies, Achieved, CleanedUp,
           Taken, Fresh, Preparing, Working, AfterCluster, AtNamespaces, Cleaning
    <3> QED
        BY <3>1, <3>2, <3>3, Reads DEF NamespaceAfter
  <2>5. CASE /\ ~(split /\ r.plane = "provider")
             /\ run' = [run EXCEPT ![p].todo = run[p].rec.disks,
                            ![p].pc = IF run[p].rec.disks = {}
                                      THEN "authorization" ELSE "volumes"]
    <3>1. run' = [run EXCEPT ![p] = t]
        BY <2>5 DEF TInv
    <3>2. World.ns["management"] # r.rec.ns["management"]
        BY <1>2, <1>3, <2>1, <2>5 DEF TInv, Sound, World, Planes
    <3>3. to \in Cleaning /\ to \in Working /\ (to = "volumes" <=> r.rec.disks # {})
          /\ to \notin {"backing", "finish"} /\ r.rec.disks \in SUBSET Disks
        BY <1>3 DEF Cleaning, Working, AfterCluster, AtNamespaces, Pending, Record, TeardownRecords
    <3> HIDE DEF to
    <3>4. t \in Runs /\ t.pc = to /\ t.rec = r.rec /\ t.seen = r.seen /\ t.todo = r.rec.disks
          /\ t.fresh = r.fresh /\ t.ready = r.ready
        BY <1>1, <3>3 DEF Runs
    <3> HIDE DEF t
    <3>5. to \in AfterCluster /\ to \in AtNamespaces /\ to \notin Preparing /\ to # "confirm"
          /\ to # "saveRefresh" /\ to # "idle"
        BY <3>3 DEF AfterCluster, AtNamespaces, Cleaning, Preparing
    <3>6. Shaped(t)
        BY <1>3, <3>4, <3>5 DEF Shaped
    <3>7. Relies(World, ledger, t)
        BY <1>3, <3>3, <3>4, <3>5 DEF Relies, Taken, Fresh, Preparing
    <3>8. Achieved(World, t)
        BY <1>2, <1>4, <2>3, <3>2, <3>3, <3>4, <3>5 DEF Achieved, Taken
    <3>9. CleanedUp(World, t)
        BY <3>3, <3>4, <3>5 DEF CleanedUp, Cleaning
    <3> QED
        BY <3>1, <3>4, <3>6, <3>7, <3>8, <3>9, Reads DEF NamespaceAfter, Knows
  <2> QED
      BY <1>6, <2>4, <2>5 DEF NamespaceAfter
<1> QED
    BY <1>5, <1>6

(***************************************************************************)
(* What a command that cleans the storage up knows.                        *)
(***************************************************************************)
LEMMA AtCleaning ==
    ASSUME TInv, NEW p \in Procs, run[p].pc \in Cleaning
    PROVE  /\ run[p] \in Runs /\ Knows(World, ledger, run[p])
           /\ Taken(run[p]) /\ Pending(World, run[p].rec) /\ ~run[p].fresh
           /\ run[p].rec.disks \subseteq made /\ made \subseteq Disks
           /\ disks \cap run[p].rec.disks = {}
<1>1. run[p].pc \in AtNamespaces
    BY DEF AtNamespaces
<1>2. Taken(run[p]) /\ NamespaceLeft(World, run[p].rec) /\ run[p].pc \in Working
    BY <1>1, InNamespace
<1>3. Pending(World, run[p].rec) /\ ~run[p].fresh
    BY <1>2, AtWork
<1> QED
    BY <1>2, <1>3, Knowing DEF NamespaceLeft, World, Pending, Record, TInv, Sound

(***************************************************************************)
(* It goes on cleaning up: to be shown is only what it has cleaned up.     *)
(***************************************************************************)
LEMMA CleanTurns ==
    ASSUME NEW w, NEW x, NEW l, NEW r \in Runs, NEW s \in Runs,
           Sound(w), Sound(x), Moves(w, x), Knows(w, l, r),
           r.pc \in Cleaning, s.pc \in Cleaning, ~r.fresh, Taken(r),
           s.rec = r.rec, s.seen = r.seen, s.fresh = r.fresh, s.ready = r.ready,
           CleanedUp(x, s)
    PROVE  Knows(x, l, s)
<1>1. Knows(x, l, r)
    BY KnowsMoves
<1>2. \A c \in Cleaning : c \in Working /\ c \in AfterCluster /\ c \in AtNamespaces
          /\ c \notin Preparing /\ c # "saveRefresh" /\ c # "confirm"
    BY DEF Cleaning, Working, AfterCluster, AtNamespaces, Preparing
<1>3. Shaped(s)
    BY <1>2 DEF Shaped, Preparing
<1>4. Relies(x, l, s)
    BY <1>1, <1>2 DEF Knows, Relies, Taken, Fresh, Preparing
<1>5. Achieved(x, s)
    BY <1>1, <1>2 DEF Knows, Achieved, Taken
<1> QED
    BY <1>3, <1>4, <1>5 DEF Knows

(***************************************************************************)
(* The world without one volume, or without some snapshots.                *)
(***************************************************************************)
LEMMA WithoutVolume ==
    ASSUME TInv, NEW d \in made \ disks,
           pv' \in {pv, [pv EXCEPT ![d] = 0], [pv EXCEPT ![d] = 2]},
           lh' \in {lh, [lh EXCEPT ![d] = 0], [lh EXCEPT ![d] = 2]}, snaps' \subseteq snaps,
           UNCHANGED <<split, gen, made, disks, reused>>,
           cluster' \in Objects, ns' \in [Planes -> Objects], cluster'.uid = cluster.uid,
           \A plane \in Planes : ns'[plane].uid = ns[plane].uid
    PROVE  ObjectsTyped' /\ Sound(World') /\ Moves(World, World')
<1>1. /\ pv \in [Disks -> 0..2] /\ lh \in [Disks -> 0..2] /\ made \subseteq Disks
      /\ disks \subseteq made /\ gen \in Nat
    BY DEF TInv, Sound, World
<1>2. /\ pv' \in [Disks -> 0..2] /\ pv'[d] \in {pv[d], 0, 2}
      /\ \A e \in Disks \ {d} : pv'[e] = pv[e]
    BY <1>1
<1>3. /\ lh' \in [Disks -> 0..2] /\ lh'[d] \in {lh[d], 0, 2}
      /\ \A e \in Disks \ {d} : lh'[e] = lh[e]
    BY <1>1
<1>4. \A e \in made : pv'[e] \in {pv[e], 0, 2} /\ lh'[e] \in {lh[e], 0, 2}
    BY <1>1, <1>2, <1>3
<1>5. \A e \in disks : pv'[e] = pv[e] /\ lh'[e] = lh[e]
    BY <1>1, <1>2, <1>3
<1>6. /\ World'.split = World.split /\ World'.gen = World.gen /\ World'.made = World.made
      /\ World'.disks = World.disks /\ World'.reused = World.reused
      /\ World'.cluster = World.cluster /\ World'.ns = World.ns
      /\ World'.pv = pv' /\ World'.lh = lh' /\ World'.snaps \subseteq World.snaps
      /\ World.pv = pv /\ World.lh = lh /\ World.made = made /\ World.disks = disks
    BY DEF World
<1>7. Sound(World')
    BY <1>2, <1>3, <1>5, <1>6 DEF TInv, Sound
<1>8. Moves(World, World')
    BY <1>4, <1>6 DEF TInv, Sound, Moves
<1> QED
    BY <1>7, <1>8 DEF ObjectsTyped

LEMMA DeleteVolumeKeeps == ASSUME TInv, NEW p \in Procs, DeleteVolume(p) PROVE TInv'
<1> DEFINE r == run[p]
           d == CHOOSE x \in r.todo : TRUE
           next == VolumesOr(p, d)
           b == Turned(r, "backing", r.failed)
           f == Turned(r, "backing", TRUE)
           k == [r EXCEPT !.pc = next, !.failed = TRUE, !.todo = r.todo \ {d}]
<1>1. r.pc = "volumes" /\ r.pc \in Cleaning
    BY DEF DeleteVolume, At, Cleaning
<1>2. /\ r \in Runs /\ Knows(World, ledger, r) /\ Taken(r) /\ ~r.fresh
      /\ r.rec.disks \subseteq made /\ disks \cap r.rec.disks = {} /\ made \subseteq Disks
    BY <1>1, AtCleaning
<1>3. r.todo # {} /\ r.todo \subseteq r.rec.disks
    BY <1>1, <1>2 DEF Knows, CleanedUp
<1>4. d \in r.todo /\ d \in made \ disks /\ d \in Disks
    BY <1>2, <1>3
<1>5. next = IF r.todo = {d} THEN "authorization" ELSE "volumes"
    BY DEF VolumesOr
<1>6. next \in Cleaning /\ next \in Steps /\ "backing" \in Steps /\ "backing" \in Cleaning
    BY <1>5 DEF Cleaning, Steps, Working, AfterCluster, AtNamespaces
<1>7. /\ \/ run' = [run EXCEPT ![p] = b] /\ pv'[d] # 1
         \/ run' = [run EXCEPT ![p] = f]
         \/ run' = [run EXCEPT ![p] = k]
      /\ pv' \in {pv, [pv EXCEPT ![d] = 0]}
  <2>1. pv \in [Disks -> 0..2] /\ run \in [Procs -> Runs]
      BY DEF TInv, Sound, World
  <2>2. MovesTo(p, "backing") => run' = [run EXCEPT ![p] = b]
      BY <2>1, MovesToTurns
  <2>3. [run EXCEPT ![p].pc = "backing", ![p].failed = TRUE] = [run EXCEPT ![p] = f]
      BY <2>1 DEF Turned
  <2>4. [run EXCEPT ![p].pc = next, ![p].failed = TRUE, ![p].todo = @ \ {d}]
           = [run EXCEPT ![p] = k]
    <3> HIDE DEF d, next
    <3> QED
        OBVIOUS
  <2> HIDE DEF b, f, k, next
  <2>5. DeleteVolume(p) =>
          /\ \/ /\ pv[d] = 0 /\ pv' = pv
                /\ MovesTo(p, "backing")
             \/ /\ pv' = [pv EXCEPT ![d] = 0]
                /\ \/ MovesTo(p, "backing")
                   \/ run' = [run EXCEPT ![p] = f]
                   \/ run' = [run EXCEPT ![p] = k]
             \/ /\ pv' = pv
                /\ \/ run' = [run EXCEPT ![p] = f]
                   \/ run' = [run EXCEPT ![p] = k]
      BY <2>3, <2>4 DEF DeleteVolume, next
  <2> QED
      BY <1>4, <2>1, <2>2, <2>5
<1>8. ObjectsTyped' /\ Sound(World') /\ Moves(World, World')
    BY <1>4, <1>7, WithoutVolume DEF DeleteVolume, bounds, TInv, ObjectsTyped
<1>9. World'.pv = pv'
    BY DEF World
<1>10. Knows(World', ledger, r)
    BY <1>2, <1>8, KnowsMoves DEF TInv
<1>11. Turns(r, b, "backing", r.failed) /\ Turns(r, f, "backing", TRUE)
  <2>1. r.failed \in BOOLEAN
      BY <1>2, MemoryFields
  <2> HIDE DEF next, d, k
  <2> QED
      BY <1>2, <1>6, <2>1, TurnsTo
<1>12. /\ k \in Runs /\ k.pc = next /\ k.failed = TRUE /\ k.todo = r.todo \ {d}
       /\ k.rec = r.rec /\ k.seen = r.seen /\ k.fresh = r.fresh /\ k.ready = r.ready
    BY <1>2, <1>6 DEF Runs, Steps
<1> HIDE DEF b, f, k
<1>13. CASE run' = [run EXCEPT ![p] = b] /\ pv'[d] # 1
  <2>1. CleanedUp(World', b)
      BY <1>1, <1>3, <1>9, <1>10, <1>11, <1>13 DEF Turns, Knows, CleanedUp
  <2>2. Knows(World', ledger, b)
      BY <1>1, <1>2, <1>6, <1>8, <1>11, <2>1, CleanTurns DEF Turns, TInv
  <2> QED
      BY <1>8, <1>11, <1>13, <2>2, Acts DEF Turns, DeleteVolume
<1>14. CASE run' = [run EXCEPT ![p] = f]
  <2>1. CleanedUp(World', f)
      BY <1>3, <1>11 DEF Turns, CleanedUp
  <2>2. Knows(World', ledger, f)
      BY <1>1, <1>2, <1>6, <1>8, <1>11, <2>1, CleanTurns DEF Turns, TInv
  <2> QED
      BY <1>8, <1>11, <1>14, <2>2, Acts DEF Turns, DeleteVolume
<1>15. CASE run' = [run EXCEPT ![p] = k]
  <2>1. CleanedUp(World', k)
      BY <1>3, <1>4, <1>5, <1>12 DEF CleanedUp
  <2>2. Knows(World', ledger, k)
      BY <1>1, <1>2, <1>6, <1>8, <1>12, <2>1, CleanTurns DEF TInv
  <2> QED
      BY <1>8, <1>12, <1>15, <2>2, Acts DEF DeleteVolume
<1> QED
    BY <1>7, <1>13, <1>14, <1>15

LEMMA DeleteBackingKeeps == ASSUME TInv, NEW p \in Procs, DeleteBacking(p) PROVE TInv'
<1> DEFINE r == run[p]
           d == CHOOSE x \in r.todo : TRUE
           next == VolumesOr(p, d)
<1>1. r.pc = "backing" /\ r.pc \in Cleaning
    BY DEF DeleteBacking, At, Cleaning
<1>2. /\ r \in Runs /\ Knows(World, ledger, r) /\ Taken(r) /\ ~r.fresh /\ Pending(World, r.rec)
      /\ r.rec.disks \subseteq made /\ disks \cap r.rec.disks = {} /\ made \subseteq Disks
    BY <1>1, AtCleaning
<1>3. r.todo # {} /\ r.todo \subseteq r.rec.disks
    BY <1>1, <1>2 DEF Knows, CleanedUp
<1>4. d \in r.todo /\ d \in made \ disks /\ d \in Disks
    BY <1>2, <1>3
<1>5. next = IF r.todo = {d} THEN "authorization" ELSE "volumes"
    BY DEF VolumesOr
<1>6. next \in Cleaning /\ next \in Steps
    BY <1>5 DEF Cleaning, Steps, Working, AfterCluster, AtNamespaces
<1>7. split \in BOOLEAN /\ r.failed \in BOOLEAN
    BY <1>2, MemoryFields DEF TInv, Sound, World
<1>8. \E t \in Runs :
         /\ run' = [run EXCEPT ![p] = t] /\ t.pc = next /\ t.todo = r.todo \ {d}
         /\ t.rec = r.rec /\ t.seen = r.seen /\ t.fresh = r.fresh /\ t.ready = r.ready
         /\ \/ lh' = [lh EXCEPT ![d] = 0] /\ (~t.failed => ~r.failed)
            \/ lh' = lh /\ (~t.failed => ~split /\ ~r.failed)
  <2> DEFINE done == [run EXCEPT ![p].pc = next, ![p].todo = @ \ {d}]
             fails == [done EXCEPT ![p].failed = split \/ @]
             one == [r EXCEPT !.pc = next, !.todo = r.todo \ {d}]
             two == [r EXCEPT !.pc = next, !.todo = r.todo \ {d}, !.failed = split \/ r.failed]
  <2>1. run \in [Procs -> Runs]
      BY DEF TInv
  <2>2. done = [run EXCEPT ![p] = one]
    <3> HIDE DEF d, next
    <3> QED
        OBVIOUS
  <2>3. fails = [run EXCEPT ![p] = two]
    <3> HIDE DEF d, next, done
    <3>1. one.failed = r.failed
        BY <1>2 DEF Runs
    <3> QED
        BY <2>1, <2>2, <3>1
  <2>4. \/ lh' = [lh EXCEPT ![d] = 0] /\ run' = done
        \/ lh' = [lh EXCEPT ![d] = 0] /\ run' = fails
        \/ lh' = lh /\ run' = fails
      BY DEF DeleteBacking
  <2> HIDE DEF done, fails, next, d
  <2>5. /\ one \in Runs /\ one.pc = next /\ one.failed = r.failed /\ one.todo = r.todo \ {d}
        /\ one.rec = r.rec /\ one.seen = r.seen /\ one.fresh = r.fresh /\ one.ready = r.ready
      BY <1>2, <1>6 DEF Runs, Steps
  <2>6. /\ two \in Runs /\ two.pc = next /\ two.failed = (split \/ r.failed)
        /\ two.todo = r.todo \ {d} /\ two.rec = r.rec /\ two.seen = r.seen
        /\ two.fresh = r.fresh /\ two.ready = r.ready
    <3> DEFINE f == split \/ r.failed
    <3>1. f \in BOOLEAN
        BY <1>7
    <3>2. two = [one EXCEPT !.failed = f]
        BY <1>2 DEF Runs
    <3>3. one \in Runs
        BY <2>5
    <3> HIDE DEF one, two, f
    <3>4. two \in Runs /\ two.failed = f
        BY <3>1, <3>2, <3>3 DEF Runs
    <3>5. /\ two.pc = one.pc /\ two.todo = one.todo /\ two.rec = one.rec
          /\ two.seen = one.seen /\ two.fresh = one.fresh /\ two.ready = one.ready
        BY <3>2, <3>3 DEF Runs
    <3> QED
        BY <2>5, <3>4, <3>5 DEF f
  <2> HIDE DEF one, two
  <2>7. CASE run' = done /\ lh' = [lh EXCEPT ![d] = 0]
      BY <2>2, <2>5, <2>7
  <2>8. CASE run' = fails /\ lh' \in {lh, [lh EXCEPT ![d] = 0]}
      BY <1>7, <2>3, <2>6, <2>8
  <2> QED
      BY <2>4, <2>7, <2>8
<1>9. PICK t \in Runs :
         /\ run' = [run EXCEPT ![p] = t] /\ t.pc = next /\ t.todo = r.todo \ {d}
         /\ t.rec = r.rec /\ t.seen = r.seen /\ t.fresh = r.fresh /\ t.ready = r.ready
         /\ \/ lh' = [lh EXCEPT ![d] = 0] /\ (~t.failed => ~r.failed)
            \/ lh' = lh /\ (~t.failed => ~split /\ ~r.failed)
    BY <1>8
<1>11. ObjectsTyped' /\ Sound(World') /\ Moves(World, World')
    BY <1>4, <1>9, WithoutVolume DEF DeleteBacking, bounds, TInv, ObjectsTyped
<1>12. Knows(World', ledger, r)
    BY <1>2, <1>11, KnowsMoves DEF TInv
<1> HIDE DEF next
<1>13. ASSUME ~t.failed PROVE Cleaned(World', r.rec, d)
  <2>1. World.pv[d] # 1 /\ World'.pv = pv /\ World.pv = pv /\ World'.lh = lh' /\ World'.split = split
      BY <1>1, <1>2, <1>9, <1>13 DEF Knows, CleanedUp, DeleteBacking, World
  <2>2. r.rec.pv[d] \in 0..1 /\ pv[d] \in 0..2 /\ lh \in [Disks -> 0..2]
      BY <1>2, <1>4 DEF Pending, Record, TInv, Sound, World
  <2>3. lh'[d] = 0 \/ ~split
      BY <1>4, <1>9, <1>13, <2>2
  <2> HIDE DEF d
  <2> QED
      BY <2>1, <2>2, <2>3 DEF Cleaned
<1>14. ~t.failed => ~r.failed
    BY <1>9
<1>15. ASSUME ~t.failed, NEW e \in r.rec.disks \ (r.todo \ {d})
       PROVE  Cleaned(World', r.rec, e)
  <2>1. e \in r.rec.disks \ r.todo => Cleaned(World', r.rec, e)
      BY <1>1, <1>12, <1>14, <1>15 DEF Knows, CleanedUp
  <2> QED
      BY <1>13, <1>15, <2>1
<1>16. CleanedUp(World', t)
  <2> HIDE DEF d
  <2>1. next = "volumes" => r.todo \ {d} # {} /\ r.todo \ {d} \subseteq r.rec.disks
      BY <1>3, <1>4, <1>5
  <2>2. next = "authorization" => r.todo \ {d} = {}
      BY <1>5
  <2>3. next \in {"volumes", "authorization"}
      BY <1>5
  <2> QED
      BY <1>9, <1>15, <2>1, <2>2, <2>3 DEF CleanedUp
<1>17. Knows(World', ledger, t)
    BY <1>1, <1>2, <1>6, <1>9, <1>11, <1>16, CleanTurns DEF TInv
<1> QED
    BY <1>9, <1>11, <1>17, Acts DEF DeleteBacking

LEMMA CleanupAuthorizationKeeps ==
    ASSUME TInv, NEW p \in Procs, CleanupAuthorization(p) PROVE TInv'
<1> DEFINE r == run[p]
           s == Turned(r, "finish", r.failed)
           f == Turned(r, "finish", TRUE)
<1>1. r.pc = "authorization" /\ r.pc \in Cleaning
    BY DEF CleanupAuthorization, At, Cleaning
<1>2. r \in Runs /\ Knows(World, ledger, r) /\ Taken(r) /\ ~r.fresh
    BY <1>1, AtCleaning
<1>3. "finish" \in Steps /\ "finish" \in Cleaning
    BY DEF Cleaning, Steps, Working, AfterCluster, AtNamespaces
<1>4. \/ run' = [run EXCEPT ![p] = s] /\ snaps' = snaps \ (snaps \cap r.rec.disks)
      \/ run' = [run EXCEPT ![p] = f]
    BY MovesToTurns, FailToTurns DEF CleanupAuthorization, TInv
<1>5. snaps' \subseteq snaps
    BY DEF CleanupAuthorization
<1>6. ObjectsTyped' /\ Sound(World') /\ Moves(World, World')
  <2>1. /\ World'.split = World.split /\ World'.gen = World.gen /\ World'.made = World.made
        /\ World'.disks = World.disks /\ World'.reused = World.reused
        /\ World'.cluster = World.cluster /\ World'.ns = World.ns
        /\ World'.pv = World.pv /\ World'.lh = World.lh /\ World'.snaps \subseteq World.snaps
      BY <1>5 DEF CleanupAuthorization, World, bounds
  <2> QED
      BY <2>1 DEF CleanupAuthorization, TInv, ObjectsTyped, Sound, Moves
<1>7. Turns(r, s, "finish", r.failed) /\ Turns(r, f, "finish", TRUE)
    BY <1>2, <1>3, TurnsTo, MemoryFields
<1>8. Knows(World', ledger, r)
    BY <1>2, <1>6, KnowsMoves DEF TInv
<1> HIDE DEF s, f
<1>9. CASE run' = [run EXCEPT ![p] = s] /\ snaps' = snaps \ (snaps \cap r.rec.disks)
  <2>1. World'.snaps \cap r.rec.disks = {}
      BY <1>9 DEF World
  <2>2. CleanedUp(World', s)
      BY <1>1, <1>7, <1>8, <2>1 DEF Turns, Knows, CleanedUp
  <2>3. Knows(World', ledger, s)
      BY <1>1, <1>2, <1>3, <1>6, <1>7, <2>2, CleanTurns DEF Turns, TInv
  <2> QED
      BY <1>6, <1>7, <1>9, <2>3, Acts DEF Turns, CleanupAuthorization
<1>10. CASE run' = [run EXCEPT ![p] = f]
  <2>1. CleanedUp(World', f)
      BY <1>7 DEF Turns, CleanedUp
  <2>2. Knows(World', ledger, f)
      BY <1>1, <1>2, <1>3, <1>6, <1>7, <2>1, CleanTurns DEF Turns, TInv
  <2> QED
      BY <1>6, <1>7, <1>10, <2>2, Acts DEF Turns, CleanupAuthorization
<1> QED
    BY <1>4, <1>9, <1>10

LEMMA FinishKeeps == ASSUME TInv, NEW p \in Procs, Finish(p) PROVE TInv'
<1> DEFINE r == run[p]
           done == [r.rec EXCEPT !.complete = TRUE]
           s == Turned(r, "removeLocal", r.failed)
<1>1. r.pc = "finish" /\ r.pc \in Cleaning /\ r.pc \in AfterCluster /\ r.pc \in Working
    BY DEF Finish, At, Cleaning, Working, AfterCluster, AtNamespaces
<1>2. /\ r \in Runs /\ Knows(World, ledger, r) /\ Pending(World, r.rec) /\ r.seen = r.rec
      /\ ~r.fresh
    BY <1>1, AtCleaning, AtWork
<1>3. CASE Finishable(p) /\ Writable(p) /\ ledger' = done
  <2>1. Over(World, r.rec)
    <3>1. ~r.failed
        BY <1>3 DEF Finishable
    <3>2. World.cluster # r.rec.cluster /\ NamespaceLeft(World, r.rec)
          /\ World.ns["management"] # r.rec.ns["management"]
        BY <1>1, <1>2 DEF Knows, Achieved, AtNamespaces
    <3>3. World.snaps \cap r.rec.disks = {} /\ \A d \in r.rec.disks : Cleaned(World, r.rec, d)
        BY <1>1, <1>2, <3>1 DEF Knows, CleanedUp
    <3> QED
        BY <3>2, <3>3 DEF NamespaceLeft, Over, Planes
  <2>2. r.rec \in TeardownRecords /\ ledger = r.rec /\ r.rec # None
      BY <1>2, <1>3, RecordIsOne DEF Pending, Record, Writable
  <2>3. /\ done \in TeardownRecords /\ done.complete /\ done.cluster = r.rec.cluster
        /\ done.ns = r.rec.ns /\ done.disks = r.rec.disks /\ done.pv = r.rec.pv
        /\ done.lh = r.rec.lh
      BY <2>2 DEF TeardownRecords
  <2> HIDE DEF done
  <2>4. Record(World, done) /\ Over(World, done)
      BY <1>2, <2>1, <2>3 DEF Pending, Record, Over, Cleaned
  <2>5. LedgerTrue(World, ledger')
      BY <1>3, <2>4 DEF LedgerTrue
  <2>6. Succeeds(World, ledger, ledger')
      BY <1>3, <2>1, <2>2, <2>3, <2>4, RecordIsOne DEF Succeeds, Grows
  <2>7. UNCHANGED <<world, bounds>> /\ legacy' = legacy /\ rendered' \in BOOLEAN
      BY DEF Finish, TInv
  <2>8. CASE MovesTo(p, "removeLocal")
    <3>1. run' = [run EXCEPT ![p] = s]
        BY <2>8, MovesToTurns DEF TInv
    <3>2. Turns(r, s, "removeLocal", r.failed)
        BY <1>2, TurnsTo, MemoryFields DEF Steps
    <3> HIDE DEF s
    <3>3. Knows(World, ledger', s)
        BY <1>2, <3>2 DEF Turns, Knows, Shaped, Relies, Achieved, CleanedUp, Taken, Fresh,
           Preparing, Working, AfterCluster, AtNamespaces, Cleaning
    <3> QED
        BY <2>5, <2>6, <2>7, <3>1, <3>2, <3>3, Writes DEF Turns
  <2>9. CASE Stop(p)
      BY <2>5, <2>6, <2>7, <2>9, KnowsIdle, Writes DEF Stop
  <2> QED
      BY <1>3, <2>8, <2>9 DEF Finish
<1>4. CASE Stop(p) /\ UNCHANGED ledger
    BY <1>4, StopKeeps DEF Finish, records
<1> QED
    BY <1>3, <1>4 DEF Finish

LEMMA RemoveLocalKeeps == ASSUME TInv, NEW p \in Procs, RemoveLocal(p) PROVE TInv'
<1>1. rendered' \in BOOLEAN /\ ledger' = ledger /\ legacy' = legacy
    BY DEF RemoveLocal, TInv
<1>2. LedgerTrue(World, ledger') /\ Succeeds(World, ledger, ledger')
    BY <1>1, SucceedsSelf DEF TInv
<1> QED
    BY <1>1, <1>2, KnowsIdle, Writes DEF RemoveLocal, Stop

LEMMA PruneReadKeeps == ASSUME TInv, NEW p \in Procs, PruneRead(p) PROVE TInv'
<1> DEFINE r == run[p]
           s == [r EXCEPT !.pc = "pruneCheck", !.seen = ledger]
<1>1. r \in Runs /\ Knows(World, ledger, r) /\ r.pc = "idle"
    BY Knowing DEF PruneRead, At
<1>2. ~r.fresh /\ ~r.ready /\ r.plane = "provider"
    BY <1>1 DEF Knows, Shaped, Preparing, AtNamespaces, Cleaning
<1>3. ledger # None /\ ledger.complete /\ ledger \in TeardownRecords
    BY DEF PruneRead, Prunable, TInv, LedgerTrue, Record
<1>4. run' = [run EXCEPT ![p] = s]
    BY DEF PruneRead, TInv
<1>5. s \in Runs /\ s.pc = "pruneCheck" /\ s.seen = ledger /\ s.fresh = r.fresh
      /\ s.ready = r.ready /\ s.plane = r.plane
    BY <1>1, <1>3 DEF Runs, Preparing
<1> HIDE DEF s
<1>6. Knows(World, ledger, s)
    BY <1>2, <1>3, <1>5 DEF Knows, Shaped, Relies, Achieved, CleanedUp, Taken, Fresh,
       Preparing, Working, AfterCluster, AtNamespaces, Cleaning
<1> QED
    BY <1>4, <1>5, <1>6, Reads DEF PruneRead

LEMMA PruneCheckKeeps == ASSUME TInv, NEW p \in Procs, PruneCheck(p) PROVE TInv'
<1> DEFINE r == run[p]
           s == Turned(r, "pruneDelete", r.failed)
<1>1. r \in Runs /\ Knows(World, ledger, r) /\ r.pc = "pruneCheck"
    BY Knowing DEF PruneCheck, At
<1>2. CASE Stop(p)
    BY <1>2, StopKeeps DEF PruneCheck
<1>3. CASE MovesTo(p, "pruneDelete")
  <2>1. run' = [run EXCEPT ![p] = s]
      BY <1>3, MovesToTurns DEF TInv
  <2>2. Turns(r, s, "pruneDelete", r.failed)
      BY <1>1, TurnsTo, MemoryFields DEF Steps, Preparing
  <2> HIDE DEF s
  <2>3. Knows(World, ledger, s)
      BY <1>1, <2>2 DEF Turns, Knows, Shaped, Relies, Achieved, CleanedUp, Taken, Fresh,
         Preparing, Working, AfterCluster, AtNamespaces, Cleaning
  <2> QED
      BY <2>1, <2>2, <2>3, Reads DEF PruneCheck, Turns
<1> QED
    BY <1>2, <1>3 DEF PruneCheck

LEMMA PruneDeleteKeeps == ASSUME TInv, NEW p \in Procs, PruneDelete(p) PROVE TInv'
<1>1. run[p].seen # None /\ run[p].seen.complete
    BY Knowing DEF PruneDelete, At, Knows, Relies
<1>2. LedgerTrue(World, ledger') /\ Succeeds(World, ledger, ledger')
  <2>1. CASE Writable(p)
      BY <1>1, <2>1 DEF PruneDelete, Writable, LedgerTrue, Succeeds
  <2>2. CASE ~Writable(p)
      BY <2>2, SucceedsSelf DEF PruneDelete, TInv
  <2> QED
      BY <2>1, <2>2
<1> QED
    BY <1>2, KnowsIdle, Writes DEF PruneDelete, Stop, TInv

LEMMA MigrateReadKeeps == ASSUME TInv, NEW p \in Procs, MigrateRead(p) PROVE TInv'
<1> DEFINE r == run[p]
           s == [r EXCEPT !.pc = "migrateWrite", !.seen = ledger, !.rec = legacy]
<1>1. r \in Runs /\ Knows(World, ledger, r) /\ r.pc = "idle"
    BY Knowing DEF MigrateRead, At
<1>2. ~r.fresh /\ ~r.ready /\ r.plane = "provider"
    BY <1>1 DEF Knows, Shaped, Preparing, AtNamespaces, Cleaning
<1>3. Pending(World, legacy) /\ legacy \in TeardownRecords /\ ledger \in {None, legacy}
    BY DEF MigrateRead, TInv, Pending, Record
<1>4. run' = [run EXCEPT ![p] = s]
    BY DEF MigrateRead, TInv
<1>5. s \in Runs /\ s.pc = "migrateWrite" /\ s.seen = ledger /\ s.rec = legacy
      /\ s.fresh = r.fresh /\ s.ready = r.ready /\ s.plane = r.plane
    BY <1>1, <1>3 DEF Runs, Preparing
<1> HIDE DEF s
<1>6. Knows(World, ledger, s)
    BY <1>2, <1>3, <1>5 DEF Knows, Shaped, Relies, Achieved, CleanedUp, Taken, Fresh,
       Preparing, Working, AfterCluster, AtNamespaces, Cleaning
<1> QED
    BY <1>4, <1>5, <1>6, Reads DEF MigrateRead

LEMMA MigrateWriteKeeps == ASSUME TInv, NEW p \in Procs, MigrateWrite(p) PROVE TInv'
<1> DEFINE r == run[p]
           s == Turned(r, "migrateDelete", r.failed)
<1>1. r \in Runs /\ Knows(World, ledger, r) /\ r.pc = "migrateWrite"
    BY Knowing DEF MigrateWrite, At
<1>2. Pending(World, r.rec) /\ r.seen \in {None, r.rec}
    BY <1>1 DEF Knows, Relies
<1>3. CASE Writable(p) /\ ledger' = r.rec
  <2>1. LedgerTrue(World, ledger') /\ Grows(r.rec, r.rec)
      BY <1>2, <1>3, PendingTrue
  <2>2. Succeeds(World, ledger, ledger')
      BY <1>2, <1>3, <2>1 DEF Writable, Succeeds, Pending
  <2>3. UNCHANGED <<world, bounds>> /\ legacy' = legacy /\ rendered' \in BOOLEAN
      BY DEF MigrateWrite, TInv
  <2>4. CASE MovesTo(p, "migrateDelete")
    <3>1. run' = [run EXCEPT ![p] = s]
        BY <2>4, MovesToTurns DEF TInv
    <3>2. Turns(r, s, "migrateDelete", r.failed)
        BY <1>1, TurnsTo, MemoryFields DEF Steps, Preparing
    <3> HIDE DEF s
    <3>3. Knows(World, ledger', s)
        BY <1>1, <3>2 DEF Turns, Knows, Shaped, Relies, Achieved, CleanedUp, Taken, Fresh,
           Preparing, Working, AfterCluster, AtNamespaces, Cleaning
    <3> QED
        BY <2>1, <2>2, <2>3, <3>1, <3>2, <3>3, Writes DEF Turns
  <2>5. CASE Stop(p)
      BY <2>1, <2>2, <2>3, <2>5, KnowsIdle, Writes DEF Stop
  <2> QED
      BY <1>3, <2>4, <2>5 DEF MigrateWrite
<1>4. CASE Stop(p) /\ UNCHANGED ledger
    BY <1>4, StopKeeps DEF MigrateWrite, records
<1> QED
    BY <1>3, <1>4 DEF MigrateWrite

LEMMA MigrateDeleteKeeps == ASSUME TInv, NEW p \in Procs, MigrateDelete(p) PROVE TInv'
<1>1. rendered' \in BOOLEAN /\ ledger' = ledger /\ legacy' = None
    BY DEF MigrateDelete, TInv
<1>2. LedgerTrue(World, ledger') /\ Succeeds(World, ledger, ledger')
    BY <1>1, SucceedsSelf DEF TInv
<1> QED
    BY <1>1, <1>2, KnowsIdle, Writes DEF MigrateDelete, Stop

-----------------------------------------------------------------------------
(***************************************************************************)
(* What happens without a command.                                         *)
(***************************************************************************)
LEMMA Present1 == ASSUME NEW uid \in Nat PROVE Present(uid) \in Objects /\ Present(uid).uid = uid
BY DEF Present, Objects

LEMMA GoneIs == Gone \in Objects /\ Gone.uid = 0
BY DEF Gone, Objects

LEMMA InstallKeeps == ASSUME TInv, Install PROVE TInv'
<1>1. gen \in Nat /\ gen' = gen + 1 /\ gen' \in Nat
    BY DEF Install, TInv, Sound, World
<1>2. Present(gen') \in Objects /\ Present(gen').uid = gen'
    BY <1>1, Present1
<1>3. \A plane \in Planes :
         /\ ns[plane] \in Objects
         /\ ns'[plane] = IF ns[plane].uid = 0 THEN Present(gen') ELSE ns[plane]
    BY <1>1 DEF Install, TInv, ObjectsTyped
<1>4. ns' \in [Planes -> Objects] /\ cluster' \in Objects /\ cluster'.uid = gen'
    BY <1>1, <1>2, <1>3 DEF Install
<1>5. /\ World.gen = gen /\ World.cluster = 0
      /\ \A plane \in Planes : World.ns[plane] = ns[plane].uid
      /\ World'.gen = gen + 1 /\ World'.cluster = gen + 1 /\ World'.ns \in [Planes -> Nat]
      /\ \A plane \in Planes :
            World'.ns[plane] = IF World.ns[plane] = 0 THEN gen + 1 ELSE World.ns[plane]
      /\ World'.split = World.split /\ World'.made = World.made /\ World'.disks = World.disks
      /\ World'.pv = World.pv /\ World'.lh = World.lh /\ World'.snaps = World.snaps
      /\ World'.reused = (World.reused \/ \E plane \in Planes : World.ns[plane] # 0)
  <2>1. \A plane \in Planes : World'.ns[plane] = ns'[plane].uid /\ World.ns[plane] = ns[plane].uid
      BY DEF World
  <2>2. World'.ns \in [Planes -> Nat]
      BY <1>4 DEF World, Objects
  <2>3. World.cluster = 0 /\ World'.cluster = gen + 1
      BY <1>1, <1>4 DEF World, Install
  <2>4. World'.reused = (World.reused \/ \E plane \in Planes : World.ns[plane] # 0)
      BY <2>1 DEF World, Install
  <2> QED
      BY <1>1, <1>2, <1>3, <2>1, <2>2, <2>3, <2>4 DEF World, Install
<1>6. Sound(World')
  <2>1. \A plane \in Planes : World.ns[plane] \in 0..gen /\ World'.ns[plane] \in 1..(gen + 1)
      BY <1>1, <1>5 DEF TInv, Sound
  <2>2. World'.ns \in [Planes -> 0..World'.gen]
      BY <1>1, <1>5, <2>1
  <2>3. World'.ns["provider"] # 0
      BY <2>1 DEF Planes
  <2>4. ~World'.split => World'.ns["provider"] = World'.ns["management"]
      BY <1>5 DEF TInv, Sound, Planes
  <2>5. ~World'.reused => \A plane \in Planes : World'.ns[plane] = World'.cluster
      BY <1>5
  <2>6. World'.reused \in BOOLEAN
      BY <1>5 DEF TInv, Sound
  <2> QED
      BY <1>1, <1>5, <2>2, <2>3, <2>4, <2>5, <2>6 DEF TInv, Sound
<1>7. Moves(World, World')
  <2>1. World.reused => World'.reused
      BY <1>5
  <2>2. World'.cluster > World.gen
      BY <1>1, <1>5
  <2>3. \A plane \in Planes : World'.ns[plane] \in {World.ns[plane], 0} \/ World'.ns[plane] > World.gen
      BY <1>1, <1>5
  <2>4. ~World'.reused => \A plane \in Planes : World.ns[plane] = 0
      BY <1>5
  <2>5. World.gen <= World'.gen
      BY <1>1, <1>5
  <2> QED
      BY <1>5, <2>1, <2>2, <2>3, <2>4, <2>5 DEF TInv, Sound, Moves
<1> QED
    BY <1>4, <1>6, <1>7, Outside DEF Install, ObjectsTyped

LEMMA ProvisionKeeps == ASSUME TInv, NEW d \in Disks, Provision(d) PROVE TInv'
<1>1. World.ns["provider"] # 0 /\ World.cluster # 0
    BY NamespaceIsOne DEF Provision, World, Planes
<1>2. /\ World'.split = World.split /\ World'.gen = World.gen
      /\ World'.cluster = World.cluster /\ World'.ns = World.ns
      /\ World'.reused = World.reused
      /\ World'.made = World.made \cup {d} /\ World'.disks = World.disks \cup {d}
      /\ World'.snaps = World.snaps \cup {d} /\ d \notin World.made
      /\ World'.pv = [World.pv EXCEPT ![d] = 1] /\ World'.lh = [World.lh EXCEPT ![d] = 1]
    BY DEF Provision, World
<1>3. Sound(World')
    BY <1>1, <1>2 DEF TInv, Sound
<1>4. Moves(World, World')
    BY <1>1, <1>2 DEF TInv, Sound, Moves
<1> QED
    BY <1>3, <1>4, Outside DEF Provision, TInv, ObjectsTyped, records

LEMMA FinalizeClusterKeeps == ASSUME TInv, FinalizeCluster PROVE TInv'
<1>1. /\ World'.split = World.split /\ World'.gen = World.gen
      /\ World'.cluster = 0 /\ World'.ns = World.ns
      /\ World'.reused = World.reused /\ World'.made = World.made
      /\ World'.disks \subseteq World.disks /\ World'.snaps = World.snaps
      /\ World'.pv = World.pv /\ World'.lh = World.lh
    BY GoneIs DEF FinalizeCluster, World, bounds
<1>2. Sound(World')
    BY <1>1 DEF TInv, Sound
<1>3. Moves(World, World')
    BY <1>1 DEF TInv, Sound, Moves
<1> QED
    BY <1>2, <1>3, GoneIs, Outside DEF FinalizeCluster, TInv, ObjectsTyped, records

LEMMA FinalizeNamespaceKeeps ==
    ASSUME TInv, NEW plane \in Planes, FinalizeNamespace(plane) PROVE TInv'
<1>1. \A q \in Planes : ns'[q] = IF q \in OnPlane(plane) THEN Gone ELSE ns[q]
    BY DEF FinalizeNamespace
<1>2. ns' \in [Planes -> Objects] /\ cluster' \in Objects
    BY GoneIs DEF FinalizeNamespace, TInv, ObjectsTyped
<1>3. /\ World'.split = World.split /\ World'.gen = World.gen
      /\ World'.reused = World.reused /\ World'.made = World.made /\ World'.snaps = World.snaps
      /\ World'.pv = World.pv /\ World'.lh = World.lh
      /\ World'.cluster \in {World.cluster, 0}
      /\ World'.ns \in [Planes -> Nat]
      /\ \A q \in Planes : World'.ns[q] = IF q \in OnPlane(plane) THEN 0 ELSE World.ns[q]
      /\ World'.disks = IF "provider" \in OnPlane(plane) THEN {} ELSE World.disks
  <2>1. \A q \in Planes : World'.ns[q] = ns'[q].uid /\ World.ns[q] = ns[q].uid
      BY DEF World
  <2>2. World'.ns \in [Planes -> Nat]
      BY <1>2 DEF World, Objects
  <2>3. World'.cluster = cluster'.uid /\ World.cluster = cluster.uid
        /\ World'.disks = disks' /\ World.disks = disks
      BY DEF World
  <2> QED
      BY <1>1, <2>1, <2>2, <2>3, GoneIs DEF FinalizeNamespace, World, bounds
<1>4. ~World.split => OnPlane(plane) = Planes
    BY DEF OnPlane, World
<1>5. Sound(World')
  <2>1. World'.ns \in [Planes -> 0..World'.gen]
      BY <1>3 DEF TInv, Sound
  <2>2. ~World'.split => World'.ns["provider"] = World'.ns["management"]
      BY <1>3, <1>4 DEF Planes
  <2>3. World'.ns["provider"] = 0 => World'.disks = {}
      BY <1>3 DEF TInv, Sound, Planes
  <2>4. ~World'.reused => \A q \in Planes :
            World'.cluster = 0 \/ World'.ns[q] = 0 \/ World'.ns[q] = World'.cluster
      BY <1>3 DEF TInv, Sound
  <2> QED
      BY <1>3, <2>1, <2>2, <2>3, <2>4 DEF TInv, Sound
<1>6. Moves(World, World')
    BY <1>3 DEF TInv, Sound, Moves, Planes
<1> QED
    BY <1>2, <1>5, <1>6, Outside DEF FinalizeNamespace, TInv, ObjectsTyped, records

LEMMA MeddleKeeps == ASSUME TInv, Meddle PROVE TInv'
<1>1. UNCHANGED <<split, gen, made, disks, snaps, reused, ledger, legacy, rendered, run>>
    BY DEF Meddle, records
<1>2. cluster \in Objects /\ ns \in [Planes -> Objects] /\ rendered' \in BOOLEAN
    BY <1>1 DEF TInv, ObjectsTyped
<1>3. CASE cluster' = [cluster EXCEPT !.by = "other"] /\ UNCHANGED <<ns, pv, lh>>
  <2>1. cluster' \in Objects /\ cluster'.uid = cluster.uid
      BY <1>2, <1>3 DEF Objects
  <2>2. World' = World
      BY <1>1, <1>3, <2>1 DEF World
  <2> QED
      BY <1>1, <1>2, <1>3, <2>1, <2>2, MovesSelf, Outside DEF TInv, ObjectsTyped
<1>4. ASSUME NEW plane \in Planes, ns' = NamespaceDeletedBy("other", plane),
             UNCHANGED <<cluster, pv, lh>>
      PROVE  TInv'
  <2>1. ns' \in [Planes -> Objects] /\ \A q \in Planes : ns'[q].uid = ns[q].uid
      BY <1>4, DeletedBy
  <2>2. World' = World
      BY <1>1, <1>4, <2>1 DEF World
  <2> QED
      BY <1>1, <1>2, <1>4, <2>1, <2>2, MovesSelf, Outside DEF TInv, ObjectsTyped
<1>5. ASSUME NEW d \in made \ disks,
             UNCHANGED <<cluster, ns>>,
             pv' \in {pv, [pv EXCEPT ![d] = 2]}, lh' \in {lh, [lh EXCEPT ![d] = 2]}
      PROVE  TInv'
  <2>1. ObjectsTyped' /\ Sound(World') /\ Moves(World, World')
      BY <1>1, <1>2, <1>5, WithoutVolume
  <2> QED
      BY <1>1, <1>2, <2>1, Outside
<1>6. \/ cluster' = [cluster EXCEPT !.by = "other"] /\ UNCHANGED <<ns, pv, lh>>
      \/ /\ \E plane \in Planes : ns' = NamespaceDeletedBy("other", plane)
         /\ UNCHANGED <<cluster, pv, lh>>
      \/ (\E d \in made \ disks : pv' = [pv EXCEPT ![d] = 2]) /\ UNCHANGED <<cluster, ns, lh>>
      \/ (\E d \in made \ disks : lh' = [lh EXCEPT ![d] = 2]) /\ UNCHANGED <<cluster, ns, pv>>
    BY DEF Meddle
<1>7. CASE \E plane \in Planes : ns' = NamespaceDeletedBy("other", plane) /\ UNCHANGED <<cluster, pv, lh>>
    BY <1>4, <1>7
<1>8. CASE \E d \in made \ disks : pv' = [pv EXCEPT ![d] = 2] /\ UNCHANGED <<cluster, ns, lh>>
  <2>1. PICK d \in made \ disks : pv' = [pv EXCEPT ![d] = 2]
      BY <1>8
  <2>2. UNCHANGED <<cluster, ns>> /\ lh' = lh
      BY <1>8
  <2> QED
      BY <1>5, <2>1, <2>2
<1>9. CASE \E d \in made \ disks : lh' = [lh EXCEPT ![d] = 2] /\ UNCHANGED <<cluster, ns, pv>>
  <2>1. PICK d \in made \ disks : lh' = [lh EXCEPT ![d] = 2]
      BY <1>9
  <2>2. UNCHANGED <<cluster, ns>> /\ pv' = pv
      BY <1>9
  <2> QED
      BY <1>5, <2>1, <2>2
<1> QED
    BY <1>3, <1>6, <1>7, <1>8, <1>9

-----------------------------------------------------------------------------
LEMMA InitTInv == TeardownInit => TInv
<1> SUFFICES ASSUME TeardownInit PROVE TInv
    OBVIOUS
<1>1. OneDisk \in Disks
    BY TeardownAssumption DEF OneDisk
<1>2. Present(1) \in Objects /\ Present(1).uid = 1
    BY Present1
<1>3. ObjectsTyped
    BY <1>2 DEF TeardownInit, ObjectsTyped
<1>4. /\ World.split \in BOOLEAN /\ World.gen = 1 /\ World.cluster = 1 /\ World.reused = FALSE
      /\ World.ns = [plane \in Planes |-> 1]
      /\ World.disks = {OneDisk} /\ World.made = {OneDisk}
      /\ World.pv = [d \in Disks |-> IF d = OneDisk THEN 1 ELSE 0] /\ World.lh = World.pv
      /\ World.split = split /\ World.pv = pv /\ World.lh = lh
    BY <1>2 DEF TeardownInit, World
<1>5. Sound(World)
  <2>1. World.ns \in [Planes -> 0..World.gen] /\ World.ns["provider"] = 1
        /\ \A plane \in Planes : World.ns[plane] = 1
      BY <1>4 DEF Planes
  <2>2. World.pv \in [Disks -> 0..2] /\ World.pv[OneDisk] = 1
      BY <1>1, <1>4
  <2>3. \A d \in World.disks : World.pv[d] # 2 /\ World.lh[d] # 2
      BY <1>4, <2>2
  <2>4. World.gen \in Nat /\ World.cluster \in 0..World.gen
      BY <1>4
  <2>5. World.split \in BOOLEAN /\ World.reused \in BOOLEAN
      BY <1>4, Zenon
  <2>6. /\ World.made \subseteq Disks /\ World.disks \subseteq World.made
         /\ World.lh \in [Disks -> 0..2]
      BY <1>1, <1>4, <2>2
  <2>7. \A plane \in Planes : World.ns[plane] = World.cluster
      BY <1>4, <2>1
  <2>8. World.ns["provider"] = World.ns["management"] /\ World.ns["provider"] # 0
      BY <2>1 DEF Planes
  <2> QED
      BY <2>1, <2>2, <2>3, <2>4, <2>5, <2>6, <2>7, <2>8 DEF Sound
<1>6. legacy # None => Pending(World, legacy)
  <2> SUFFICES ASSUME legacy # None PROVE Pending(World, legacy)
      OBVIOUS
  <2> DEFINE pvs == Captured({OneDisk}, pv)
             lhs == Captured({OneDisk}, lh)
  <2>1. pvs \in [Disks -> 0..1] /\ lhs \in [Disks -> 0..1]
      BY <1>1, <1>4 DEF Captured
  <2> HIDE DEF pvs, lhs
  <2>2. legacy = [cluster |-> 1, ns |-> [plane \in Planes |-> 1], disks |-> {OneDisk},
                  complete |-> FALSE, pv |-> pvs, lh |-> lhs]
      BY DEF TeardownInit, pvs, lhs
  <2>3. legacy \in TeardownRecords
      BY <1>1, <2>1, <2>2 DEF TeardownRecords
  <2> QED
      BY <1>4, <2>1, <2>2, <2>3 DEF Pending, Record, Planes
<1>7. \A p \in Procs : Knows(World, ledger, run[p])
    BY KnowsIdle DEF TeardownInit
<1>8. run \in [Procs -> Runs]
    BY KnowsIdle DEF TeardownInit
<1> QED
    BY <1>3, <1>5, <1>6, <1>7, <1>8 DEF TInv, TeardownInit, LedgerTrue

LEMMA ProceedKeeps == ASSUME TInv, NEW p \in Procs, Proceed(p) PROVE TInv'
<1>1. CASE ReadRecord(p) \/ CheckCompleted(p) \/ Bind(p) \/ TakeInventory(p)
           \/ Confirm(p) \/ Recheck(p) \/ RecordFirst(p)
    BY <1>1, ReadRecordKeeps, CheckCompletedKeeps, BindKeeps, TakeInventoryKeeps,
       ConfirmKeeps, RecheckKeeps, RecordFirstKeeps
<1>2. CASE DeleteCluster(p) \/ AwaitCluster(p) \/ ClusterAfter(p) \/ Refresh(p)
           \/ SaveRefresh(p) \/ DeleteNamespace(p) \/ AwaitNamespace(p) \/ NamespaceAfter(p)
    BY <1>2, DeleteClusterKeeps, AwaitClusterKeeps, ClusterAfterKeeps, RefreshKeeps,
       SaveRefreshKeeps, DeleteNamespaceKeeps, AwaitNamespaceKeeps, NamespaceAfterKeeps
<1>3. CASE DeleteVolume(p) \/ DeleteBacking(p) \/ CleanupAuthorization(p) \/ Finish(p)
           \/ RemoveLocal(p)
    BY <1>3, DeleteVolumeKeeps, DeleteBackingKeeps, CleanupAuthorizationKeeps, FinishKeeps,
       RemoveLocalKeeps
<1>4. CASE PruneCheck(p) \/ PruneDelete(p) \/ MigrateWrite(p) \/ MigrateDelete(p)
    BY <1>4, PruneCheckKeeps, PruneDeleteKeeps, MigrateWriteKeeps, MigrateDeleteKeeps
<1> QED
    BY <1>1, <1>2, <1>3, <1>4 DEF Proceed

LEMMA NextTInv == TInv /\ [TeardownNext]_teardownVars => TInv'
<1> SUFFICES ASSUME TInv, [TeardownNext]_teardownVars PROVE TInv'
    OBVIOUS
<1>1. ASSUME NEW p \in Procs, Start(p) \/ PruneRead(p) \/ MigrateRead(p) PROVE TInv'
    BY <1>1, StartKeeps, PruneReadKeeps, MigrateReadKeeps
<1>2. ASSUME NEW p \in Procs, Proceed(p) PROVE TInv'
    BY <1>2, ProceedKeeps
<1>3. ASSUME NEW p \in Procs, Die(p) PROVE TInv'
    BY <1>3, StopKeeps DEF Die
<1>4. CASE Install
    BY <1>4, InstallKeeps
<1>5. ASSUME NEW d \in Disks, Provision(d) PROVE TInv'
    BY <1>5, ProvisionKeeps
<1>6. CASE Controllers
    BY <1>6, FinalizeClusterKeeps, FinalizeNamespaceKeeps DEF Controllers
<1>7. CASE Meddle
    BY <1>7, MeddleKeeps
<1>8. CASE UNCHANGED teardownVars
  <2>1. UNCHANGED <<world, reused, ledger, legacy, run>> /\ rendered' = rendered
      BY <1>8 DEF teardownVars, records, bounds
  <2> QED
      BY <2>1, WorldSame, MovesSelf, Outside DEF TInv
<1> QED
    BY <1>1, <1>2, <1>3, <1>4, <1>5, <1>6, <1>7, <1>8 DEF TeardownNext

(***************************************************************************)
(* The state of a teardown: what every command, wherever it is, may rely   *)
(* on, and that a completed record is the truth.                           *)
(***************************************************************************)
THEOREM TeardownInductive == TeardownSpec => []TInv
BY InitTInv, NextTInv, PTL DEF TeardownSpec

(***************************************************************************)
(* A completed record tells the truth, for any number of commands, disks,  *)
(* installations and objects somebody else deletes or recreates.           *)
(***************************************************************************)
THEOREM CompletedRecordsAreTrue == TeardownSpec => []CompletedIsGone
<1>1. TInv => CompletedIsGone
  <2> SUFFICES ASSUME TInv, ledger # None, ledger.complete
               PROVE  CompletedIsGone
      BY DEF CompletedIsGone
  <2>1. Over(World, ledger)
      BY DEF TInv, LedgerTrue
  <2>2. /\ World.cluster = cluster.uid /\ \A plane \in Planes : World.ns[plane] = ns[plane].uid
        /\ World.snaps = snaps /\ World.pv = pv /\ World.lh = lh /\ World.split = split
      BY DEF World
  <2> QED
      BY <2>1, <2>2 DEF Over, Cleaned, CompletedIsGone
<1> QED
    BY <1>1, TeardownInductive, PTL

-----------------------------------------------------------------------------
(***************************************************************************)
(* Who changes the objects, and who the record.                            *)
(***************************************************************************)
LEMMA WhoChangesObjects ==
    ASSUME TeardownNext
    PROVE  \/ UNCHANGED objects
           \/ \E p \in Procs : DeleteCluster(p) \/ DeleteNamespace(p) \/ DeleteVolume(p)
                               \/ DeleteBacking(p) \/ CleanupAuthorization(p)
           \/ Install \/ (\E d \in Disks : Provision(d)) \/ FinalizeCluster
           \/ (\E plane \in Planes : FinalizeNamespace(plane)) \/ Meddle
<1>1. ASSUME NEW p \in Procs, Proceed(p)
      PROVE  \/ UNCHANGED objects
             \/ DeleteCluster(p) \/ DeleteNamespace(p) \/ DeleteVolume(p) \/ DeleteBacking(p)
             \/ CleanupAuthorization(p)
    BY <1>1 DEF Proceed, ReadRecord, CheckCompleted, Bind, TakeInventory, Confirm, Recheck,
       RecordFirst, AwaitCluster, ClusterAfter, Refresh, SaveRefresh, AwaitNamespace,
       NamespaceAfter, Finish, RemoveLocal, PruneCheck, PruneDelete, MigrateWrite,
       MigrateDelete, world
<1>2. ASSUME NEW p \in Procs, Start(p) \/ PruneRead(p) \/ MigrateRead(p) \/ Die(p)
      PROVE  UNCHANGED objects
    BY <1>2 DEF Start, PruneRead, MigrateRead, Die, world
<1> QED
    BY <1>1, <1>2 DEF TeardownNext, Controllers

LEMMA WhoChangesTheRecord ==
    ASSUME TeardownNext
    PROVE  \/ ledger' = ledger
           \/ \E p \in Procs : RecordFirst(p) \/ SaveRefresh(p) \/ Finish(p)
                               \/ PruneDelete(p) \/ MigrateWrite(p)
<1>1. ASSUME NEW p \in Procs, Proceed(p)
      PROVE  \/ ledger' = ledger
             \/ RecordFirst(p) \/ SaveRefresh(p) \/ Finish(p) \/ PruneDelete(p)
             \/ MigrateWrite(p)
    BY <1>1 DEF Proceed, ReadRecord, CheckCompleted, Bind, TakeInventory, Confirm, Recheck,
       DeleteCluster, AwaitCluster, ClusterAfter, Refresh, DeleteNamespace, AwaitNamespace,
       NamespaceAfter, DeleteVolume, DeleteBacking, CleanupAuthorization, RemoveLocal,
       PruneCheck, MigrateDelete, records
<1>2. ASSUME NEW p \in Procs, Start(p) \/ PruneRead(p) \/ MigrateRead(p) \/ Die(p)
      PROVE  ledger' = ledger
    BY <1>2 DEF Start, PruneRead, MigrateRead, Die, records
<1>3. Install \/ (\E d \in Disks : Provision(d)) \/ Controllers \/ Meddle => ledger' = ledger
    BY DEF Install, Provision, Controllers, FinalizeCluster, FinalizeNamespace, Meddle, records
<1> QED
    BY <1>1, <1>2, <1>3 DEF TeardownNext

(***************************************************************************)
(* A record that is not yet over is in the ledger, and incomplete.         *)
(***************************************************************************)
LEMMA Recorded1 ==
    ASSUME TInv, NEW p \in Procs, run[p].pc \in Working, ~Over(World, run[p].rec)
    PROVE  Incomplete /\ Grows(run[p].rec, ledger)
BY AtWork DEF Incomplete, Covers, Grows

LEMMA DeleteClusterRecorded ==
    ASSUME TInv, NEW p \in Procs, DeleteCluster(p), Deleted(cluster, cluster')
    PROVE  Incomplete /\ ledger.cluster = cluster.uid
<1>1. run[p].pc \in Working
    BY DEF DeleteCluster, At, Working
<1>2. cluster.uid = run[p].rec.cluster
    BY DEF DeleteCluster, Deleted, BoundResource
<1>3. ~Over(World, run[p].rec)
    BY <1>2 DEF Over, World
<1> QED
    BY <1>1, <1>2, <1>3, Recorded1 DEF Grows

LEMMA DeleteNamespaceRecorded ==
    ASSUME TInv, NEW p \in Procs, DeleteNamespace(p), NEW plane \in Planes,
           Deleted(ns[plane], ns'[plane])
    PROVE  /\ Incomplete /\ ledger.ns[plane] = ns[plane].uid
           /\ ~reused => cluster.uid = 0 /\ disks \subseteq ledger.disks
<1> DEFINE r == run[p]
<1>1. r.pc = "namespace" /\ r.pc \in AtNamespaces
    BY DEF DeleteNamespace, At, AtNamespaces
<1>2. /\ r.pc \in Working /\ Taken(r) /\ World.cluster # r.rec.cluster /\ r.plane \in Planes
    BY <1>1, InNamespace
<1>3. Pending(World, r.rec) /\ Knows(World, ledger, r) /\ Sound(World)
    BY <1>2, AtWork, Knowing
<1>4. /\ r.ready /\ Namespace(r.plane).uid # 0 /\ Namespace(r.plane).uid = r.rec.ns[r.plane]
      /\ plane \in OnPlane(r.plane)
    BY DEF DeleteNamespace, Deleted, BoundResource, NamespaceDeletable, NamespaceDeletedBy
<1>5. World.ns[plane] = r.rec.ns[plane] /\ World.ns[plane] # 0
  <2>1. World.ns[r.plane] = r.rec.ns[r.plane] /\ World.ns[r.plane] # 0
      BY <1>2, <1>4, NamespaceIsOne
  <2>2. CASE split
      BY <1>4, <2>1, <2>2 DEF OnPlane
  <2>3. CASE ~split
    <3>1. World.ns["provider"] = World.ns["management"]
          /\ r.rec.ns["provider"] = r.rec.ns["management"]
        BY <1>3, <2>3 DEF Sound, Pending, Record, World
    <3> QED
        BY <1>2, <2>1, <3>1 DEF Planes
  <2> QED
      BY <2>2, <2>3
<1>6. ~Over(World, r.rec)
    BY <1>5 DEF Over
<1>7. Incomplete /\ Grows(r.rec, ledger)
    BY <1>2, <1>6, Recorded1
<1>8. World.ns[plane] = ns[plane].uid /\ World.cluster = cluster.uid /\ World.disks = disks
      /\ World.reused = reused
    BY DEF World
<1>9. ASSUME ~reused PROVE cluster.uid = 0 /\ disks \subseteq ledger.disks
  <2>1. Exposed(World, r.rec)
      BY <1>5, <1>8, <1>9 DEF Exposed
  <2>2. disks \subseteq r.rec.disks
      BY <1>2, <1>3, <1>4, <1>8, <2>1 DEF Knows, Achieved, Inventoried
  <2>3. World.cluster = 0
      BY <1>2, <1>3, <1>5, <1>8, <1>9 DEF Sound, Pending, Record
  <2> QED
      BY <1>7, <1>8, <2>2, <2>3 DEF Grows
<1> QED
    BY <1>5, <1>7, <1>8, <1>9 DEF Grows

LEMMA DeleteVolumeRecorded ==
    ASSUME TInv, NEW p \in Procs, DeleteVolume(p), NEW d \in Disks, pv[d] # 0, pv'[d] = 0
    PROVE  d \notin disks /\ (pv[d] = 1 => Incomplete /\ Named(ledger.pv, pv, d))
<1> DEFINE r == run[p]
           e == CHOOSE x \in r.todo : TRUE
<1>1. r.pc = "volumes" /\ r.pc \in Cleaning /\ r.pc \in Working
    BY DEF DeleteVolume, At, Cleaning, AtNamespaces, AfterCluster, Working
<1>2. e \in r.rec.disks /\ r.rec.disks \cap disks = {}
    BY <1>1, AtCleaning DEF Knows, CleanedUp
<1>3. pv \in [Disks -> 0..2]
    BY DEF TInv, Sound, World
<1>4. d = e /\ VolumeMatches(p, d)
  <2>1. \/ pv' = pv
        \/ pv' = [pv EXCEPT ![e] = 0] /\ VolumeMatches(p, e)
      BY DEF DeleteVolume
  <2> HIDE DEF e
  <2> QED
      BY <1>3, <2>1
<1>5. ASSUME pv[d] = 1 PROVE Incomplete /\ Named(ledger.pv, pv, d)
  <2>1. ~Over(World, r.rec)
      BY <1>2, <1>4, <1>5 DEF Over, Cleaned, World
  <2>2. Incomplete /\ Grows(r.rec, ledger)
      BY <1>1, <2>1, Recorded1
  <2> QED
      BY <1>2, <1>4, <2>2 DEF Grows, Named, VolumeMatches
<1> QED
    BY <1>2, <1>4, <1>5

LEMMA DeleteBackingRecorded ==
    ASSUME TInv, NEW p \in Procs, DeleteBacking(p), NEW d \in Disks, split,
           lh[d] = 1, lh'[d] = 0
    PROVE  Incomplete /\ Named(ledger.lh, lh, d)
<1> DEFINE r == run[p]
           e == CHOOSE x \in r.todo : TRUE
<1>1. r.pc = "backing" /\ r.pc \in Cleaning /\ r.pc \in Working
    BY DEF DeleteBacking, At, Cleaning, AtNamespaces, AfterCluster, Working
<1>2. e \in r.rec.disks
    BY <1>1, AtCleaning DEF Knows, CleanedUp
<1>3. lh \in [Disks -> 0..2]
    BY DEF TInv, Sound, World
<1>4. d = e /\ lh[d] = r.rec.lh[d]
  <2>1. \/ lh' = lh
        \/ lh' = [lh EXCEPT ![e] = 0] /\ (lh[e] = 0 \/ lh[e] = r.rec.lh[e])
      BY DEF DeleteBacking
  <2> HIDE DEF e
  <2> QED
      BY <1>3, <2>1
<1>5. ~Over(World, r.rec)
  <2>1. World.lh = lh /\ World.split = split /\ d \in r.rec.disks
      BY <1>2, <1>4 DEF World
  <2>2. ~Cleaned(World, r.rec, d)
      BY <1>4, <2>1 DEF Cleaned
  <2> QED
      BY <2>1, <2>2 DEF Over
<1>6. Incomplete /\ Grows(r.rec, ledger)
    BY <1>1, <1>5, Recorded1
<1> QED
    BY <1>2, <1>4, <1>6 DEF Grows, Named

LEMMA CleanupAuthorizationRecorded ==
    ASSUME TInv, NEW p \in Procs, CleanupAuthorization(p), NEW d \in snaps \ snaps'
    PROVE  Incomplete /\ d \in ledger.disks
<1>1. run[p].pc \in Working
    BY DEF CleanupAuthorization, At, Cleaning, AtNamespaces, AfterCluster, Working
<1>2. d \in run[p].rec.disks
    BY DEF CleanupAuthorization
<1>3. ~Over(World, run[p].rec)
    BY <1>2 DEF Over, World
<1> QED
    BY <1>1, <1>2, <1>3, Recorded1 DEF Grows

LEMMA RecordStep == ASSUME TInv, TeardownNext PROVE KeepsRecord
<1> SUFFICES ASSUME ledger # None, ~ledger.complete
             PROVE  Grows(ledger, ledger')
    BY DEF KeepsRecord
<1>1. CASE ledger' = ledger
    BY <1>1 DEF Grows
<1>2. ASSUME NEW p \in Procs, RecordFirst(p) PROVE Grows(ledger, ledger')
  <2>1. run[p].seen = None \/ run[p].seen.complete
      BY <1>2, Knowing DEF RecordFirst, At, Knows, Relies, Fresh
  <2> QED
      BY <1>1, <1>2, <2>1 DEF RecordFirst, Writable
<1>3. ASSUME NEW p \in Procs, SaveRefresh(p) PROVE Grows(ledger, ledger')
  <2>1. run[p].pc = "saveRefresh" /\ run[p].pc \in Working
      BY <1>3 DEF SaveRefresh, At, AfterCluster, Working
  <2>2. run[p].seen = run[p].rec /\ Covers(run[p].next, run[p].rec)
      BY <2>1, AtWork, Knowing DEF Knows, Achieved
  <2> QED
      BY <1>1, <1>3, <2>2 DEF SaveRefresh, Writable, Covers
<1>4. ASSUME NEW p \in Procs, Finish(p) PROVE Grows(ledger, ledger')
  <2> DEFINE rec == run[p].rec
             done == [rec EXCEPT !.complete = TRUE]
  <2>1. run[p].seen = rec /\ rec \in TeardownRecords
      BY <1>4, AtWork DEF Finish, At, Pending, Record, Cleaning, AtNamespaces, AfterCluster,
         Working
  <2>2. /\ done \in TeardownRecords /\ done.cluster = rec.cluster /\ done.ns = rec.ns
        /\ done.disks = rec.disks /\ done.pv = rec.pv /\ done.lh = rec.lh
      BY <2>1 DEF TeardownRecords
  <2>3. ledger' = ledger \/ (ledger = rec /\ ledger' = done)
      BY <1>4, <2>1 DEF Finish, Writable
  <2> HIDE DEF done
  <2> QED
      BY <1>1, <2>2, <2>3, NoneAssumption DEF Grows
<1>5. ASSUME NEW p \in Procs, PruneDelete(p) PROVE Grows(ledger, ledger')
  <2>1. run[p].seen.complete
      BY <1>5, Knowing DEF PruneDelete, At, Knows, Relies
  <2> QED
      BY <1>1, <1>5, <2>1 DEF PruneDelete, Writable
<1>6. ASSUME NEW p \in Procs, MigrateWrite(p) PROVE Grows(ledger, ledger')
  <2>1. run[p].seen \in {None, run[p].rec}
      BY <1>6, Knowing DEF MigrateWrite, At, Knows, Relies
  <2> QED
      BY <1>1, <1>6, <2>1 DEF MigrateWrite, Writable
<1> QED
    BY <1>1, <1>2, <1>3, <1>4, <1>5, <1>6, WhoChangesTheRecord

-----------------------------------------------------------------------------
(***************************************************************************)
(* What is done to an object without a command is not a deletion by one,   *)
(* and takes no volume of a claim.                                         *)
(***************************************************************************)
Untouched ==
    /\ ~Deleted(cluster, cluster') /\ \A plane \in Planes : ~Deleted(ns[plane], ns'[plane])
    /\ \A d \in Disks : (pv'[d] = 0 => pv[d] = 0) /\ (lh'[d] = 0 => lh[d] = 0)
    /\ snaps \subseteq snaps'

LEMMA UntouchedKeeps == Untouched /\ TInv => DeletesRecorded /\ KeepsOrder
<1>1. TInv => disks \subseteq Disks
    BY DEF TInv, Sound, World
<1> QED
    BY <1>1 DEF Untouched, DeletesRecorded, KeepsOrder

LEMMA NotByRun ==
    /\ \A here, uid : ~Deleted(here, Present(uid))
    /\ \A here : ~Deleted(here, Gone) /\ ~Deleted(here, here)
    /\ \A here \in Objects : ~Deleted(here, [here EXCEPT !.by = "other"])
BY DEF Deleted, Present, Gone, Objects

LEMMA OutsideUntouched ==
    ASSUME TInv,
           \/ UNCHANGED objects \/ Install \/ (\E d \in Disks : Provision(d))
           \/ FinalizeCluster \/ (\E plane \in Planes : FinalizeNamespace(plane)) \/ Meddle
    PROVE  Untouched
<1>1. /\ cluster \in Objects /\ ns \in [Planes -> Objects] /\ pv \in [Disks -> 0..2]
      /\ lh \in [Disks -> 0..2]
    BY DEF TInv, ObjectsTyped, Sound, World
<1> HIDE DEF Deleted, Present, Gone
<1>2. CASE UNCHANGED objects
    BY <1>2, NotByRun DEF objects, Untouched
<1>3. CASE Install
    BY <1>3, NotByRun DEF Install, Untouched
<1>4. ASSUME NEW d \in Disks, Provision(d) PROVE Untouched
    BY <1>1, <1>4, NotByRun DEF Provision, Untouched
<1>5. CASE FinalizeCluster
    BY <1>5, NotByRun DEF FinalizeCluster, Untouched
<1>6. ASSUME NEW plane \in Planes, FinalizeNamespace(plane) PROVE Untouched
    BY <1>6, NotByRun DEF FinalizeNamespace, Untouched
<1>7. CASE Meddle
  <2>1. ~Deleted(cluster, cluster')
      BY <1>1, <1>7, NotByRun DEF Meddle
  <2>2. \A plane \in Planes : ~Deleted(ns[plane], ns'[plane])
    <3>1. ASSUME NEW q \in Planes, ns' = NamespaceDeletedBy("other", q), NEW plane \in Planes
          PROVE  ~Deleted(ns[plane], ns'[plane])
      <4>1. ns'[plane] \in {ns[plane], [ns[plane] EXCEPT !.by = "other"]}
          BY <3>1 DEF NamespaceDeletedBy
      <4> QED
          BY <1>1, <4>1, NotByRun
    <3> QED
        BY <1>7, <3>1, NotByRun DEF Meddle
  <2>3. snaps' = snaps
      BY <1>7 DEF Meddle
  <2>4. pv' = pv \/ \E d \in made \ disks : pv' = [pv EXCEPT ![d] = 2]
      BY <1>7 DEF Meddle
  <2>5. lh' = lh \/ \E d \in made \ disks : lh' = [lh EXCEPT ![d] = 2]
      BY <1>7 DEF Meddle
  <2>6. \A d \in Disks : (pv'[d] = 0 => pv[d] = 0) /\ (lh'[d] = 0 => lh[d] = 0)
      BY <1>1, <2>4, <2>5
  <2> QED
      BY <2>1, <2>2, <2>3, <2>6 DEF Untouched
<1> QED
    BY <1>2, <1>3, <1>4, <1>5, <1>6, <1>7

LEMMA DeletionStep == ASSUME TInv, TeardownNext PROVE DeletesRecorded /\ KeepsOrder
<1> USE NotByRun
<1>1. disks \subseteq Disks
    BY DEF TInv, Sound, World
<1>2. ASSUME NEW p \in Procs, DeleteCluster(p) PROVE DeletesRecorded /\ KeepsOrder
  <2>1. ns' = ns /\ pv' = pv /\ lh' = lh /\ snaps' = snaps
      BY <1>2 DEF DeleteCluster
  <2>2. Deleted(cluster, cluster') => Incomplete /\ ledger.cluster = cluster.uid
      BY <1>2, DeleteClusterRecorded
  <2> HIDE DEF Deleted, Incomplete
  <2> QED
      BY <2>1, <2>2 DEF DeletesRecorded, KeepsOrder
<1>3. ASSUME NEW p \in Procs, DeleteNamespace(p) PROVE DeletesRecorded /\ KeepsOrder
  <2>1. cluster' = cluster /\ pv' = pv /\ lh' = lh /\ snaps' = snaps
      BY <1>3 DEF DeleteNamespace
  <2>2. \A plane \in Planes : Deleted(ns[plane], ns'[plane]) =>
            /\ Incomplete /\ ledger.ns[plane] = ns[plane].uid
            /\ ~reused => cluster.uid = 0 /\ disks \subseteq ledger.disks
      BY <1>3, DeleteNamespaceRecorded
  <2> HIDE DEF Deleted, Incomplete
  <2> QED
      BY <2>1, <2>2 DEF DeletesRecorded, KeepsOrder
<1>4. ASSUME NEW p \in Procs, DeleteVolume(p) PROVE DeletesRecorded /\ KeepsOrder
  <2>1. cluster' = cluster /\ ns' = ns /\ lh' = lh /\ snaps' = snaps
      BY <1>4 DEF DeleteVolume
  <2>2. \A d \in Disks : pv[d] # 0 /\ pv'[d] = 0 =>
            d \notin disks /\ (pv[d] = 1 => Incomplete /\ Named(ledger.pv, pv, d))
      BY <1>4, DeleteVolumeRecorded
  <2> HIDE DEF Deleted, Incomplete
  <2> QED
      BY <1>1, <2>1, <2>2 DEF DeletesRecorded, KeepsOrder
<1>5. ASSUME NEW p \in Procs, DeleteBacking(p) PROVE DeletesRecorded /\ KeepsOrder
  <2>1. cluster' = cluster /\ ns' = ns /\ pv' = pv /\ snaps' = snaps
      BY <1>5 DEF DeleteBacking
  <2>2. \A d \in Disks : split /\ lh[d] = 1 /\ lh'[d] = 0 =>
            Incomplete /\ Named(ledger.lh, lh, d)
      BY <1>5, DeleteBackingRecorded
  <2> HIDE DEF Deleted, Incomplete
  <2> QED
      BY <2>1, <2>2 DEF DeletesRecorded, KeepsOrder
<1>6. ASSUME NEW p \in Procs, CleanupAuthorization(p) PROVE DeletesRecorded /\ KeepsOrder
  <2>1. cluster' = cluster /\ ns' = ns /\ pv' = pv /\ lh' = lh
      BY <1>6 DEF CleanupAuthorization
  <2>2. \A d \in snaps \ snaps' : Incomplete /\ d \in ledger.disks
      BY <1>6, CleanupAuthorizationRecorded
  <2> HIDE DEF Deleted, Incomplete
  <2> QED
      BY <2>1, <2>2 DEF DeletesRecorded, KeepsOrder
<1> QED
    BY <1>2, <1>3, <1>4, <1>5, <1>6, WhoChangesObjects, OutsideUntouched, UntouchedKeeps

LEMMA StutterStep ==
    ASSUME TInv, UNCHANGED teardownVars PROVE DeletesRecorded /\ KeepsOrder /\ KeepsRecord
<1>1. UNCHANGED objects /\ ledger' = ledger
    BY DEF teardownVars, world, records
<1>2. KeepsRecord
    BY <1>1 DEF KeepsRecord, Grows
<1> QED
    BY <1>1, <1>2, OutsideUntouched, UntouchedKeeps

(***************************************************************************)
(* Whatever a command deletes is named by the incomplete durable record of *)
(* that moment.                                                            *)
(***************************************************************************)
THEOREM OnlyRecordedIsDeleted == TeardownSpec => DeletesOnlyRecorded
<1>1. TInv /\ [TeardownNext]_teardownVars => [DeletesRecorded]_teardownVars
    BY DeletionStep, StutterStep
<1> QED
    BY <1>1, TeardownInductive, PTL DEF TeardownSpec, DeletesOnlyRecorded

(***************************************************************************)
(* An incomplete record is never lost, and only grows.                     *)
(***************************************************************************)
THEOREM TheRecordIsKept == TeardownSpec => RecordKept
<1>1. TInv /\ [TeardownNext]_teardownVars => [KeepsRecord]_teardownVars
    BY RecordStep, StutterStep
<1> QED
    BY <1>1, TeardownInductive, PTL DEF TeardownSpec, RecordKept

(***************************************************************************)
(* A namespace is deleted after its Cluster and with every claim in it on  *)
(* record, a volume after its claim.                                       *)
(***************************************************************************)
THEOREM TheOrderIsKept == TeardownSpec => OrderKept
<1>1. TInv /\ [TeardownNext]_teardownVars => [KeepsOrder]_teardownVars
    BY DeletionStep, StutterStep
<1> QED
    BY <1>1, TeardownInductive, PTL DEF TeardownSpec, OrderKept
==============================================================================
