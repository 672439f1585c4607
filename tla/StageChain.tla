----------------------------- MODULE StageChain -----------------------------
(***************************************************************************)
(* The chain of stage receipts: which persisted receipts a stage plan may  *)
(* be continued from, which receipt the next stage may add, and what an    *)
(* offline recovery of a stopped network observation may inherit           *)
(* (internal/stageplan, stagereceipt, stagecursor, runner/stage_resume.go, *)
(* runner/network_recovery.go).                                            *)
(*                                                                         *)
(* A plan is named by its digest, and Document gives what that digest      *)
(* stands for.  A receipt and its digest are one value: a receipt that     *)
(* links the digest of another holds that receipt.  The operator may hand  *)
(* over any plan document, any independently expected identity and any     *)
(* sequence of receipts ever persisted.                                    *)
(***************************************************************************)
EXTENDS Integers, Sequences, FiniteSets

CONSTANTS
    Plans,        \* digests of the plan documents an operator can hand over
    Document,     \* the document behind a digest
    None,         \* an absent field
    BareLength,   \* stages of a Bare-cluster plan (7)
    FullLength,   \* stages of a complete plan (12)
    Inherited,    \* stages a recovery inherits (4); it restarts at the next
    Lifecycle,    \* order of cluster-lifecycle (2)
    Mutating,     \* orders of the stages that need a grant
    Optional,     \* mutating stages that may succeed without an attempt (1)
    Results,      \* state and mutation state a stage can report
    MaxCompletedAt, \* bound on completion times
    MaxReceipts,  \* bound on the receipts
    MaxStops      \* bound on the stop receipts

ASSUME ChainAssumption ==
    /\ {BareLength, FullLength, Inherited, MaxCompletedAt,
        MaxReceipts, MaxStops} \subseteq Nat
    /\ 0 < Inherited /\ Inherited < BareLength /\ BareLength <= FullLength
    /\ Lifecycle \in 1..Inherited
    /\ Optional \subseteq Mutating /\ Mutating \subseteq 1..FullLength
    /\ None \notin Plans

VARIABLES
    receipts,   \* receipts persisted so far, of every plan
    stops,      \* stop receipts of full runs
    cursor      \* the receipts being loaded, then the decision they give

chainVars == <<receipts, stops, cursor>>

-----------------------------------------------------------------------------
(* Plan documents *)

IsRecovery(plan) == Document[plan].source # None
Length(plan) == Document[plan].length
Expect(document) == [intent |-> document.intent, mode |-> document.mode,
                     attempt |-> document.attempt, source |-> document.source]

StagesValid(document) ==
    \/ document.length = FullLength
    \/ document.length = BareLength /\ document.mode = "bare"

(* stageplan.Verify: only the recovery format names a source plan, only v2 *)
(* an execution attempt, and everything equals the expected identity.      *)
PlanVerified(plan, expected) ==
    LET document == Document[plan] IN
    /\ IF document.format = "recovery"
       THEN /\ document.source # None /\ document.source = expected.source
            /\ document.mode = "bare" /\ document.length = BareLength
       ELSE document.source = None /\ expected.source = None
    /\ IF document.format = "v2"
       THEN document.attempt # None /\ document.attempt = expected.attempt
       ELSE document.attempt = None /\ expected.attempt = None
    /\ document.mode = expected.mode
    /\ document.intent = expected.intent
    /\ StagesValid(document)

-----------------------------------------------------------------------------
(* Receipts.  A verified receipt carries, for one recovery, the successor  *)
(* plan it is read for, the recovery binding, and its own source plan.     *)

Plain(receipt) == [receipt |-> receipt, recovery |-> None, binding |-> None, origin |-> None]

LinksVerified(plan, order, predecessors, at) ==
    /\ Len(predecessors) = (IF order = 1 THEN 0 ELSE 1)
    /\ \A i \in DOMAIN predecessors :
          LET previous == predecessors[i].receipt IN
          /\ previous.plan = plan \/ predecessors[i].recovery = plan
          /\ previous.order = order - 1
          /\ previous.state = "SUCCEEDED"
          /\ at >= previous.at

Links(predecessors) == [i \in DOMAIN predecessors |-> predecessors[i].receipt]

OutcomeValid(receipt) ==
    /\ IF receipt.order \in Mutating
       THEN /\ receipt.mutation # "NOT_APPLICABLE"
            /\ \/ receipt.state # "SUCCEEDED"
               \/ receipt.mutation = "ATTEMPTED"
               \/ receipt.order \in Optional /\ receipt.mutation = "NOT_ATTEMPTED"
       ELSE receipt.mutation = "NOT_APPLICABLE"
    /\ receipt.target # None => receipt.order = Lifecycle /\ receipt.state = "SUCCEEDED"

(* A receipt of a recovery plan rests on a receipt read for that recovery. *)
RecoveryContext(plan, order, predecessors) ==
    IsRecovery(plan) =>
        /\ order > Inherited
        /\ Len(predecessors) = 1
        /\ predecessors[1].recovery = plan
        /\ predecessors[1].binding # None

BindingOf(plan, predecessors) ==
    IF IsRecovery(plan) THEN predecessors[1].binding ELSE None

(* Mutant: the predecessor digests of the receipt are not compared. *)
ReceiptVerifiedWithoutLinks(receipt, plan, predecessors) ==
    /\ receipt.order \in 1..Length(plan)
    /\ RecoveryContext(plan, receipt.order, predecessors)
    /\ receipt.binding = BindingOf(plan, predecessors)
    /\ receipt.plan = plan
    /\ LinksVerified(plan, receipt.order, predecessors, receipt.at)
    /\ OutcomeValid(receipt)

ReceiptVerified(receipt, plan, predecessors) ==
    /\ receipt.order \in 1..Length(plan)
    /\ RecoveryContext(plan, receipt.order, predecessors)
    /\ receipt.binding = BindingOf(plan, predecessors)
    /\ receipt.plan = plan
    /\ LinksVerified(plan, receipt.order, predecessors, receipt.at)
    /\ receipt.links = Links(predecessors)
    /\ OutcomeValid(receipt)

(* What verification of receipt hands on as the next predecessor. *)
Verified(receipt, plan) ==
    IF IsRecovery(plan)
    THEN [Plain(receipt) EXCEPT !.recovery = plan, !.binding = receipt.binding]
    ELSE Plain(receipt)

Before(sequence, i) == IF i = 1 THEN <<>> ELSE <<sequence[i - 1]>>

(* An inherited receipt is verified again in its source plan, next to      *)
(* predecessors that were inherited under the same recovery binding.       *)
Reverified(item, plan, predecessors) ==
    IF item.origin = None
    THEN ReceiptVerified(item.receipt, plan, predecessors)
    ELSE /\ item.recovery = plan
         /\ Document[plan].source = item.origin
         /\ item.receipt.order <= Inherited
         /\ \A i \in DOMAIN predecessors :
               /\ predecessors[i].recovery = item.recovery
               /\ predecessors[i].binding = item.binding
         /\ ReceiptVerified(item.receipt, item.origin,
                [i \in DOMAIN predecessors |-> Plain(predecessors[i].receipt)])

InheritedFor(item, plan) ==
    /\ item.origin # None
    /\ item.recovery = plan
    /\ item.origin = Document[plan].source

-----------------------------------------------------------------------------
(* stagecursor.Evaluate *)

CursorAdmits(plan, prefix) ==
    /\ Len(prefix) <= Length(plan)
    /\ IsRecovery(plan) =>
          /\ Len(prefix) >= Inherited
          /\ \A i \in 1..Inherited : InheritedFor(prefix[i], plan)
    /\ \A i \in DOMAIN prefix :
          /\ Reverified(prefix[i], plan, Before(prefix, i))
          /\ prefix[i].receipt.order = i
          /\ prefix[i].receipt.state # "SUCCEEDED" => i = Len(prefix)

Terminal(prefix) ==
    Len(prefix) > 0 /\ prefix[Len(prefix)].receipt.state # "SUCCEEDED"

CursorState(plan, prefix) ==
    CASE Terminal(prefix) -> "STOPPED"
      [] Len(prefix) = Length(plan) -> "COMPLETED"
      [] OTHER -> "NEXT"

Cursor(plan, prefix) ==
    [state |-> CursorState(plan, prefix), plan |-> plan, prefix |-> prefix,
     next |-> IF CursorState(plan, prefix) = "NEXT" THEN Len(prefix) + 1 ELSE 0]

Loading(plan, prefix) ==
    [state |-> "LOADING", plan |-> plan, prefix |-> prefix, next |-> 0]
NoCursor == [state |-> "none", plan |-> None, prefix |-> <<>>, next |-> 0]

-----------------------------------------------------------------------------
(* Recovery of a stopped network observation *)

(* The stop receipt: this source plan stopped at the network observation   *)
(* because a source failed, after exactly these successful receipts.       *)
StopBinds(stop, source, chain) ==
    /\ stop.plan = source
    /\ Document[source].mode = "bare"
    /\ stop.order = Inherited + 1
    /\ stop.category = "OBSERVATION_SOURCE_ERROR"
    /\ stop.checkpoints = chain

(* The corrected profile repeats the old one but for the release identity, *)
(* which moves from the former Cluster to the Cluster of the Contract.     *)
ProfileCorrected(old, new, former, intent) ==
    /\ new.requires = old.requires
    /\ old.release = former
    /\ new.release = intent
    /\ new.release # old.release

(* stagereceipt.InheritFourStagePrefix: the plans agree in everything but  *)
(* the profile input of the observation, and the target is known.          *)
Inheritable(source, successor, chain) ==
    LET old == Document[source]
        new == Document[successor]
    IN  /\ old.source = None /\ old.attempt = None
        /\ new.source = source
        /\ old.length = BareLength /\ new.length = BareLength
        /\ old.mode = "bare" /\ new.mode = "bare"
        /\ old.intent = new.intent
        /\ old.profile # new.profile
        /\ \A i \in DOMAIN chain :
              /\ ReceiptVerified(chain[i], source, IF i = 1 THEN <<>> ELSE <<Plain(chain[i - 1])>>)
              /\ chain[i].state = "SUCCEEDED"
              /\ chain[i].order = i
        /\ chain[Lifecycle].target # None

InheritedPrefix(binding) ==
    [i \in DOMAIN binding.receipts |->
        [receipt |-> binding.receipts[i], recovery |-> binding.successor,
         binding |-> binding, origin |-> binding.source]]

(* VerifyNetworkRecovery of a binding the operator pinned by its digest:   *)
(* first the two plans, then the receipts, the stop and the profiles.      *)
PlansVerified(source, plan, expected) ==
    /\ expected.source = None
    /\ PlanVerified(plan, [expected EXCEPT !.source = source])
    /\ PlanVerified(source, expected)
    /\ Document[source].attempt = None
    /\ Expect(Document[source]) = expected

RecoveryVerified(binding, plan) ==
    LET source == binding.source
        chain == binding.receipts
        loaded == [i \in DOMAIN chain |-> Plain(chain[i])]
    IN  /\ Len(chain) = Inherited
        /\ plan = binding.successor
        /\ \A i \in 1..Inherited : ReceiptVerified(chain[i], source, Before(loaded, i))
        /\ CursorAdmits(source, loaded)
        /\ CursorState(source, loaded) = "NEXT"
        /\ chain[Lifecycle].target = binding.target
        /\ StopBinds(binding.stop, source, chain)
        /\ ProfileCorrected(Document[source].profile, Document[plan].profile,
                            binding.former, Document[source].intent)
        /\ Inheritable(source, plan, chain)

-----------------------------------------------------------------------------
(* Actions *)

ChainInit ==
    /\ receipts = {}
    /\ stops = {}
    /\ cursor = NoCursor

Expectations == {Expect(Document[plan]) : plan \in Plans}
Targets == {None, "uid"}
Releases == {Document[plan].profile.release : plan \in Plans}

(* loadStageResumeWithPrefix without a recovery binding. *)
Resume(plan, expected) ==
    /\ cursor = NoCursor
    /\ PlanVerified(plan, expected)
    /\ cursor' = Loading(plan, <<>>)
    /\ UNCHANGED <<receipts, stops>>

(* loadNetworkRecoveryResume: the inherited receipts come first. *)
Recover(plan, source, expected) ==
    /\ cursor = NoCursor
    /\ PlansVerified(source, plan, expected)
    /\ \E stop \in stops, chain \in [1..Inherited -> receipts], former \in Releases :
          LET binding == [source |-> source, successor |-> plan, receipts |-> chain,
                          stop |-> stop, target |-> "uid", former |-> former]
          IN  /\ RecoveryVerified(binding, plan)
              /\ cursor' = Loading(plan, InheritedPrefix(binding))
    /\ UNCHANGED <<receipts, stops>>

(* One turn of the loop: the next receipt is verified against the previous. *)
LoadReceipt(receipt) ==
    LET n == Len(cursor.prefix)
        previous == IF n = 0 THEN <<>> ELSE <<cursor.prefix[n]>>
    IN  /\ cursor.state = "LOADING"
        /\ ReceiptVerified(receipt, cursor.plan, previous)
        /\ cursor' = Loading(cursor.plan, Append(cursor.prefix, Verified(receipt, cursor.plan)))
        /\ UNCHANGED <<receipts, stops>>

Evaluate ==
    /\ cursor.state = "LOADING"
    /\ CursorAdmits(cursor.plan, cursor.prefix)
    /\ cursor' = Cursor(cursor.plan, cursor.prefix)
    /\ UNCHANGED <<receipts, stops>>

(* A refused receipt or prefix, or the end of an inspection. *)
Return ==
    /\ cursor # NoCursor
    /\ cursor' = NoCursor
    /\ UNCHANGED <<receipts, stops>>

(* Mutant: a recovery plan may be executed. *)
ExecutionEnabledForRecovery(plan) == plan \in Plans

(* RequireExecutionEnabled *)
ExecutionEnabled(plan) == ~IsRecovery(plan)

(* validateStageMutationResult: a created Cluster has an identity. *)
ResultValid(order, state, target) ==
    order = Lifecycle /\ state = "SUCCEEDED" => target # None

(* A stage runs from its cursor and persists one receipt; New refuses one  *)
(* that the chain does not admit.                                          *)
RecordStage(state, mutation, target, at) ==
    LET plan == cursor.plan
        order == cursor.next
        predecessors == Before(cursor.prefix, order)
        receipt == [plan |-> plan, order |-> order, links |-> Links(predecessors),
                    state |-> state, mutation |-> mutation, target |-> target, at |-> at,
                    binding |-> BindingOf(plan, predecessors)]
    IN  /\ cursor.state = "NEXT"
        /\ Cardinality(receipts) < MaxReceipts
        /\ ExecutionEnabled(plan)
        /\ ResultValid(order, state, target)
        /\ ReceiptVerified(receipt, plan, predecessors)
        /\ receipts' = receipts \cup {receipt}
        /\ cursor' = NoCursor
        /\ UNCHANGED stops

(* A full run of an ordinary plan stops at its next stage with no receipt. *)
StopRun(category) ==
    /\ cursor.state = "NEXT"
    /\ Cardinality(stops) < MaxStops
    /\ ExecutionEnabled(cursor.plan)
    /\ stops' = stops \cup
          {[plan |-> cursor.plan, order |-> cursor.next, category |-> category,
            checkpoints |-> Links(cursor.prefix)]}
    /\ cursor' = NoCursor
    /\ UNCHANGED receipts

ChainNext ==
    \/ \E plan \in Plans, expected \in Expectations : Resume(plan, expected)
    \/ \E plan, source \in Plans, expected \in Expectations : Recover(plan, source, expected)
    \/ \E receipt \in receipts : LoadReceipt(receipt)
    \/ Evaluate
    \/ Return
    \/ \E result \in Results, target \in Targets, at \in 0..MaxCompletedAt :
          RecordStage(result.state, result.mutation, target, at)
    \/ \E category \in {"OBSERVATION_SOURCE_ERROR", "OTHER"} : StopRun(category)

ChainSpec == ChainInit /\ [][ChainNext]_chainVars

-----------------------------------------------------------------------------
(* Properties *)

Decided == cursor.state \in {"NEXT", "COMPLETED", "STOPPED"}

(* A cursor rests on one history: receipts 1..k in order, each linking the *)
(* one before it and not completed earlier, all of the plan itself, or for *)
(* a recovery the first ones all of its source plan; nothing follows a     *)
(* terminal outcome (stagecursor.Evaluate).  A recovery describes only     *)
(* what its source really left: a recorded stop at the observation by a    *)
(* source error, after exactly the inherited receipts, for the same        *)
(* Cluster and with every other requirement kept (VerifyNetworkRecovery).  *)
RestsOnStop(plan, chain) ==
    LET source == Document[plan.source]
    IN  /\ \E stop \in stops :
              /\ stop.plan = plan.source
              /\ stop.order = Inherited + 1
              /\ stop.category = "OBSERVATION_SOURCE_ERROR"
              /\ stop.checkpoints = SubSeq(chain, 1, Inherited)
        /\ chain[Lifecycle].target # None
        /\ plan.intent = source.intent
        /\ plan.profile.requires = source.profile.requires
        /\ plan.profile.release = plan.intent

DecisionRestsOnOneHistory ==
    Decided =>
    LET chain == [i \in DOMAIN cursor.prefix |-> cursor.prefix[i].receipt]
        Owner(i) == IF IsRecovery(cursor.plan) /\ i <= Inherited
                    THEN Document[cursor.plan].source ELSE cursor.plan
    IN  \A i \in DOMAIN chain :
          /\ chain[i] \in receipts
          /\ chain[i].plan = Owner(i)
          /\ chain[i].order = i
          /\ i > 1 => /\ chain[i].links = <<chain[i - 1]>>
                      /\ chain[i].at >= chain[i - 1].at
                      /\ chain[i - 1].state = "SUCCEEDED"
          /\ IsRecovery(cursor.plan) => RestsOnStop(Document[cursor.plan], chain)

(* Every persisted receipt has its history in the store: it is of the      *)
(* first stage, or it links one persisted, successful receipt of the stage *)
(* before it, of the same plan and not later (receipts are only built from *)
(* verified predecessors).                                                 *)
HasItsHistory(receipt) ==
    \/ receipt.order = 1 /\ receipt.links = <<>>
    \/ \E previous \in receipts :
          /\ receipt.links = <<previous>>
          /\ previous.order = receipt.order - 1
          /\ previous.state = "SUCCEEDED"
          /\ previous.plan = receipt.plan
          /\ previous.at <= receipt.at

EveryReceiptHasItsHistory == \A receipt \in receipts : HasItsHistory(receipt)

=============================================================================
