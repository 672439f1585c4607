------------------------------- MODULE FullRun -------------------------------
(***************************************************************************)
(* One full run of a twelve-stage plan (internal/runner): the single-use   *)
(* FullRunOrchestration, the seven-stage prefix that PreRuntimeExecution   *)
(* drives, the bind step between the two halves, and the five-stage suffix *)
(* of PostRuntimeExecution with its in-memory credential.                  *)
(*                                                                         *)
(*    1 provider-prerequisites   5 network-observation   9 target-registration *)
(*    2 cluster-lifecycle        6 runtime-binding      10 platform-applications *)
(*    3 lifecycle-observation    7 target-access        11 platform-observation *)
(*    4 enablement               8 target-credential    12 aggregate-evidence *)
(*                                                                         *)
(* Several goroutines may call Run of the same object, the context may be  *)
(* cancelled at any point, and the process may be replaced by a new one    *)
(* that finds the ledger and the authority as they are.  What one stage    *)
(* does inside is StageLedger and ReadOnlyStage; what the authority does   *)
(* is StageAuthorization.  Here an operation is one step that leaves a     *)
(* receipt on the ledger or not.                                           *)
(***************************************************************************)
EXTENDS Naturals

CONSTANTS
    Caller,         \* goroutines that call FullRunExecution.Run
    MaxProcess,     \* bound: processes that are started for the plan
    None

ASSUME FullRunAssumption ==
    /\ MaxProcess \in Nat \ {0}
    /\ None \notin Caller

Stage == 1..12
Prefix == 1..7
Mutating == {1, 2, 4, 7, 8, 9, 10}

VARIABLES
    bare,       \* CompletionMode is the bare-cluster one
    receipts,   \* durable: outcome of the stage receipt on the ledger
    claimed,    \* durable: stages whose grant the authority has given away
    begun,      \* how often a stage's operation was invoked, 2 for more (history)
    processes,  \* processes started so far
    used,       \* FullRunOrchestration.used
    runner,     \* the caller that is executing
    stage,      \* the stage it is at
    phase,      \* where in the stage it stands
    completed,  \* number of checkpoints of the full-run receipt
    sources,    \* stages whose receipt this process has persisted in its directory
    handoff,    \* the stage-8 credential: memory only
    cancelled,  \* the caller's context
    owner,      \* the caller that was let in (history)
    invoked,    \* stages this process has invoked (history)
    cause,      \* redacted category of the error that stopped the run (history)
    reply       \* what Run returned

durable == <<bare, receipts, claimed, begun, processes>>
memory == <<used, runner, stage, phase, completed, sources, handoff>>
vars == <<durable, memory, cancelled, owner, invoked, cause, reply>>

Phase == {"idle", "install", "resolve", "open", "run", "persist", "bind"}
Category == {"AUTHORIZATION", "PERSISTENCE", "BIND", "STAGE_EXECUTION_ERROR",
             "ORCHESTRATION_STOPPED"}
NoReply == [state |-> "RUNNING", stoppedAt |-> 0, category |-> "NO_ERROR", checkpoints |-> 0]

Init ==
    /\ bare \in BOOLEAN
    /\ receipts = [k \in Stage |-> "ABSENT"]
    /\ claimed = {}
    /\ begun = [k \in Stage |-> 0]
    /\ processes = 1
    /\ used = FALSE
    /\ runner = None
    /\ stage = 1
    /\ phase = "idle"
    /\ completed = 0
    /\ sources = {}
    /\ handoff = "none"
    /\ cancelled = FALSE
    /\ owner = None
    /\ invoked = {}
    /\ cause = "NO_ERROR"
    /\ reply = [c \in Caller |-> NoReply]

(***************************************************************************)
(* The first thing the callback of a stage does: stage 10 installs the     *)
(* observability credentials, the others that mutate ask for a grant, the  *)
(* rest open their bundle.                                                 *)
(***************************************************************************)
FirstPhase(k) ==
    CASE k = 10 -> "install"
      [] k \in Mutating \ {10} -> "resolve"
      [] OTHER -> "open"

(***************************************************************************)
(* The category a stop is reported with.  Stages 3, 4 and 7 are stopped    *)
(* without a cause.  In the suffix appendFullRunSuffix rejects a receipt   *)
(* without a plan digest, and the digest comes with the first checkpoint.  *)
(***************************************************************************)
ReportedCategory(k, checkpoints, category) ==
    IF k \in {3, 4, 7} \/ (k = 8 /\ checkpoints = 7 /\ phase # "bind")
    THEN "ORCHESTRATION_STOPPED"
    ELSE category

(***************************************************************************)
(* discardTargetCredentialHandoff, deferred or on the error path.          *)
(***************************************************************************)
Discard(h, k) == IF h = "held" THEN "consumed" ELSE h

Return(r, k) ==
    /\ reply' = [reply EXCEPT ![runner] = r]
    /\ runner' = None
    /\ phase' = "idle"
    /\ completed' = r.checkpoints
    /\ handoff' = Discard(handoff, k)

(***************************************************************************)
(* The run stops at stage k.  The variant names the next stage.            *)
(***************************************************************************)
StopAfter(k, checkpoints, category) ==
    /\ Return([state |-> "STOPPED", stoppedAt |-> k + 1, checkpoints |-> checkpoints,
               category |-> ReportedCategory(k, checkpoints, category)], k)
    /\ cause' = category
Stop(k, checkpoints, category) ==
    /\ Return([state |-> "STOPPED", stoppedAt |-> k, checkpoints |-> checkpoints,
               category |-> ReportedCategory(k, checkpoints, category)], k)
    /\ cause' = category

-----------------------------------------------------------------------------
(***************************************************************************)
(* Run.  The flag is tested and set under the mutex.  A caller that comes  *)
(* second, or with a context that is gone, is told that the run stopped at *)
(* stage 1.                                                                *)
(***************************************************************************)
Rejected == [state |-> "STOPPED", stoppedAt |-> 1, checkpoints |-> 0,
             category |-> "ORCHESTRATION_STOPPED"]

Run(c) ==
    /\ reply[c] = NoReply /\ runner # c
    /\ \/ /\ used
          /\ reply' = [reply EXCEPT ![c] = Rejected]
          /\ UNCHANGED <<memory, owner>>
       \/ /\ ~used /\ cancelled
          /\ used' = TRUE
          /\ owner' = c
          /\ reply' = [reply EXCEPT ![c] = Rejected]
          /\ UNCHANGED <<runner, stage, phase, completed, sources, handoff>>
       \/ /\ ~used /\ ~cancelled
          /\ used' = TRUE
          /\ owner' = c
          /\ runner' = c
          /\ phase' = FirstPhase(1)
          /\ UNCHANGED <<stage, completed, sources, handoff, reply>>
    /\ UNCHANGED <<durable, cancelled, invoked, cause>>

Cancel ==
    /\ ~cancelled
    /\ cancelled' = TRUE
    /\ UNCHANGED <<durable, memory, owner, invoked, cause, reply>>

InstallCredentials ==
    /\ phase = "install"
    /\ \/ /\ phase' = "resolve"
          /\ UNCHANGED <<runner, completed, handoff, cause, reply>>
       \/ Stop(stage, completed, "STAGE_EXECUTION_ERROR")
    /\ UNCHANGED <<durable, used, stage, sources, cancelled, owner, invoked>>

(***************************************************************************)
(* ResolveStageAuthorization.  The request names the plan, the stage and   *)
(* its predecessor receipts, so every process that gets to the stage sends *)
(* the same one, and the authority signs it once.  The variant signs it    *)
(* whenever it is asked.                                                   *)
(***************************************************************************)
Resignable(k) == TRUE
Grantable(k) == k \notin claimed

Resolve ==
    /\ phase = "resolve"
    /\ \/ /\ Grantable(stage)
          /\ claimed' = claimed \cup {stage}
          /\ phase' = "open"
          /\ UNCHANGED <<runner, completed, handoff, cause, reply>>
       \/ /\ claimed' \in {claimed, claimed \cup {stage}}
          /\ Stop(stage, completed, "AUTHORIZATION")
    /\ UNCHANGED <<bare, receipts, begun, processes, used, stage, sources, cancelled,
                   owner, invoked>>

(***************************************************************************)
(* The bundle and the runtime of the stage are opened.  Stage 9 takes the  *)
(* credential out of the handoff here, and may fail before or after.       *)
(***************************************************************************)
OpenStage ==
    /\ phase = "open"
    /\ \/ /\ phase' = "run"
          /\ handoff' = IF stage = 9 THEN "consumed" ELSE handoff
          /\ UNCHANGED <<runner, completed, cause, reply>>
       \/ Stop(stage, completed, "STAGE_EXECUTION_ERROR")
    /\ UNCHANGED <<durable, used, stage, sources, cancelled, owner, invoked>>

Invoke ==
    /\ begun' = [begun EXCEPT ![stage] = IF @ < 2 THEN @ + 1 ELSE @]
    /\ invoked' = invoked \cup {stage}

(***************************************************************************)
(* After stage k: the next one, unless the context is gone or the plan     *)
(* ends there.  The variant takes one completion mode for the other.       *)
(***************************************************************************)
FinishedInOtherMode(k) == k = IF bare THEN 12 ELSE 7
Finished(k) == k = IF bare THEN 7 ELSE 12

Advance(k) ==
    \/ /\ cancelled
       /\ k < 12
       /\ Stop(k + 1, k, IF k < 8 THEN "ORCHESTRATION_STOPPED" ELSE "STAGE_EXECUTION_ERROR")
       /\ UNCHANGED stage
    \/ /\ ~cancelled \/ k = 12
       /\ Finished(k)
       /\ Return([state |-> "SUCCEEDED", stoppedAt |-> 0, category |-> "NO_ERROR",
                  checkpoints |-> k], k)
       /\ UNCHANGED <<stage, cause>>
    \/ /\ ~cancelled
       /\ ~Finished(k)
       /\ stage' = k + 1
       /\ phase' = IF k = 7 THEN "bind" ELSE FirstPhase(k + 1)
       /\ completed' = k
       /\ UNCHANGED <<runner, handoff, cause, reply>>

(***************************************************************************)
(* The stage operation.  It fails with or without a receipt on the ledger; *)
(* the reply of stage 8 may say COMPLETED_SUCCEEDED and yet come with an   *)
(* error, because no credential is left to hand over.  Stage 12 is not     *)
(* bridged to a file.                                                      *)
(***************************************************************************)
Recorded(outcome) ==
    receipts' = [receipts EXCEPT ![stage] = IF @ = "ABSENT" THEN outcome ELSE @]

Succeeds ==
    /\ Recorded("SUCCEEDED")
    /\ receipts'[stage] = "SUCCEEDED"

RunStage ==
    /\ phase = "run"
    /\ Invoke
    /\ \/ /\ Succeeds
          /\ stage < 12
          /\ phase' = "persist"
          /\ handoff' = IF stage = 8 THEN "held" ELSE handoff
          /\ UNCHANGED <<runner, stage, completed, cause, reply>>
       \/ /\ Succeeds
          /\ stage = 12
          /\ Advance(12)
       \/ /\ Succeeds
          /\ stage = 8
          /\ Stop(8, 8, "STAGE_EXECUTION_ERROR")
          /\ UNCHANGED stage
       \/ /\ \E o \in {"ABSENT", "SUCCEEDED", "FAILED", "STOPPED"} : Recorded(o)
          /\ Stop(stage, completed, "STAGE_EXECUTION_ERROR")
          /\ UNCHANGED stage
    /\ UNCHANGED <<bare, claimed, processes, used, sources, cancelled, owner>>

(***************************************************************************)
(* The receipt is read back from the ledger and written create-only to the *)
(* receipt directory.  If that fails the operation has succeeded and its   *)
(* checkpoint is reported, and the run stops at the same stage.  The       *)
(* variant goes on without the file.                                       *)
(***************************************************************************)
PersistenceCategory(k) == IF k = 1 THEN "PERSISTENCE" ELSE "STAGE_EXECUTION_ERROR"

PersistFailsSoftly ==
    /\ phase = "persist"
    /\ Advance(stage)
    /\ UNCHANGED <<durable, used, sources, cancelled, owner, invoked>>

PersistFails ==
    /\ phase = "persist"
    /\ Stop(stage, stage, PersistenceCategory(stage))
    /\ UNCHANGED <<durable, used, stage, sources, cancelled, owner, invoked>>

Persist ==
    /\ phase = "persist"
    /\ receipts[stage] = "SUCCEEDED"
    /\ sources' = sources \cup {stage}
    /\ Advance(stage)
    /\ UNCHANGED <<durable, used, cancelled, owner, invoked>>

(***************************************************************************)
(* BindPostRuntime, ContinuationBinding and the checks around them: the    *)
(* private prefix must be complete, and equal to the seven checkpoints.    *)
(* The suffix checks its context before it begins.                         *)
(***************************************************************************)
Bind ==
    /\ phase = "bind"
    /\ \/ /\ sources = Prefix
          /\ ~cancelled
          /\ phase' = FirstPhase(8)
          /\ UNCHANGED <<runner, completed, handoff, cause, reply>>
       \/ /\ cancelled
          /\ Stop(8, completed, "ORCHESTRATION_STOPPED")
       \/ Stop(8, completed, "BIND")
    /\ UNCHANGED <<durable, used, stage, sources, cancelled, owner, invoked>>

(***************************************************************************)
(* The process ends, or is killed wherever it stands, and another one is   *)
(* started.  It begins with an empty receipt directory: no other passes    *)
(* validatePreRuntimeExecutionStructure.                                   *)
(***************************************************************************)
NewProcess ==
    /\ processes < MaxProcess
    /\ processes' = processes + 1
    /\ used' = FALSE
    /\ runner' = None
    /\ stage' = 1
    /\ phase' = "idle"
    /\ completed' = 0
    /\ sources' = {}
    /\ handoff' = "none"
    /\ cancelled' = FALSE
    /\ owner' = None
    /\ invoked' = {}
    /\ cause' = "NO_ERROR"
    /\ reply' = [c \in Caller |-> NoReply]
    /\ UNCHANGED <<bare, receipts, claimed, begun>>

Execute ==
    \/ InstallCredentials
    \/ Resolve
    \/ OpenStage
    \/ RunStage
    \/ Persist
    \/ PersistFails
    \/ Bind

Next ==
    \/ \E c \in Caller : Run(c)
    \/ Cancel
    \/ Execute
    \/ NewProcess

Spec == Init /\ [][Next]_vars

-----------------------------------------------------------------------------
TypeOK ==
    /\ bare \in BOOLEAN
    /\ receipts \in [Stage -> {"ABSENT", "SUCCEEDED", "FAILED", "STOPPED"}]
    /\ claimed \subseteq Mutating
    /\ begun \in [Stage -> 0..2]
    /\ processes \in 1..MaxProcess
    /\ used \in BOOLEAN
    /\ runner \in Caller \cup {None}
    /\ stage \in Stage
    /\ phase \in Phase
    /\ (phase = "idle") <=> (runner = None)
    /\ completed \in 0..12
    /\ sources \subseteq Stage
    /\ handoff \in {"none", "held", "consumed"}
    /\ cancelled \in BOOLEAN
    /\ owner \in Caller \cup {None}
    /\ invoked \subseteq Stage
    /\ cause \in Category \cup {"NO_ERROR"}
    /\ reply \in [Caller -> [state : {"RUNNING", "SUCCEEDED", "STOPPED"},
                             stoppedAt : 0..12, checkpoints : 0..12,
                             category : Category \cup {"NO_ERROR"}]]

(***************************************************************************)
(* "Every successful stage receipt is reloaded from its authoritative      *)
(* ledger and persisted create-only as a private 0600 source before a      *)
(* later stage can be opened": a stage at work has all earlier stages on   *)
(* the ledger and in the directory of its own process.                     *)
(***************************************************************************)
PredecessorsPersisted ==
    phase \in {"install", "resolve", "open", "run", "persist", "bind"} =>
        \A j \in 1..(stage - 1) : receipts[j] = "SUCCEEDED" /\ j \in sources

(***************************************************************************)
(* A plan is run once.  However many callers share the object and however  *)
(* often the process is replaced, no stage operation is invoked a second   *)
(* time by a full run, the read-only ones included.                        *)
(***************************************************************************)
NoStageTwice == \A k \in Stage : begun[k] <= 1

(***************************************************************************)
(* A STOPPED receipt tells where: nothing after the named stage was begun  *)
(* by this process, every checkpoint is a success on the ledger, and the   *)
(* stages between the checkpoints and the named one are none.              *)
(***************************************************************************)
Executed(c) == owner = c /\ runner # c

StoppedWhereItSays ==
    \A c \in Caller : Executed(c) /\ reply[c].state = "STOPPED" =>
        /\ \A k \in invoked : k <= reply[c].stoppedAt
        /\ reply[c].checkpoints \in {reply[c].stoppedAt - 1, reply[c].stoppedAt}
        /\ \A j \in 1..reply[c].checkpoints : receipts[j] = "SUCCEEDED"

(***************************************************************************)
(* A SUCCEEDED receipt is one of the whole plan, and of no stage beyond    *)
(* the completion mode.                                                    *)
(***************************************************************************)
LastStage == IF bare THEN 7 ELSE 12

SucceededIsWhole ==
    \A c \in Caller : reply[c].state = "SUCCEEDED" =>
        /\ owner = c
        /\ reply[c].checkpoints = LastStage
        /\ invoked = 1..LastStage
        /\ \A k \in 1..LastStage : receipts[k] = "SUCCEEDED"

(***************************************************************************)
(* "The Stage-8 credential is passed only to Stage 9 and is never exposed  *)
(* ... to a later callback": it is held only by a run that is between the  *)
(* two, and never when Run has returned.                                   *)
(***************************************************************************)
CredentialConfined ==
    handoff = "held" => runner # None /\ stage \in {8, 9} /\ 8 \in invoked
=============================================================================
