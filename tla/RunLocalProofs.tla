--------------------------- MODULE RunLocalProofs ---------------------------
(***************************************************************************)
(* Proofs about FullRun, for any number of callers and of processes, and   *)
(* about LocalCluster, for any sets of processes, owners and pids.         *)
(*                                                                         *)
(* FullRun: the argument rests on the authority's memory of stage 1.  A    *)
(* run that is past the grant of stage 1 took it when nobody had it, so    *)
(* nothing had been begun before; from there on what has ever been begun   *)
(* is exactly what this run has reached.  A run that is not past it finds  *)
(* the grant gone if anything was ever begun, and stops.                   *)
(*                                                                         *)
(* LocalCluster: until its first update of the receipt, the command that   *)
(* drew an owner is alone with it; from then on all receipts of the owner, *)
(* in memory or on disk, carry the same identities.  A cluster that is     *)
(* there, or may be created, has its receipt on disk, and whoever could    *)
(* replace that receipt holds one of the same owner.                       *)
(***************************************************************************)
EXTENDS FullRun, LocalCluster, TLAPS

Active == phase # "idle"

Reached(j) == j < stage \/ (j = stage /\ phase = "persist")

(***************************************************************************)
(* What the phase says of the stage, and the flags of each other.          *)
(***************************************************************************)
Shape ==
    /\ ~used => /\ phase = "idle" /\ stage = 1 /\ completed = 0
                /\ owner = None /\ invoked = {}
                /\ \A c \in Caller : reply[c] = NoReply
    /\ Active => used /\ owner = runner /\ reply[runner] = NoReply
    /\ phase = "install" => stage = 10
    /\ phase = "resolve" => stage \in Mutating
    /\ phase = "bind" => stage = 8
    /\ bare => stage <= 7

(***************************************************************************)
(* What lies behind a run that is at work.                                 *)
(***************************************************************************)
Progress == Active =>
    /\ completed = stage - 1
    /\ \A j \in Stage : j < stage => receipts[j] = "SUCCEEDED" /\ j \in sources
    /\ phase = "persist" => receipts[stage] = "SUCCEEDED" /\ stage < 12
    /\ \A j \in Stage : j \in invoked <=> Reached(j)

(***************************************************************************)
(* What was ever begun.                                                    *)
(***************************************************************************)
PastFirstGrant == Active /\ ~(stage = 1 /\ phase = "resolve")

Single ==
    /\ NoStageTwice
    /\ 1 \notin claimed => \A j \in Stage : begun[j] = 0
    /\ PastFirstGrant => 1 \in claimed /\ \A j \in Stage : begun[j] > 0 => Reached(j)

(***************************************************************************)
(* What the callers were told.                                             *)
(***************************************************************************)
Told ==
    /\ StoppedWhereItSays
    /\ SucceededIsWhole
    /\ used /\ ~Active => owner \in Caller /\ reply[owner] # NoReply
    /\ \A c \in Caller : c # owner => reply[c] \in {NoReply, Rejected}

(***************************************************************************)
(* Where the credential can be.                                            *)
(***************************************************************************)
Held == handoff = "held" =>
    \/ stage = 8 /\ phase = "persist"
    \/ stage = 9 /\ phase \in {"resolve", "open"}

IInv == TypeOK /\ Shape /\ Progress /\ Single /\ Told /\ Held

-----------------------------------------------------------------------------
LEMMA FirstPhaseFacts ==
    ASSUME NEW k \in Stage
    PROVE  /\ FirstPhase(k) \in {"install", "resolve", "open"}
           /\ FirstPhase(k) = "install" => k = 10
           /\ FirstPhase(k) = "resolve" => k \in Mutating
           /\ FirstPhase(k) = "open" => k \notin {1, 8, 10}
BY DEF FirstPhase, Mutating, Stage

LEMMA InitInv == Init => IInv
<1> SUFFICES ASSUME Init PROVE IInv
    OBVIOUS
<1>1. /\ claimed = {} /\ processes = 1 /\ runner = None
      /\ stage = 1 /\ phase = "idle" /\ completed = 0 /\ sources = {}
      /\ handoff = "none" /\ owner = None /\ invoked = {} /\ cause = "NO_ERROR"
    BY DEF Init
<1>2. begun = [k \in Stage |-> 0]
    BY DEF Init
<1>3. receipts = [k \in Stage |-> "ABSENT"]
    BY DEF Init
<1>4. reply = [c \in Caller |-> NoReply]
    BY DEF Init
<1>5. bare \in BOOLEAN /\ used \in BOOLEAN /\ cancelled \in BOOLEAN /\ ~used
    BY DEF Init
<1>6. TypeOK
    <2>1. NoReply \in [state : {"RUNNING", "SUCCEEDED", "STOPPED"}, stoppedAt : 0..12,
                       checkpoints : 0..12, category : Category \cup {"NO_ERROR"}]
        BY DEF NoReply
    <2>2. processes \in 1..MaxProcess
        BY <1>1, FullRunAssumption
    <2>3. stage \in Stage /\ completed \in 0..12
        BY <1>1 DEF Stage
    <2>4. begun \in [Stage -> 0..2]
        BY <1>2
    <2>5. receipts \in [Stage -> {"ABSENT", "SUCCEEDED", "FAILED", "STOPPED"}]
        BY <1>3
    <2>6. reply \in [Caller -> [state : {"RUNNING", "SUCCEEDED", "STOPPED"},
                                stoppedAt : 0..12, checkpoints : 0..12,
                                category : Category \cup {"NO_ERROR"}]]
        BY <1>4, <2>1
    <2>7. QED
        BY <1>1, <1>5, <2>2, <2>3, <2>4, <2>5, <2>6 DEF TypeOK, Phase
<1>7. Shape /\ Progress /\ Held
    BY <1>1, <1>4 DEF Shape, Progress, Held, Active
<1>8. Single
    BY <1>1, <1>2 DEF Single, NoStageTwice, PastFirstGrant, Active
<1>9. Told
    BY <1>1, <1>5, <1>4 DEF Told, StoppedWhereItSays, SucceededIsWhole, Executed, NoReply
<1>10. QED
    BY <1>6, <1>7, <1>8, <1>9 DEF IInv

(***************************************************************************)
(* A step that stops the run at stage k with n checkpoints.                *)
(***************************************************************************)
LEMMA StopKeeps ==
    ASSUME IInv, Active,
           NEW k \in Stage, NEW n \in {k - 1, k}, NEW category \in Category,
           Stop(k, n, category),
           UNCHANGED <<bare, processes, used, stage, cancelled, owner>>,
           receipts' \in [Stage -> {"ABSENT", "SUCCEEDED", "FAILED", "STOPPED"}],
           claimed' \subseteq Mutating,
           begun' \in [Stage -> 0..2],
           sources' \subseteq Stage,
           invoked' \subseteq Stage,
           NoStageTwice',
           1 \notin claimed' => \A j \in Stage : begun'[j] = 0,
           \A j \in invoked' : j <= k,
           \A j \in 1..n : receipts'[j] = "SUCCEEDED"
    PROVE  IInv'
<1> DEFINE r == [state |-> "STOPPED", stoppedAt |-> k, checkpoints |-> n,
                 category |-> ReportedCategory(k, n, category)]
<1>1. /\ reply' = [reply EXCEPT ![runner] = r]
      /\ runner' = None /\ phase' = "idle" /\ completed' = n
      /\ handoff' = Discard(handoff, k) /\ cause' = category
    BY DEF Stop, Return
<1>2. /\ runner \in Caller /\ used /\ owner = runner
      /\ reply \in [Caller -> [state : {"RUNNING", "SUCCEEDED", "STOPPED"},
                               stoppedAt : 0..12, checkpoints : 0..12,
                               category : Category \cup {"NO_ERROR"}]]
    BY DEF IInv, TypeOK, Shape, Active
<1>3. r \in [state : {"RUNNING", "SUCCEEDED", "STOPPED"}, stoppedAt : 0..12,
             checkpoints : 0..12, category : Category \cup {"NO_ERROR"}]
    <2>1. ReportedCategory(k, n, category) \in Category
        BY DEF ReportedCategory, Category
    <2>2. k \in 0..12 /\ n \in 0..12
        BY DEF Stage
    <2>3. QED
        BY <2>1, <2>2
<1>4. TypeOK'
    <2>1. reply' \in [Caller -> [state : {"RUNNING", "SUCCEEDED", "STOPPED"},
                                 stoppedAt : 0..12, checkpoints : 0..12,
                                 category : Category \cup {"NO_ERROR"}]]
        BY <1>1, <1>2, <1>3
    <2>2. handoff' \in {"none", "held", "consumed"}
        BY <1>1 DEF IInv, TypeOK, Discard
    <2>3. completed' \in 0..12
        BY <1>1 DEF Stage
    <2>4. QED
        BY <1>1, <2>1, <2>2, <2>3 DEF IInv, TypeOK, Phase
<1>5. Shape' /\ Progress'
    BY <1>1, <1>2 DEF IInv, Shape, Progress, Active
<1>6. Single'
    BY <1>1 DEF Single, PastFirstGrant, Active
<1>7. Told'
    <2>1. reply'[owner] = r /\ \A c \in Caller : c # owner => reply'[c] = reply[c]
        BY <1>1, <1>2
    <2>2. \A c \in Caller : c # owner => reply'[c] \in {NoReply, Rejected}
        BY <2>1 DEF IInv, Told
    <2>3. StoppedWhereItSays'
        BY <2>1 DEF StoppedWhereItSays, Executed
    <2>4. SucceededIsWhole'
        <3>1. \A c \in Caller : reply'[c].state # "SUCCEEDED"
            BY <2>1, <2>2, <1>2 DEF NoReply, Rejected
        <3>2. QED
            BY <3>1 DEF SucceededIsWhole
    <2>5. r # NoReply
        BY DEF NoReply
    <2>6. QED
        BY <1>2, <2>1, <2>2, <2>3, <2>4, <2>5 DEF Told
<1>8. Held'
    BY <1>1 DEF Held, Discard
<1>9. QED
    BY <1>4, <1>5, <1>6, <1>7, <1>8 DEF IInv

(***************************************************************************)
(* A step of a run that goes on tells nobody anything.                     *)
(***************************************************************************)
LEMMA ToldKeeps ==
    ASSUME IInv, Active, Active', UNCHANGED <<bare, used, runner, owner, reply>>
    PROVE  Told'
<1>1. owner = runner /\ owner' = runner' /\ reply'[owner'] = NoReply
    BY DEF IInv, Shape
<1>2. \A c \in Caller : c # owner' => reply'[c] \in {NoReply, Rejected}
    BY DEF IInv, Told
<1>3. StoppedWhereItSays'
    BY <1>1 DEF StoppedWhereItSays, Executed
<1>4. SucceededIsWhole'
    <2>1. \A c \in Caller : reply'[c].state # "SUCCEEDED"
        BY <1>1, <1>2 DEF NoReply, Rejected
    <2>2. QED
        BY <2>1 DEF SucceededIsWhole
<1>5. QED
    BY <1>2, <1>3, <1>4 DEF Told

(***************************************************************************)
(* The run is over after its last stage.                                   *)
(***************************************************************************)
LEMMA FinishKeeps ==
    ASSUME IInv, Active, Finished(stage),
           Return([state |-> "SUCCEEDED", stoppedAt |-> 0, category |-> "NO_ERROR",
                   checkpoints |-> stage], stage),
           UNCHANGED <<bare, claimed, processes, used, stage, cancelled, owner, cause>>,
           receipts' \in [Stage -> {"ABSENT", "SUCCEEDED", "FAILED", "STOPPED"}],
           begun' \in [Stage -> 0..2],
           sources' \subseteq Stage,
           invoked' \subseteq Stage,
           NoStageTwice',
           1 \in claimed,
           \A j \in Stage : j \in invoked' <=> j <= stage,
           \A j \in Stage : j <= stage => receipts'[j] = "SUCCEEDED"
    PROVE  IInv'
<1> DEFINE r == [state |-> "SUCCEEDED", stoppedAt |-> 0, category |-> "NO_ERROR",
                 checkpoints |-> stage]
<1>1. /\ reply' = [reply EXCEPT ![runner] = r]
      /\ runner' = None /\ phase' = "idle" /\ completed' = stage
      /\ handoff' = Discard(handoff, stage)
    BY DEF Return
<1>2. /\ runner \in Caller /\ used /\ owner = runner
      /\ reply \in [Caller -> [state : {"RUNNING", "SUCCEEDED", "STOPPED"},
                               stoppedAt : 0..12, checkpoints : 0..12,
                               category : Category \cup {"NO_ERROR"}]]
    BY DEF IInv, TypeOK, Shape, Active
<1>3. stage \in Stage /\ stage = LastStage
    BY DEF Finished, LastStage, IInv, TypeOK
<1>4. TypeOK'
    <2>1. stage \in 0..12
        BY <1>3 DEF Stage
    <2>2. r \in [state : {"RUNNING", "SUCCEEDED", "STOPPED"}, stoppedAt : 0..12,
                 checkpoints : 0..12, category : Category \cup {"NO_ERROR"}]
        BY <2>1
    <2>3. reply' \in [Caller -> [state : {"RUNNING", "SUCCEEDED", "STOPPED"},
                                 stoppedAt : 0..12, checkpoints : 0..12,
                                 category : Category \cup {"NO_ERROR"}]]
        BY <1>1, <1>2, <2>2
    <2>4. handoff' \in {"none", "held", "consumed"}
        BY <1>1 DEF IInv, TypeOK, Discard
    <2>5. QED
        BY <1>1, <2>1, <2>3, <2>4 DEF IInv, TypeOK, Phase
<1>5. Shape' /\ Progress'
    BY <1>1, <1>2 DEF IInv, Shape, Progress, Active
<1>6. Single'
    BY <1>1 DEF Single, PastFirstGrant, Active
<1>7. Told'
    <2>1. reply'[owner] = r /\ \A c \in Caller : c # owner => reply'[c] = reply[c]
        BY <1>1, <1>2
    <2>2. \A c \in Caller : c # owner => reply'[c] \in {NoReply, Rejected}
        BY <2>1 DEF IInv, Told
    <2>3. StoppedWhereItSays'
        BY <2>1 DEF StoppedWhereItSays, Executed
    <2>4. invoked' = 1..stage
        <3>1. invoked' \subseteq 1..stage
            BY <1>3 DEF Stage
        <3>2. 1..stage \subseteq invoked'
            BY <1>3 DEF Stage
        <3>3. QED
            BY <3>1, <3>2
    <2>5. \A c \in Caller : reply'[c].state = "SUCCEEDED" => c = owner
        BY <2>2 DEF NoReply, Rejected
    <2>6. \A k \in 1..stage : receipts'[k] = "SUCCEEDED"
        BY <1>3 DEF Stage
    <2>7. LastStage' = stage
        BY <1>3 DEF LastStage
    <2>8. SucceededIsWhole'
        BY <2>1, <2>4, <2>5, <2>6, <2>7 DEF SucceededIsWhole
    <2>9. r # NoReply
        BY DEF NoReply
    <2>10. QED
        BY <1>2, <2>1, <2>2, <2>3, <2>8, <2>9 DEF Told
<1>8. Held'
    BY <1>1 DEF Held, Discard
<1>9. QED
    BY <1>4, <1>5, <1>6, <1>7, <1>8 DEF IInv

(***************************************************************************)
(* After a stage the run goes on, ends or stops.                           *)
(***************************************************************************)
LEMMA AdvanceKeeps ==
    ASSUME IInv, Active, Advance(stage),
           phase \in {"run", "persist"},
           phase = "run" <=> stage = 12,
           UNCHANGED <<bare, claimed, processes, used, cancelled, owner>>,
           receipts' \in [Stage -> {"ABSENT", "SUCCEEDED", "FAILED", "STOPPED"}],
           begun' \in [Stage -> 0..2],
           sources' \subseteq Stage,
           invoked' \subseteq Stage,
           NoStageTwice',
           \A j \in Stage : j \in invoked' <=> j <= stage,
           \A j \in Stage : begun'[j] > 0 => j <= stage,
           \A j \in Stage : j <= stage => receipts'[j] = "SUCCEEDED",
           \A j \in Stage : j <= stage /\ j < 12 => j \in sources'
    PROVE  IInv'
<1>1. 1 \in claimed /\ stage \in Stage
    BY DEF IInv, Single, PastFirstGrant, TypeOK
<1>2. CASE /\ stage < 12
           /\ Stop(stage + 1, stage, IF stage < 8 THEN "ORCHESTRATION_STOPPED"
                                     ELSE "STAGE_EXECUTION_ERROR")
           /\ UNCHANGED stage
    <2>1. /\ stage + 1 \in Stage
          /\ stage \in {(stage + 1) - 1, stage + 1}
          /\ (IF stage < 8 THEN "ORCHESTRATION_STOPPED" ELSE "STAGE_EXECUTION_ERROR")
                \in Category
        BY <1>1, <1>2 DEF Stage, Category
    <2>2. claimed' \subseteq Mutating
        BY DEF IInv, TypeOK
    <2>3. \A j \in invoked' : j <= stage + 1
        BY <1>1 DEF Stage
    <2>4. \A j \in 1..stage : receipts'[j] = "SUCCEEDED"
        BY <1>1 DEF Stage
    <2>5. QED
        BY <1>1, <1>2, <2>1, <2>2, <2>3, <2>4, StopKeeps
<1>3. CASE /\ Finished(stage)
           /\ Return([state |-> "SUCCEEDED", stoppedAt |-> 0, category |-> "NO_ERROR",
                      checkpoints |-> stage], stage)
           /\ UNCHANGED <<stage, cause>>
    BY <1>1, <1>3, FinishKeeps
<1>4. CASE /\ ~Finished(stage)
           /\ stage' = stage + 1
           /\ phase' = IF stage = 7 THEN "bind" ELSE FirstPhase(stage + 1)
           /\ completed' = stage
           /\ UNCHANGED <<runner, handoff, cause, reply>>
    <2>1. stage # 12 /\ phase = "persist"
        BY <1>4 DEF Finished, IInv, Shape
    <2>2. stage' \in Stage
        BY <1>1, <1>4, <2>1 DEF Stage
    <2>3. /\ phase' \in {"bind", "install", "resolve", "open"}
          /\ phase' = "bind" => stage' = 8
          /\ phase' = "install" => stage' = 10
          /\ phase' = "resolve" => stage' \in Mutating
          /\ stage' = 8 => phase' = "bind"
          /\ stage' = 9 => phase' = "resolve"
        BY <1>1, <1>4, <2>2, FirstPhaseFacts DEF FirstPhase, Mutating, Stage
    <2>4. Active'
        BY <2>3 DEF Active
    <2>5. TypeOK'
        <3>1. completed' \in 0..12
            BY <1>1, <1>4 DEF Stage
        <3>2. phase' \in Phase /\ phase' # "idle" /\ phase # "idle"
            BY <2>3 DEF Phase, Active
        <3>3. QED
            BY <1>4, <2>2, <3>1, <3>2 DEF IInv, TypeOK
    <2>6. Shape'
        <3>1. bare => stage' <= 7
            BY <1>1, <1>4 DEF IInv, Shape, Finished, Stage
        <3>2. QED
            BY <1>4, <2>3, <2>4, <3>1 DEF IInv, Shape, Active
    <2>7. Progress'
        <3>1. completed' = stage' - 1
            BY <1>1, <1>4 DEF Stage
        <3>2. \A j \in Stage : j < stage' => receipts'[j] = "SUCCEEDED" /\ j \in sources'
            BY <1>1, <1>4, <2>1 DEF Stage
        <3>3. \A j \in Stage : j \in invoked' <=> j < stage'
            BY <1>1, <1>4 DEF Stage
        <3>4. QED
            BY <2>3, <3>1, <3>2, <3>3 DEF Progress, Reached
    <2>8. Single'
        <3>1. \A j \in Stage : begun'[j] > 0 => j < stage'
            BY <1>1, <1>4 DEF Stage
        <3>2. QED
            BY <1>1, <3>1 DEF Single, Reached
    <2>9. Told'
        BY <1>4, <2>4, ToldKeeps
    <2>10. Held'
        <3>1. handoff' = "held" => stage = 8
            BY <1>4, <2>1 DEF IInv, Held
        <3>2. QED
            BY <1>4, <2>3, <3>1 DEF Held
    <2>11. QED
        BY <2>5, <2>6, <2>7, <2>8, <2>9, <2>10 DEF IInv
<1>5. QED
    BY <1>2, <1>3, <1>4 DEF Advance

-----------------------------------------------------------------------------
(***************************************************************************)
(* What a step that only moves the phase has to see to.                    *)
(***************************************************************************)
LEMMA PhaseKeeps ==
    ASSUME IInv, Active,
           phase \in {"install", "resolve", "open", "bind"},
           phase' \in {"install", "resolve", "open", "run"},
           phase' = "install" => stage = 10,
           phase' = "resolve" => stage \in Mutating,
           handoff' \in {handoff, "consumed"},
           handoff' = "held" => phase \in {"resolve", "open"} /\ phase' = "open",
           claimed' = IF phase = "resolve" THEN claimed \cup {stage} ELSE claimed,
           phase = "resolve" => stage \notin claimed /\ phase' # "resolve",
           UNCHANGED <<bare, receipts, begun, processes, used, runner, stage, completed,
                       sources, cancelled, owner, invoked, cause, reply>>
    PROVE  IInv'
<1>1. Active' /\ phase' # "idle" /\ phase # "idle"
    BY DEF Active
<1>2. TypeOK'
    <2>1. phase' \in Phase /\ handoff' \in {"none", "held", "consumed"}
        BY DEF Phase, IInv, TypeOK
    <2>2. claimed' \subseteq Mutating
        BY DEF IInv, TypeOK, Shape
    <2>3. QED
        BY <1>1, <2>1, <2>2 DEF IInv, TypeOK
<1>3. Shape'
    BY <1>1 DEF IInv, Shape, Active
<1>4. Progress'
    BY <1>1 DEF IInv, Progress, Reached
<1>5. Single'
    <2>1. NoStageTwice' /\ (1 \notin claimed' => \A j \in Stage : begun'[j] = 0)
        BY DEF IInv, Single, NoStageTwice
    <2>2. CASE PastFirstGrant
        BY <2>1, <2>2 DEF IInv, Single, Reached
    <2>3. CASE ~PastFirstGrant
        <3>1. stage = 1 /\ phase = "resolve"
            BY <2>3 DEF PastFirstGrant
        <3>2. 1 \in claimed' /\ \A j \in Stage : begun[j] = 0
            BY <3>1 DEF IInv, Single
        <3>3. QED
            BY <2>1, <3>2 DEF Single
    <2>4. QED
        BY <2>2, <2>3
<1>6. Told'
    BY <1>1, ToldKeeps
<1>7. Held'
    BY DEF IInv, Held
<1>8. QED
    BY <1>2, <1>3, <1>4, <1>5, <1>6, <1>7 DEF IInv

(***************************************************************************)
(* What a run at work has, where it stops without having invoked anything. *)
(***************************************************************************)
LEMMA StopBefore ==
    ASSUME IInv, Active, phase # "persist",
           NEW category \in Category, Stop(stage, completed, category),
           claimed' \subseteq Mutating, claimed \subseteq claimed',
           UNCHANGED <<bare, receipts, begun, processes, used, stage, sources, cancelled,
                       owner, invoked>>
    PROVE  IInv'
<1>1. stage \in Stage /\ completed = stage - 1
    BY DEF IInv, TypeOK, Progress
<1>2. \A j \in invoked' : j <= stage
    BY <1>1 DEF IInv, Progress, Reached, TypeOK, Stage
<1>3. \A j \in 1..completed : receipts'[j] = "SUCCEEDED"
    BY <1>1 DEF IInv, Progress, Stage
<1>4. NoStageTwice' /\ (1 \notin claimed' => \A j \in Stage : begun'[j] = 0)
    BY DEF IInv, Single, NoStageTwice
<1>5. /\ receipts' \in [Stage -> {"ABSENT", "SUCCEEDED", "FAILED", "STOPPED"}]
      /\ begun' \in [Stage -> 0..2] /\ sources' \subseteq Stage /\ invoked' \subseteq Stage
    BY DEF IInv, TypeOK
<1>6. completed \in {stage - 1, stage}
    BY <1>1
<1>7. QED
    BY <1>1, <1>2, <1>3, <1>4, <1>5, <1>6, StopKeeps

LEMMA RunInv == ASSUME IInv, NEW c \in Caller, Run(c) PROVE IInv'
<1> USE DEF Run
<1>1. CASE used
    <2>1. /\ reply' = [reply EXCEPT ![c] = Rejected]
          /\ UNCHANGED <<durable, memory, cancelled, owner, invoked, cause>>
        BY <1>1
    <2>2. c # owner
        BY <1>1 DEF IInv, Told, Shape
    <2>3. Rejected \in [state : {"RUNNING", "SUCCEEDED", "STOPPED"}, stoppedAt : 0..12,
                        checkpoints : 0..12, category : Category \cup {"NO_ERROR"}]
        BY DEF Rejected, Category
    <2>4. TypeOK'
        <3>1. reply' \in [Caller -> [state : {"RUNNING", "SUCCEEDED", "STOPPED"},
                                     stoppedAt : 0..12, checkpoints : 0..12,
                                     category : Category \cup {"NO_ERROR"}]]
            BY <2>1, <2>3 DEF IInv, TypeOK
        <3>2. QED
            BY <2>1, <3>1 DEF IInv, TypeOK, durable, memory
    <2>5. \A d \in Caller : d # c => reply'[d] = reply[d]
        BY <2>1 DEF IInv, TypeOK
    <2>6. reply'[c] = Rejected
        BY <2>1 DEF IInv, TypeOK
    <2>7. Shape'
        <3>1. Active => runner \in Caller /\ runner # c
            BY <2>2 DEF IInv, Shape, TypeOK, Active
        <3>2. QED
            BY <1>1, <2>1, <2>5, <3>1 DEF IInv, Shape, Active, durable, memory
    <2>8. Progress' /\ Single' /\ Held'
        BY <2>1 DEF IInv, Progress, Single, Held, Active, PastFirstGrant, NoStageTwice,
                    Reached, durable, memory
    <2>9. Told'
        <3>1. StoppedWhereItSays'
            BY <2>1, <2>2, <2>5 DEF IInv, Told, StoppedWhereItSays, Executed, durable, memory
        <3>2. SucceededIsWhole'
            BY <2>1, <2>5, <2>6 DEF IInv, Told, SucceededIsWhole, LastStage, Rejected,
                                     durable, memory
        <3>3. \A d \in Caller : d # owner' => reply'[d] \in {NoReply, Rejected}
            BY <2>1, <2>5, <2>6 DEF IInv, Told
        <3>4. used' /\ ~Active' => owner' \in Caller /\ reply'[owner'] # NoReply
            BY <2>1, <2>2, <2>5 DEF IInv, Told, Active, memory
        <3>5. QED
            BY <3>1, <3>2, <3>3, <3>4 DEF Told
    <2>10. QED
        BY <2>4, <2>7, <2>8, <2>9 DEF IInv
<1>2. CASE ~used /\ cancelled
    <2>1. /\ reply' = [reply EXCEPT ![c] = Rejected]
          /\ used' /\ used' \in BOOLEAN /\ owner' = c
          /\ UNCHANGED <<durable, runner, stage, phase, completed, sources, handoff,
                         cancelled, invoked, cause>>
        BY <1>2
    <2>2. /\ phase = "idle" /\ stage = 1 /\ invoked = {}
          /\ \A d \in Caller : reply[d] = NoReply
        BY <1>2 DEF IInv, Shape
    <2>3. Rejected \in [state : {"RUNNING", "SUCCEEDED", "STOPPED"}, stoppedAt : 0..12,
                        checkpoints : 0..12, category : Category \cup {"NO_ERROR"}]
        BY DEF Rejected, Category
    <2>4. TypeOK'
        <3>1. reply' \in [Caller -> [state : {"RUNNING", "SUCCEEDED", "STOPPED"},
                                     stoppedAt : 0..12, checkpoints : 0..12,
                                     category : Category \cup {"NO_ERROR"}]]
            BY <2>1, <2>3 DEF IInv, TypeOK
        <3>2. QED
            BY <2>1, <3>1 DEF IInv, TypeOK, durable
    <2>5. reply'[c] = Rejected /\ \A d \in Caller : d # c => reply'[d] = NoReply
        BY <2>1, <2>2 DEF IInv, TypeOK
    <2>6. Shape' /\ Progress' /\ Held'
        BY <2>1, <2>2 DEF IInv, Shape, Progress, Held, Active, durable
    <2>7. Single'
        BY <2>1, <2>2 DEF IInv, Single, NoStageTwice, PastFirstGrant, Active, durable
    <2>8. Told'
        <3>1. StoppedWhereItSays'
            BY <2>1, <2>2, <2>5 DEF StoppedWhereItSays, Executed, Rejected
        <3>2. SucceededIsWhole'
            BY <2>5 DEF SucceededIsWhole, Rejected, NoReply
        <3>3. Rejected # NoReply
            BY DEF Rejected, NoReply
        <3>4. QED
            BY <2>1, <2>5, <3>1, <3>2, <3>3 DEF Told
    <2>9. QED
        BY <2>4, <2>6, <2>7, <2>8 DEF IInv
<1>3. CASE ~used /\ ~cancelled
    <2>1. /\ used' /\ used' \in BOOLEAN /\ owner' = c /\ runner' = c
          /\ phase' = FirstPhase(1)
          /\ UNCHANGED <<durable, stage, completed, sources, handoff, reply,
                         cancelled, invoked, cause>>
        BY <1>3
    <2>2. /\ phase = "idle" /\ stage = 1 /\ invoked = {}
          /\ \A d \in Caller : reply[d] = NoReply
        BY <1>3 DEF IInv, Shape
    <2>3. phase' = "resolve" /\ phase' # "idle" /\ Active'
        BY <2>1 DEF FirstPhase, Mutating, Active
    <2>4. TypeOK'
        BY <2>1, <2>3, FullRunAssumption DEF IInv, TypeOK, Phase, durable
    <2>5. Shape'
        BY <2>1, <2>2, <2>3 DEF IInv, Shape, Active, Mutating, durable
    <2>6. Progress'
        BY <1>3, <2>1, <2>2, <2>3 DEF IInv, Shape, Progress, Reached, Stage
    <2>7. Single'
        BY <2>1, <2>2, <2>3 DEF IInv, Single, NoStageTwice, PastFirstGrant, durable
    <2>8. Told'
        <3>1. StoppedWhereItSays'
            BY <2>1 DEF StoppedWhereItSays, Executed
        <3>2. SucceededIsWhole'
            BY <2>1, <2>2 DEF SucceededIsWhole, NoReply
        <3>3. QED
            BY <2>1, <2>2, <2>3, <3>1, <3>2 DEF Told
    <2>9. Held'
        BY <2>1, <2>2 DEF IInv, Held
    <2>10. QED
        BY <2>4, <2>5, <2>6, <2>7, <2>8, <2>9 DEF IInv
<1>4. QED
    BY <1>1, <1>2, <1>3 DEF IInv, TypeOK

LEMMA CancelInv == ASSUME IInv, Cancel PROVE IInv'
<1>1. /\ cancelled' \in BOOLEAN
      /\ UNCHANGED <<durable, memory, owner, invoked, cause, reply>>
    BY DEF Cancel
<1>2. TypeOK'
    BY <1>1 DEF IInv, TypeOK, durable, memory
<1>3. Shape' /\ Progress' /\ Held'
    BY <1>1 DEF IInv, Shape, Progress, Held, Active, Reached, durable, memory
<1>4. Single'
    BY <1>1 DEF IInv, Single, NoStageTwice, PastFirstGrant, Active, Reached, durable, memory
<1>5. Told'
    BY <1>1 DEF IInv, Told, StoppedWhereItSays, SucceededIsWhole, Executed, LastStage,
                Active, durable, memory
<1>6. QED
    BY <1>2, <1>3, <1>4, <1>5 DEF IInv

LEMMA InstallCredentialsInv == ASSUME IInv, InstallCredentials PROVE IInv'
<1>1. phase = "install" /\ stage = 10 /\ Active
    BY DEF InstallCredentials, IInv, Shape, Active
<1>2. CASE phase' = "resolve" /\ UNCHANGED <<runner, completed, handoff, cause, reply>>
    <2>1. stage \in Mutating /\ handoff' # "held"
        BY <1>1, <1>2 DEF Mutating, IInv, Held
    <2>2. QED
        BY <1>1, <1>2, <2>1, PhaseKeeps DEF InstallCredentials, durable
<1>3. CASE Stop(stage, completed, "STAGE_EXECUTION_ERROR")
    BY <1>1, <1>3, StopBefore DEF InstallCredentials, durable, Category, IInv, TypeOK
<1>4. QED
    BY <1>2, <1>3 DEF InstallCredentials

LEMMA ResolveInv == ASSUME IInv, Resolve PROVE IInv'
<1>1. phase = "resolve" /\ stage \in Mutating /\ Active
    BY DEF Resolve, IInv, Shape, Active
<1>2. CASE /\ Grantable(stage)
           /\ claimed' = claimed \cup {stage}
           /\ phase' = "open"
           /\ UNCHANGED <<runner, completed, handoff, cause, reply>>
    BY <1>1, <1>2, PhaseKeeps DEF Resolve, Grantable
<1>3. CASE /\ claimed' \in {claimed, claimed \cup {stage}}
           /\ Stop(stage, completed, "AUTHORIZATION")
    <2>1. claimed' \subseteq Mutating /\ claimed \subseteq claimed'
        BY <1>1, <1>3 DEF IInv, TypeOK
    <2>2. QED
        BY <1>1, <1>3, <2>1, StopBefore DEF Resolve, Category
<1>4. QED
    BY <1>2, <1>3 DEF Resolve

LEMMA OpenStageInv == ASSUME IInv, OpenStage PROVE IInv'
<1>1. phase = "open" /\ Active
    BY DEF OpenStage, Active
<1>2. CASE /\ phase' = "run"
           /\ handoff' = IF stage = 9 THEN "consumed" ELSE handoff
           /\ UNCHANGED <<runner, completed, cause, reply>>
    <2>1. handoff' # "held"
        BY <1>1, <1>2 DEF IInv, Held
    <2>2. QED
        BY <1>1, <1>2, <2>1, PhaseKeeps DEF OpenStage, durable
<1>3. CASE Stop(stage, completed, "STAGE_EXECUTION_ERROR")
    BY <1>1, <1>3, StopBefore DEF OpenStage, durable, Category, IInv, TypeOK
<1>4. QED
    BY <1>2, <1>3 DEF OpenStage

LEMMA BindInv == ASSUME IInv, Bind PROVE IInv'
<1>1. phase = "bind" /\ stage = 8 /\ Active
    BY DEF Bind, IInv, Shape, Active
<1>2. CASE /\ phase' = FirstPhase(8)
           /\ UNCHANGED <<runner, completed, handoff, cause, reply>>
    <2>1. phase' = "resolve" /\ stage \in Mutating
        BY <1>1, <1>2 DEF FirstPhase, Mutating
    <2>2. handoff' # "held"
        BY <1>1, <1>2 DEF IInv, Held
    <2>3. QED
        BY <1>1, <1>2, <2>1, <2>2, PhaseKeeps DEF Bind, durable
<1>3. CASE Stop(8, completed, "ORCHESTRATION_STOPPED") \/ Stop(8, completed, "BIND")
    BY <1>1, <1>3, StopBefore DEF Bind, durable, Category, IInv, TypeOK
<1>4. QED
    BY <1>2, <1>3 DEF Bind

LEMMA NewProcessInv == ASSUME IInv, NewProcess PROVE IInv'
<1>1. /\ stage' = 1 /\ phase' = "idle" /\ completed' = 0 /\ sources' = {}
      /\ handoff' = "none" /\ owner' = None /\ invoked' = {} /\ cause' = "NO_ERROR"
      /\ runner' = None /\ processes' = processes + 1 /\ processes < MaxProcess
      /\ UNCHANGED <<bare, receipts, claimed, begun>>
    BY DEF NewProcess
<1>2. used' \in BOOLEAN /\ ~used' /\ cancelled' \in BOOLEAN
    BY DEF NewProcess
<1>3. reply' = [c \in Caller |-> NoReply]
    BY DEF NewProcess
<1>4. TypeOK'
    <2>1. NoReply \in [state : {"RUNNING", "SUCCEEDED", "STOPPED"}, stoppedAt : 0..12,
                       checkpoints : 0..12, category : Category \cup {"NO_ERROR"}]
        BY DEF NoReply
    <2>2. reply' \in [Caller -> [state : {"RUNNING", "SUCCEEDED", "STOPPED"},
                                 stoppedAt : 0..12, checkpoints : 0..12,
                                 category : Category \cup {"NO_ERROR"}]]
        BY <1>3, <2>1
    <2>3. processes' \in 1..MaxProcess
        BY <1>1, FullRunAssumption DEF IInv, TypeOK
    <2>4. stage' \in Stage
        BY <1>1 DEF Stage
    <2>5. QED
        BY <1>1, <1>2, <2>2, <2>3, <2>4 DEF IInv, TypeOK, Phase
<1>5. Shape' /\ Progress' /\ Held'
    BY <1>1, <1>3 DEF IInv, Shape, Progress, Held, Active
<1>6. Single'
    BY <1>1 DEF IInv, Single, NoStageTwice, PastFirstGrant, Active
<1>7. Told'
    BY <1>1, <1>2, <1>3 DEF Told, StoppedWhereItSays, SucceededIsWhole, Executed, NoReply
<1>8. QED
    BY <1>4, <1>5, <1>6, <1>7 DEF IInv

LEMMA PersistInv == ASSUME IInv, Persist PROVE IInv'
<1>1. /\ phase = "persist" /\ Active /\ stage \in Stage /\ stage < 12
      /\ receipts[stage] = "SUCCEEDED"
    BY DEF Persist, Active, IInv, TypeOK, Progress
<1>2. Advance(stage) /\ sources' = sources \cup {stage}
    BY DEF Persist
<1>3. UNCHANGED <<bare, receipts, claimed, begun, processes, used, cancelled, owner, invoked>>
    BY DEF Persist, durable
<1>4. sources' \subseteq Stage /\ \A j \in Stage : j <= stage /\ j < 12 => j \in sources'
    BY <1>1, <1>2 DEF IInv, TypeOK, Progress, Stage
<1>5. \A j \in Stage : j <= stage => receipts'[j] = "SUCCEEDED"
    BY <1>1, <1>3 DEF IInv, Progress, Stage
<1>6. \A j \in Stage : j \in invoked' <=> j <= stage
    BY <1>1, <1>3 DEF IInv, Progress, Reached, Stage
<1>7. NoStageTwice' /\ \A j \in Stage : begun'[j] > 0 => j <= stage
    BY <1>1, <1>3 DEF IInv, Single, PastFirstGrant, NoStageTwice, Reached, Stage
<1>8. /\ receipts' \in [Stage -> {"ABSENT", "SUCCEEDED", "FAILED", "STOPPED"}]
      /\ begun' \in [Stage -> 0..2] /\ invoked' \subseteq Stage
    BY <1>3 DEF IInv, TypeOK
<1>9. phase \in {"run", "persist"} /\ (phase = "run" <=> stage = 12)
    BY <1>1 DEF Stage
<1>10. QED
    BY <1>1, <1>2, <1>3, <1>4, <1>5, <1>6, <1>7, <1>8, <1>9, AdvanceKeeps

LEMMA PersistFailsInv == ASSUME IInv, PersistFails PROVE IInv'
<1>1. /\ phase = "persist" /\ Active /\ stage \in Stage
      /\ receipts[stage] = "SUCCEEDED"
    BY DEF PersistFails, Active, IInv, TypeOK, Progress
<1>2. PersistenceCategory(stage) \in Category
    BY DEF PersistenceCategory, Category
<1>3. /\ Stop(stage, stage, PersistenceCategory(stage))
      /\ UNCHANGED <<bare, receipts, claimed, begun, processes, used, stage, sources,
                     cancelled, owner, invoked>>
    BY DEF PersistFails, durable
<1>4. \A j \in invoked' : j <= stage
    BY <1>1, <1>3 DEF IInv, Progress, Reached, TypeOK, Stage
<1>5. \A j \in 1..stage : receipts'[j] = "SUCCEEDED"
    BY <1>1, <1>3 DEF IInv, Progress, Stage
<1>6. NoStageTwice' /\ (1 \notin claimed' => \A j \in Stage : begun'[j] = 0)
    BY <1>3 DEF IInv, Single, NoStageTwice
<1>7. /\ receipts' \in [Stage -> {"ABSENT", "SUCCEEDED", "FAILED", "STOPPED"}]
      /\ begun' \in [Stage -> 0..2] /\ sources' \subseteq Stage /\ invoked' \subseteq Stage
      /\ claimed' \subseteq Mutating
    BY <1>3 DEF IInv, TypeOK
<1>8. QED
    BY <1>1, <1>2, <1>3, <1>4, <1>5, <1>6, <1>7, StopKeeps

(***************************************************************************)
(* What the invocation of a stage and the receipt it leaves do.            *)
(***************************************************************************)
LEMMA InvokeFacts ==
    ASSUME IInv, phase = "run", Invoke,
           NEW o \in {"ABSENT", "SUCCEEDED", "FAILED", "STOPPED"}, Recorded(o)
    PROVE  /\ stage \in Stage /\ 1 \in claimed
           /\ receipts' \in [Stage -> {"ABSENT", "SUCCEEDED", "FAILED", "STOPPED"}]
           /\ \A j \in Stage : j < stage => receipts'[j] = "SUCCEEDED" /\ j \in sources
           /\ begun' \in [Stage -> 0..2] /\ NoStageTwice'
           /\ \A j \in Stage : begun'[j] > 0 => j <= stage
           /\ invoked' \subseteq Stage
           /\ \A j \in Stage : j \in invoked' <=> j <= stage
<1>1. stage \in Stage /\ Active /\ PastFirstGrant
    BY DEF IInv, TypeOK, Active, PastFirstGrant
<1>2. 1 \in claimed /\ \A j \in Stage : begun[j] > 0 => j < stage
    BY <1>1 DEF IInv, Single, Reached
<1>3. \A j \in Stage : j \in invoked <=> j < stage
    BY <1>1 DEF IInv, Progress, Reached
<1>4. /\ begun \in [Stage -> 0..2]
      /\ receipts \in [Stage -> {"ABSENT", "SUCCEEDED", "FAILED", "STOPPED"}]
    BY DEF IInv, TypeOK
<1>5. begun[stage] = 0
    BY <1>1, <1>2, <1>4 DEF Stage
<1>6. begun' = [begun EXCEPT ![stage] = 1]
    BY <1>5 DEF Invoke
<1>7. /\ receipts' \in [Stage -> {"ABSENT", "SUCCEEDED", "FAILED", "STOPPED"}]
      /\ \A j \in Stage : j # stage => receipts'[j] = receipts[j]
    BY <1>1, <1>4 DEF Recorded
<1>8. \A j \in Stage : j < stage => receipts'[j] = "SUCCEEDED" /\ j \in sources
    BY <1>1, <1>7 DEF IInv, Progress, Stage
<1>9. begun' \in [Stage -> 0..2] /\ NoStageTwice'
    BY <1>1, <1>4, <1>6 DEF IInv, Single, NoStageTwice
<1>10. \A j \in Stage : begun'[j] > 0 => j <= stage
    BY <1>1, <1>2, <1>4, <1>6 DEF Stage
<1>11. invoked' \subseteq Stage /\ \A j \in Stage : j \in invoked' <=> j <= stage
    BY <1>1, <1>3 DEF Invoke, IInv, TypeOK, Stage
<1>12. QED
    BY <1>1, <1>2, <1>7, <1>8, <1>9, <1>10, <1>11

LEMMA RunStageInv == ASSUME IInv, RunStage PROVE IInv'
<1>1. phase = "run" /\ phase # "idle" /\ Active /\ Invoke
    BY DEF RunStage, Active
<1>2. /\ UNCHANGED <<bare, claimed, processes, used, sources, cancelled, owner>>
      /\ claimed' \subseteq Mutating /\ sources' \subseteq Stage
    BY DEF RunStage, IInv, TypeOK
<1>3. completed = stage - 1
    BY <1>1 DEF IInv, Progress
<1>4. CASE /\ Succeeds
           /\ stage < 12
           /\ phase' = "persist"
           /\ handoff' = IF stage = 8 THEN "held" ELSE handoff
           /\ UNCHANGED <<runner, stage, completed, cause, reply>>
    <2>1. Recorded("SUCCEEDED") /\ receipts'[stage] = "SUCCEEDED"
        BY <1>4 DEF Succeeds
    <2>2. /\ stage \in Stage /\ 1 \in claimed
          /\ receipts' \in [Stage -> {"ABSENT", "SUCCEEDED", "FAILED", "STOPPED"}]
          /\ \A j \in Stage : j < stage => receipts'[j] = "SUCCEEDED" /\ j \in sources
          /\ begun' \in [Stage -> 0..2] /\ NoStageTwice'
          /\ \A j \in Stage : begun'[j] > 0 => j <= stage
          /\ invoked' \subseteq Stage
          /\ \A j \in Stage : j \in invoked' <=> j <= stage
        BY <1>1, <2>1, InvokeFacts
    <2>3. Active' /\ phase' # "idle"
        BY <1>4 DEF Active
    <2>4. TypeOK'
        <3>1. phase' \in Phase /\ handoff' \in {"none", "held", "consumed"}
            BY <1>4 DEF Phase, IInv, TypeOK
        <3>2. QED
            BY <1>1, <1>2, <1>4, <2>2, <2>3, <3>1 DEF IInv, TypeOK
    <2>5. Shape'
        BY <1>1, <1>2, <1>4, <2>3 DEF IInv, Shape
    <2>6. Progress'
        BY <1>2, <1>3, <1>4, <2>1, <2>2 DEF Progress, Reached, Stage
    <2>7. Single'
        BY <1>2, <1>4, <2>2 DEF Single, Reached, Stage
    <2>8. Told'
        BY <1>1, <1>2, <1>4, <2>3, ToldKeeps
    <2>9. Held'
        BY <1>1, <1>4 DEF IInv, Held
    <2>10. QED
        BY <2>4, <2>5, <2>6, <2>7, <2>8, <2>9 DEF IInv
<1>5. CASE Succeeds /\ stage = 12 /\ Advance(12)
    <2>1. Recorded("SUCCEEDED") /\ receipts'[stage] = "SUCCEEDED"
        BY <1>5 DEF Succeeds
    <2>2. /\ stage \in Stage /\ 1 \in claimed
          /\ receipts' \in [Stage -> {"ABSENT", "SUCCEEDED", "FAILED", "STOPPED"}]
          /\ \A j \in Stage : j < stage => receipts'[j] = "SUCCEEDED" /\ j \in sources
          /\ begun' \in [Stage -> 0..2] /\ NoStageTwice'
          /\ \A j \in Stage : begun'[j] > 0 => j <= stage
          /\ invoked' \subseteq Stage
          /\ \A j \in Stage : j \in invoked' <=> j <= stage
        BY <1>1, <2>1, InvokeFacts
    <2>3. /\ \A j \in Stage : j <= stage => receipts'[j] = "SUCCEEDED"
          /\ \A j \in Stage : j <= stage /\ j < 12 => j \in sources'
        BY <1>2, <1>5, <2>1, <2>2 DEF Stage
    <2>4. phase \in {"run", "persist"} /\ (phase = "run" <=> stage = 12)
        BY <1>1, <1>5
    <2>5. QED
        BY <1>1, <1>2, <1>5, <2>2, <2>3, <2>4, AdvanceKeeps
<1>6. CASE /\ \/ Succeeds /\ stage = 8 /\ Stop(8, 8, "STAGE_EXECUTION_ERROR")
              \/ /\ \E o \in {"ABSENT", "SUCCEEDED", "FAILED", "STOPPED"} : Recorded(o)
                 /\ Stop(stage, completed, "STAGE_EXECUTION_ERROR")
           /\ UNCHANGED stage
    <2>1. PICK o \in {"ABSENT", "SUCCEEDED", "FAILED", "STOPPED"} : Recorded(o)
        BY <1>6 DEF Succeeds
    <2>2. /\ stage \in Stage /\ 1 \in claimed
          /\ receipts' \in [Stage -> {"ABSENT", "SUCCEEDED", "FAILED", "STOPPED"}]
          /\ \A j \in Stage : j < stage => receipts'[j] = "SUCCEEDED" /\ j \in sources
          /\ begun' \in [Stage -> 0..2] /\ NoStageTwice'
          /\ \A j \in Stage : begun'[j] > 0 => j <= stage
          /\ invoked' \subseteq Stage
          /\ \A j \in Stage : j \in invoked' <=> j <= stage
        BY <1>1, <2>1, InvokeFacts
    <2>3. PICK n \in {stage - 1, stage} :
              /\ Stop(stage, n, "STAGE_EXECUTION_ERROR")
              /\ \A j \in 1..n : receipts'[j] = "SUCCEEDED"
        <3>1. CASE Succeeds /\ stage = 8 /\ Stop(8, 8, "STAGE_EXECUTION_ERROR")
            <4>1. \A j \in 1..stage : receipts'[j] = "SUCCEEDED"
                BY <2>2, <3>1 DEF Succeeds, Stage
            <4>2. QED
                BY <3>1, <4>1
        <3>2. CASE Stop(stage, completed, "STAGE_EXECUTION_ERROR")
            <4>1. \A j \in 1..(stage - 1) : receipts'[j] = "SUCCEEDED"
                BY <2>2 DEF Stage
            <4>2. QED
                BY <1>3, <3>2, <4>1
        <3>3. QED
            BY <1>6, <3>1, <3>2
    <2>4. "STAGE_EXECUTION_ERROR" \in Category /\ \A j \in invoked' : j <= stage
        BY <2>2 DEF Category
    <2>5. QED
        BY <1>1, <1>2, <1>6, <2>2, <2>3, <2>4, StopKeeps
<1>7. QED
    BY <1>4, <1>5, <1>6 DEF RunStage

LEMMA Preserved == IInv /\ [Next]_vars => IInv'
<1> SUFFICES ASSUME IInv, [Next]_vars PROVE IInv'
    OBVIOUS
<1>1. CASE \E c \in Caller : Run(c)
    BY <1>1, RunInv
<1>2. CASE Cancel
    BY <1>2, CancelInv
<1>3. CASE Execute
    BY <1>3, InstallCredentialsInv, ResolveInv, OpenStageInv, RunStageInv, PersistInv,
       PersistFailsInv, BindInv DEF Execute
<1>4. CASE NewProcess
    BY <1>4, NewProcessInv
<1>5. CASE UNCHANGED vars
    <2>1. UNCHANGED <<bare, receipts, claimed, begun, processes, used, runner, stage, phase,
                      completed, sources, handoff, cancelled, owner, invoked, cause, reply>>
        BY <1>5 DEF vars, durable, memory
    <2>2. TypeOK' /\ Shape' /\ Progress' /\ Held'
        BY <2>1 DEF IInv, TypeOK, Shape, Progress, Held, Active, Reached
    <2>3. Single'
        BY <2>1 DEF IInv, Single, NoStageTwice, PastFirstGrant, Active, Reached
    <2>4. Told'
        BY <2>1 DEF IInv, Told, StoppedWhereItSays, SucceededIsWhole, Executed, LastStage,
                    Active
    <2>5. QED
        BY <2>2, <2>3, <2>4 DEF IInv
<1>6. QED
    BY <1>1, <1>2, <1>3, <1>4, <1>5 DEF Next

LEMMA Inductive == Spec => []IInv
BY InitInv, Preserved, PTL DEF Spec

(***************************************************************************)
(* Type correctness.                                                       *)
(***************************************************************************)
THEOREM RunTypeCorrect == Spec => []TypeOK
<1>1. IInv => TypeOK
    BY DEF IInv
<1>2. QED
    BY <1>1, Inductive, PTL

(***************************************************************************)
(* However many callers and processes there are, and wherever they are     *)
(* killed or cancelled, no full run invokes a stage operation again.       *)
(***************************************************************************)
THEOREM PlanRunOnce == Spec => []NoStageTwice
<1>1. IInv => NoStageTwice
    BY DEF IInv, Single
<1>2. QED
    BY <1>1, Inductive, PTL

(***************************************************************************)
(* A stage at work has all its predecessors on the ledger and in the       *)
(* receipt directory of its own process.                                   *)
(***************************************************************************)
THEOREM PredecessorsFirst == Spec => []PredecessorsPersisted
<1>1. IInv => PredecessorsPersisted
    BY DEF IInv, Progress, PredecessorsPersisted, Active, TypeOK, Stage
<1>2. QED
    BY <1>1, Inductive, PTL

(***************************************************************************)
(* A STOPPED receipt of the caller that was let in names the stage beyond  *)
(* which nothing was begun, and counts only successes on the ledger.       *)
(***************************************************************************)
THEOREM StopsTruthfully == Spec => []StoppedWhereItSays
<1>1. IInv => StoppedWhereItSays
    BY DEF IInv, Told
<1>2. QED
    BY <1>1, Inductive, PTL

(***************************************************************************)
(* A SUCCEEDED receipt stands for all stages of the completion mode, each  *)
(* invoked by this process and successful on the ledger, and no other.     *)
(***************************************************************************)
THEOREM SucceedsWhole == Spec => []SucceededIsWhole
<1>1. IInv => SucceededIsWhole
    BY DEF IInv, Told
<1>2. QED
    BY <1>1, Inductive, PTL

(***************************************************************************)
(* The stage-8 credential is held between its two stages only.             *)
(***************************************************************************)
THEOREM CredentialStaysInside == Spec => []CredentialConfined
<1>1. IInv => CredentialConfined
    BY DEF IInv, Held, Progress, CredentialConfined, Active, TypeOK, Reached, Stage
<1>2. QED
    BY <1>1, Inductive, PTL

-----------------------------------------------------------------------------
(***************************************************************************)
(* LocalCluster.  The machine, and a command with what it has in memory.   *)
(***************************************************************************)
Machine == [origin |-> origin, cluster |-> cluster, table |-> table]

Me(p) == [at |-> pc[p], cmd |-> cmd[p], mem |-> mem[p], staged |-> staged[p],
          raced |-> raced[p]]

(***************************************************************************)
(* The steps of each command.                                              *)
(***************************************************************************)
Beginning == {"directory", "config"}
Begun == {"prepare", "create"}
Removing == {"removeState", "removeKubeconfig", "removeConfig", "removeDirectory"}
Stopping == {"stop", "signal", "await"}

OnPath(c, at) ==
    \/ /\ c = "up"
       /\ at \in Beginning \cup {"intent", "create", "capture", "saveIncomplete", "saveReady",
                               "start", "saveForward", "health", "saveDone"}
    \/ /\ c = "diagnose"
       /\ at \in Beginning \cup {"intent", "prepare", "create", "capture", "observe",
                               "outcome", "saveIncomplete", "saveReady"}
    \/ /\ c = "resume"
       /\ at \in Stopping \cup {"capture", "workload", "saveReady", "start", "saveForward",
                              "health", "saveDone"}
    \/ /\ c = "reconnect"
       /\ at \in Stopping \cup {"inspect", "saveDrop", "verify", "workload", "start",
                              "inspectNew", "saveForward", "health", "saveDone"}
    \/ /\ c = "down"
       /\ at \in Stopping \cup Removing \cup {"confirm", "saveDrop", "recheck", "lastCheck",
                                            "delete", "verifyGone"}

(***************************************************************************)
(* Before its first update of the receipt, the command that drew an owner  *)
(* is the only one to know it.                                             *)
(***************************************************************************)
Creator(me) ==
    /\ me.cmd \in {"up", "diagnose"}
    /\ me.at \in {"intent", "prepare", "create", "capture", "observe", "outcome",
                  "saveIncomplete", "saveReady"}

Places ==
    Beginning \cup Begun \cup Saves \cup Stopping \cup Removing \cup
    {"idle", "intent", "capture", "observe", "outcome", "start", "health", "workload",
     "inspect", "verify", "inspectNew", "confirm", "recheck", "lastCheck", "delete",
     "verifyGone"}

Typed == LocalTypes /\ pc \in [Procs -> Places]

(***************************************************************************)
(* What a receipt says is so: who drew its owner, and, once complete, that *)
(* its identities are those of the cluster made for it.                    *)
(***************************************************************************)
Truthful(w, r) ==
    /\ r \in Receipts
    /\ w.origin[r.owner] = (IF r.format = "v3" THEN "UP" ELSE "DIAGNOSE")
    /\ ~Partial(r) => r.containers = "made" /\ r.api = "whole"
    /\ r.phase = "CREATING" => r.containers = Absent

(***************************************************************************)
(* Where a command is, and what it has in memory there.                    *)
(***************************************************************************)
Placed(me) ==
    /\ me.at = "idle" => me.mem = Absent
    /\ me.at # "idle" => OnPath(me.cmd, me.at)
    /\ me.at \in Beginning => me.mem = Absent
    /\ me.mem = Absent => me.at \in Beginning \cup {"idle"}
    /\ me.staged => me.at \in Saves

Remembers(w, me) ==
    me.mem # Absent =>
        /\ Truthful(w, me.mem)
        /\ me.cmd = "down" => me.mem.format = "v3"
        /\ me.at = "intent" => me.mem.phase = "CREATING"
        /\ me.at = "saveReady" => ~Partial(me.mem)
        /\ ~Creator(me) => me.mem.containers # Absent
        /\ ~Creator(me) /\ me.at # "capture" => ~Partial(me.mem)
        /\ me.at \in {"inspectNew", "saveForward", "stop", "signal"} =>
              me.mem.forward # Absent

(***************************************************************************)
(* What a command has checked last still holds, unless it was overtaken.   *)
(***************************************************************************)
Checked(w, me) ==
    /\ me.at = "signal" =>
          w.table[me.mem.forward.pid] \in {me.mem.forward.start, Absent} \/ me.raced
    /\ me.at = "delete" =>
          w.cluster[me.mem.owner] \in {me.mem.containers, Absent} \/ me.raced
    /\ me.at \in Removing => w.cluster[me.mem.owner] # "made"

Fits(w, me) == Placed(me) /\ Remembers(w, me) /\ Checked(w, me)

(***************************************************************************)
(* Receipts of one owner, in memory or on disk, agree.                     *)
(***************************************************************************)
Holds(p) == mem[p] # Absent /\ ~Creator(Me(p))

Alone ==
    \A p \in Procs : mem[p] # Absent /\ Creator(Me(p)) =>
        /\ \A q \in Procs \ {p} : mem[q] # Absent => mem[q].owner # mem[p].owner
        /\ stateFile # Absent /\ stateFile.owner = mem[p].owner =>
              pc[p] # "intent" /\ stateFile.phase = "CREATING"

Agree ==
    /\ \A p, q \in Procs : Holds(p) /\ Holds(q) /\ mem[p].owner = mem[q].owner =>
          mem[p].containers = mem[q].containers
    /\ \A p \in Procs : Holds(p) /\ stateFile # Absent /\ stateFile.owner = mem[p].owner =>
          mem[p].containers = stateFile.containers

(***************************************************************************)
(* A cluster that is there, or that may be created, has its receipt on     *)
(* disk, and whoever could replace the receipt works for it.               *)
(***************************************************************************)
Live(o) ==
    \/ cluster[o] = "made"
    \/ \E p \in Procs : pc[p] \in Begun /\ mem[p].owner = o

Accounted ==
    \A o \in Owners \ overtaken : Live(o) =>
        /\ stateFile # Absent /\ stateFile.owner = o
        /\ \A p \in Procs : mem[p] # Absent /\ pc[p] # "intent" => mem[p].owner = o

LInv ==
    /\ Typed
    /\ stateFile # Absent => Truthful(Machine, stateFile)
    /\ \A p \in Procs : Fits(Machine, Me(p))
    /\ Alone /\ Agree /\ Accounted

-----------------------------------------------------------------------------
FilesTyped ==
    /\ dir \in BOOLEAN
    /\ stateFile \in Receipts \cup {Absent}
    /\ temps \subseteq Owners
    /\ diag \in DiagnosticReceipts \cup {Absent}
    /\ config \in Owners \cup {Absent}
    /\ kubeconfig \in Owners \cup {Absent, Mixed}
    /\ overtaken \subseteq Owners

MachineTyped ==
    /\ origin \in [Owners -> {"UNUSED", "UP", "DIAGNOSE"}]
    /\ cluster \in [Owners -> Instances \cup {Absent}]
    /\ table \in [Pids -> (0..MaxStarts) \cup {Absent}]
    /\ starts \in 0..MaxStarts

CommandsTyped ==
    /\ pc \in [Procs -> Places]
    /\ cmd \in [Procs -> Commands \cup {Absent}]
    /\ mem \in [Procs -> Receipts \cup {Absent}]
    /\ staged \in [Procs -> BOOLEAN]
    /\ raced \in [Procs -> BOOLEAN]

LEMMA TypedParts == Typed <=> FilesTyped /\ MachineTyped /\ CommandsTyped
BY DEF Typed, LocalTypes, FilesTyped, MachineTyped, CommandsTyped

(***************************************************************************)
(* A step of one command, seen from it and from the others.                *)
(***************************************************************************)
Apart(p) == \A q \in Procs \ {p} : Me(q)' = Me(q)

Follows(s, t) ==
    t.mem # Absent =>
        /\ s.mem # Absent /\ t.mem.owner = s.mem.owner
        /\ s.at # "intent" /\ t.at # "intent"
        /\ Creator(t) => Creator(s)
        /\ ~Creator(t) => ~Creator(s) /\ t.mem.containers = s.mem.containers
        /\ t.at \in Begun => s.at \in Begun

LEMMA MeIs ==
    ASSUME NEW p \in Procs
    PROVE  /\ Me(p).at = pc[p] /\ Me(p).cmd = cmd[p] /\ Me(p).mem = mem[p]
           /\ Me(p).staged = staged[p] /\ Me(p).raced = raced[p]
BY DEF Me

LEMMA MeWas ==
    ASSUME NEW p \in Procs
    PROVE  /\ Me(p)'.at = pc'[p] /\ Me(p)'.cmd = cmd'[p] /\ Me(p)'.mem = mem'[p]
           /\ Me(p)'.staged = staged'[p] /\ Me(p)'.raced = raced'[p]
BY DEF Me

(***************************************************************************)
(* What relates the commands and the receipt survives a step of one.       *)
(***************************************************************************)
LEMMA PairsKept ==
    ASSUME LInv, NEW p \in Procs, UNCHANGED <<stateFile, overtaken>>,
           \A q \in Procs \ {p} : pc'[q] = pc[q] /\ cmd'[q] = cmd[q] /\ mem'[q] = mem[q],
           Fits(Machine', Me(p)'), Follows(Me(p), Me(p)'),
           \A o \in Owners : cluster'[o] = "made" => Live(o)
    PROVE  Alone' /\ Agree' /\ Accounted'
<1>1. \A q \in Procs \ {p} : mem'[q] = mem[q] /\ pc'[q] = pc[q] /\ (Creator(Me(q))' <=> Creator(Me(q)))
    BY MeIs, MeWas DEF Creator
<1>2. mem'[p] # Absent =>
        /\ mem[p] # Absent /\ mem'[p].owner = mem[p].owner
        /\ pc[p] # "intent" /\ pc'[p] # "intent"
        /\ Creator(Me(p))' => Creator(Me(p))
        /\ ~Creator(Me(p))' => ~Creator(Me(p)) /\ mem'[p].containers = mem[p].containers
        /\ pc'[p] \in Begun => pc[p] \in Begun
    BY MeIs, MeWas DEF Follows
<1>3. mem'[p] = Absent => pc'[p] \notin Begun
    BY MeWas DEF Fits, Placed, Beginning, Begun
<1>4. Alone'
    BY <1>1, <1>2 DEF LInv, Alone
<1>5. Agree'
    BY <1>1, <1>2 DEF LInv, Agree, Holds
<1>6. Accounted'
  <2>1. ASSUME NEW o \in Owners, Live(o)' PROVE Live(o)
      BY <1>1, <1>2, <1>3, <2>1 DEF Live
  <2> QED
      BY <1>1, <1>2, <2>1 DEF LInv, Accounted
<1> QED
    BY <1>4, <1>5, <1>6

LEMMA QuietStep ==
    ASSUME LInv, NEW p \in Procs, UNCHANGED <<stateFile, machine, overtaken>>,
           FilesTyped', CommandsTyped', Apart(p), NEW t, Me(p)' = t, Fits(Machine, t),
           Follows(Me(p), t)
    PROVE  LInv'
<1>1. Machine' = Machine /\ cluster' = cluster
    BY DEF Machine, machine
<1>2. Typed'
    BY DEF LInv, machine, Typed, LocalTypes, FilesTyped, CommandsTyped
<1>3. \A q \in Procs \ {p} : pc'[q] = pc[q] /\ cmd'[q] = cmd[q] /\ mem'[q] = mem[q]
    BY MeIs, MeWas DEF Apart
<1>4. \A q \in Procs : Fits(Machine', Me(q)')
    BY <1>1 DEF Apart, LInv
<1>5. Alone' /\ Agree' /\ Accounted'
    BY <1>1, <1>3, <1>4, PairsKept DEF Live
<1> QED
    BY <1>1, <1>2, <1>4, <1>5 DEF LInv

(***************************************************************************)
(* How a command ends, and how it goes on.                                 *)
(***************************************************************************)
LEMMA LTyped == ASSUME LInv PROVE FilesTyped /\ MachineTyped /\ CommandsTyped
BY TypedParts DEF LInv

LEMMA SameFiles == ASSUME LInv, UNCHANGED <<files, overtaken>> PROVE FilesTyped' /\ stateFile' = stateFile
BY LTyped DEF FilesTyped, files

LEMMA EndsIs ==
    ASSUME LInv, NEW p \in Procs, Ends(p)
    PROVE  /\ CommandsTyped' /\ Apart(p)
           /\ pc'[p] = "idle" /\ cmd'[p] = Absent /\ mem'[p] = Absent
           /\ staged'[p] = FALSE /\ raced'[p] = FALSE
<1>1. CommandsTyped
    BY LTyped
<1>2. /\ pc' = [pc EXCEPT ![p] = "idle"] /\ cmd' = [cmd EXCEPT ![p] = Absent]
      /\ mem' = [mem EXCEPT ![p] = Absent] /\ staged' = [staged EXCEPT ![p] = FALSE]
      /\ raced' = [raced EXCEPT ![p] = FALSE]
    BY DEF Ends, Goto, Remember
<1>3. "idle" \in Places
    BY DEF Places
<1>4. CommandsTyped'
    BY <1>1, <1>2, <1>3 DEF CommandsTyped
<1>5. Apart(p)
    BY <1>1, <1>2 DEF CommandsTyped, Apart, Me
<1> QED
    BY <1>1, <1>2, <1>4, <1>5 DEF CommandsTyped

LEMMA IdleFits ==
    ASSUME NEW w, NEW t, t.at = "idle", t.mem = Absent, ~t.staged
    PROVE  Fits(w, t) /\ \A s : Follows(s, t)
BY DEF Fits, Placed, Remembers, Checked, Follows, Beginning, Removing

LEMMA EndsKeeps ==
    ASSUME LInv, NEW p \in Procs, Ends(p), UNCHANGED <<stateFile, machine, overtaken>>,
           FilesTyped'
    PROVE  LInv'
<1>1. Fits(Machine, Me(p)') /\ Follows(Me(p), Me(p)')
    BY EndsIs, MeWas, IdleFits
<1> QED
    BY <1>1, EndsIs, QuietStep

Moved(s, where) == [s EXCEPT !.at = where]

LEMMA MovesIs ==
    ASSUME LInv, NEW p \in Procs, NEW where \in Places, where # "idle", MovesTo(p, where)
    PROVE  CommandsTyped' /\ Apart(p) /\ Me(p)' = Moved(Me(p), where)
<1>1. CommandsTyped
    BY LTyped
<1>2. pc' = [pc EXCEPT ![p] = where] /\ UNCHANGED <<cmd, mem, staged, raced>>
    BY DEF MovesTo, Goto
<1> QED
    BY <1>1, <1>2 DEF CommandsTyped, Apart, Me, Moved

LEMMA MovedIs ==
    ASSUME NEW p \in Procs, NEW where
    PROVE  LET s == Me(p)  t == Moved(s, where) IN
           t.at = where /\ t.cmd = s.cmd /\ t.mem = s.mem /\ t.staged = s.staged /\ t.raced = s.raced
BY DEF Me, Moved

LEMMA MovesKeeps ==
    ASSUME LInv, NEW p \in Procs, NEW where \in Places, where # "idle", MovesTo(p, where),
           UNCHANGED <<stateFile, machine, overtaken>>, FilesTyped',
           Fits(Machine, Moved(Me(p), where)), Follows(Me(p), Moved(Me(p), where))
    PROVE  LInv'
BY MovesIs, QuietStep

(***************************************************************************)
(* What is known of a command at a step.                                   *)
(***************************************************************************)
LEMMA Known ==
    ASSUME LInv, NEW p \in Procs
    PROVE  /\ Fits(Machine, Me(p))
           /\ pc[p] # "idle" => OnPath(cmd[p], pc[p])
           /\ pc[p] \notin Beginning \cup {"idle"} =>
                 mem[p] # Absent /\ mem[p] \in Receipts /\ Truthful(Machine, mem[p])
           /\ staged[p] => pc[p] \in Saves
           /\ stateFile # Absent => stateFile \in Receipts /\ Truthful(Machine, stateFile)
BY MeIs DEF LInv, Fits, Placed, Remembers, Truthful

LEMMA StartsKeeps ==
    ASSUME LInv, NEW p \in Procs, NEW c \in Commands, NEW where \in Places,
           Starts(p, c, where, Absent), where \in Beginning, OnPath(c, where)
    PROVE  LInv'
<1>1. CommandsTyped /\ ~staged[p]
    BY LTyped, Known DEF Starts, At, Saves, CommandsTyped
<1>2. pc' = [pc EXCEPT ![p] = where] /\ mem' = [mem EXCEPT ![p] = Absent]
      /\ cmd' = [cmd EXCEPT ![p] = c] /\ UNCHANGED <<files, machine, staged, history>>
    BY DEF Starts, Goto, Remember
<1>3. CommandsTyped' /\ Apart(p) /\ FilesTyped' /\ UNCHANGED <<stateFile, overtaken>>
    BY <1>1, <1>2, SameFiles DEF CommandsTyped, Apart, Me, history, files
<1>4. pc'[p] = where /\ mem'[p] = Absent /\ cmd'[p] = c /\ ~staged'[p]
    BY <1>1, <1>2 DEF CommandsTyped, history
<1> DEFINE t == Me(p)'
<1>5. t.at = where /\ t.cmd = c /\ t.mem = Absent /\ ~t.staged
    BY <1>4, MeWas
<1> HIDE DEF t
<1>6. Fits(Machine, t) /\ Follows(Me(p), t)
    BY <1>5 DEF Fits, Placed, Remembers, Checked, Follows, Beginning, Removing
<1> QED
    BY <1>2, <1>3, <1>6, QuietStep DEF t

LEMMA UpPreflightKeeps ==
    ASSUME LInv, NEW p \in Procs, UpPreflight(p) \/ DiagnosePreflight(p) PROVE LInv'
<1>1. Starts(p, "up", "directory", Absent) \/ Starts(p, "diagnose", "directory", Absent)
    BY DEF UpPreflight, DiagnosePreflight
<1>2. "up" \in Commands /\ "diagnose" \in Commands /\ "directory" \in Beginning \cap Places
      /\ OnPath("up", "directory") /\ OnPath("diagnose", "directory")
    BY DEF Commands, Beginning, OnPath, Places
<1> QED
    BY <1>1, <1>2, StartsKeeps

(***************************************************************************)
(* resume, reconnect and down start with the receipt that is on disk.      *)
(***************************************************************************)
LEMMA BeginKeeps ==
    ASSUME LInv, NEW p \in Procs, NEW c \in {"resume", "reconnect", "down"},
           NEW where \in Places, OnPath(c, where), where \in {"capture", "inspect", "confirm"},
           stateFile # Absent, Starts(p, c, where, stateFile), stateFile.phase # "CREATING",
           stateFile.containers # Absent,
           c = "down" => stateFile.format = "v3",
           where # "capture" => ~Partial(stateFile)
    PROVE  LInv'
<1>1. CommandsTyped /\ ~staged[p] /\ MachineTyped
    BY LTyped, Known DEF Starts, At, Saves, CommandsTyped
<1>2. pc' = [pc EXCEPT ![p] = where] /\ mem' = [mem EXCEPT ![p] = stateFile]
      /\ cmd' = [cmd EXCEPT ![p] = c] /\ UNCHANGED <<files, machine, staged, history>>
    BY DEF Starts, Goto, Remember
<1>3. stateFile \in Receipts /\ Truthful(Machine, stateFile)
    BY Known
<1>4. CommandsTyped'
    BY <1>1, <1>2, <1>3 DEF CommandsTyped, Commands, history
<1>5. Apart(p) /\ FilesTyped' /\ UNCHANGED <<stateFile, overtaken>>
    BY <1>1, <1>2, SameFiles DEF CommandsTyped, Apart, Me, history, files
<1>6. pc'[p] = where /\ mem'[p] = stateFile /\ cmd'[p] = c /\ ~staged'[p]
    BY <1>1, <1>2 DEF CommandsTyped, history
<1> DEFINE t == Me(p)'
<1>7. t.at = where /\ t.cmd = c /\ t.mem = stateFile /\ ~t.staged
    BY <1>6, MeWas
<1>8. ~Creator(t)
    BY <1>7 DEF Creator
<1>9. Machine' = Machine /\ cluster' = cluster
    BY <1>2 DEF Machine, machine
<1> HIDE DEF t
<1>10. Fits(Machine, t)
    BY <1>3, <1>7, <1>8 DEF Fits, Placed, Remembers, Checked, Beginning, Removing
<1>11. \A q \in Procs \ {p} :
          /\ mem'[q] = mem[q] /\ pc'[q] = pc[q] /\ Me(q)' = Me(q)
          /\ (Creator(Me(q))' <=> Creator(Me(q)))
    BY <1>5, MeIs, MeWas DEF Apart, Creator
<1>12. ~Creator(Me(p))'
    BY <1>8 DEF t
<1>13. Alone'
    BY <1>2, <1>5, <1>6, <1>11, <1>12 DEF LInv, Alone
<1>14. Agree'
    BY <1>5, <1>6, <1>11, <1>12 DEF LInv, Agree, Holds
<1>15. Accounted'
  <2>1. ASSUME NEW o \in Owners, Live(o)' PROVE Live(o)
      BY <1>6, <1>9, <1>11, <2>1 DEF Live, Begun
  <2> QED
      BY <1>5, <1>6, <1>11, <2>1 DEF LInv, Accounted
<1>16. \A q \in Procs : Fits(Machine', Me(q)')
    BY <1>9, <1>10, <1>11 DEF LInv, t
<1>17. Typed'
    BY <1>1, <1>2, <1>4, <1>5 DEF Typed, LocalTypes, FilesTyped, CommandsTyped, MachineTyped, machine
<1> QED
    BY <1>3, <1>5, <1>9, <1>13, <1>14, <1>15, <1>16, <1>17 DEF LInv

LEMMA BeginsKeep ==
    ASSUME LInv, NEW p \in Procs, BeginResume(p) \/ BeginReconnect(p) \/ BeginDown(p)
    PROVE  LInv'
<1>1. /\ OnPath("resume", "capture") /\ OnPath("reconnect", "inspect")
      /\ OnPath("down", "confirm") /\ {"capture", "inspect", "confirm"} \subseteq Places
    BY DEF OnPath, Places
<1>2. CASE BeginResume(p)
    BY <1>1, <1>2, BeginKeeps DEF BeginResume
<1>3. CASE BeginReconnect(p)
    BY <1>1, <1>3, BeginKeeps DEF BeginReconnect, ReceiptValid, Partial
<1>4. CASE BeginDown(p)
  <2>1. stateFile \in Receipts
      BY <1>4, Known DEF BeginDown
  <2>2. stateFile.format = "v3" /\ stateFile.phase # "CREATING" /\ stateFile.containers # Absent
      BY <1>4, <2>1 DEF BeginDown, ReceiptValid, Partial, Receipts
  <2> QED
      BY <1>1, <1>4, <2>2, BeginKeeps DEF BeginDown
<1> QED
    BY <1>2, <1>3, <1>4

(***************************************************************************)
(* A command goes on to a later step with what it has.                     *)
(***************************************************************************)
LEMMA GoesOn ==
    ASSUME LInv, NEW p \in Procs, NEW where \in Places, MovesTo(p, where),
           UNCHANGED <<stateFile, machine, overtaken>>, FilesTyped',
           pc[p] \notin Beginning \cup {"idle", "intent"}, ~staged[p],
           where \notin Beginning \cup {"idle", "intent", "capture"}, OnPath(cmd[p], where),
           Creator(Moved(Me(p), where)) <=> Creator(Me(p)),
           pc[p] = "capture" => Creator(Me(p)),
           where \in Begun => pc[p] \in Begun,
           where = "saveReady" => ~Partial(mem[p]),
           where \in {"inspectNew", "saveForward", "stop", "signal"} => mem[p].forward # Absent,
           where = "signal" =>
               table[mem[p].forward.pid] \in {mem[p].forward.start, Absent} \/ raced[p],
           where = "delete" =>
               cluster[mem[p].owner] \in {mem[p].containers, Absent} \/ raced[p],
           where \in Removing => cluster[mem[p].owner] # "made"
    PROVE  LInv'
<1> DEFINE s == Me(p)
           t == Moved(s, where)
<1>1. t.at = where /\ t.cmd = cmd[p] /\ t.mem = mem[p] /\ t.staged = staged[p] /\ t.raced = raced[p]
    BY MovedIs, MeIs
<1>2. s.at = pc[p] /\ s.cmd = cmd[p] /\ s.mem = mem[p]
    BY MeIs
<1>3. Fits(Machine, s) /\ mem[p] # Absent
    BY Known
<1>4. Machine.cluster = cluster /\ Machine.table = table
    BY DEF Machine
<1>5. Creator(t) <=> Creator(s)
    OBVIOUS
<1> HIDE DEF s, t
<1>6. Placed(t)
    BY <1>1, <1>3 DEF Placed
<1>7. Remembers(Machine, t)
    BY <1>1, <1>2, <1>3, <1>5 DEF Fits, Remembers, s
<1>8. Checked(Machine, t)
    BY <1>1, <1>4 DEF Checked
<1>9. Follows(s, t)
    BY <1>1, <1>2, <1>3, <1>5 DEF Follows
<1> QED
    BY <1>6, <1>7, <1>8, <1>9, MovesKeeps DEF Fits, s, t

LEMMA CreatorMoved ==
    ASSUME NEW p \in Procs, NEW where
    PROVE  /\ Creator(Me(p)) <=>
                /\ cmd[p] \in {"up", "diagnose"}
                /\ pc[p] \in {"intent", "prepare", "create", "capture", "observe", "outcome",
                              "saveIncomplete", "saveReady"}
           /\ Creator(Moved(Me(p), where)) <=>
                /\ cmd[p] \in {"up", "diagnose"}
                /\ where \in {"intent", "prepare", "create", "capture", "observe", "outcome",
                              "saveIncomplete", "saveReady"}
BY MeIs, MovedIs DEF Creator

LEMMA HolderKnown ==
    ASSUME LInv, NEW p \in Procs, mem[p] # Absent, ~Creator(Me(p))
    PROVE  mem[p].containers # Absent /\ (pc[p] # "capture" => ~Partial(mem[p]))
BY Known, MeIs DEF Fits, Remembers

LEMMA CheckingKeeps ==
    ASSUME LInv, NEW p \in Procs,
           \/ VerifyOwned(p) \/ VerifyWorkload(p) \/ InspectNew(p) \/ Confirm(p)
           \/ Recheck(p) \/ LastCheck(p) \/ VerifyGone(p)
    PROVE  LInv'
<1>1. UNCHANGED <<files, machine, overtaken>>
    BY DEF VerifyOwned, VerifyWorkload, InspectNew, Confirm, Recheck, LastCheck, VerifyGone
<1>2. FilesTyped' /\ UNCHANGED <<stateFile, machine, overtaken>>
    BY <1>1, SameFiles
<1>3. pc[p] \in {"verify", "workload", "inspectNew", "confirm", "recheck", "lastCheck", "verifyGone"}
    BY DEF VerifyOwned, VerifyWorkload, InspectNew, Confirm, Recheck, LastCheck, VerifyGone, At
<1>4. pc[p] \notin Beginning \cup {"idle", "intent"} /\ OnPath(cmd[p], pc[p]) /\ ~staged[p]
    BY <1>3, Known DEF Beginning, Saves
<1>6. CASE VerifyOwned(p)
    BY <1>2, <1>4, <1>6, GoesOn, CreatorMoved
       DEF VerifyOwned, At, OnPath, Places, Beginning, Stopping, Removing, Begun
<1>7. CASE VerifyWorkload(p)
    BY <1>2, <1>4, <1>7, GoesOn, CreatorMoved, HolderKnown, Known
       DEF VerifyWorkload, At, OnPath, Places, Saves, Beginning, Stopping, Removing, Begun
<1>8. CASE InspectNew(p)
    BY <1>2, <1>4, <1>8, GoesOn, CreatorMoved, Known, MeIs
       DEF InspectNew, At, OnPath, Places, Saves, Beginning, Stopping, Removing, Begun, Fits, Remembers
<1>9. CASE Confirm(p)
    BY <1>2, <1>4, <1>9, GoesOn, CreatorMoved
       DEF Confirm, At, OnPath, Places, Beginning, Stopping, Removing, Begun
<1>10. CASE Recheck(p)
    BY <1>2, <1>4, <1>10, GoesOn, CreatorMoved
       DEF Recheck, At, OnPath, Places, Beginning, Stopping, Removing, Begun
<1>11. CASE LastCheck(p)
    BY <1>2, <1>4, <1>11, GoesOn, CreatorMoved
       DEF LastCheck, At, OnPath, Places, Beginning, Stopping, Removing, Begun, SameContainers
<1>12. CASE VerifyGone(p)
    BY <1>2, <1>4, <1>12, GoesOn, CreatorMoved, LocalAssumption
       DEF VerifyGone, At, OnPath, Places, Beginning, Stopping, Removing, Begun, Instances
<1> QED
    BY <1>6, <1>7, <1>8, <1>9, <1>10, <1>11, <1>12

(***************************************************************************)
(* A command goes on with a receipt it has changed.                        *)
(***************************************************************************)
Turned(s, where, r) ==
    [at |-> where, cmd |-> s.cmd, mem |-> r, staged |-> s.staged, raced |-> s.raced]

LEMMA TurnedIs ==
    ASSUME NEW p \in Procs, NEW where, NEW r
    PROVE  LET s == Me(p)  t == Turned(s, where, r) IN
           t.at = where /\ t.cmd = s.cmd /\ t.mem = r /\ t.staged = s.staged /\ t.raced = s.raced
BY DEF Me, Turned

Turns(p, where, r) == Goto(p, where) /\ Remember(p, r) /\ UNCHANGED <<cmd, staged, raced>>

LEMMA TurnsIs ==
    ASSUME LInv, NEW p \in Procs, NEW where \in Places, NEW r \in Receipts, Turns(p, where, r)
    PROVE  CommandsTyped' /\ Apart(p) /\ Me(p)' = Turned(Me(p), where, r)
<1>1. CommandsTyped
    BY LTyped
<1>2. pc' = [pc EXCEPT ![p] = where] /\ mem' = [mem EXCEPT ![p] = r]
      /\ UNCHANGED <<cmd, staged, raced>>
    BY DEF Turns, Goto, Remember
<1> QED
    BY <1>1, <1>2 DEF CommandsTyped, Apart, Me, Turned

LEMMA TurnsKeeps ==
    ASSUME LInv, NEW p \in Procs, NEW where \in Places, NEW r \in Receipts, Turns(p, where, r),
           UNCHANGED <<stateFile, machine, overtaken>>, FilesTyped',
           pc[p] \notin Beginning \cup {"idle", "intent"}, ~staged[p],
           where \notin Beginning \cup Begun \cup Removing \cup
               {"idle", "intent", "capture", "inspectNew", "saveForward", "stop", "signal", "delete"},
           OnPath(cmd[p], where),
           Creator(Moved(Me(p), where)) <=> Creator(Me(p)),
           where = "saveReady" => ~Partial(r),
           r.owner = mem[p].owner, r.format = mem[p].format, r.phase # "CREATING",
           ~Partial(r) => r.containers = "made" /\ r.api = "whole",
           ~Creator(Me(p)) => r.containers = mem[p].containers /\ ~Partial(r)
    PROVE  LInv'
<1> DEFINE s == Me(p)
           t == Turned(s, where, r)
<1>1. t.at = where /\ t.cmd = cmd[p] /\ t.mem = r /\ t.staged = staged[p] /\ t.raced = raced[p]
    BY TurnedIs, MeIs
<1>2. s.at = pc[p] /\ s.cmd = cmd[p] /\ s.mem = mem[p]
    BY MeIs
<1>3. Fits(Machine, s) /\ mem[p] # Absent /\ Truthful(Machine, mem[p])
    BY Known
<1>4. r # Absent
    BY LocalAssumption
<1>5. Creator(t) <=> Creator(s)
    BY <1>1, MovedIs, MeIs DEF Creator
<1>6. ~Creator(s) => r.containers = mem[p].containers /\ ~Partial(r)
    OBVIOUS
<1> HIDE DEF s, t
<1>7. Placed(t)
    BY <1>1, <1>3, <1>4 DEF Placed
<1>8. Truthful(Machine, r)
    BY <1>3 DEF Truthful
<1>9. ~Creator(s) => mem[p].containers # Absent
    BY <1>2, <1>3 DEF Fits, Remembers
<1>10. cmd[p] = "down" => r.format = "v3"
    BY <1>2, <1>3 DEF Fits, Remembers
<1>11. Remembers(Machine, t)
    BY <1>1, <1>5, <1>6, <1>8, <1>9, <1>10 DEF Remembers
<1>12. Checked(Machine, t)
    BY <1>1 DEF Checked
<1>13. Follows(s, t)
    BY <1>1, <1>2, <1>3, <1>5, <1>6 DEF Follows
<1> QED
    BY <1>7, <1>11, <1>12, <1>13, TurnsIs, QuietStep DEF Fits, s, t

LEMMA AbandonKeeps ==
    ASSUME LInv, NEW p \in Procs, Abandon(p) PROVE LInv'
BY EndsKeeps, SameFiles DEF Abandon

LEMMA MakeDirectoryKeeps ==
    ASSUME LInv, NEW p \in Procs, MakeDirectory(p) PROVE LInv'
<1>1. FilesTyped' /\ UNCHANGED <<stateFile, machine, overtaken>> /\ MovesTo(p, "config")
      /\ pc[p] = "directory"
    BY LTyped DEF MakeDirectory, FilesTyped, At
<1>2. OnPath(cmd[p], "directory") /\ ~staged[p]
    BY <1>1, Known DEF Saves
<1>3. mem[p] = Absent
    BY <1>1, Known, MeIs DEF Fits, Placed, Beginning
<1> DEFINE t == Moved(Me(p), "config")
<1>4. t.at = "config" /\ t.cmd = cmd[p] /\ t.mem = Absent /\ ~t.staged
    BY <1>2, <1>3, MovedIs, MeIs
<1>5. OnPath(cmd[p], "config")
    BY <1>2 DEF OnPath, Beginning, Stopping, Removing
<1> HIDE DEF t
<1>6. Fits(Machine, t) /\ Follows(Me(p), t)
    BY <1>4, <1>5 DEF Fits, Placed, Remembers, Checked, Follows, Beginning, Removing
<1> QED
    BY <1>1, <1>6, MovesKeeps DEF Places, Beginning, t

LEMMA SaveFailsKeeps ==
    ASSUME LInv, NEW p \in Procs, SaveFails(p) PROVE LInv'
<1>1. FilesTyped' /\ UNCHANGED <<stateFile, machine, overtaken>> /\ pc[p] \in Saves /\ ~staged[p]
    BY SameFiles DEF SaveFails
<1>2. CASE NotSaved(cmd[p], pc[p]) = "idle"
    BY <1>1, <1>2, EndsKeeps DEF SaveFails, MovesTo
<1>3. CASE NotSaved(cmd[p], pc[p]) # "idle"
  <2>1. /\ pc[p] = "saveForward" /\ cmd[p] \in {"resume", "reconnect"}
        /\ NotSaved(cmd[p], pc[p]) = "stop" /\ MovesTo(p, "stop")
      BY <1>3 DEF NotSaved, SaveFails
  <2>2. mem[p].forward # Absent
      BY <2>1, Known, MeIs DEF Fits, Remembers, Beginning
  <2> QED
      BY <1>1, <2>1, <2>2, GoesOn, CreatorMoved DEF OnPath, Places, Beginning, Stopping, Removing, Begun
<1> QED
    BY <1>2, <1>3

LEMMA RemovesKeep ==
    ASSUME LInv, NEW p \in Procs,
           RemoveKubeconfig(p) \/ RemoveConfig(p) \/ RemoveDirectory(p)
    PROVE  LInv'
<1>1. FilesTyped' /\ UNCHANGED <<stateFile, machine, overtaken>>
    BY LTyped DEF RemoveKubeconfig, RemoveConfig, RemoveDirectory, FilesTyped
<1>2. pc[p] \in Removing
    BY DEF RemoveKubeconfig, RemoveConfig, RemoveDirectory, At, Removing
<1>3. pc[p] \notin Beginning \cup {"idle", "intent", "capture"} /\ OnPath(cmd[p], pc[p]) /\ ~staged[p]
    BY <1>2, Known DEF Beginning, Saves, Removing
<1>4. cmd[p] = "down"
    BY <1>2, <1>3 DEF OnPath, Removing, Stopping, Beginning
<1>5. cluster[mem[p].owner] # "made"
    BY <1>2, Known, MeIs DEF Fits, Checked, Machine
<1>6. CASE RemoveKubeconfig(p)
    BY <1>1, <1>3, <1>4, <1>5, <1>6, GoesOn, CreatorMoved
       DEF RemoveKubeconfig, At, OnPath, Places, Beginning, Removing, Begun
<1>7. CASE RemoveConfig(p)
    BY <1>1, <1>3, <1>4, <1>5, <1>7, GoesOn, CreatorMoved
       DEF RemoveConfig, At, OnPath, Places, Beginning, Removing, Begun
<1>8. CASE RemoveDirectory(p)
    BY <1>1, <1>8, EndsKeeps DEF RemoveDirectory
<1> QED
    BY <1>6, <1>7, <1>8

(***************************************************************************)
(* Preparation, capture and the other changes of the receipt in memory.    *)
(***************************************************************************)
LEMMA StepKnown ==
    ASSUME LInv, NEW p \in Procs, pc[p] \notin Beginning \cup {"idle", "intent"} \cup Saves
    PROVE  /\ ~staged[p] /\ OnPath(cmd[p], pc[p])
           /\ mem[p] # Absent /\ mem[p] \in Receipts /\ Truthful(Machine, mem[p])
           /\ cluster[mem[p].owner] \in Instances \cup {Absent}
<1>1. /\ ~staged[p] /\ OnPath(cmd[p], pc[p])
      /\ mem[p] # Absent /\ mem[p] \in Receipts /\ Truthful(Machine, mem[p])
    BY Known
<1>2. mem[p].owner \in Owners
    BY <1>1 DEF Receipts
<1> QED
    BY <1>1, <1>2, LTyped DEF MachineTyped

LEMMA PhaseTurned ==
    ASSUME NEW k \in Receipts, NEW ph \in {"INCOMPLETE", "READY"}
    PROVE  LET r == [k EXCEPT !.phase = ph] IN
           /\ r \in Receipts /\ r.owner = k.owner /\ r.format = k.format /\ r.phase = ph
           /\ r.containers = k.containers /\ r.api = k.api
BY DEF Receipts

LEMMA ForwardDropped ==
    ASSUME NEW k \in Receipts
    PROVE  LET r == [k EXCEPT !.forward = Absent] IN
           /\ r \in Receipts /\ r.owner = k.owner /\ r.format = k.format /\ r.phase = k.phase
           /\ r.containers = k.containers /\ r.api = k.api
BY DEF Receipts

LEMMA OldDropped ==
    ASSUME NEW k \in Receipts
    PROVE  LET r == [k EXCEPT !.phase = "CLUSTER_READY", !.forward = Absent] IN
           /\ r \in Receipts /\ r.owner = k.owner /\ r.format = k.format
           /\ r.phase = "CLUSTER_READY" /\ r.containers = k.containers /\ r.api = k.api
BY DEF Receipts

LEMMA ContainersTurned ==
    ASSUME NEW k \in Receipts, NEW c \in Instances \cup {Absent}
    PROVE  LET r == [k EXCEPT !.containers = c] IN
           r \in Receipts /\ r.owner = k.owner /\ r.format = k.format
BY DEF Receipts

LEMMA ApiTurned ==
    ASSUME NEW k \in Receipts
    PROVE  LET r == [k EXCEPT !.api = "nodes"] IN
           r \in Receipts /\ r.owner = k.owner /\ r.format = k.format
BY DEF Receipts

LEMMA ObservedTurned ==
    ASSUME NEW k \in Receipts, NEW c \in Instances \cup {Absent}
    PROVE  LET r == [k EXCEPT !.phase = "INCOMPLETE", !.containers = c] IN
           r \in Receipts /\ r.owner = k.owner /\ r.format = k.format /\ r.phase = "INCOMPLETE"
BY DEF Receipts

LEMMA CapturedTurned ==
    ASSUME NEW k \in Receipts, cluster[k.owner] = "made"
    PROVE  LET r == Captured(k) IN
           /\ r \in Receipts /\ r.owner = k.owner /\ r.format = k.format
           /\ r.containers = "made" /\ r.api = "whole" /\ r.phase = "CLUSTER_READY"
BY DEF Captured, Receipts, Instances

LEMMA PrepareReceiptKeeps ==
    ASSUME LInv, NEW p \in Procs, PrepareReceipt(p) PROVE LInv'
<1>1. pc[p] = "prepare" /\ UNCHANGED <<stateFile, machine, overtaken>>
    BY DEF PrepareReceipt, At
<1>2. /\ ~staged[p] /\ OnPath(cmd[p], "prepare") /\ mem[p] # Absent /\ mem[p] \in Receipts
    BY <1>1, StepKnown DEF Beginning, Saves
<1>3. cmd[p] = "diagnose"
    BY <1>2 DEF OnPath, Beginning, Stopping, Removing
<1>4. FilesTyped'
  <2>1. [owner |-> mem[p].owner, state |-> "PREPARED", containers |-> Absent] \in DiagnosticReceipts
      BY <1>2 DEF Receipts, DiagnosticReceipts
  <2> QED
      BY <2>1, LTyped DEF PrepareReceipt, FilesTyped
<1>5. CASE MovesTo(p, "create")
    BY <1>1, <1>2, <1>3, <1>4, <1>5, GoesOn, CreatorMoved
       DEF OnPath, Places, Beginning, Begun, Removing
<1>6. CASE Turns(p, "saveIncomplete", [mem[p] EXCEPT !.phase = "INCOMPLETE"])
  <2> DEFINE r == [mem[p] EXCEPT !.phase = "INCOMPLETE"]
  <2>1. r \in Receipts /\ r.owner = mem[p].owner /\ r.format = mem[p].format /\ r.phase = "INCOMPLETE"
      BY <1>2, PhaseTurned
  <2>2. Turns(p, "saveIncomplete", r)
      BY <1>6
  <2> HIDE DEF r
  <2> QED
      BY <1>1, <1>2, <1>3, <1>4, <2>1, <2>2, TurnsKeeps, CreatorMoved
         DEF OnPath, Places, Saves, Beginning, Begun, Removing, Partial
<1> QED
    BY <1>5, <1>6 DEF PrepareReceipt, Turns

LEMMA CapturedIs ==
    ASSUME LInv, NEW p \in Procs, pc[p] = "capture", CaptureWhole(mem[p])
    PROVE  LET r == Captured(mem[p]) IN
           /\ r \in Receipts /\ r.owner = mem[p].owner /\ r.format = mem[p].format
           /\ r.containers = "made" /\ r.api = "whole" /\ r.phase = "CLUSTER_READY"
           /\ ~Creator(Me(p)) => r.containers = mem[p].containers
<1>1. mem[p] \in Receipts /\ mem[p] # Absent /\ cluster[mem[p].owner] \in Instances \cup {Absent}
    BY StepKnown DEF Beginning, Saves
<1>2. cluster[mem[p].owner] = "made"
    BY DEF CaptureWhole, SameKubeconfig
<1>3. ~Creator(Me(p)) => "made" = mem[p].containers
    BY <1>1, <1>2, HolderKnown DEF CaptureWhole, SameContainers
<1> DEFINE r == Captured(mem[p])
<1>5. /\ r \in Receipts /\ r.owner = mem[p].owner /\ r.format = mem[p].format
      /\ r.containers = "made" /\ r.api = "whole" /\ r.phase = "CLUSTER_READY"
    BY <1>1, <1>2, CapturedTurned
<1> HIDE DEF r
<1> QED
    BY <1>3, <1>5 DEF r

LEMMA CaptureStopsIs ==
    ASSUME LInv, NEW p \in Procs, pc[p] = "capture", NEW k \in CaptureStops(mem[p])
    PROVE  LET r == [k EXCEPT !.phase = "INCOMPLETE"] IN
           r \in Receipts /\ r.owner = mem[p].owner /\ r.format = mem[p].format /\ r.phase = "INCOMPLETE"
<1>1. mem[p] \in Receipts /\ cluster[mem[p].owner] \in Instances \cup {Absent}
    BY StepKnown DEF Beginning, Saves
<1> DEFINE seen == [mem[p] EXCEPT !.containers = cluster[mem[p].owner]]
<1>2. seen \in Receipts /\ seen.owner = mem[p].owner /\ seen.format = mem[p].format
    BY <1>1, ContainersTurned
<1>3. k \in {mem[p], seen, [seen EXCEPT !.api = "nodes"]}
    BY DEF CaptureStops
<1> HIDE DEF seen
<1>4. k \in Receipts /\ k.owner = mem[p].owner /\ k.format = mem[p].format
    BY <1>1, <1>2, <1>3, ApiTurned
<1> QED
    BY <1>4, PhaseTurned

LEMMA CapturesKeep ==
    ASSUME LInv, NEW p \in Procs,
           CaptureForUp(p) \/ CaptureForResume(p) \/ CaptureForDiagnose(p)
    PROVE  LInv'
<1>1. pc[p] = "capture" /\ FilesTyped' /\ UNCHANGED <<stateFile, machine, overtaken>>
    BY SameFiles DEF CaptureForUp, CaptureForResume, CaptureForDiagnose, At, history
<1>2. ~staged[p] /\ mem[p] # Absent /\ pc[p] \notin Beginning \cup {"idle", "intent"}
    BY <1>1, StepKnown DEF Beginning, Saves
<1>3. ASSUME NEW where \in {"saveReady", "workload", "outcome"}, OnPath(cmd[p], where),
             Creator(Moved(Me(p), where)) <=> Creator(Me(p)),
             CaptureWhole(mem[p]), Turns(p, where, Captured(mem[p]))
      PROVE  LInv'
  <2> DEFINE r == Captured(mem[p])
  <2>1. /\ r \in Receipts /\ r.owner = mem[p].owner /\ r.format = mem[p].format
        /\ r.containers = "made" /\ r.api = "whole" /\ r.phase = "CLUSTER_READY"
        /\ ~Creator(Me(p)) => r.containers = mem[p].containers
      BY <1>1, <1>3, CapturedIs
  <2>2. where \in Places /\ where \notin Beginning \cup Begun \cup Removing
      BY DEF Places, Saves, Beginning, Begun, Removing
  <2>3. Turns(p, where, r)
      BY <1>3
  <2> HIDE DEF r
  <2> QED
      BY <1>1, <1>2, <1>3, <2>1, <2>2, <2>3, TurnsKeeps DEF Partial
<1>4. CASE CaptureForUp(p)
  <2>1. cmd[p] = "up"
      BY <1>4 DEF CaptureForUp
  <2>2. CASE CaptureWhole(mem[p]) /\ Turns(p, "saveReady", Captured(mem[p]))
      BY <1>1, <1>3, <2>1, <2>2, CreatorMoved DEF OnPath
  <2>3. ASSUME NEW k \in CaptureStops(mem[p]),
               Turns(p, "saveIncomplete", [k EXCEPT !.phase = "INCOMPLETE"])
        PROVE  LInv'
    <3> DEFINE r == [k EXCEPT !.phase = "INCOMPLETE"]
    <3>1. r \in Receipts /\ r.owner = mem[p].owner /\ r.format = mem[p].format /\ r.phase = "INCOMPLETE"
        BY <1>1, <2>3, CaptureStopsIs
    <3>2. Turns(p, "saveIncomplete", r)
        BY <2>3
    <3> HIDE DEF r
    <3> QED
        BY <1>1, <1>2, <2>1, <3>1, <3>2, TurnsKeeps, CreatorMoved
           DEF OnPath, Places, Saves, Beginning, Begun, Removing, Partial
  <2> QED
      BY <1>4, <2>2, <2>3 DEF CaptureForUp, Turns, history
<1>5. CASE CaptureForResume(p)
    BY <1>1, <1>3, <1>5, CreatorMoved DEF CaptureForResume, OnPath, Turns, history
<1>6. CASE CaptureForDiagnose(p)
  <2>1. cmd[p] = "diagnose"
      BY <1>6 DEF CaptureForDiagnose
  <2>2. CASE MovesTo(p, "observe")
      BY <1>1, <1>2, <2>1, <2>2, GoesOn, CreatorMoved
         DEF OnPath, Places, Beginning, Begun, Removing
  <2>3. CASE CaptureWhole(mem[p]) /\ Turns(p, "outcome", Captured(mem[p]))
      BY <1>1, <1>3, <2>1, <2>3, CreatorMoved DEF OnPath
  <2> QED
      BY <1>6, <2>2, <2>3 DEF CaptureForDiagnose, Turns
<1> QED
    BY <1>4, <1>5, <1>6

LEMMA ObserveResourcesKeeps ==
    ASSUME LInv, NEW p \in Procs, ObserveResources(p) PROVE LInv'
<1>1. pc[p] = "observe" /\ FilesTyped' /\ UNCHANGED <<stateFile, machine, overtaken>>
    BY SameFiles DEF ObserveResources, At, history
<1>2. /\ ~staged[p] /\ OnPath(cmd[p], "observe") /\ mem[p] # Absent /\ mem[p] \in Receipts
      /\ cluster[mem[p].owner] \in Instances \cup {Absent}
    BY <1>1, StepKnown DEF Beginning, Saves
<1>3. cmd[p] = "diagnose"
    BY <1>2 DEF OnPath, Beginning, Stopping, Removing
<1>4. PICK seen \in Instances \cup {Absent} :
          Turns(p, "outcome", [mem[p] EXCEPT !.phase = "INCOMPLETE", !.containers = seen])
    BY <1>2 DEF ObserveResources, Turns, history
<1> DEFINE r == [mem[p] EXCEPT !.phase = "INCOMPLETE", !.containers = seen]
<1>5. r \in Receipts /\ r.owner = mem[p].owner /\ r.format = mem[p].format /\ r.phase = "INCOMPLETE"
    BY <1>2, ObservedTurned
<1>6. Turns(p, "outcome", r)
    BY <1>4
<1> HIDE DEF r
<1> QED
    BY <1>1, <1>2, <1>3, <1>5, <1>6, TurnsKeeps, CreatorMoved
       DEF OnPath, Places, Beginning, Begun, Removing, Partial

LEMMA RecordOutcomeKeeps ==
    ASSUME LInv, NEW p \in Procs, RecordOutcome(p) PROVE LInv'
<1>1. pc[p] = "outcome" /\ UNCHANGED <<stateFile, machine, overtaken>>
    BY DEF RecordOutcome, At
<1>2. /\ ~staged[p] /\ OnPath(cmd[p], "outcome") /\ mem[p] # Absent /\ mem[p] \in Receipts
    BY <1>1, StepKnown DEF Beginning, Saves
<1>3. cmd[p] = "diagnose"
    BY <1>2 DEF OnPath, Beginning, Stopping, Removing
<1>4. FilesTyped'
  <2>1. diag' \in DiagnosticReceipts
      BY <1>2 DEF RecordOutcome, Receipts, DiagnosticReceipts
  <2> QED
      BY <2>1, LTyped DEF RecordOutcome, FilesTyped
<1>5. CASE Ends(p)
    BY <1>1, <1>4, <1>5, EndsKeeps
<1>6. ASSUME NEW where \in {"saveReady", "saveIncomplete"}, MovesTo(p, where),
             where = "saveReady" => mem[p].phase = "CLUSTER_READY"
      PROVE  LInv'
    BY <1>1, <1>2, <1>3, <1>4, <1>6, GoesOn, CreatorMoved
       DEF OnPath, Places, Saves, Beginning, Begun, Removing, Partial
<1> QED
    BY <1>5, <1>6 DEF RecordOutcome

LEMMA HolderTurnsKeep ==
    ASSUME LInv, NEW p \in Procs, InspectOld(p) \/ Healthy(p) PROVE LInv'
<1>1. pc[p] \in {"inspect", "health"} /\ FilesTyped' /\ UNCHANGED <<stateFile, machine, overtaken>>
    BY SameFiles DEF InspectOld, Healthy, At, history
<1>2. /\ ~staged[p] /\ OnPath(cmd[p], pc[p]) /\ mem[p] # Absent /\ mem[p] \in Receipts
      /\ Truthful(Machine, mem[p])
    BY <1>1, StepKnown DEF Beginning, Saves
<1>3. ~Creator(Me(p))
    BY <1>1, CreatorMoved
<1>4. mem[p].containers = "made" /\ mem[p].api = "whole"
    BY <1>1, <1>2, <1>3, HolderKnown DEF Truthful
<1>5. CASE InspectOld(p)
  <2> DEFINE r == [mem[p] EXCEPT !.phase = "CLUSTER_READY", !.forward = Absent]
  <2>1. r \in Receipts /\ r.owner = mem[p].owner /\ r.format = mem[p].format
        /\ r.phase = "CLUSTER_READY" /\ r.containers = mem[p].containers /\ r.api = mem[p].api
      BY <1>2, OldDropped
  <2>2. Turns(p, "saveDrop", r) /\ pc[p] = "inspect"
      BY <1>5 DEF InspectOld, Turns, At, history
  <2>3. cmd[p] = "reconnect"
      BY <1>2, <2>2 DEF OnPath, Beginning, Stopping, Removing
  <2> HIDE DEF r
  <2> QED
      BY <1>1, <1>2, <1>3, <1>4, <2>1, <2>2, <2>3, TurnsKeeps, CreatorMoved
         DEF OnPath, Places, Saves, Beginning, Begun, Removing, Partial
<1>6. CASE Healthy(p)
  <2> DEFINE r == [mem[p] EXCEPT !.phase = "READY"]
  <2>1. r \in Receipts /\ r.owner = mem[p].owner /\ r.format = mem[p].format
        /\ r.phase = "READY" /\ r.containers = mem[p].containers /\ r.api = mem[p].api
      BY <1>2, PhaseTurned
  <2>2. Turns(p, "saveDone", r) /\ pc[p] = "health"
      BY <1>6 DEF Healthy, Turns, At, history
  <2>3. OnPath(cmd[p], "saveDone")
      BY <1>2, <2>2 DEF OnPath, Beginning, Stopping, Removing
  <2> HIDE DEF r
  <2> QED
      BY <1>1, <1>2, <1>3, <1>4, <2>1, <2>2, <2>3, TurnsKeeps, CreatorMoved
         DEF Places, Saves, Beginning, Begun, Removing, Partial
<1> QED
    BY <1>5, <1>6

(***************************************************************************)
(* The forward is stopped, or was not ours.                                *)
(***************************************************************************)
LEMMA SettledKeeps ==
    ASSUME LInv, NEW p \in Procs, pc[p] \in Stopping, StopSettled(p),
           UNCHANGED <<stateFile, machine, overtaken>>, FilesTyped'
    PROVE  LInv'
<1>1. CASE cmd[p] # "down"
    BY <1>1, EndsKeeps DEF StopSettled
<1>2. CASE cmd[p] = "down"
  <2>1. /\ ~staged[p] /\ mem[p] # Absent /\ mem[p] \in Receipts /\ Truthful(Machine, mem[p])
        /\ pc[p] \notin Beginning \cup {"idle", "intent", "capture"}
      BY StepKnown DEF Stopping, Beginning, Saves
  <2>2. ~Creator(Me(p))
      BY <1>2, CreatorMoved
  <2>3. mem[p].containers = "made" /\ mem[p].api = "whole" /\ ~Partial(mem[p])
      BY <2>1, <2>2, HolderKnown DEF Truthful
  <2> DEFINE r == [mem[p] EXCEPT !.forward = Absent]
  <2>4. r \in Receipts /\ r.owner = mem[p].owner /\ r.format = mem[p].format
        /\ r.phase = mem[p].phase /\ r.containers = mem[p].containers /\ r.api = mem[p].api
      BY <2>1, ForwardDropped
  <2>5. Turns(p, "saveDrop", r)
      BY <1>2 DEF StopSettled, Turns
  <2> HIDE DEF r
  <2>6. ~Partial(r) /\ r.phase # "CREATING"
      BY <2>3, <2>4 DEF Partial
  <2> QED
      BY <1>2, <2>1, <2>2, <2>3, <2>4, <2>5, <2>6, TurnsKeeps, CreatorMoved
         DEF OnPath, Places, Saves, Beginning, Begun, Removing
<1> QED
    BY <1>1, <1>2

LEMMA StopsKeep ==
    ASSUME LInv, NEW p \in Procs, StopForward(p) \/ AwaitExit(p) PROVE LInv'
<1>1. pc[p] \in {"stop", "await"} /\ FilesTyped' /\ UNCHANGED <<stateFile, machine, overtaken>>
    BY SameFiles DEF StopForward, AwaitExit, At
<1>2. CASE StopSettled(p)
    BY <1>1, <1>2, SettledKeeps DEF Stopping
<1>3. CASE StopForward(p) /\ ForwardState(mem[p].forward) = "MATCHES" /\ MovesTo(p, "signal")
  <2>1. pc[p] = "stop" /\ ~staged[p] /\ mem[p] # Absent /\ OnPath(cmd[p], "stop")
      BY <1>3, StepKnown DEF StopForward, At, Beginning, Saves
  <2>2. mem[p].forward # Absent
      BY <2>1, Known, MeIs DEF Fits, Remembers
  <2>3. table[mem[p].forward.pid] = mem[p].forward.start
      BY <1>3 DEF ForwardState
  <2>4. OnPath(cmd[p], "signal")
      BY <2>1 DEF OnPath, Stopping, Beginning, Removing
  <2> QED
      BY <1>1, <1>3, <2>1, <2>2, <2>3, <2>4, GoesOn, CreatorMoved
         DEF Places, Stopping, Beginning, Begun, Removing
<1> QED
    BY <1>2, <1>3 DEF StopForward, AwaitExit

LEMMA StageSaveKeeps ==
    ASSUME LInv, NEW p \in Procs, StageSave(p) PROVE LInv'
<1>1. pc[p] \in Saves /\ UNCHANGED <<stateFile, machine, overtaken>>
    BY DEF StageSave, history
<1>2. mem[p] # Absent /\ mem[p] \in Receipts
    BY <1>1, Known DEF Saves, Beginning
<1>3. FilesTyped'
    BY <1>2, LTyped DEF StageSave, FilesTyped, Receipts, history
<1>4. staged' = [staged EXCEPT ![p] = TRUE] /\ UNCHANGED <<pc, cmd, mem, raced>>
    BY DEF StageSave, history
<1>5. CommandsTyped' /\ Apart(p) /\ staged'[p] = TRUE
    BY <1>4, LTyped DEF CommandsTyped, Apart, Me
<1> DEFINE s == Me(p)
           t == Me(p)'
<1>6. t.at = pc[p] /\ t.cmd = cmd[p] /\ t.mem = mem[p] /\ t.raced = raced[p]
      /\ s.at = pc[p] /\ s.cmd = cmd[p] /\ s.mem = mem[p] /\ s.raced = raced[p]
    BY <1>4, MeIs, MeWas
<1>7. Fits(Machine, s)
    BY Known
<1> HIDE DEF s, t
<1>8. Creator(t) <=> Creator(s)
    BY <1>6 DEF Creator
<1>9. Fits(Machine, t)
    BY <1>1, <1>6, <1>7, <1>8 DEF Fits, Placed, Remembers, Checked
<1>10. Follows(s, t)
    BY <1>1, <1>2, <1>6, <1>8 DEF Follows, Saves
<1> QED
    BY <1>1, <1>3, <1>5, <1>9, <1>10, QuietStep DEF s, t

(***************************************************************************)
(* A step that changes what is on the machine: what the other commands     *)
(* checked survives it, or they were overtaken.                            *)
(***************************************************************************)
LEMMA FitsMoves ==
    ASSUME NEW w, NEW v, NEW s, NEW t, Fits(w, s),
           t.at = s.at, t.cmd = s.cmd, t.mem = s.mem, t.staged = s.staged, s.raced => t.raced,
           v.origin = w.origin,
           s.at = "signal" =>
               v.table[s.mem.forward.pid] \in {w.table[s.mem.forward.pid], Absent} \/ t.raced,
           s.at = "delete" =>
               v.cluster[s.mem.owner] \in {w.cluster[s.mem.owner], Absent} \/ t.raced,
           s.at \in Removing =>
               (v.cluster[s.mem.owner] = "made" => w.cluster[s.mem.owner] = "made")
    PROVE  Fits(v, t)
<1>1. Creator(t) <=> Creator(s)
    BY DEF Creator
<1>2. Placed(t)
    BY DEF Fits, Placed
<1>3. Remembers(v, t)
    BY <1>1 DEF Fits, Remembers, Truthful
<1>4. Checked(v, t)
    BY DEF Fits, Checked
<1> QED
    BY <1>2, <1>3, <1>4 DEF Fits

LEMMA PlainFits ==
    ASSUME NEW v, NEW s, NEW t, s.mem # Absent, t.mem \in Receipts, t.cmd = s.cmd,
           t.mem.owner = s.mem.owner, t.mem.format = s.mem.format,
           ~t.staged, OnPath(t.cmd, t.at), s.at # "intent",
           t.at \notin Beginning \cup Removing \cup {"idle", "intent", "signal", "delete", "saveReady"},
           Creator(t) <=> Creator(s), t.at \in Begun => s.at \in Begun,
           Truthful(v, t.mem), t.cmd = "down" => t.mem.format = "v3",
           ~Creator(s) => /\ s.mem.containers # Absent
                          /\ t.mem.containers = s.mem.containers /\ ~Partial(t.mem),
           t.at \in {"inspectNew", "saveForward", "stop"} => t.mem.forward # Absent
    PROVE  Fits(v, t) /\ Follows(s, t)
<1>1. t.mem # Absent
    BY LocalAssumption
<1>2. Placed(t) /\ Checked(v, t)
    BY <1>1 DEF Placed, Checked
<1>3. Remembers(v, t)
    BY DEF Remembers
<1>4. Follows(s, t)
    BY DEF Follows
<1> QED
    BY <1>2, <1>3, <1>4 DEF Fits

LEMMA LoudStep ==
    ASSUME LInv, NEW p \in Procs, UNCHANGED <<stateFile, overtaken, origin>>, Typed',
           \A q \in Procs \ {p} : /\ pc'[q] = pc[q] /\ cmd'[q] = cmd[q] /\ mem'[q] = mem[q]
                                  /\ Fits(Machine', Me(q)'),
           Fits(Machine', Me(p)'), Follows(Me(p), Me(p)'),
           \A o \in Owners : cluster'[o] = "made" => Live(o)
    PROVE  LInv'
<1>1. Alone' /\ Agree' /\ Accounted'
    BY PairsKept
<1>2. stateFile' # Absent => Truthful(Machine', stateFile')
    BY Known DEF LInv, Truthful, Machine
<1> QED
    BY <1>1, <1>2 DEF LInv

LEMMA OutsideStep ==
    ASSUME LInv, UNCHANGED <<stateFile, overtaken, origin, pc, cmd, mem>>, Typed',
           \A q \in Procs : Fits(Machine', Me(q)'),
           \A o \in Owners : cluster'[o] = "made" => cluster[o] = "made"
    PROVE  LInv'
<1>1. \A q \in Procs : Creator(Me(q))' <=> Creator(Me(q))
    BY MeIs, MeWas DEF Creator
<1>2. Alone'
    BY <1>1 DEF LInv, Alone
<1>3. Agree'
    BY <1>1 DEF LInv, Agree, Holds
<1>4. Accounted'
    BY DEF LInv, Accounted, Live
<1>5. stateFile' # Absent => Truthful(Machine', stateFile')
    BY DEF LInv, Truthful, Machine
<1> QED
    BY <1>2, <1>3, <1>4, <1>5 DEF LInv

(***************************************************************************)
(* The one create of an owner, by the only command that knows it.          *)
(***************************************************************************)
LEMMA MadeIs ==
    ASSUME LInv, NEW o \in Owners, NEW m, Made(o, m)
    PROVE  /\ FilesTyped' /\ MachineTyped' /\ UNCHANGED <<stateFile, overtaken, origin, table>>
           /\ \A u \in Owners \ {o} : cluster'[u] = cluster[u]
<1>1. FilesTyped'
    BY LTyped DEF Made, FilesTyped
<1>2. MachineTyped' /\ \A u \in Owners \ {o} : cluster'[u] = cluster[u]
    BY LTyped DEF Made, MachineTyped, Instances
<1> QED
    BY <1>1, <1>2 DEF Made

LEMMA CreatesKeep ==
    ASSUME LInv, NEW p \in Procs, RunVerifier(p) \/ KindCreate(p) PROVE LInv'
<1>1. pc[p] = "create" /\ cmd[p] \in {"up", "diagnose"}
    BY DEF RunVerifier, KindCreate, At
<1>2. ~staged[p] /\ mem[p] # Absent /\ mem[p] \in Receipts /\ Truthful(Machine, mem[p])
      /\ mem[p].owner \in Owners
    BY <1>1, StepKnown DEF Beginning, Saves, Receipts
<1>3. PICK m \in {"nothing", "containers", "whole"} :
          /\ Made(mem[p].owner, m)
          /\ \/ MovesTo(p, "capture")
             \/ cmd[p] = "diagnose" /\ MovesTo(p, "observe")
             \/ cmd[p] = "up" /\ Turns(p, "saveIncomplete", [mem[p] EXCEPT !.phase = "INCOMPLETE"])
    BY DEF RunVerifier, KindCreate, Turns
<1>4. /\ FilesTyped' /\ MachineTyped' /\ UNCHANGED <<stateFile, overtaken, origin, table>>
      /\ \A u \in Owners \ {mem[p].owner} : cluster'[u] = cluster[u]
    BY <1>2, <1>3, MadeIs
<1>5. PICK where \in {"capture", "observe", "saveIncomplete"}, r \in Receipts :
          /\ CommandsTyped' /\ Apart(p) /\ Me(p)' = Turned(Me(p), where, r)
          /\ where = "observe" => cmd[p] = "diagnose"
          /\ where = "saveIncomplete" => cmd[p] = "up"
          /\ r.owner = mem[p].owner /\ r.format = mem[p].format
          /\ r = mem[p] \/ r.phase = "INCOMPLETE"
  <2>1. ASSUME NEW where \in {"capture", "observe"}, MovesTo(p, where)
        PROVE  CommandsTyped' /\ Apart(p) /\ Me(p)' = Turned(Me(p), where, mem[p])
    <3>1. where \in Places /\ where # "idle"
        BY DEF Places
    <3>2. CommandsTyped' /\ Apart(p) /\ Me(p)' = Moved(Me(p), where)
        BY <2>1, <3>1, MovesIs
    <3>3. Moved(Me(p), where) = Turned(Me(p), where, mem[p])
        BY DEF Moved, Turned, Me
    <3> QED
        BY <3>2, <3>3
  <2>2. CASE MovesTo(p, "capture")
      BY <1>2, <2>1, <2>2
  <2>3. CASE cmd[p] = "diagnose" /\ MovesTo(p, "observe")
      BY <1>2, <2>1, <2>3
  <2>4. CASE cmd[p] = "up" /\ Turns(p, "saveIncomplete", [mem[p] EXCEPT !.phase = "INCOMPLETE"])
    <3> DEFINE r == [mem[p] EXCEPT !.phase = "INCOMPLETE"]
    <3>1. r \in Receipts /\ r.owner = mem[p].owner /\ r.format = mem[p].format /\ r.phase = "INCOMPLETE"
        BY <1>2, PhaseTurned
    <3>2. "saveIncomplete" \in Places /\ Turns(p, "saveIncomplete", r)
        BY <2>4 DEF Places, Saves
    <3> HIDE DEF r
    <3>3. CommandsTyped' /\ Apart(p) /\ Me(p)' = Turned(Me(p), "saveIncomplete", r)
        BY <3>1, <3>2, TurnsIs
    <3> QED
        BY <2>4, <3>1, <3>3
  <2> QED
      BY <1>3, <2>2, <2>3, <2>4
<1> DEFINE s == Me(p)
           t == Me(p)'
<1>6. t.at = where /\ t.cmd = cmd[p] /\ t.mem = r /\ t.staged = staged[p]
      /\ s.at = "create" /\ s.cmd = cmd[p] /\ s.mem = mem[p]
    BY <1>1, <1>5, TurnedIs, MeIs
<1>7. Typed'
    BY <1>4, <1>5, TypedParts DEF Typed, LocalTypes, FilesTyped, CommandsTyped, MachineTyped
<1>8. Machine'.origin = Machine.origin /\ Machine'.table = Machine.table
      /\ Machine'.cluster = cluster' /\ Machine.cluster = cluster
    BY <1>4 DEF Machine
<1>9. Truthful(Machine', r)
    BY <1>2, <1>5, <1>8 DEF Truthful, Partial
<1> HIDE DEF s, t
<1>10. Creator(s) /\ Creator(t)
    BY <1>1, <1>5, <1>6 DEF Creator
<1>11. OnPath(t.cmd, t.at)
    BY <1>1, <1>5, <1>6 DEF OnPath
<1>12. Fits(Machine', t) /\ Follows(s, t)
    BY <1>1, <1>2, <1>5, <1>6, <1>9, <1>10, <1>11, PlainFits DEF Beginning, Begun, Removing
<1>13. ASSUME NEW q \in Procs \ {p}
       PROVE  /\ pc'[q] = pc[q] /\ cmd'[q] = cmd[q] /\ mem'[q] = mem[q]
              /\ Fits(Machine', Me(q)')
  <2>1. Me(q)' = Me(q) /\ Fits(Machine, Me(q))
      BY <1>5, Known DEF Apart
  <2>2. mem[q] # Absent => mem[q].owner # mem[p].owner /\ mem[q].owner \in Owners
    <3>1. mem[q] # Absent => mem[q].owner # mem[p].owner
        BY <1>2, <1>10 DEF LInv, Alone, s
    <3>2. mem[q] # Absent => mem[q] \in Receipts
        BY LTyped DEF CommandsTyped
    <3> QED
        BY <3>1, <3>2 DEF Receipts
  <2>3. mem[q] # Absent => cluster'[mem[q].owner] = cluster[mem[q].owner]
      BY <1>4, <2>2
  <2>4. mem[q] = Absent => pc[q] \in Beginning \cup {"idle"}
      BY <2>1, MeIs DEF Fits, Placed
  <2>5. Fits(Machine', Me(q)')
      BY <1>8, <2>1, <2>3, <2>4, MeIs, FitsMoves DEF Beginning, Removing
  <2> QED
      BY <2>1, <2>5, MeIs, MeWas
<1>14. \A o \in Owners : cluster'[o] = "made" => Live(o)
    BY <1>1, <1>4 DEF Live, Begun
<1> QED
    BY <1>4, <1>7, <1>12, <1>13, <1>14, LoudStep DEF s, t

(***************************************************************************)
(* The forwards and the deletion.                                          *)
(***************************************************************************)
LEMMA OthersMove ==
    ASSUME LInv, NEW q \in Procs,
           pc'[q] = pc[q], cmd'[q] = cmd[q], mem'[q] = mem[q], staged'[q] = staged[q],
           raced[q] => raced'[q], UNCHANGED origin,
           pc[q] = "signal" =>
               table'[mem[q].forward.pid] \in {table[mem[q].forward.pid], Absent} \/ raced'[q],
           pc[q] = "delete" =>
               cluster'[mem[q].owner] \in {cluster[mem[q].owner], Absent} \/ raced'[q],
           pc[q] \in Removing =>
               (cluster'[mem[q].owner] = "made" => cluster[mem[q].owner] = "made")
    PROVE  Fits(Machine', Me(q)')
<1> DEFINE s == Me(q)
           t == Me(q)'
<1>1. /\ s.at = pc[q] /\ s.cmd = cmd[q] /\ s.mem = mem[q] /\ s.staged = staged[q] /\ s.raced = raced[q]
      /\ t.at = pc'[q] /\ t.cmd = cmd'[q] /\ t.mem = mem'[q] /\ t.staged = staged'[q]
      /\ t.raced = raced'[q]
    BY MeIs, MeWas
<1>2. Fits(Machine, s)
    BY Known
<1>3. /\ Machine.origin = origin /\ Machine.cluster = cluster /\ Machine.table = table
      /\ Machine'.origin = origin' /\ Machine'.cluster = cluster' /\ Machine'.table = table'
    BY DEF Machine
<1> HIDE DEF s, t
<1> QED
    BY <1>1, <1>2, <1>3, FitsMoves DEF t

LEMMA PidTakenIs ==
    ASSUME LInv, NEW i, PidTaken(i), NEW q \in Procs
    PROVE  /\ raced' \in [Procs -> BOOLEAN] /\ raced'[q] \in BOOLEAN
           /\ raced[q] => raced'[q]
           /\ pc[q] = "signal" /\ mem[q].forward.pid = i => raced'[q]
<1>1. raced \in [Procs -> BOOLEAN]
    BY LTyped DEF CommandsTyped
<1> QED
    BY <1>1 DEF PidTaken

LEMMA NameTakenIs ==
    ASSUME LInv, NEW o, NameTaken(o), NEW q \in Procs
    PROVE  /\ raced' \in [Procs -> BOOLEAN] /\ raced'[q] \in BOOLEAN
           /\ raced[q] => raced'[q]
           /\ pc[q] = "delete" /\ mem[q].owner = o => raced'[q]
<1>1. raced \in [Procs -> BOOLEAN]
    BY LTyped DEF CommandsTyped
<1> QED
    BY <1>1 DEF NameTaken

LEMMA ReceiptAddresses ==
    ASSUME LInv, NEW q \in Procs, mem[q] # Absent
    PROVE  /\ mem[q].owner \in Owners
           /\ mem[q].forward # Absent =>
                 mem[q].forward.pid \in Pids /\ mem[q].forward.start \in 1..MaxStarts
BY LTyped DEF CommandsTyped, Receipts, Forwards

LEMMA AtCheckHolds ==
    ASSUME LInv, NEW q \in Procs, pc[q] \in {"signal", "delete"} \cup Removing
    PROVE  mem[q] # Absent /\ (pc[q] = "signal" => mem[q].forward # Absent)
BY Known, MeIs DEF Fits, Remembers, Removing, Beginning

LEMMA TypedFrom ==
    ASSUME FilesTyped', MachineTyped', CommandsTyped' PROVE Typed'
BY DEF Typed, LocalTypes, FilesTyped, CommandsTyped, MachineTyped

LEMMA ForwardTurned ==
    ASSUME NEW k \in Receipts, NEW f \in Forwards
    PROVE  LET r == [k EXCEPT !.forward = f] IN
           /\ r \in Receipts /\ r.owner = k.owner /\ r.format = k.format /\ r.phase = k.phase
           /\ r.containers = k.containers /\ r.api = k.api /\ r.forward = f
BY DEF Receipts

LEMMA StartForwardKeeps ==
    ASSUME LInv, NEW p \in Procs, StartForward(p) PROVE LInv'
<1>1. PICK i \in Pids : /\ table[i] = Absent /\ table' = [table EXCEPT ![i] = starts + 1]
                        /\ Remember(p, [mem[p] EXCEPT !.forward = [pid |-> i, start |-> starts + 1]])
                        /\ PidTaken(i)
    BY DEF StartForward
<1>2. /\ pc[p] = "start" /\ starts < MaxStarts /\ starts' = starts + 1
      /\ UNCHANGED <<files, origin, cluster, cmd, staged, overtaken>>
    BY DEF StartForward, At
<1>3. FilesTyped' /\ UNCHANGED stateFile
    BY <1>2, SameFiles
<1>4. MachineTyped'
  <2>1. starts + 1 \in 0..MaxStarts
      BY <1>2, LTyped, LocalAssumption DEF MachineTyped
  <2> QED
      BY <1>1, <1>2, <2>1, LTyped DEF MachineTyped
<1>5. ~staged[p] /\ OnPath(cmd[p], "start") /\ mem[p] # Absent /\ mem[p] \in Receipts
      /\ Truthful(Machine, mem[p])
    BY <1>2, StepKnown DEF Beginning, Saves
<1>6. cmd[p] \in {"up", "resume", "reconnect"}
    BY <1>5 DEF OnPath, Beginning, Stopping, Removing
<1> DEFINE f == [pid |-> i, start |-> starts + 1]
           k == mem[p]
           r == [k EXCEPT !.forward = f]
           where == IF cmd[p] = "reconnect" THEN "inspectNew" ELSE "saveForward"
<1>7. f \in Forwards
    BY <1>1, <1>2, LTyped, LocalAssumption DEF MachineTyped, Forwards
<1>8. f # Absent /\ f \in Forwards
    BY <1>7, LocalAssumption
<1> HIDE DEF f
<1>9. r \in Receipts /\ r.owner = k.owner /\ r.format = k.format /\ r.phase = k.phase
      /\ r.containers = k.containers /\ r.api = k.api /\ r.forward = f
    BY <1>5, <1>8, ForwardTurned
<1>10. /\ mem' = [mem EXCEPT ![p] = r] /\ pc' = [pc EXCEPT ![p] = where]
       /\ UNCHANGED <<cmd, staged>> /\ raced' \in [Procs -> BOOLEAN]
    BY <1>1, <1>2, PidTakenIs DEF StartForward, Remember, Goto, f
<1>11. where \in {"inspectNew", "saveForward"} /\ where \in Places
    BY DEF Places, Saves
<1>12. OnPath(cmd[p], where)
    BY <1>6 DEF OnPath
<1> HIDE DEF r, where
<1>13. CommandsTyped' /\ pc'[p] = where /\ mem'[p] = r /\ cmd'[p] = cmd[p] /\ staged'[p] = staged[p]
    BY <1>9, <1>10, <1>11, LTyped DEF CommandsTyped
<1> DEFINE s == Me(p)
           t == Me(p)'
<1>14. t.at = where /\ t.cmd = cmd[p] /\ t.mem = r /\ t.staged = staged[p]
       /\ s.at = "start" /\ s.cmd = cmd[p] /\ s.mem = k
    BY <1>2, <1>13, MeIs, MeWas
<1> HIDE DEF s, t
<1>15. ~Creator(s) /\ ~Creator(t)
    BY <1>11, <1>14 DEF Creator
<1>16. k.containers # Absent /\ ~Partial(k) /\ (cmd[p] = "down" => k.format = "v3")
    BY <1>2, <1>5, <1>6, <1>15, HolderKnown DEF s
<1>17. Truthful(Machine', r) /\ ~Partial(r)
  <2>1. Machine'.origin = Machine.origin
      BY <1>2 DEF Machine
  <2> QED
      BY <1>5, <1>9, <1>16, <2>1 DEF Truthful, Partial
<1>18. Fits(Machine', t) /\ Follows(s, t)
    BY <1>5, <1>8, <1>9, <1>11, <1>12, <1>14, <1>15, <1>16, <1>17, PlainFits, <1>6
       DEF Beginning, Begun, Removing
<1>19. ASSUME NEW q \in Procs \ {p}
       PROVE  /\ pc'[q] = pc[q] /\ cmd'[q] = cmd[q] /\ mem'[q] = mem[q]
              /\ Fits(Machine', Me(q)')
  <2>1. pc'[q] = pc[q] /\ cmd'[q] = cmd[q] /\ mem'[q] = mem[q] /\ staged'[q] = staged[q]
      BY <1>10, LTyped DEF CommandsTyped
  <2>2. (raced[q] => raced'[q]) /\ (pc[q] = "signal" /\ mem[q].forward.pid = i => raced'[q])
      BY <1>1, PidTakenIs
  <2>3. pc[q] = "signal" => mem[q].forward.pid \in Pids
      BY AtCheckHolds, ReceiptAddresses
  <2>4. pc[q] = "signal" =>
            table'[mem[q].forward.pid] = table[mem[q].forward.pid] \/ raced'[q]
      BY <1>1, <2>2, <2>3, LTyped DEF MachineTyped
  <2> QED
      BY <1>2, <2>1, <2>2, <2>4, OthersMove
<1>20. \A o \in Owners : cluster'[o] = "made" => Live(o)
    BY <1>2 DEF Live
<1> QED
    BY <1>2, <1>3, <1>4, <1>13, <1>18, <1>19, <1>20, TypedFrom, LoudStep DEF s, t

LEMMA SignalKeeps ==
    ASSUME LInv, NEW p \in Procs, Signal(p) PROVE LInv'
<1>1. pc[p] = "signal" /\ UNCHANGED <<files, origin, cluster, starts, overtaken>>
    BY DEF Signal, At
<1>2. FilesTyped' /\ UNCHANGED stateFile
    BY <1>1, SameFiles
<1>3. CASE StopSettled(p) /\ UNCHANGED table
    BY <1>1, <1>2, <1>3, SettledKeeps DEF Stopping, machine
<1>4. CASE MovesTo(p, "await") /\ table' \in {table, [table EXCEPT ![mem[p].forward.pid] = Absent]}
  <2>1. /\ ~staged[p] /\ OnPath(cmd[p], "signal") /\ mem[p] # Absent /\ mem[p] \in Receipts
        /\ Truthful(Machine, mem[p])
      BY <1>1, StepKnown DEF Beginning, Saves
  <2>2. CommandsTyped' /\ Apart(p) /\ Me(p)' = Moved(Me(p), "await")
      BY <1>4, MovesIs DEF Places, Stopping
  <2>3. MachineTyped' /\ \A j \in Pids : table'[j] \in {table[j], Absent}
      BY <1>1, <1>4, LTyped DEF MachineTyped
  <2> DEFINE s == Me(p)
             t == Me(p)'
  <2>4. t.at = "await" /\ t.cmd = cmd[p] /\ t.mem = mem[p] /\ t.staged = staged[p]
        /\ s.at = "signal" /\ s.cmd = cmd[p] /\ s.mem = mem[p]
      BY <1>1, <2>2, MovedIs, MeIs
  <2>5. Machine'.origin = Machine.origin
      BY <1>1 DEF Machine
  <2> HIDE DEF s, t
  <2>6. ~Creator(s) /\ ~Creator(t)
      BY <2>4 DEF Creator
  <2>7. mem[p].containers # Absent /\ ~Partial(mem[p])
      BY <1>1, <2>1, <2>6, HolderKnown DEF s
  <2>8. cmd[p] = "down" => mem[p].format = "v3"
      BY <2>1, Known, MeIs DEF Fits, Remembers
  <2>9. OnPath(cmd[p], "await")
      BY <2>1 DEF OnPath, Stopping, Beginning, Removing
  <2>10. Truthful(Machine', mem[p])
      BY <2>1, <2>5 DEF Truthful
  <2>11. Fits(Machine', t) /\ Follows(s, t)
      BY <2>1, <2>4, <2>6, <2>7, <2>8, <2>9, <2>10, PlainFits DEF Beginning, Begun, Removing
  <2>12. ASSUME NEW q \in Procs \ {p}
         PROVE  /\ pc'[q] = pc[q] /\ cmd'[q] = cmd[q] /\ mem'[q] = mem[q]
                /\ Fits(Machine', Me(q)')
    <3>1. /\ pc'[q] = pc[q] /\ cmd'[q] = cmd[q] /\ mem'[q] = mem[q] /\ staged'[q] = staged[q]
          /\ raced'[q] = raced[q]
        BY <2>2, MeIs, MeWas DEF Apart
    <3>2. pc[q] = "signal" => mem[q].forward.pid \in Pids
        BY AtCheckHolds, ReceiptAddresses
    <3> QED
        BY <1>1, <2>3, <3>1, <3>2, OthersMove
  <2>13. \A o \in Owners : cluster'[o] = "made" => Live(o)
      BY <1>1 DEF Live
  <2> QED
      BY <1>1, <1>2, <2>2, <2>3, <2>11, <2>12, <2>13, TypedFrom, LoudStep DEF s, t
<1> QED
    BY <1>3, <1>4 DEF Signal

LEMMA DeleteKeeps ==
    ASSUME LInv, NEW p \in Procs, Delete(p) PROVE LInv'
<1>1. pc[p] = "delete" /\ UNCHANGED <<files, origin, table, starts, overtaken>>
    BY DEF Delete, At
<1>2. FilesTyped' /\ UNCHANGED stateFile
    BY <1>1, SameFiles
<1>3. /\ ~staged[p] /\ OnPath(cmd[p], "delete") /\ mem[p] # Absent /\ mem[p] \in Receipts
      /\ Truthful(Machine, mem[p])
    BY <1>1, StepKnown DEF Beginning, Saves
<1>4. MachineTyped' /\ \A o \in Owners : cluster'[o] \in {cluster[o], Absent}
    BY <1>1, LTyped DEF Delete, MachineTyped
<1>5. CommandsTyped' /\ Apart(p) /\ Fits(Machine', Me(p)') /\ Follows(Me(p), Me(p)')
  <2>1. CASE Ends(p)
      BY <2>1, EndsIs, MeWas, IdleFits
  <2>2. CASE MovesTo(p, "verifyGone")
    <3>1. CommandsTyped' /\ Apart(p) /\ Me(p)' = Moved(Me(p), "verifyGone")
        BY <2>2, MovesIs DEF Places
    <3> DEFINE s == Me(p)
               t == Me(p)'
    <3>2. t.at = "verifyGone" /\ t.cmd = cmd[p] /\ t.mem = mem[p] /\ t.staged = staged[p]
          /\ s.at = "delete" /\ s.cmd = cmd[p] /\ s.mem = mem[p]
        BY <1>1, <3>1, MovedIs, MeIs
    <3>3. Machine'.origin = Machine.origin
        BY <1>1 DEF Machine
    <3> HIDE DEF s, t
    <3>4. ~Creator(s) /\ ~Creator(t)
        BY <3>2 DEF Creator
    <3>5. mem[p].containers # Absent /\ ~Partial(mem[p])
        BY <1>1, <1>3, <3>4, HolderKnown DEF s
    <3>6. cmd[p] = "down" => mem[p].format = "v3"
        BY <1>3, Known, MeIs DEF Fits, Remembers
    <3>7. OnPath(cmd[p], "verifyGone")
        BY <1>3 DEF OnPath, Stopping, Beginning, Removing
    <3>8. Truthful(Machine', mem[p])
        BY <1>3, <3>3 DEF Truthful
    <3>9. Fits(Machine', t) /\ Follows(s, t)
        BY <1>3, <3>2, <3>4, <3>5, <3>6, <3>7, <3>8, PlainFits DEF Beginning, Begun, Removing
    <3> QED
        BY <3>1, <3>9 DEF s, t
  <2> QED
      BY <2>1, <2>2 DEF Delete
<1>6. ASSUME NEW q \in Procs \ {p}
      PROVE  /\ pc'[q] = pc[q] /\ cmd'[q] = cmd[q] /\ mem'[q] = mem[q]
             /\ Fits(Machine', Me(q)')
  <2>1. /\ pc'[q] = pc[q] /\ cmd'[q] = cmd[q] /\ mem'[q] = mem[q] /\ staged'[q] = staged[q]
        /\ raced'[q] = raced[q]
      BY <1>5, MeIs, MeWas DEF Apart
  <2>2. pc[q] \in {"delete"} \cup Removing => mem[q].owner \in Owners
      BY AtCheckHolds, ReceiptAddresses
  <2>3. pc[q] = "delete" => cluster'[mem[q].owner] \in {cluster[mem[q].owner], Absent}
      BY <1>4, <2>2
  <2>4. pc[q] \in Removing =>
            (cluster'[mem[q].owner] = "made" => cluster[mem[q].owner] = "made")
      BY <1>4, <2>2, LocalAssumption DEF Instances
  <2> QED
      BY <1>1, <2>1, <2>3, <2>4, OthersMove
<1>7. \A o \in Owners : cluster'[o] = "made" => Live(o)
    BY <1>4, LocalAssumption DEF Live, Instances
<1> QED
    BY <1>1, <1>2, <1>4, <1>5, <1>6, <1>7, TypedFrom, LoudStep

(***************************************************************************)
(* The machine outside the commands.                                       *)
(***************************************************************************)
LEMMA OutsideKeeps ==
    ASSUME LInv,
           \/ \E i \in Pids : ForwardExits(i) \/ PidReused(i)
           \/ \E o \in Owners : OutsiderDeletes(o) \/ OutsiderRecreates(o)
    PROVE  LInv'
<1>1. UNCHANGED <<files, origin, starts, overtaken, pc, cmd, mem, staged>>
    BY DEF ForwardExits, PidReused, OutsiderDeletes, OutsiderRecreates, commands, history
<1>2. FilesTyped' /\ UNCHANGED stateFile
    BY <1>1, SameFiles
<1>3. ASSUME raced' \in [Procs -> BOOLEAN], MachineTyped',
             \A u \in Procs : raced[u] => raced'[u],
             \A j \in Pids :
                 \/ table'[j] \in {table[j], Absent}
                 \/ \A u \in Procs : pc[u] = "signal" /\ mem[u].forward.pid = j => raced'[u],
             \A o \in Owners :
                 \/ cluster'[o] \in {cluster[o], Absent}
                 \/ /\ cluster'[o] # "made"
                    /\ \A u \in Procs : pc[u] = "delete" /\ mem[u].owner = o => raced'[u]
      PROVE  LInv'
  <2>1. ASSUME NEW u \in Procs PROVE Fits(Machine', Me(u)')
    <3>1. pc[u] \in {"delete"} \cup Removing => mem[u].owner \in Owners
        BY AtCheckHolds, ReceiptAddresses
    <3>2. pc[u] = "signal" => mem[u].forward.pid \in Pids
        BY AtCheckHolds, ReceiptAddresses
    <3>3. pc[u] = "delete" => cluster'[mem[u].owner] \in {cluster[mem[u].owner], Absent} \/ raced'[u]
        BY <1>3, <3>1
    <3>4. pc[u] \in Removing =>
              (cluster'[mem[u].owner] = "made" => cluster[mem[u].owner] = "made")
        BY <1>3, <3>1, LocalAssumption DEF Instances
    <3>5. pc[u] = "signal" =>
              table'[mem[u].forward.pid] \in {table[mem[u].forward.pid], Absent} \/ raced'[u]
        BY <1>3, <3>2
    <3> QED
        BY <1>1, <1>3, <3>3, <3>4, <3>5, OthersMove
  <2>2. CommandsTyped'
      BY <1>1, <1>3, LTyped DEF CommandsTyped
  <2>3. \A o \in Owners : cluster'[o] = "made" => cluster[o] = "made"
      BY <1>3, LocalAssumption DEF Instances
  <2> QED
      BY <1>1, <1>2, <1>3, <2>1, <2>2, <2>3, TypedFrom, OutsideStep
<1>4. MachineTyped /\ raced \in [Procs -> BOOLEAN]
    BY LTyped DEF CommandsTyped
<1>5. ASSUME NEW i \in Pids, ForwardExits(i) PROVE LInv'
  <2>1. table' = [table EXCEPT ![i] = Absent] /\ UNCHANGED <<origin, cluster, starts, raced>>
      BY <1>5 DEF ForwardExits, history
  <2> QED
      BY <1>3, <1>4, <2>1 DEF MachineTyped
<1>6. ASSUME NEW i \in Pids, PidReused(i) PROVE LInv'
  <2>1. table' = [table EXCEPT ![i] = 0] /\ UNCHANGED <<origin, cluster, starts>> /\ PidTaken(i)
      BY <1>6 DEF PidReused
  <2>2. MachineTyped' /\ \A j \in Pids \ {i} : table'[j] = table[j]
      BY <1>4, <2>1, LocalAssumption DEF MachineTyped
  <2>3. raced' \in [Procs -> BOOLEAN]
      BY <2>1 DEF PidTaken
  <2> QED
      BY <1>3, <1>4, <2>1, <2>2, <2>3, PidTakenIs
<1>7. ASSUME NEW o \in Owners, OutsiderDeletes(o) PROVE LInv'
  <2>1. cluster' = [cluster EXCEPT ![o] = Absent] /\ UNCHANGED <<origin, table, starts, raced>>
      BY <1>7 DEF OutsiderDeletes, history
  <2> QED
      BY <1>3, <1>4, <2>1 DEF MachineTyped
<1>8. ASSUME NEW o \in Owners, OutsiderRecreates(o) PROVE LInv'
  <2>1. cluster' = [cluster EXCEPT ![o] = "swapped"] /\ UNCHANGED <<origin, table, starts>>
        /\ NameTaken(o)
      BY <1>8 DEF OutsiderRecreates
  <2>2. MachineTyped' /\ cluster'[o] # "made" /\ \A u \in Owners \ {o} : cluster'[u] = cluster[u]
      BY <1>4, <2>1 DEF MachineTyped, Instances
  <2>3. raced' \in [Procs -> BOOLEAN]
      BY <2>1 DEF NameTaken
  <2> QED
      BY <1>3, <1>4, <2>1, <2>2, <2>3, NameTakenIs
<1> QED
    BY <1>5, <1>6, <1>7, <1>8

(***************************************************************************)
(* A new owner: no receipt knows it yet.                                   *)
(***************************************************************************)
LEMMA IntentTyped ==
    ASSUME NEW c \in {"up", "diagnose"}, NEW o \in Owners
    PROVE  LET r == Intent(c, o) IN
           /\ r \in Receipts /\ r.owner = o /\ r.phase = "CREATING" /\ r.containers = Absent
           /\ r.format = (IF c = "diagnose" THEN "bootstrap" ELSE "v3")
BY DEF Intent, Receipts

LEMMA WriteConfigKeeps ==
    ASSUME LInv, NEW p \in Procs, WriteConfig(p) PROVE LInv'
<1>1. PICK o \in Owners :
          /\ origin[o] = "UNUSED" /\ config' = o
          /\ origin' = [origin EXCEPT ![o] = IF cmd[p] = "up" THEN "UP" ELSE "DIAGNOSE"]
          /\ Remember(p, Intent(cmd[p], o))
    BY DEF WriteConfig
<1>2. /\ pc[p] = "config" /\ Goto(p, "intent")
      /\ UNCHANGED <<dir, stateFile, temps, diag, kubeconfig, cluster, table, starts,
                     cmd, staged, raced, overtaken>>
    BY DEF WriteConfig, At, history
<1>3. OnPath(cmd[p], "config") /\ ~staged[p]
    BY <1>2, Known DEF Saves
<1>4. cmd[p] \in {"up", "diagnose"}
    BY <1>3 DEF OnPath, Beginning, Stopping, Removing
<1>5. mem[p] = Absent
    BY <1>2, Known, MeIs DEF Fits, Placed, Beginning
<1> DEFINE r == Intent(cmd[p], o)
<1>6. /\ r \in Receipts /\ r.owner = o /\ r.phase = "CREATING" /\ r.containers = Absent
      /\ r.format = (IF cmd[p] = "diagnose" THEN "bootstrap" ELSE "v3")
    BY <1>4, IntentTyped
<1>7. mem' = [mem EXCEPT ![p] = r] /\ pc' = [pc EXCEPT ![p] = "intent"]
    BY <1>1, <1>2 DEF Remember, Goto
<1> HIDE DEF r
<1>8. FilesTyped'
    BY <1>1, <1>2, LTyped DEF FilesTyped
<1>9. MachineTyped' /\ origin'[o] = (IF cmd[p] = "up" THEN "UP" ELSE "DIAGNOSE")
      /\ \A u \in Owners \ {o} : origin'[u] = origin[u]
    BY <1>1, <1>2, LTyped DEF MachineTyped
<1>10. CommandsTyped' /\ Apart(p) /\ pc'[p] = "intent" /\ mem'[p] = r /\ cmd'[p] = cmd[p]
       /\ staged'[p] = staged[p]
    BY <1>2, <1>6, <1>7, LTyped DEF CommandsTyped, Places, Apart, Me
<1>11. Typed'
    BY <1>8, <1>9, <1>10, TypedFrom
<1>12. /\ Machine.origin = origin /\ Machine'.origin = origin'
       /\ Machine'.table = Machine.table /\ Machine'.cluster = Machine.cluster
    BY <1>2 DEF Machine
<1>13. ASSUME NEW k, Truthful(Machine, k) PROVE Truthful(Machine', k) /\ k.owner # o
  <2>1. k \in Receipts /\ k.owner \in Owners
      BY <1>13 DEF Truthful, Receipts
  <2>2. k.owner # o
      BY <1>1, <1>12, <1>13 DEF Truthful
  <2> QED
      BY <1>9, <1>12, <1>13, <2>1, <2>2 DEF Truthful
<1>14. Truthful(Machine', r)
    BY <1>4, <1>6, <1>9, <1>12 DEF Truthful, Partial
<1> DEFINE t == Me(p)'
<1>15. t.at = "intent" /\ t.cmd = cmd[p] /\ t.mem = r /\ t.staged = staged[p]
    BY <1>10, MeWas
<1> HIDE DEF t
<1>16. Creator(t)
    BY <1>4, <1>15 DEF Creator
<1>17. r # Absent
    BY <1>6, LocalAssumption
<1>18. OnPath(cmd[p], "intent")
    BY <1>4 DEF OnPath
<1>19. Fits(Machine', t)
    BY <1>3, <1>4, <1>6, <1>14, <1>15, <1>16, <1>17, <1>18
       DEF Fits, Placed, Remembers, Checked, Beginning, Removing
<1>20. ASSUME NEW q \in Procs \ {p}
       PROVE  /\ Fits(Machine', Me(q)') /\ pc'[q] = pc[q] /\ mem'[q] = mem[q]
              /\ (Creator(Me(q))' <=> Creator(Me(q)))
              /\ mem[q] # Absent => mem[q].owner # o
  <2>1. Me(q)' = Me(q) /\ Fits(Machine, Me(q))
      BY <1>10, Known DEF Apart
  <2>2. mem[q] # Absent => Truthful(Machine, mem[q])
      BY <2>1, MeIs DEF Fits, Remembers
  <2>3. mem[q] # Absent => Truthful(Machine', mem[q]) /\ mem[q].owner # o
      BY <1>13, <2>2
  <2>4. Fits(Machine', Me(q))
      BY <1>12, <2>1, <2>3, MeIs DEF Fits, Remembers, Checked
  <2> QED
      BY <2>1, <2>3, <2>4, MeIs, MeWas DEF Creator
<1>21. stateFile # Absent => Truthful(Machine', stateFile) /\ stateFile.owner # o
    BY <1>13, Known
<1>22. Alone'
    BY <1>2, <1>6, <1>10, <1>20, <1>21 DEF LInv, Alone
<1>23. Agree'
    BY <1>2, <1>10, <1>16, <1>20 DEF LInv, Agree, Holds, t
<1>24. Accounted'
  <2>1. ASSUME NEW u \in Owners, Live(u)' PROVE Live(u)
      BY <1>2, <1>10, <1>20, <2>1 DEF Live, Begun
  <2> QED
      BY <1>2, <1>10, <1>20, <2>1 DEF LInv, Accounted
<1> QED
    BY <1>2, <1>11, <1>19, <1>20, <1>21, <1>22, <1>23, <1>24 DEF LInv, t

(***************************************************************************)
(* The receipt is put on disk: exclusively, before anything is created.    *)
(***************************************************************************)
LEMMA GoesOnOrEnds ==
    ASSUME LInv, NEW p \in Procs, UNCHANGED machine,
           mem[p] # Absent, CommandsTyped', Apart(p),
           \/ pc'[p] = "idle" /\ mem'[p] = Absent /\ ~staged'[p]
           \/ /\ mem'[p] = mem[p] /\ cmd'[p] = cmd[p] /\ ~staged'[p]
              /\ OnPath(cmd[p], pc'[p])
              /\ pc'[p] \notin Beginning \cup Removing \cup
                      {"idle", "intent", "signal", "delete", "saveReady"}
              /\ ~Creator(Me(p)') => mem[p].containers # Absent /\ ~Partial(mem[p])
              /\ pc'[p] \in {"inspectNew", "saveForward", "stop"} => mem[p].forward # Absent
    PROVE  /\ MachineTyped' /\ Machine' = Machine /\ cluster' = cluster
           /\ \A q \in Procs : Fits(Machine', Me(q)')
<1>1. MachineTyped' /\ Machine' = Machine /\ cluster' = cluster
    BY LTyped DEF MachineTyped, Machine, machine
<1>2. Fits(Machine, Me(p)')
  <2> DEFINE s == Me(p)
             t == Me(p)'
  <2>1. /\ t.at = pc'[p] /\ t.cmd = cmd'[p] /\ t.mem = mem'[p] /\ t.staged = staged'[p]
        /\ s.mem = mem[p] /\ s.cmd = cmd[p]
      BY MeIs, MeWas
  <2>2. Fits(Machine, s)
      BY Known
  <2> HIDE DEF s, t
  <2>3. CASE pc'[p] = "idle" /\ mem'[p] = Absent /\ ~staged'[p]
      BY <2>1, <2>3, IdleFits DEF t
  <2>4. CASE mem'[p] = mem[p] /\ cmd'[p] = cmd[p] /\ ~staged'[p] /\ OnPath(cmd[p], pc'[p])
             /\ pc'[p] \notin Beginning \cup Removing \cup
                     {"idle", "intent", "signal", "delete", "saveReady"}
             /\ (~Creator(t) => mem[p].containers # Absent /\ ~Partial(mem[p]))
             /\ (pc'[p] \in {"inspectNew", "saveForward", "stop"} => mem[p].forward # Absent)
    <3>1. Truthful(Machine, mem[p]) /\ (cmd[p] = "down" => mem[p].format = "v3")
        BY <2>1, <2>2 DEF Fits, Remembers
    <3>2. Placed(t) /\ Checked(Machine, t)
        BY <2>1, <2>4 DEF Placed, Checked
    <3>3. Remembers(Machine, t)
        BY <2>1, <2>4, <3>1 DEF Remembers
    <3> QED
        BY <3>2, <3>3 DEF Fits, t
  <2> QED
      BY <2>3, <2>4 DEF t
<1>3. \A q \in Procs \ {p} : Fits(Machine, Me(q)')
    BY Known DEF Apart
<1> QED
    BY <1>1, <1>2, <1>3

LEMMA WriteIntentKeeps ==
    ASSUME LInv, NEW p \in Procs, WriteIntent(p) PROVE LInv'
<1>1. /\ pc[p] = "intent" /\ stateFile = Absent /\ stateFile' = mem[p]
      /\ UNCHANGED <<dir, temps, diag, config, kubeconfig, machine>>
    BY DEF WriteIntent, At
<1>2. /\ ~staged[p] /\ OnPath(cmd[p], "intent") /\ mem[p] # Absent /\ mem[p] \in Receipts
      /\ Truthful(Machine, mem[p]) /\ mem[p].owner \in Owners
    BY <1>1, Known DEF Beginning, Saves, Receipts
<1>3. cmd[p] \in {"up", "diagnose"}
    BY <1>2 DEF OnPath, Beginning, Stopping, Removing
<1>4. mem[p].phase = "CREATING"
    BY <1>1, <1>2, Known, MeIs DEF Fits, Remembers
<1>5. Creator(Me(p))
    BY <1>1, <1>3, CreatorMoved
<1> DEFINE where == IF cmd[p] = "up" THEN "create" ELSE "prepare"
<1>6. where \in {"create", "prepare"} /\ where \in Places /\ OnPath(cmd[p], where)
    BY <1>3 DEF Places, Begun, OnPath
<1>7. MovesTo(p, where) \/ Ends(p)
    BY DEF WriteIntent
<1> HIDE DEF where
<1>8. /\ CommandsTyped' /\ Apart(p)
      /\ \/ pc'[p] = "idle" /\ mem'[p] = Absent /\ ~staged'[p]
         \/ mem'[p] = mem[p] /\ cmd'[p] = cmd[p] /\ ~staged'[p] /\ pc'[p] = where
  <2>1. CASE Ends(p)
      BY <2>1, EndsIs
  <2>2. CASE MovesTo(p, where)
      BY <1>2, <1>6, <2>2, MovesIs, MovedIs, MeIs, MeWas
  <2> QED
      BY <1>7, <2>1, <2>2
<1>9. pc'[p] = where => Creator(Me(p)') \/ mem'[p] = Absent
    BY <1>3, <1>6, <1>8, MeWas DEF Creator
<1>10. /\ MachineTyped' /\ Machine' = Machine /\ cluster' = cluster
       /\ \A q \in Procs : Fits(Machine', Me(q)')
    BY <1>1, <1>2, <1>3, <1>6, <1>8, <1>9, GoesOnOrEnds, MeWas DEF Beginning, Removing, Creator
<1>11. overtaken' = IF \E q \in Procs \ {p} : mem[q] # Absent
                    THEN overtaken \cup {mem[p].owner} ELSE overtaken
    BY DEF WriteIntent
<1>12. FilesTyped'
    BY <1>1, <1>2, <1>11, LTyped DEF FilesTyped
<1>13. ASSUME NEW q \in Procs \ {p}
       PROVE  /\ pc'[q] = pc[q] /\ mem'[q] = mem[q] /\ (Creator(Me(q))' <=> Creator(Me(q)))
              /\ mem[q] # Absent => mem[q].owner # mem[p].owner
    BY <1>2, <1>5, <1>8, MeIs, MeWas DEF Apart, Creator, LInv, Alone
<1>14. mem'[p] # Absent => mem'[p] = mem[p] /\ pc'[p] \in Begun /\ Creator(Me(p))'
    BY <1>3, <1>6, <1>8, MeWas DEF Begun, Creator
<1>15. Alone'
    BY <1>1, <1>4, <1>13, <1>14 DEF LInv, Alone, Begun
<1>16. Agree'
    BY <1>1, <1>13, <1>14 DEF LInv, Agree, Holds
<1>17. Accounted'
  <2>1. SUFFICES ASSUME NEW o \in Owners \ overtaken', Live(o)'
                 PROVE  /\ stateFile' # Absent /\ stateFile'.owner = o
                        /\ \A q \in Procs : mem'[q] # Absent /\ pc'[q] # "intent" => mem'[q].owner = o
      BY DEF Accounted
  <2>2. o \notin overtaken
      BY <1>11
  <2>3. CASE o # mem[p].owner
    <3>1. Live(o)
      <4>1. CASE cluster'[o] = "made"
          BY <1>10, <4>1 DEF Live
      <4>2. ASSUME NEW q \in Procs, pc'[q] \in Begun, mem'[q].owner = o PROVE Live(o)
        <5>1. CASE q = p
            BY <1>8, <2>3, <4>2, <5>1 DEF Begun
        <5>2. CASE q # p
            BY <1>13, <4>2, <5>2 DEF Live
        <5> QED
            BY <5>1, <5>2
      <4> QED
          BY <2>1, <4>1, <4>2 DEF Live
    <3> QED
        BY <1>1, <2>2, <3>1 DEF LInv, Accounted
  <2>4. CASE o = mem[p].owner
    <3>1. \A q \in Procs \ {p} : mem[q] = Absent
        BY <1>11, <2>4
    <3> QED
        BY <1>1, <1>2, <1>13, <1>14, <2>4, <3>1
  <2> QED
      BY <2>3, <2>4
<1>18. Typed' /\ Truthful(Machine', stateFile')
    BY <1>1, <1>2, <1>8, <1>10, <1>12, TypedFrom
<1> QED
    BY <1>10, <1>15, <1>16, <1>17, <1>18 DEF LInv

(***************************************************************************)
(* The receipt is replaced, or removed, by path.                           *)
(***************************************************************************)
LEMMA CommitSaveIs ==
    ASSUME LInv, NEW p \in Procs, CommitSave(p)
    PROVE  /\ pc[p] \in Saves /\ mem[p] # Absent /\ mem[p] \in Receipts /\ Truthful(Machine, mem[p])
           /\ stateFile' \in {stateFile, mem[p]} /\ UNCHANGED <<machine, overtaken>>
           /\ FilesTyped' /\ CommandsTyped' /\ Apart(p)
           /\ \/ pc'[p] = "idle" /\ mem'[p] = Absent /\ ~staged'[p]
              \/ /\ mem'[p] = mem[p] /\ cmd'[p] = cmd[p] /\ ~staged'[p] /\ OnPath(cmd[p], pc'[p])
                 /\ pc'[p] \in {"recheck", "verify", "start", "health", "stop"}
                 /\ mem[p].containers # Absent /\ ~Partial(mem[p])
                 /\ Creator(Me(p)) => stateFile' = mem[p]
                 /\ pc'[p] = "stop" => mem[p].forward # Absent
<1>1. PICK renamed \in BOOLEAN, ok \in BOOLEAN :
          /\ ok => renamed
          /\ stateFile' = IF renamed THEN mem[p] ELSE stateFile
          /\ LET where == IF ok THEN Saved(cmd[p], pc[p]) ELSE NotSaved(cmd[p], pc[p])
             IN  IF where = "idle" THEN Ends(p)
                 ELSE /\ Goto(p, where)
                      /\ staged' = [staged EXCEPT ![p] = FALSE]
                      /\ UNCHANGED <<cmd, mem, raced>>
    BY DEF CommitSave
<1>2. /\ staged[p] /\ temps' = temps \ {mem[p].owner}
      /\ UNCHANGED <<dir, diag, config, kubeconfig, machine, overtaken>>
    BY DEF CommitSave
<1>3. pc[p] \in Saves /\ OnPath(cmd[p], pc[p])
    BY <1>2, Known DEF Saves
<1>4. mem[p] # Absent /\ mem[p] \in Receipts /\ Truthful(Machine, mem[p])
    BY <1>3, Known DEF Saves, Beginning
<1>5. stateFile' \in {stateFile, mem[p]}
    BY <1>1
<1>6. FilesTyped'
    BY <1>2, <1>4, <1>5, LTyped DEF FilesTyped
<1> DEFINE where == IF ok THEN Saved(cmd[p], pc[p]) ELSE NotSaved(cmd[p], pc[p])
<1>7. CASE where = "idle"
    BY <1>1, <1>2, <1>3, <1>4, <1>5, <1>6, <1>7, EndsIs
<1>8. CASE where # "idle"
  <2>1. /\ pc' = [pc EXCEPT ![p] = where] /\ staged' = [staged EXCEPT ![p] = FALSE]
        /\ UNCHANGED <<cmd, mem, raced>>
      BY <1>1, <1>8 DEF Goto
  <2>2. \/ where = "recheck" /\ pc[p] = "saveDrop" /\ cmd[p] = "down"
        \/ where = "verify" /\ pc[p] = "saveDrop" /\ cmd[p] = "reconnect"
        \/ where = "start" /\ pc[p] = "saveReady" /\ cmd[p] # "diagnose" /\ ok
        \/ where = "health" /\ pc[p] = "saveForward"
        \/ where = "stop" /\ pc[p] = "saveForward" /\ cmd[p] \in {"resume", "reconnect"}
    <3>1. CASE ok
        BY <1>8, <3>1 DEF Saved
    <3>2. CASE ~ok
        BY <1>8, <3>2 DEF NotSaved
    <3> QED
        BY <3>1, <3>2
  <2> HIDE DEF where
  <2>3. OnPath(cmd[p], where) /\ where \in {"recheck", "verify", "start", "health", "stop"}
      BY <1>3, <2>2 DEF OnPath, Beginning, Stopping, Removing
  <2>4. where \in Places
      BY <2>3 DEF Places, Stopping
  <2>5. CommandsTyped' /\ Apart(p) /\ pc'[p] = where /\ mem'[p] = mem[p] /\ cmd'[p] = cmd[p]
        /\ staged'[p] = FALSE
      BY <2>1, <2>4, LTyped DEF CommandsTyped, Apart, Me
  <2>6. Creator(Me(p)) => where = "start" /\ ok /\ pc[p] = "saveReady"
      BY <2>2, CreatorMoved
  <2>7. mem[p].containers # Absent /\ ~Partial(mem[p])
    <3>1. CASE Creator(Me(p))
        BY <1>4, <2>6, <3>1, Known, MeIs, LocalAssumption DEF Fits, Remembers, Truthful, Instances
    <3>2. CASE ~Creator(Me(p))
        BY <1>3, <1>4, <3>2, HolderKnown DEF Saves
    <3> QED
        BY <3>1, <3>2
  <2>8. where = "stop" => mem[p].forward # Absent
      BY <1>4, <2>2, Known, MeIs DEF Fits, Remembers
  <2> QED
      BY <1>1, <1>2, <1>3, <1>4, <1>5, <1>6, <2>3, <2>5, <2>6, <2>7, <2>8
<1> QED
    BY <1>7, <1>8

LEMMA CommitSaveKeeps ==
    ASSUME LInv, NEW p \in Procs, CommitSave(p) PROVE LInv'
<1>1. /\ pc[p] \in Saves /\ mem[p] # Absent /\ Truthful(Machine, mem[p])
      /\ stateFile' \in {stateFile, mem[p]} /\ UNCHANGED <<machine, overtaken>>
      /\ FilesTyped' /\ CommandsTyped' /\ Apart(p)
    BY CommitSaveIs
<1>2. \/ pc'[p] = "idle" /\ mem'[p] = Absent /\ ~staged'[p]
      \/ /\ mem'[p] = mem[p] /\ cmd'[p] = cmd[p] /\ ~staged'[p] /\ OnPath(cmd[p], pc'[p])
         /\ pc'[p] \in {"recheck", "verify", "start", "health", "stop"}
         /\ mem[p].containers # Absent /\ ~Partial(mem[p])
         /\ Creator(Me(p)) => stateFile' = mem[p]
         /\ pc'[p] = "stop" => mem[p].forward # Absent
    BY CommitSaveIs
<1>3. /\ MachineTyped' /\ Machine' = Machine /\ cluster' = cluster
      /\ \A q \in Procs : Fits(Machine', Me(q)')
    BY <1>1, <1>2, GoesOnOrEnds DEF Beginning, Removing
<1>4. ASSUME NEW q \in Procs \ {p}
      PROVE  /\ pc'[q] = pc[q] /\ mem'[q] = mem[q] /\ (Creator(Me(q))' <=> Creator(Me(q)))
             /\ (mem[q] # Absent /\ Creator(Me(p)) => mem[q].owner # mem[p].owner)
             /\ (mem[q] # Absent /\ Creator(Me(q)) => mem[q].owner # mem[p].owner)
    BY <1>1, MeIs, MeWas DEF Apart, Creator, LInv, Alone
<1>5. mem'[p] # Absent => /\ mem'[p] = mem[p] /\ ~Creator(Me(p))' /\ pc'[p] \notin Begun \cup {"intent"}
                          /\ (Creator(Me(p)) => stateFile' = mem[p])
    BY <1>2, MeWas DEF Begun, Creator
<1>6. pc'[p] \notin Begun \cup {"intent"} /\ pc[p] # "intent"
    BY <1>1, <1>2 DEF Begun, Saves
<1>7. Alone'
    BY <1>1, <1>4, <1>5, <1>6 DEF LInv, Alone
<1>8. Agree'
  <2>1. ASSUME NEW q \in Procs, NEW u \in Procs, Holds(q)', Holds(u)', mem'[q].owner = mem'[u].owner
        PROVE  mem'[q].containers = mem'[u].containers
    <3>1. (Holds(q) /\ Holds(u)) \/ mem'[q] = mem'[u]
        BY <1>4, <1>5, <2>1 DEF Holds
    <3>2. mem'[q] = mem[q] /\ mem'[u] = mem[u]
        BY <1>4, <1>5, <2>1 DEF Holds
    <3> QED
        BY <2>1, <3>1, <3>2 DEF LInv, Agree
  <2>2. ASSUME NEW q \in Procs, Holds(q)', stateFile' # Absent, stateFile'.owner = mem'[q].owner
        PROVE  mem'[q].containers = stateFile'.containers
    <3>1. mem'[q] = mem[q]
        BY <1>4, <1>5, <2>2 DEF Holds
    <3>2. CASE stateFile' = mem[p]
        BY <1>1, <1>4, <1>5, <2>2, <3>1, <3>2 DEF LInv, Agree, Holds
    <3>3. CASE stateFile' = stateFile /\ stateFile' # mem[p]
        BY <1>4, <1>5, <2>2, <3>1, <3>3 DEF LInv, Agree, Holds
    <3> QED
        BY <1>1, <3>2, <3>3
  <2> QED
      BY <2>1, <2>2 DEF Agree
<1>9. Accounted'
  <2>1. ASSUME NEW o \in Owners, Live(o)' PROVE Live(o)
      BY <1>3, <1>4, <1>6, <2>1 DEF Live
  <2> QED
      BY <1>1, <1>4, <1>5, <1>6, <2>1 DEF LInv, Accounted
<1>10. Typed' /\ (stateFile' # Absent => Truthful(Machine', stateFile'))
    BY <1>1, <1>3, TypedFrom DEF LInv
<1> QED
    BY <1>3, <1>7, <1>8, <1>9, <1>10 DEF LInv

LEMMA RemoveStateKeeps ==
    ASSUME LInv, NEW p \in Procs, RemoveState(p) PROVE LInv'
<1>1. /\ pc[p] = "removeState" /\ stateFile' = Absent /\ MovesTo(p, "removeKubeconfig")
      /\ UNCHANGED <<dir, temps, diag, config, kubeconfig, machine, overtaken>>
    BY DEF RemoveState, At
<1>2. /\ ~staged[p] /\ OnPath(cmd[p], "removeState") /\ mem[p] # Absent /\ Truthful(Machine, mem[p])
    BY <1>1, StepKnown DEF Beginning, Saves
<1>3. CommandsTyped' /\ Apart(p) /\ Me(p)' = Moved(Me(p), "removeKubeconfig")
    BY <1>1, MovesIs DEF Places, Removing
<1>4. FilesTyped' /\ MachineTyped' /\ Machine' = Machine /\ cluster' = cluster
    BY <1>1, LTyped DEF FilesTyped, MachineTyped, Machine, machine
<1> DEFINE s == Me(p)
           t == Me(p)'
<1>5. /\ t.at = "removeKubeconfig" /\ t.cmd = cmd[p] /\ t.mem = mem[p] /\ t.staged = staged[p]
      /\ s.at = "removeState" /\ s.cmd = cmd[p] /\ s.mem = mem[p]
    BY <1>1, <1>3, MovedIs, MeIs
<1>6. Fits(Machine, s)
    BY Known
<1> HIDE DEF s, t
<1>7. ~Creator(s) /\ ~Creator(t)
    BY <1>5 DEF Creator
<1>8. OnPath(cmd[p], "removeKubeconfig")
    BY <1>2 DEF OnPath, Removing, Stopping, Beginning
<1>9. Fits(Machine, t)
    BY <1>2, <1>5, <1>6, <1>7, <1>8 DEF Fits, Placed, Remembers, Checked, Beginning, Removing
<1>10. cluster[mem[p].owner] # "made"
    BY <1>5, <1>6 DEF Fits, Checked, Removing, Machine
<1>11. ASSUME NEW q \in Procs \ {p}
       PROVE  /\ Me(q)' = Me(q) /\ pc'[q] = pc[q] /\ mem'[q] = mem[q]
              /\ (Creator(Me(q))' <=> Creator(Me(q)))
    BY <1>3, MeIs, MeWas DEF Apart
<1>12. pc'[p] = "removeKubeconfig" /\ mem'[p] = mem[p]
    BY <1>5, MeWas DEF t
<1>13. Alone'
    BY <1>1, <1>7, <1>11, <1>12 DEF LInv, Alone, t
<1>14. Agree'
    BY <1>1, <1>7, <1>11, <1>12 DEF LInv, Agree, Holds, s, t
<1>15. ASSUME NEW o \in Owners \ overtaken, Live(o)' PROVE FALSE
  <2>1. Live(o)
      BY <1>4, <1>11, <1>12, <1>15 DEF Live, Begun
  <2>2. mem[p].owner = o
      BY <1>1, <1>2, <2>1 DEF LInv, Accounted
  <2>3. PICK q \in Procs : pc[q] \in Begun /\ mem[q].owner = o
      BY <1>10, <2>1, <2>2 DEF Live
  <2>4. mem[q] # Absent /\ OnPath(cmd[q], pc[q])
      BY <2>3, Known DEF Begun, Beginning
  <2>5. Creator(Me(q)) /\ q # p
      BY <1>1, <2>3, <2>4, CreatorMoved DEF Begun, OnPath, Beginning, Stopping, Removing
  <2> QED
      BY <1>2, <2>2, <2>3, <2>4, <2>5 DEF LInv, Alone
<1>16. Accounted'
    BY <1>1, <1>15 DEF Accounted
<1>17. \A q \in Procs : Fits(Machine', Me(q)')
    BY <1>4, <1>9, <1>11 DEF LInv, t
<1>18. Typed'
    BY <1>3, <1>4, TypedFrom
<1> QED
    BY <1>1, <1>13, <1>14, <1>16, <1>17, <1>18 DEF LInv

LEMMA LocalStarts == LocalInit => LInv
<1> SUFFICES ASSUME LocalInit PROVE LInv
    OBVIOUS
<1>1. /\ stateFile = Absent /\ \A p \in Procs : pc[p] = "idle" /\ mem[p] = Absent /\ staged[p] = FALSE
      /\ \A o \in Owners : cluster[o] = Absent
    BY DEF LocalInit
<1>2. Typed
  <2>1. "idle" \in Places /\ 0 \in 0..MaxStarts
      BY LocalAssumption DEF Places
  <2>2. pc \in [Procs -> Places]
      BY <2>1 DEF LocalInit
  <2>3. LocalTypes
      BY <2>1 DEF LocalInit, LocalTypes
  <2> QED
      BY <2>2, <2>3 DEF Typed
<1>3. \A p \in Procs : Fits(Machine, Me(p))
  <2> TAKE p \in Procs
  <2> DEFINE s == Me(p)
  <2>1. s.at = "idle" /\ s.mem = Absent /\ ~s.staged
      BY <1>1, MeIs
  <2> HIDE DEF s
  <2>2. Fits(Machine, s)
      BY <2>1, IdleFits
  <2> QED
      BY <2>2 DEF s
<1>4. Alone /\ Agree
    BY <1>1 DEF Alone, Agree, Holds
<1>5. Accounted
  <2>1. \A o \in Owners : ~Live(o)
      BY <1>1, LocalAssumption DEF Live, Begun, Instances
  <2> QED
      BY <2>1 DEF Accounted
<1> QED
    BY <1>1, <1>2, <1>3, <1>4, <1>5 DEF LInv

LEMMA LocalStutters == ASSUME LInv, UNCHANGED localVars PROVE LInv'
<1>1. UNCHANGED <<files, overtaken, stateFile, machine, pc, cmd, mem, staged, raced>>
    BY DEF localVars, history, commands, files
<1>2. FilesTyped'
    BY <1>1, SameFiles
<1>3. MachineTyped' /\ CommandsTyped' /\ Machine' = Machine /\ UNCHANGED <<origin, cluster>>
    BY <1>1, LTyped DEF MachineTyped, CommandsTyped, machine, Machine
<1>4. \A q \in Procs : Fits(Machine', Me(q)')
  <2> TAKE q \in Procs
  <2>1. Me(q)' = Me(q)
      BY <1>1 DEF Me
  <2> QED
      BY <1>3, <2>1, Known
<1> QED
    BY <1>1, <1>2, <1>3, <1>4, TypedFrom, OutsideStep

LEMMA LocalSteps == ASSUME LInv, [LocalNext]_localVars PROVE LInv'
<1>1. CASE UNCHANGED localVars
    BY <1>1, LocalStutters
<1>2. ASSUME NEW p \in Procs,
             \/ UpPreflight(p) \/ DiagnosePreflight(p)
             \/ MakeDirectory(p) \/ WriteConfig(p) \/ WriteIntent(p) \/ PrepareReceipt(p)
             \/ RunVerifier(p) \/ KindCreate(p)
             \/ CaptureForUp(p) \/ CaptureForResume(p) \/ CaptureForDiagnose(p)
             \/ ObserveResources(p) \/ RecordOutcome(p)
             \/ StageSave(p) \/ CommitSave(p) \/ SaveFails(p)
      PROVE  LInv'
    BY <1>2, UpPreflightKeeps, MakeDirectoryKeeps, WriteConfigKeeps, WriteIntentKeeps,
       PrepareReceiptKeeps, CreatesKeep, CapturesKeep, ObserveResourcesKeeps, RecordOutcomeKeeps,
       StageSaveKeeps, CommitSaveKeeps, SaveFailsKeeps
<1>3. ASSUME NEW p \in Procs,
             \/ BeginResume(p) \/ BeginReconnect(p) \/ InspectOld(p)
             \/ VerifyOwned(p) \/ VerifyWorkload(p)
             \/ StartForward(p) \/ InspectNew(p) \/ Healthy(p)
             \/ BeginDown(p) \/ Confirm(p) \/ StopForward(p) \/ Signal(p) \/ AwaitExit(p)
             \/ Recheck(p) \/ LastCheck(p) \/ Delete(p) \/ VerifyGone(p)
             \/ RemoveState(p) \/ RemoveKubeconfig(p) \/ RemoveConfig(p) \/ RemoveDirectory(p)
             \/ Abandon(p)
      PROVE  LInv'
    BY <1>3, BeginsKeep, HolderTurnsKeep, CheckingKeeps, StartForwardKeeps, StopsKeep,
       SignalKeeps, DeleteKeeps, RemoveStateKeeps, RemovesKeep, AbandonKeeps
<1> QED
    BY <1>1, <1>2, <1>3, OutsideKeeps DEF LocalNext

(***************************************************************************)
(* Whatever the commands of a name do at once, and wherever each of them   *)
(* dies (src/cmd/ok/local_cluster.go): a receipt is truthful, each command *)
(* has in memory what its step needs and what it checked last still holds  *)
(* or was overtaken, receipts of one owner agree, and a cluster that is    *)
(* there or may be created has its receipt on disk.                        *)
(***************************************************************************)
THEOREM LocalInductive == LocalSpec => []LInv
<1>1. LInv /\ [LocalNext]_localVars => LInv'
    BY LocalSteps
<1> QED
    BY <1>1, LocalStarts, PTL DEF LocalSpec

(***************************************************************************)
(* Every file, process and receipt of `ok local` has its type.             *)
(***************************************************************************)
THEOREM LocalTypesHold == LocalSpec => []LocalTypes
<1>1. LInv => LocalTypes
    BY DEF LInv, Typed
<1> QED
    BY <1>1, LocalInductive, PTL

(***************************************************************************)
(* A cluster `up` or `diagnose` created is never forgotten: its owner's    *)
(* receipt is on disk and `status` neither denies the installation nor     *)
(* calls the cluster missing (runLocalStatus), unless a command still held *)
(* an earlier owner's receipt when the intent was written.                 *)
(***************************************************************************)
THEOREM ClustersAreNotForgotten == LocalSpec => []NoClusterForgotten
<1>1. ASSUME LInv PROVE NoClusterForgotten
  <2>1. SUFFICES ASSUME NEW o \in Owners \ overtaken, cluster[o] = "made"
                 PROVE  /\ stateFile # Absent /\ stateFile.owner = o
                        /\ Status \notin {"NOT_INSTALLED", "CLUSTER_MISSING"}
      BY DEF NoClusterForgotten
  <2>2. stateFile # Absent /\ stateFile.owner = o
      BY <1>1, <2>1 DEF LInv, Accounted, Live
  <2>3. stateFile \in Receipts /\ cluster[stateFile.owner] # Absent
      BY <1>1, <2>1, <2>2, LocalAssumption DEF LInv, Truthful, Instances
  <2>4. Partial(stateFile) => stateFile.phase \notin {"NOT_INSTALLED", "CLUSTER_MISSING"}
      BY DEF Partial
  <2>5. Status \notin {"NOT_INSTALLED", "CLUSTER_MISSING"}
      BY <2>2, <2>3, <2>4 DEF Status
  <2> QED
      BY <2>2, <2>5
<1> QED
    BY <1>1, LocalInductive, PTL

(***************************************************************************)
(* Only the signal itself takes a process from the table while a command   *)
(* leaves its "signal" step.                                               *)
(***************************************************************************)
LEMMA TableMoves ==
    ASSUME LInv, [LocalNext]_localVars, NEW p \in Procs, pc[p] = "signal", pc'[p] # "signal",
           table' # table
    PROVE  Signal(p)
<1>1. \/ \E q \in Procs : StartForward(q) \/ Signal(q)
      \/ \E i \in Pids : ForwardExits(i) \/ PidReused(i)
  <2>1. UNCHANGED localVars => UNCHANGED table
      BY DEF localVars, machine
  <2>2. ASSUME NEW q \in Procs,
               \/ UpPreflight(q) \/ DiagnosePreflight(q)
               \/ MakeDirectory(q) \/ WriteConfig(q) \/ WriteIntent(q) \/ PrepareReceipt(q)
               \/ RunVerifier(q) \/ KindCreate(q)
               \/ CaptureForUp(q) \/ CaptureForResume(q) \/ CaptureForDiagnose(q)
               \/ ObserveResources(q) \/ RecordOutcome(q)
               \/ StageSave(q) \/ CommitSave(q) \/ SaveFails(q)
        PROVE  UNCHANGED table
      BY <2>2 DEF UpPreflight, DiagnosePreflight, Starts, MakeDirectory, WriteConfig, WriteIntent,
         PrepareReceipt, RunVerifier, KindCreate, Made, CaptureForUp, CaptureForResume,
         CaptureForDiagnose, ObserveResources, RecordOutcome, StageSave, CommitSave, SaveFails, machine
  <2>3. ASSUME NEW q \in Procs,
               \/ BeginResume(q) \/ BeginReconnect(q) \/ InspectOld(q)
               \/ VerifyOwned(q) \/ VerifyWorkload(q) \/ InspectNew(q) \/ Healthy(q)
               \/ BeginDown(q) \/ Confirm(q) \/ StopForward(q) \/ AwaitExit(q)
               \/ Recheck(q) \/ LastCheck(q) \/ Delete(q) \/ VerifyGone(q)
               \/ RemoveState(q) \/ RemoveKubeconfig(q) \/ RemoveConfig(q) \/ RemoveDirectory(q)
               \/ Abandon(q)
        PROVE  UNCHANGED table
      BY <2>3 DEF BeginResume, BeginReconnect, Starts, InspectOld, VerifyOwned, VerifyWorkload,
         InspectNew, Healthy, BeginDown, Confirm, StopForward, AwaitExit, Recheck, LastCheck, Delete,
         VerifyGone, RemoveState, RemoveKubeconfig, RemoveConfig, RemoveDirectory, Abandon, machine
  <2>4. ASSUME NEW o \in Owners, OutsiderDeletes(o) \/ OutsiderRecreates(o) PROVE UNCHANGED table
      BY <2>4 DEF OutsiderDeletes, OutsiderRecreates
  <2> QED
      BY <2>1, <2>2, <2>3, <2>4 DEF LocalNext
<1>2. ASSUME NEW i \in Pids, ForwardExits(i) \/ PidReused(i) PROVE FALSE
    BY <1>2 DEF ForwardExits, PidReused, commands
<1>3. pc \in [Procs -> Places]
    BY LTyped DEF CommandsTyped
<1>4. ASSUME NEW q \in Procs, StartForward(q) PROVE FALSE
    BY <1>3, <1>4 DEF StartForward, At, Goto
<1>5. ASSUME NEW q \in Procs, Signal(q) PROVE q = p
    BY <1>3, <1>5 DEF Signal, At, MovesTo, StopSettled, Ends, Goto
<1> QED
    BY <1>1, <1>2, <1>4, <1>5

(***************************************************************************)
(* `down` deletes only the cluster its receipt records, never one that     *)
(* `diagnose` retained, and a signal reaches only the recorded process,    *)
(* but for what took the name or the pid after the last check              *)
(* (deleteLocalCluster, stopLocalForward).                                 *)
(***************************************************************************)
THEOREM OnlyItsOwnIsDestroyed == LocalSpec => DestroysItsOwn
<1>1. ASSUME LInv, [LocalNext]_localVars PROVE ActsOnItsOwn
  <2> SUFFICES ASSUME NEW p \in Procs
               PROVE  /\ At(p, "delete") /\ pc'[p] # "delete" =>
                             /\ origin[mem[p].owner] = "UP"
                             /\ \/ cluster' = cluster
                                \/ cluster[mem[p].owner] \in {mem[p].containers, Absent}
                                \/ raced[p]
                      /\ At(p, "signal") /\ pc'[p] # "signal" /\ table' # table =>
                             \/ table[mem[p].forward.pid] = mem[p].forward.start
                             \/ raced[p]
      BY DEF ActsOnItsOwn
  <2>1. Fits(Machine, Me(p)) /\ Machine.cluster = cluster /\ Machine.table = table
        /\ Machine.origin = origin
      BY <1>1, Known DEF Machine
  <2>2. ASSUME pc[p] = "delete"
        PROVE  /\ origin[mem[p].owner] = "UP"
               /\ cluster[mem[p].owner] \in {mem[p].containers, Absent} \/ raced[p]
    <3>1. mem[p] # Absent /\ OnPath(cmd[p], "delete")
        BY <1>1, <2>2, Known DEF Beginning
    <3>2. cmd[p] = "down"
        BY <3>1 DEF OnPath, Beginning, Stopping, Removing
    <3>3. Truthful(Machine, mem[p]) /\ mem[p].format = "v3"
        BY <2>1, <3>1, <3>2, MeIs DEF Fits, Remembers
    <3> QED
        BY <2>1, <2>2, <3>3, MeIs DEF Fits, Checked, Truthful
  <2>3. ASSUME pc[p] = "signal", pc'[p] # "signal", table' # table
        PROVE  table[mem[p].forward.pid] = mem[p].forward.start \/ raced[p]
    <3>1. table[mem[p].forward.pid] \in {mem[p].forward.start, Absent} \/ raced[p]
        BY <2>1, <2>3, MeIs DEF Fits, Checked
    <3>2. Signal(p)
        BY <1>1, <2>3, TableMoves
    <3>3. table[mem[p].forward.pid] # Absent
        BY <2>3, <3>2 DEF Signal
    <3> QED
        BY <3>1, <3>3
  <2> QED
      BY <2>2, <2>3 DEF At
<1> QED
    BY <1>1, LocalInductive, PTL DEF LocalSpec, DestroysItsOwn

(***************************************************************************)
(* A complete receipt identifies the cluster its owner's own run created,  *)
(* and identities once on disk are replaced by no late update of the same  *)
(* owner (captureLocalClusterIdentity, updateLocalClusterState).           *)
(***************************************************************************)
THEOREM IdentitiesAreKept == LocalSpec => IdentityKept
<1>1. ASSUME LInv, LInv', [LocalNext]_localVars PROVE KeepsIdentity
  <2>1. SUFFICES ASSUME stateFile' # Absent
        PROVE  /\ ~Partial(stateFile') => stateFile'.containers = "made"
               /\ (stateFile # Absent /\ stateFile.owner = stateFile'.owner
                     /\ stateFile.containers # Absent)
                    => /\ stateFile'.containers = stateFile.containers
                       /\ stateFile.api = "whole" => stateFile'.api = "whole"
      BY DEF KeepsIdentity
  <2>2. ~Partial(stateFile') => stateFile'.containers = "made"
      BY <1>1, <2>1 DEF LInv, Truthful
  <2>3. CASE stateFile' = stateFile
      BY <2>2, <2>3
  <2>4. ASSUME NEW p \in Procs, WriteIntent(p) PROVE stateFile = Absent
      BY <2>4 DEF WriteIntent
  <2>5. ASSUME NEW p \in Procs, RemoveState(p) PROVE FALSE
      BY <2>1, <2>5 DEF RemoveState
  <2>6. ASSUME NEW p \in Procs, CommitSave(p), stateFile # Absent,
               stateFile.owner = stateFile'.owner, stateFile.containers # Absent
        PROVE  /\ stateFile'.containers = stateFile.containers
               /\ stateFile.api = "whole" => stateFile'.api = "whole"
    <3>1. /\ pc[p] \in Saves /\ mem[p] # Absent /\ Truthful(Machine, mem[p])
          /\ stateFile' \in {stateFile, mem[p]}
        BY <1>1, <2>6, CommitSaveIs
    <3>2. CASE stateFile' = mem[p]
      <4>1. stateFile.phase # "CREATING"
          BY <1>1, <2>6, Known DEF Truthful
      <4>2. ~Creator(Me(p))
          BY <1>1, <2>6, <3>1, <3>2, <4>1 DEF LInv, Alone
      <4>3. ~Partial(mem[p]) /\ mem[p].containers = stateFile.containers
          BY <1>1, <2>6, <3>1, <3>2, <4>2, HolderKnown DEF LInv, Agree, Holds, Saves
      <4> QED
          BY <3>1, <3>2, <4>3 DEF Truthful
    <3> QED
        BY <3>1, <3>2
  <2>7. \/ stateFile' = stateFile
        \/ \E p \in Procs : WriteIntent(p) \/ RemoveState(p) \/ CommitSave(p)
    <3>1. UNCHANGED localVars => UNCHANGED stateFile
        BY DEF localVars, files
    <3>2. ASSUME NEW q \in Procs,
                 \/ UpPreflight(q) \/ DiagnosePreflight(q)
                 \/ MakeDirectory(q) \/ WriteConfig(q) \/ PrepareReceipt(q)
                 \/ RunVerifier(q) \/ KindCreate(q)
                 \/ CaptureForUp(q) \/ CaptureForResume(q) \/ CaptureForDiagnose(q)
                 \/ ObserveResources(q) \/ RecordOutcome(q)
                 \/ StageSave(q) \/ SaveFails(q)
          PROVE  UNCHANGED stateFile
        BY <3>2 DEF UpPreflight, DiagnosePreflight, Starts, MakeDirectory, WriteConfig,
           PrepareReceipt, RunVerifier, KindCreate, Made, CaptureForUp, CaptureForResume,
           CaptureForDiagnose, ObserveResources, RecordOutcome, StageSave, SaveFails, files
    <3>3. ASSUME NEW q \in Procs,
                 \/ BeginResume(q) \/ BeginReconnect(q) \/ InspectOld(q)
                 \/ VerifyOwned(q) \/ VerifyWorkload(q) \/ StartForward(q) \/ InspectNew(q)
                 \/ Healthy(q) \/ BeginDown(q) \/ Confirm(q) \/ StopForward(q) \/ Signal(q)
                 \/ AwaitExit(q) \/ Recheck(q) \/ LastCheck(q) \/ Delete(q) \/ VerifyGone(q)
                 \/ RemoveKubeconfig(q) \/ RemoveConfig(q) \/ RemoveDirectory(q) \/ Abandon(q)
          PROVE  UNCHANGED stateFile
        BY <3>3 DEF BeginResume, BeginReconnect, Starts, InspectOld, VerifyOwned, VerifyWorkload,
           StartForward, InspectNew, Healthy, BeginDown, Confirm, StopForward, Signal, AwaitExit,
           Recheck, LastCheck, Delete, VerifyGone, RemoveKubeconfig, RemoveConfig, RemoveDirectory,
           Abandon, files
    <3>4. ASSUME \/ \E i \in Pids : ForwardExits(i) \/ PidReused(i)
                 \/ \E o \in Owners : OutsiderDeletes(o) \/ OutsiderRecreates(o)
          PROVE  UNCHANGED stateFile
        BY <3>4 DEF ForwardExits, PidReused, OutsiderDeletes, OutsiderRecreates, files
    <3> QED
        BY <1>1, <3>1, <3>2, <3>3, <3>4 DEF LocalNext
  <2> QED
      BY <2>2, <2>3, <2>4, <2>5, <2>6, <2>7
<1>2. LInv /\ LInv' /\ [LocalNext]_localVars => [KeepsIdentity]_localVars
    BY <1>1
<1> QED
    BY <1>2, LocalInductive, PTL DEF LocalSpec, IdentityKept
==============================================================================
