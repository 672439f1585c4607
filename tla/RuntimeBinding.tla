---------------------------- MODULE RuntimeBinding ----------------------------
(* The binding stage (internal/runner/runtime_binding_*.go): what a run of  *)
(* ReadOnlyStage does when it observes.  It polls the workload cluster for  *)
(* the identity of the StorageClass local-path, builds the private material *)
(* from it and from the receipts of its predecessors, and persists the      *)
(* material once: as an immutable Secret named after the plan, or in the    *)
(* full run as a new file, whose material receipt is then written beside    *)
(* it.  Later stages load the material and its receipt.  The receipt of the *)
(* stage holds only digests, so it is worth what is persisted behind it.    *)
(*                                                                          *)
(* The StorageClass may be missing, deleted and created again under a new   *)
(* UID; a create of the Secret may be served after its client gave up,      *)
(* altered by admission, or race with another run's.  Nobody deletes the    *)
(* Secret or a file.  A stage of another kind reports any result.           *)
EXTENDS ReadOnlyStage, Naturals

CONSTANTS
    Foreign,        \* content of a Secret that is not the stage's
    Outputs,        \* the paths a run may be given for its file
    MaxUid,         \* bound of the StorageClasses created
    MaxRuns         \* bound of the runs of a binding stage

VARIABLES
    kind,           \* "secret", "file", or "other" for another kind of stage
    storage,        \* the UID of the StorageClass, 0 before there is one
    secret,         \* what the Secret holds
    late,           \* the materials of creates that got no answer
    output,         \* what the file of each path holds
    handed,         \* the material named by the receipt beside the file
    path,           \* the path of each process
    runs,           \* the runs of the binding stage begun
    bind            \* how far the binder of each process is

persisted == <<secret, late, output, handed>>
bindingVars == <<kind, storage, persisted, path, runs, bind>>
allVars == <<vars, bindingVars>>

(* The material names the predecessors' evidence and the StorageClass; the  *)
(* rest of it is the same for every run of the plan.                        *)
Material(predecessor, uid) == [predecessor |-> predecessor, uid |-> uid]
Materials == [predecessor : Predecessor, uid : 1..MaxUid]

(* The evidence of a success names the material and how it was persisted,   *)
(* that of a stop whether the binder had a material.                        *)
Persisted == {"created", "existing", "written"}
Stops == {"unbound", "unpersisted"}
Succeeded(uid, how) == [outcome |-> "SUCCEEDED", evidence |-> <<uid, how>>]
Stopped(category) == [outcome |-> "STOPPED", evidence |-> <<0, category>>]
BindingResult ==
    {Succeeded(uid, how) : uid \in 1..MaxUid, how \in Persisted}
        \cup {Stopped(category) : category \in Stops}

ASSUME RuntimeBindingAssumption ==
    /\ MaxUid \in Nat /\ MaxRuns \in Nat
    /\ BindingResult \subseteq Result
    /\ {Absent, Torn, Foreign} \cap Materials = {}

OnRecord == {record[k] : k \in Key} \ {Absent, Torn}

(* What the receipt is evidence of.                                         *)
MaterialOf(r) == Material(r.predecessor, r.result.evidence[1])

NewBinder == [at |-> "poll", uid |-> 0]

BindingInit ==
    /\ Init
    /\ kind \in {"other", "secret", "file"}
    /\ kind # "other" => ~fileBacked
    /\ storage = 0
    /\ secret = Absent /\ late = {}
    /\ output = [o \in Outputs |-> Absent]
    /\ handed = [o \in Outputs |-> Absent]
    /\ path = [p \in Process |-> Absent]
    /\ runs = 0
    /\ bind = [p \in Process |-> NewBinder]

-----------------------------------------------------------------------------
(* The operation around the binder                                          *)

(* A stage that persists to a file is opened only while there is none.      *)
Open(p, o) ==
    /\ kind = "file" => output[o] = Absent
    /\ path' = [path EXCEPT ![p] = o]
    /\ bind' = [bind EXCEPT ![p] = NewBinder]
    /\ UNCHANGED <<kind, storage, persisted>>

(* A retry of the binding stage names a receipt that was stored; the other  *)
(* kinds name any.                                                          *)
Named ==
    IF kind = "other" THEN {r \in StageReceipt : r.result \notin BindingResult}
    ELSE OnRecord

Begin(p) ==
    /\ \E pred \in Predecessor :
          Run(p, pred) \/ \E r \in Named : Retry(p, pred, r)
    /\ \/ kind = "other" /\ UNCHANGED runs
       \/ kind # "other" /\ runs < MaxRuns /\ runs' = runs + 1
    /\ \E o \in IF kind = "file" THEN Outputs ELSE {Absent} : Open(p, o)

(* A path that is taken, or an authority, credential or ledger that is      *)
(* refused, ends the process.                                               *)
OpenFails(p) ==
    /\ pc[p] = "idle" /\ kind # "other"
    /\ reply' = [reply EXCEPT ![p] = [state |-> "PRE", receipt |-> Absent]]
    /\ bind' = [bind EXCEPT ![p] = NewBinder]
    /\ UNCHANGED <<fileBacked, record, pc, cursor, retryOf, receipt, key, found>>
    /\ UNCHANGED <<kind, storage, persisted, path, runs>>

(* Another kind of stage reports what it reports.                           *)
ObserveOther(p) ==
    /\ kind = "other"
    /\ \E result \in Result \ BindingResult : Observe(p, result)
    /\ UNCHANGED bindingVars

Die(p) ==
    /\ Crash(p)
    /\ bind' = [bind EXCEPT ![p] = NewBinder]
    /\ UNCHANGED <<kind, storage, persisted, path, runs>>

-----------------------------------------------------------------------------
(* Bind                                                                     *)

Binding(p, at) == pc[p] = "observe" /\ kind # "other" /\ bind[p].at = at
Mine(p) == Material(cursor[p], bind[p].uid)

(* The binder goes on; the operation waits for it.                          *)
Advance(p, at) ==
    /\ bind' = [bind EXCEPT ![p].at = at]
    /\ UNCHANGED <<vars, kind, storage, path, runs>>

(* The binder has its evidence, which stays in the memory of the process.   *)
Conclude(p, result) ==
    /\ Observe(p, result)
    /\ bind' = [bind EXCEPT ![p].at = "done"]
    /\ UNCHANGED <<kind, storage, path, runs>>

Stop(p, category) == Conclude(p, Stopped(category))

(* Both GETs answer, with a namespace and a StorageClass of its kind.       *)
Identified == storage # 0

(* The identities are read in a bounded number of attempts.  A StorageClass *)
(* that is not there, or a passing failure, is tried again, which changes   *)
(* nothing here, until the attempts or the deadline are used up; anything   *)
(* else stops at once, as does a kube-system namespace that changed, or was *)
(* seen before and is missing.                                              *)
Poll(p) ==
    /\ Binding(p, "poll")
    /\ \/ /\ Identified
          /\ bind' = [bind EXCEPT ![p] = [at |-> "build", uid |-> storage]]
          /\ UNCHANGED <<vars, kind, storage, path, runs>>
       \/ Stop(p, "unbound")
    /\ UNCHANGED persisted

(* The receipts of the predecessors, the authority binding and the CA are   *)
(* read again and must be what they were; the material is made of them.     *)
BuildMaterial(p) ==
    /\ Binding(p, "build")
    /\ Advance(p, "persist") \/ Stop(p, "unbound")
    /\ UNCHANGED persisted

(* The one POST of the Secret.  Created exactly, or created by admission as *)
(* something else, or refused with or without a conflict, or unanswered:    *)
(* then the server may create it at any later time.                         *)
CreateSecret(p) ==
    /\ Binding(p, "persist")
    /\ kind = "secret"
    /\ \/ /\ secret = Absent
          /\ secret' = Mine(p)
          /\ Conclude(p, Succeeded(bind[p].uid, "created"))
          /\ UNCHANGED late
       \/ /\ secret = Absent
          /\ secret' = Foreign
          /\ Stop(p, "unpersisted")
          /\ UNCHANGED late
       \/ secret # Absent /\ Advance(p, "get") /\ UNCHANGED <<secret, late>>
       \/ Stop(p, "unpersisted") /\ UNCHANGED <<secret, late>>
       \/ /\ late' = late \cup {Mine(p)}
          /\ Stop(p, "unpersisted")
          /\ UNCHANGED secret
    /\ UNCHANGED <<output, handed>>

ServeLate ==
    /\ secret = Absent
    /\ \E material \in late : secret' = material
    /\ UNCHANGED <<vars, kind, storage, late, output, handed, path, runs, bind>>

(* Mutant: a Secret of this name is taken for the material. *)
SameSecretName(p) == secret # Absent

(* The one GET after a conflict.                                            *)
SameSecret(p) == secret = Mine(p)

VerifyExistingSecret(p) ==
    /\ Binding(p, "get")
    /\ \/ SameSecret(p) /\ Conclude(p, Succeeded(bind[p].uid, "existing"))
       \/ Stop(p, "unpersisted")
    /\ UNCHANGED persisted

(* The file is created where none is.                                       *)
OpenWriter(p) ==
    /\ Binding(p, "persist")
    /\ kind = "file"
    /\ IF output[path[p]] = Absent
       THEN Advance(p, "write") /\ output' = [output EXCEPT ![path[p]] = Torn]
       ELSE Stop(p, "unpersisted") /\ UNCHANGED output
    /\ UNCHANGED <<secret, late, handed>>

(* It is written, synced and read back; a failure leaves what it leaves.    *)
WriteMaterial(p) ==
    LET written == [output EXCEPT ![path[p]] = Mine(p)] IN
    /\ Binding(p, "write")
    /\ \/ output' = written /\ Conclude(p, Succeeded(bind[p].uid, "written"))
       \/ output' \in {output, written} /\ Stop(p, "unpersisted")
    /\ UNCHANGED <<secret, late, handed>>

-----------------------------------------------------------------------------
(* The hand-off of the full run, and what later stages load                 *)

(* The material the binder's own evidence names, which only a process that  *)
(* bound has.                                                               *)
Evidence(p) ==
    IF bind[p].at = "done" THEN Material(reply[p].receipt.predecessor, bind[p].uid)
    ELSE Absent

(* The full run reads the file back, compares it with the evidence and      *)
(* writes the receipt beside it, where there must be none.                  *)
HandOff(p) ==
    /\ kind = "file" /\ pc[p] = "idle"
    /\ reply[p].state = "COMPLETED"
    /\ reply[p].receipt.result.outcome = "SUCCEEDED"
    /\ Evidence(p) # Absent
    /\ output[path[p]] = Evidence(p)
    /\ handed[path[p]] = Absent
    /\ \E receiptFile \in {Evidence(p), Torn} :
          handed' = [handed EXCEPT ![path[p]] = receiptFile]
    /\ UNCHANGED <<vars, kind, storage, secret, late, output, path, runs, bind>>

(* A later stage loads a material and its receipt beside the receipts of    *)
(* the stages: both complete, about each other, and about the evidence its  *)
(* receipts name; what the stage's receipt itself is evidence of is not     *)
(* compared.                                                                *)
Loads(r, material, named) ==
    /\ Recorded(r) /\ r.result.outcome = "SUCCEEDED"
    /\ material = named
    /\ material \in Materials
    /\ material.predecessor = r.predecessor

-----------------------------------------------------------------------------
(* The workload cluster                                                     *)

(* The StorageClass is created, or deleted and created again.               *)
CreateStorage ==
    /\ kind # "other"
    /\ storage < MaxUid
    /\ storage' = storage + 1
    /\ UNCHANGED <<vars, kind, persisted, path, runs, bind>>

-----------------------------------------------------------------------------

(* The calls of the record store, which the binder has no part in.          *)
Records(p) ==
    \/ InspectStageReceipt(p) \/ LoadFromSlot(p) \/ LoadFromAttempt(p)
    \/ Create(p) \/ Write(p) \/ ReadBack(p)

Bind(p) ==
    \/ Poll(p) \/ BuildMaterial(p) \/ CreateSecret(p)
    \/ VerifyExistingSecret(p) \/ OpenWriter(p) \/ WriteMaterial(p)

BindingNext ==
    \/ \E p \in Process :
          \/ Begin(p) \/ OpenFails(p) \/ ObserveOther(p) \/ Die(p)
          \/ Records(p) /\ UNCHANGED bindingVars
          \/ Bind(p) \/ HandOff(p)
    \/ ServeLate \/ CreateStorage

BindingSpec == BindingInit /\ [][BindingNext]_allVars

-----------------------------------------------------------------------------
(* Properties                                                               *)

Successes == {r \in OnRecord : r.result.outcome = "SUCCEEDED"}

(* What the stage's receipts promise is there: in a cluster every success   *)
(* on record is loaded with the one Secret, which is the material it is     *)
(* evidence of, so no two successes of a plan differ in it; in a full run   *)
(* whatever was handed on is the file beside it and has its success on      *)
(* record: whichever runs raced, died, were retried or were answered late,  *)
(* and whatever became of the StorageClass meanwhile.                       *)
BindingBacked ==
    /\ kind = "secret" =>
          \A r \in Successes :
              /\ Loads(r, secret, secret)
              /\ secret = MaterialOf(r)
    /\ \A o \in Outputs : handed[o] \in Materials =>
          /\ output[o] = handed[o]
          /\ \E r \in Successes :
                /\ Loads(r, output[o], handed[o])
                /\ MaterialOf(r) = handed[o]

=============================================================================
