------------------------------ MODULE LocalCluster ------------------------------
(***************************************************************************)
(* `ok local up | resume | reconnect | diagnose | status | down` for one   *)
(* logical name: the private directory of the name (the ownership receipt   *)
(* state.json with its temporary file, the Kind configuration, the          *)
(* isolated kubeconfig and the bootstrap diagnostic receipt), the Kind      *)
(* clusters under the owner-derived names, and the detached port-forward    *)
(* processes.  Commands are separate processes that take no lock: any two    *)
(* may run at once, and each may die, or give up with an error, between any *)
(* two of its steps.                                                        *)
(*                                                                         *)
(* A name's receipts, cluster and forwards belong to an owner, the random   *)
(* identifier a run of `up` or `diagnose` draws.  The identities a receipt  *)
(* records are abstracted to the instance they were read from: `made` by    *)
(* the owner's own create, `mislabelled` (made, from another owner's        *)
(* configuration), or `swapped` (someone deleted and recreated the cluster  *)
(* under the same name).  Calls are pinned to the recorded Docker endpoint, *)
(* so a changed provider can only make a check refuse, and a check may      *)
(* refuse at any time; the port and the HTTP health checks likewise only    *)
(* answer or refuse.                                                        *)
(***************************************************************************)
EXTENDS Naturals, FiniteSets

CONSTANTS
    Procs,      \* processes that run `ok local` commands, one command at a time
    Owners,     \* owner identifiers newLocalOwnerID may draw
    Pids,       \* process identifiers the operating system may give a forward
    MaxStarts,  \* how many forwards may be started in all
    Absent,     \* no file, no receipt, no cluster, no process
    Mixed       \* a kubeconfig with the contexts of more than one cluster

VARIABLES
    \* the directory of the name
    dir,        \* whether it exists
    stateFile,  \* state.json: the ownership receipt
    temps,      \* owners whose state.json.tmp-<owner> exists
    diag,       \* bootstrap-diagnostic.json
    config,     \* kind.yaml: the owner it was rendered for
    kubeconfig, \* the isolated kubeconfig: the owner whose cluster it reaches
    \* the machine
    origin,     \* the command that drew an owner: UNUSED, UP or DIAGNOSE
    cluster,    \* the instance that runs under an owner's Kind name
    table,      \* the process table: which start (0: not a forward) holds a pid
    starts,     \* forwards started so far
    \* the commands
    pc, cmd,    \* where each process is, and in which command
    mem,        \* the receipt it read or builds in memory
    staged,     \* it has written the temporary file and not renamed it yet
    \* history
    raced,      \* what it checked last was replaced before it acted on it
    overtaken   \* owners whose intent was written while another process
                \* still worked on an earlier owner's receipt

files == <<dir, stateFile, temps, diag, config, kubeconfig>>
machine == <<origin, cluster, table, starts>>
commands == <<pc, cmd, mem, staged>>
history == <<raced, overtaken>>
localVars == <<files, machine, commands, history>>

Instances == {"made", "mislabelled", "swapped"}
Forwards == [pid: Pids, start: 1..MaxStarts]
Commands == {"up", "resume", "reconnect", "diagnose", "down"}
Saves == {"saveIncomplete", "saveReady", "saveForward", "saveDone", "saveDrop"}

Receipts ==
    [format: {"v3", "bootstrap"},
     phase: {"CREATING", "INCOMPLETE", "CLUSTER_READY", "READY"},
     owner: Owners,
     containers: Instances \union {Absent},
     api: {Absent, "nodes", "whole"},        \* node UIDs, and kube-system's
     forward: Forwards \union {Absent}]

DiagnosticReceipts ==
    [owner: Owners, state: {"PREPARED", "FAILED", "SUCCEEDED_RETAINED"},
     containers: Instances \union {Absent}]

\* A receipt is an object, what runs an identity, a forward a pid with its start:
\* none of them is the absence of one.
ASSUME LocalAssumption ==
    /\ MaxStarts \in Nat
    /\ Absent \notin Receipts /\ Absent \notin Instances /\ Absent \notin Forwards

\* The receipt written as the durable intent, before anything is created.
Intent(c, o) ==
    [format |-> IF c = "diagnose" THEN "bootstrap" ELSE "v3",
     phase |-> "CREATING", owner |-> o,
     containers |-> Absent, api |-> Absent, forward |-> Absent]

Partial(r) == r.phase \in {"CREATING", "INCOMPLETE"}

\* validateLocalClusterState: a partial intent needs its owner and paths only,
\* a complete receipt all identities and the kubeconfig file.
ReceiptValid(r) ==
    /\ dir
    /\ r.format = "bootstrap" => r.phase # "READY"
    /\ \/ Partial(r)
       \/ r.containers # Absent /\ r.api = "whole" /\ kubeconfig # Absent

\* readLocalBootstrapDiagnosticReceipt: the receipt must match its own config.
DiagnosticValid == diag # Absent /\ config = diag.owner

\* observeLocalKindContainers and sameLocalContainers: the containers that run
\* under the owner's Kind name are those of the receipt.
SameContainers(r) == cluster[r.owner] # Absent /\ cluster[r.owner] = r.containers

(* Mutant: only the isolated kubeconfig is looked at. *)
SameKubeconfigOffline(o) == kubeconfig = o /\ cluster[o] # Absent

\* compareKindKubeconfig: Kind's kubeconfig of the name and the isolated one
\* are the same single context, server, authority and client certificate.
SameKubeconfig(o) == kubeconfig = o /\ cluster[o] = "made"

\* observeLocalOwnership: and node UIDs, owner label and the kube-system UID.
Owned(r) == SameContainers(r) /\ SameKubeconfig(r.owner) /\ r.api = "whole"

\* inspectLocalForwardProcess: the pid's start time and command line.
ForwardState(f) ==
    CASE table[f.pid] = Absent -> "ABSENT"
      [] table[f.pid] = f.start -> "MATCHES"
      [] OTHER -> "PID_REUSED"

LocalInit ==
    /\ dir = FALSE /\ stateFile = Absent /\ temps = {}
    /\ diag = Absent /\ config = Absent /\ kubeconfig = Absent
    /\ origin = [o \in Owners |-> "UNUSED"]
    /\ cluster = [o \in Owners |-> Absent]
    /\ table = [i \in Pids |-> Absent]
    /\ starts = 0
    /\ pc = [p \in Procs |-> "idle"]
    /\ cmd = [p \in Procs |-> Absent]
    /\ mem = [p \in Procs |-> Absent]
    /\ staged = [p \in Procs |-> FALSE]
    /\ raced = [p \in Procs |-> FALSE]
    /\ overtaken = {}

At(p, where) == pc[p] = where
Goto(p, where) == pc' = [pc EXCEPT ![p] = where]
Remember(p, r) == mem' = [mem EXCEPT ![p] = r]

\* The command ends: it returned, or its process died.
Ends(p) ==
    /\ Goto(p, "idle") /\ Remember(p, Absent)
    /\ cmd' = [cmd EXCEPT ![p] = Absent]
    /\ staged' = [staged EXCEPT ![p] = FALSE]
    /\ raced' = [raced EXCEPT ![p] = FALSE]

MovesTo(p, where) ==
    IF where = "idle" THEN Ends(p)
    ELSE Goto(p, where) /\ UNCHANGED <<cmd, mem, staged, raced>>

\* A command starts with the receipt r in memory.
Starts(p, c, where, r) ==
    /\ At(p, "idle")
    /\ Goto(p, where) /\ Remember(p, r)
    /\ cmd' = [cmd EXCEPT ![p] = c]
    /\ UNCHANGED <<files, machine, staged, history>>

\* An error return that changes nothing, or the death of the process.
Abandon(p) ==
    /\ pc[p] # "idle"
    /\ Ends(p)
    /\ UNCHANGED <<files, machine, overtaken>>

-----------------------------------------------------------------------------
(* up and diagnose: preparation and the one create of an owner             *)

UpPreflight(p) ==
    /\ stateFile = Absent /\ diag = Absent
    /\ Starts(p, "up", "directory", Absent)

\* diagnose wants a fresh name: not even the directory may exist.
DiagnosePreflight(p) ==
    /\ stateFile = Absent /\ diag = Absent /\ ~dir
    /\ Starts(p, "diagnose", "directory", Absent)

MakeDirectory(p) ==
    /\ At(p, "directory")
    /\ dir' = TRUE
    /\ MovesTo(p, "config")
    /\ UNCHANGED <<stateFile, temps, diag, config, kubeconfig, machine, overtaken>>

\* kind.yaml is created exclusively; no kubeconfig (nor, for diagnose, a
\* diagnostic receipt) may be there.
WriteConfig(p) ==
    /\ At(p, "config")
    /\ dir /\ kubeconfig = Absent /\ config = Absent
    /\ cmd[p] = "diagnose" => diag = Absent
    /\ \E o \in {u \in Owners : origin[u] = "UNUSED"} :
        /\ config' = o
        /\ origin' = [origin EXCEPT ![o] = IF cmd[p] = "up" THEN "UP" ELSE "DIAGNOSE"]
        /\ Remember(p, Intent(cmd[p], o))
    /\ Goto(p, "intent")
    /\ UNCHANGED <<dir, stateFile, temps, diag, kubeconfig, cluster, table, starts,
                   cmd, staged, history>>

\* writeLocalClusterIntent: exclusive; when the directory cannot be synced the
\* file stays and the command stops.
WriteIntent(p) ==
    /\ At(p, "intent")
    /\ ReceiptValid(mem[p]) /\ stateFile = Absent
    /\ stateFile' = mem[p]
    /\ overtaken' = IF \E q \in Procs \ {p} : mem[q] # Absent
                    THEN overtaken \union {mem[p].owner} ELSE overtaken
    /\ \/ MovesTo(p, IF cmd[p] = "up" THEN "create" ELSE "prepare")
       \/ Ends(p)
    /\ UNCHANGED <<dir, temps, diag, config, kubeconfig, machine>>

\* The PREPARED diagnostic receipt precedes `kind create`.
PrepareReceipt(p) ==
    /\ At(p, "prepare")
    /\ \/ /\ diag = Absent
          /\ diag' = [owner |-> mem[p].owner, state |-> "PREPARED", containers |-> Absent]
          /\ MovesTo(p, "create")
       \/ /\ UNCHANGED diag
          /\ Remember(p, [mem[p] EXCEPT !.phase = "INCOMPLETE"])
          /\ Goto(p, "saveIncomplete")
          /\ UNCHANGED <<cmd, staged, raced>>
    /\ UNCHANGED <<dir, stateFile, temps, config, kubeconfig, machine, overtaken>>

\* What a create leaves under the name: nothing, bare containers or a whole
\* cluster with its kubeconfig; it succeeds only with a whole one.
Made(o, made) ==
    /\ made # "nothing" => config # Absent
    /\ cluster' = IF made = "nothing" THEN cluster
                  ELSE [cluster EXCEPT ![o] = IF config = o THEN "made" ELSE "mislabelled"]
    /\ kubeconfig' = IF made # "whole" THEN kubeconfig
                     ELSE IF kubeconfig = Absent THEN o ELSE Mixed
    /\ UNCHANGED <<dir, stateFile, temps, diag, config, origin, table, starts, overtaken>>

\* up: the Console verifier creates the cluster and deploys the Console.
RunVerifier(p) ==
    /\ At(p, "create") /\ cmd[p] = "up"
    /\ \E made \in {"nothing", "containers", "whole"} :
        /\ Made(mem[p].owner, made)
        /\ \/ made = "whole" /\ MovesTo(p, "capture")
           \/ /\ Remember(p, [mem[p] EXCEPT !.phase = "INCOMPLETE"])
              /\ Goto(p, "saveIncomplete")
              /\ UNCHANGED <<cmd, staged, raced>>

\* diagnose: `kind create cluster --retain`.
KindCreate(p) ==
    /\ At(p, "create") /\ cmd[p] = "diagnose"
    /\ \E made \in {"nothing", "containers", "whole"} :
        /\ Made(mem[p].owner, made)
        /\ \/ made = "whole" /\ MovesTo(p, "capture")
           \/ MovesTo(p, "observe")

-----------------------------------------------------------------------------
(* Identity capture                                                        *)

\* captureLocalClusterIdentity: containers, kubeconfig, nodes and kube-system;
\* a receipt that has identities accepts no others.
CaptureWhole(r) ==
    /\ r.containers = Absent \/ SameContainers(r)
    /\ SameKubeconfig(r.owner)

Captured(r) == [r EXCEPT !.containers = cluster[r.owner], !.api = "whole",
                         !.phase = "CLUSTER_READY"]

\* How far a capture that stops gets: containers, then the nodes' UIDs.
CaptureStops(r) ==
    LET seen == [r EXCEPT !.containers = cluster[r.owner]] IN
    {r} \union (IF cluster[r.owner] = Absent THEN {} ELSE {seen})
        \union (IF SameKubeconfig(r.owner) THEN {[seen EXCEPT !.api = "nodes"]} ELSE {})

\* up records how far a capture got that stopped.
CaptureForUp(p) ==
    /\ At(p, "capture") /\ cmd[p] = "up"
    /\ \/ /\ CaptureWhole(mem[p])
          /\ Remember(p, Captured(mem[p])) /\ Goto(p, "saveReady")
       \/ \E r \in CaptureStops(mem[p]) :
          Remember(p, [r EXCEPT !.phase = "INCOMPLETE"]) /\ Goto(p, "saveIncomplete")
    /\ UNCHANGED <<files, machine, cmd, staged, history>>

\* resume captures read-only, and nothing is recorded unless all of it agrees
\* with the receipt and the workload is healthy.
CaptureForResume(p) ==
    /\ At(p, "capture") /\ cmd[p] = "resume"
    /\ CaptureWhole(mem[p])
    /\ Remember(p, Captured(mem[p])) /\ Goto(p, "workload")
    /\ UNCHANGED <<files, machine, cmd, staged, history>>

\* diagnose observes what is there after a capture that stopped.
CaptureForDiagnose(p) ==
    /\ At(p, "capture") /\ cmd[p] = "diagnose"
    /\ \/ /\ CaptureWhole(mem[p])
          /\ Remember(p, Captured(mem[p])) /\ Goto(p, "outcome")
          /\ UNCHANGED <<cmd, staged, raced>>
       \/ MovesTo(p, "observe")
    /\ UNCHANGED <<files, machine, overtaken>>

\* observeLocalBootstrapResources: the containers, or none when the provider
\* or an inventory cannot be read.
ObserveResources(p) ==
    /\ At(p, "observe")
    /\ \E seen \in {cluster[mem[p].owner], Absent} :
        Remember(p, [mem[p] EXCEPT !.phase = "INCOMPLETE", !.containers = seen])
    /\ Goto(p, "outcome")
    /\ UNCHANGED <<files, machine, cmd, staged, history>>

\* The diagnostic receipt is replaced before the state: only a PREPARED one of
\* the same owner, and by a temporary file and a rename.
RecordOutcome(p) ==
    /\ At(p, "outcome")
    /\ DiagnosticValid /\ diag.owner = mem[p].owner /\ diag.state = "PREPARED"
    /\ diag' = [owner |-> mem[p].owner, containers |-> mem[p].containers,
                state |-> IF mem[p].phase = "CLUSTER_READY"
                          THEN "SUCCEEDED_RETAINED" ELSE "FAILED"]
    /\ \/ MovesTo(p, IF mem[p].phase = "CLUSTER_READY" THEN "saveReady" ELSE "saveIncomplete")
       \/ Ends(p)
    /\ UNCHANGED <<dir, stateFile, temps, config, kubeconfig, machine, overtaken>>

-----------------------------------------------------------------------------
(* updateLocalClusterState: exclusive temporary file, rename, directory sync *)

Saved(c, where) ==
    CASE where = "saveDrop" /\ c = "down" -> "recheck"
      [] where = "saveDrop" /\ c = "reconnect" -> "verify"
      [] where = "saveReady" /\ c # "diagnose" -> "start"
      [] where = "saveForward" -> "health"
      [] OTHER -> "idle"

\* Only resume and reconnect stop the forward they could not record.
NotSaved(c, where) ==
    IF where = "saveForward" /\ c \in {"resume", "reconnect"} THEN "stop" ELSE "idle"

SaveFails(p) ==
    /\ pc[p] \in Saves /\ ~staged[p]
    /\ MovesTo(p, NotSaved(cmd[p], pc[p]))
    /\ UNCHANGED <<files, machine, overtaken>>

\* A temporary file left by a process that died blocks every later update of
\* the same owner.
StageSave(p) ==
    /\ pc[p] \in Saves /\ ~staged[p]
    /\ ReceiptValid(mem[p]) /\ stateFile # Absent
    /\ mem[p].owner \notin temps
    /\ temps' = temps \union {mem[p].owner}
    /\ staged' = [staged EXCEPT ![p] = TRUE]
    /\ UNCHANGED <<dir, stateFile, diag, config, kubeconfig, machine, pc, cmd, mem, history>>

\* The rename replaces whatever receipt is there by now; a failed directory
\* sync reports a failure of an update that took place.
CommitSave(p) ==
    /\ staged[p]
    /\ temps' = temps \ {mem[p].owner}
    /\ \E renamed, ok \in BOOLEAN :
        /\ ok => renamed
        /\ stateFile' = IF renamed THEN mem[p] ELSE stateFile
        /\ LET where == IF ok THEN Saved(cmd[p], pc[p]) ELSE NotSaved(cmd[p], pc[p])
           IN  IF where = "idle" THEN Ends(p)
               ELSE /\ Goto(p, where)
                    /\ staged' = [staged EXCEPT ![p] = FALSE]
                    /\ UNCHANGED <<cmd, mem, raced>>
    /\ UNCHANGED <<dir, diag, config, kubeconfig, machine, overtaken>>

-----------------------------------------------------------------------------
(* resume and reconnect, and the managed forward                           *)

BeginResume(p) ==
    /\ stateFile # Absent
    /\ stateFile.format = "v3" /\ stateFile.phase = "INCOMPLETE"
    /\ ReceiptValid(stateFile) /\ diag = Absent
    /\ stateFile.containers # Absent /\ stateFile.forward = Absent
    /\ Starts(p, "resume", "capture", stateFile)

BeginReconnect(p) ==
    /\ stateFile # Absent
    /\ stateFile.format = "v3" /\ stateFile.phase = "READY"
    /\ stateFile.forward # Absent
    /\ ReceiptValid(stateFile) /\ diag = Absent
    /\ Starts(p, "reconnect", "inspect", stateFile)

\* An active recorded forward is never doubled; a missing or reused one is
\* dropped from the receipt before anything else is checked.
InspectOld(p) ==
    /\ At(p, "inspect")
    /\ ForwardState(mem[p].forward) \in {"ABSENT", "PID_REUSED"}
    /\ Remember(p, [mem[p] EXCEPT !.phase = "CLUSTER_READY", !.forward = Absent])
    /\ Goto(p, "saveDrop")
    /\ UNCHANGED <<files, machine, cmd, staged, history>>

VerifyOwned(p) ==
    /\ At(p, "verify")
    /\ Owned(mem[p])
    /\ MovesTo(p, "workload")
    /\ UNCHANGED <<files, machine, overtaken>>

\* verifyLocalConsoleWorkload, read through the isolated kubeconfig: Deployment,
\* Service and an Endpoint of the Console are ready.
VerifyWorkload(p) ==
    /\ At(p, "workload")
    /\ SameKubeconfig(mem[p].owner)
    /\ MovesTo(p, IF cmd[p] = "resume" THEN "saveReady" ELSE "start")
    /\ UNCHANGED <<files, machine, overtaken>>

\* What a process about to act on pid i, or on the cluster of owner o, checked
\* last is replaced.
PidTaken(i) ==
    raced' = [q \in Procs |-> raced[q] \/ (pc[q] = "signal" /\ mem[q].forward.pid = i)]
NameTaken(o) ==
    raced' = [q \in Procs |-> raced[q] \/ (pc[q] = "delete" /\ mem[q].owner = o)]

\* startDetachedLocalProcess: the child's start time and command are read back.
StartForward(p) ==
    /\ At(p, "start")
    /\ starts < MaxStarts
    /\ \E i \in {j \in Pids : table[j] = Absent} :
        /\ table' = [table EXCEPT ![i] = starts + 1]
        /\ Remember(p, [mem[p] EXCEPT !.forward = [pid |-> i, start |-> starts + 1]])
        /\ PidTaken(i)
    /\ starts' = starts + 1
    /\ Goto(p, IF cmd[p] = "reconnect" THEN "inspectNew" ELSE "saveForward")
    /\ UNCHANGED <<files, origin, cluster, cmd, staged, overtaken>>

InspectNew(p) ==
    /\ At(p, "inspectNew")
    /\ ForwardState(mem[p].forward) = "MATCHES"
    /\ MovesTo(p, "saveForward")
    /\ UNCHANGED <<files, machine, overtaken>>

\* waitLocalConsole: something answers on the port.
Healthy(p) ==
    /\ At(p, "health")
    /\ Remember(p, [mem[p] EXCEPT !.phase = "READY"])
    /\ Goto(p, "saveDone")
    /\ UNCHANGED <<files, machine, cmd, staged, history>>

-----------------------------------------------------------------------------
(* down                                                                    *)

\* Diagnostic, bootstrap and partial receipts are refused, whatever is live.
BeginDown(p) ==
    /\ stateFile # Absent
    /\ diag = Absent /\ stateFile.format # "bootstrap"
    /\ ~Partial(stateFile) /\ ReceiptValid(stateFile)
    /\ Owned(stateFile)
    /\ Starts(p, "down", "confirm", stateFile)

\* The operator types ok, after any time.
Confirm(p) ==
    /\ At(p, "confirm")
    /\ MovesTo(p, IF mem[p].forward = Absent THEN "recheck" ELSE "stop")
    /\ UNCHANGED <<files, machine, overtaken>>

\* The forward is gone, or not ours to signal: down drops it from its receipt.
StopSettled(p) ==
    IF cmd[p] = "down"
    THEN /\ Goto(p, "saveDrop")
         /\ Remember(p, [mem[p] EXCEPT !.forward = Absent])
         /\ UNCHANGED <<cmd, staged, raced>>
    ELSE Ends(p)

\* stopLocalForward's identity checks, the last one right before the signal.
StopForward(p) ==
    /\ At(p, "stop")
    /\ IF ForwardState(mem[p].forward) = "MATCHES"
       THEN MovesTo(p, "signal")
       ELSE StopSettled(p)
    /\ UNCHANGED <<files, machine, overtaken>>

\* The interrupt reaches whatever holds the pid; it may be ignored.
Signal(p) ==
    /\ At(p, "signal")
    /\ LET i == mem[p].forward.pid IN
       IF table[i] = Absent
       THEN StopSettled(p) /\ UNCHANGED table
       ELSE /\ table' \in {table, [table EXCEPT ![i] = Absent]}
            /\ MovesTo(p, "await")
    /\ UNCHANGED <<files, origin, cluster, starts, overtaken>>

AwaitExit(p) ==
    /\ At(p, "await")
    /\ ForwardState(mem[p].forward) # "MATCHES"
    /\ StopSettled(p)
    /\ UNCHANGED <<files, machine, overtaken>>

\* Ownership again: the prompt may have taken arbitrary time.
Recheck(p) ==
    /\ At(p, "recheck")
    /\ Owned(mem[p])
    /\ MovesTo(p, "lastCheck")
    /\ UNCHANGED <<files, machine, overtaken>>

(* Mutant: the last check trusts the name. *)
LastCheckByName(p) ==
    /\ At(p, "lastCheck")
    /\ cluster[mem[p].owner] # Absent
    /\ MovesTo(p, "delete")
    /\ UNCHANGED <<files, machine, overtaken>>

\* Name, container identities and provider once more.
LastCheck(p) ==
    /\ At(p, "lastCheck")
    /\ SameContainers(mem[p])
    /\ MovesTo(p, "delete")
    /\ UNCHANGED <<files, machine, overtaken>>

\* `kind delete cluster --name`: by name only, and no error when it is gone;
\* whether the cluster is gone does not follow from the result.
Delete(p) ==
    /\ At(p, "delete")
    /\ cluster' \in {cluster, [cluster EXCEPT ![mem[p].owner] = Absent]}
    /\ \/ MovesTo(p, "verifyGone")
       \/ Ends(p)
    /\ UNCHANGED <<files, origin, table, starts, overtaken>>

(* Mutant: the result of the delete is trusted. *)
VerifyGoneTrusted(p) ==
    /\ At(p, "verifyGone")
    /\ MovesTo(p, "removeState")
    /\ UNCHANGED <<files, machine, overtaken>>

VerifyGone(p) ==
    /\ At(p, "verifyGone")
    /\ cluster[mem[p].owner] = Absent
    /\ MovesTo(p, "removeState")
    /\ UNCHANGED <<files, machine, overtaken>>

\* removeLocalClusterState: by path, in this order, whatever owner the files
\* are of by now; a directory that is not empty stays.
RemoveState(p) ==
    /\ At(p, "removeState")
    /\ stateFile' = Absent
    /\ MovesTo(p, "removeKubeconfig")
    /\ UNCHANGED <<dir, temps, diag, config, kubeconfig, machine, overtaken>>

RemoveKubeconfig(p) ==
    /\ At(p, "removeKubeconfig")
    /\ kubeconfig' = Absent
    /\ MovesTo(p, "removeConfig")
    /\ UNCHANGED <<dir, stateFile, temps, diag, config, machine, overtaken>>

RemoveConfig(p) ==
    /\ At(p, "removeConfig")
    /\ config' = Absent
    /\ MovesTo(p, "removeDirectory")
    /\ UNCHANGED <<dir, stateFile, temps, diag, kubeconfig, machine, overtaken>>

RemoveDirectory(p) ==
    /\ At(p, "removeDirectory")
    /\ dir' = ~(stateFile = Absent /\ temps = {} /\ diag = Absent
                /\ config = Absent /\ kubeconfig = Absent)
    /\ Ends(p)
    /\ UNCHANGED <<stateFile, temps, diag, config, kubeconfig, machine, overtaken>>

-----------------------------------------------------------------------------
(* status                                                                  *)

\* runLocalStatus, read-only: the state it prints, or REFUSED.  The HTTP check
\* that tells READY from CONSOLE_HTTP_UNAVAILABLE is left out.
Status ==
    CASE stateFile = Absent -> IF diag = Absent THEN "NOT_INSTALLED" ELSE "REFUSED"
      [] stateFile # Absent /\ diag # Absent /\
           (~DiagnosticValid \/ diag.owner # stateFile.owner
                             \/ diag.containers # stateFile.containers) -> "REFUSED"
      [] stateFile # Absent /\ diag = Absent /\ stateFile.format = "bootstrap" -> "REFUSED"
      [] stateFile # Absent /\ ~ReceiptValid(stateFile) -> "REFUSED"
      [] stateFile # Absent /\ Partial(stateFile) -> stateFile.phase
      [] cluster[stateFile.owner] = Absent -> "CLUSTER_MISSING"
      [] ~Owned(stateFile) -> "OWNERSHIP_UNVERIFIED"
      [] stateFile.phase = "READY" /\ stateFile.forward # Absent ->
           CASE ForwardState(stateFile.forward) = "ABSENT" -> "FORWARD_PROCESS_MISSING"
             [] ForwardState(stateFile.forward) = "PID_REUSED" -> "FORWARD_IDENTITY_MISMATCH"
             [] OTHER -> "READY"
      [] OTHER -> "OWNED_CLUSTER_PRESENT"

-----------------------------------------------------------------------------
(* The machine outside the commands                                        *)

ForwardExits(i) ==
    /\ table[i] # Absent
    /\ table' = [table EXCEPT ![i] = Absent]
    /\ UNCHANGED <<files, origin, cluster, starts, commands, history>>

PidReused(i) ==
    /\ table[i] = Absent /\ starts > 0
    /\ table' = [table EXCEPT ![i] = 0]
    /\ PidTaken(i)
    /\ UNCHANGED <<files, origin, cluster, starts, commands, overtaken>>

\* Someone with access to the same Docker daemon deletes, or deletes and
\* recreates, the cluster under its exact name.
OutsiderDeletes(o) ==
    /\ cluster[o] # Absent
    /\ cluster' = [cluster EXCEPT ![o] = Absent]
    /\ UNCHANGED <<files, origin, table, starts, commands, history>>

OutsiderRecreates(o) ==
    /\ cluster[o] \in {"made", "mislabelled"}
    /\ cluster' = [cluster EXCEPT ![o] = "swapped"]
    /\ NameTaken(o)
    /\ UNCHANGED <<files, origin, table, starts, commands, overtaken>>

-----------------------------------------------------------------------------

LocalNext ==
    \/ \E p \in Procs :
        \/ UpPreflight(p) \/ DiagnosePreflight(p)
        \/ MakeDirectory(p) \/ WriteConfig(p) \/ WriteIntent(p) \/ PrepareReceipt(p)
        \/ RunVerifier(p) \/ KindCreate(p)
        \/ CaptureForUp(p) \/ CaptureForResume(p) \/ CaptureForDiagnose(p)
        \/ ObserveResources(p) \/ RecordOutcome(p)
        \/ StageSave(p) \/ CommitSave(p) \/ SaveFails(p)
        \/ BeginResume(p) \/ BeginReconnect(p) \/ InspectOld(p)
        \/ VerifyOwned(p) \/ VerifyWorkload(p)
        \/ StartForward(p) \/ InspectNew(p) \/ Healthy(p)
        \/ BeginDown(p) \/ Confirm(p) \/ StopForward(p) \/ Signal(p) \/ AwaitExit(p)
        \/ Recheck(p) \/ LastCheck(p) \/ Delete(p) \/ VerifyGone(p)
        \/ RemoveState(p) \/ RemoveKubeconfig(p) \/ RemoveConfig(p) \/ RemoveDirectory(p)
        \/ Abandon(p)
    \/ \E i \in Pids : ForwardExits(i) \/ PidReused(i)
    \/ \E o \in Owners : OutsiderDeletes(o) \/ OutsiderRecreates(o)

LocalSpec == LocalInit /\ [][LocalNext]_localVars

-----------------------------------------------------------------------------

LocalTypes ==
    /\ dir \in BOOLEAN
    /\ stateFile \in Receipts \union {Absent}
    /\ temps \subseteq Owners
    /\ diag \in DiagnosticReceipts \union {Absent}
    /\ config \in Owners \union {Absent}
    /\ kubeconfig \in Owners \union {Absent, Mixed}
    /\ origin \in [Owners -> {"UNUSED", "UP", "DIAGNOSE"}]
    /\ cluster \in [Owners -> Instances \union {Absent}]
    /\ table \in [Pids -> (0..MaxStarts) \union {Absent}]
    /\ starts \in 0..MaxStarts
    /\ cmd \in [Procs -> Commands \union {Absent}]
    /\ mem \in [Procs -> Receipts \union {Absent}]
    /\ staged \in [Procs -> BOOLEAN]
    /\ raced \in [Procs -> BOOLEAN]
    /\ overtaken \subseteq Owners

\* `down` deletes only the cluster whose identities its receipt records, and
\* never what `diagnose` retained for inspection; a signal reaches only the
\* process the receipt records.  The name-based `kind delete` may hit another
\* cluster, and the signal another process, only if it took the name or the pid
\* after the last check: the residual races the documentation grants.
ActsOnItsOwn ==
    \A p \in Procs :
         /\ At(p, "delete") /\ pc'[p] # "delete" =>
               /\ origin[mem[p].owner] = "UP"
               /\ \/ cluster' = cluster
                  \/ cluster[mem[p].owner] \in {mem[p].containers, Absent}
                  \/ raced[p]
         /\ At(p, "signal") /\ pc'[p] # "signal" /\ table' # table =>
               \/ table[mem[p].forward.pid] = mem[p].forward.start
               \/ raced[p]

DestroysItsOwn == [][ActsOnItsOwn]_localVars

\* A complete receipt identifies the cluster its owner's own run created, also
\* when another one took the name before the identities were captured; and as
\* long as an owner's receipt stays on disk, identities once recorded are not
\* replaced, by no resume and by no update that arrives late.
KeepsIdentity ==
    stateFile' # Absent =>
         /\ ~Partial(stateFile') => stateFile'.containers = "made"
         /\ (stateFile # Absent /\ stateFile.owner = stateFile'.owner
               /\ stateFile.containers # Absent)
              => /\ stateFile'.containers = stateFile.containers
                 /\ stateFile.api = "whole" => stateFile'.api = "whole"

IdentityKept == [][KeepsIdentity]_localVars

\* A cluster `up` or `diagnose` created is never forgotten, whatever fails or
\* dies: its owner's receipt is on disk and `status` neither denies the
\* installation nor calls the cluster missing.  The one way to lose it is a
\* command that still held an earlier owner's receipt when the intent was
\* written: its late rename or removal goes by path, not by owner.
NoClusterForgotten ==
    \A o \in Owners \ overtaken :
        cluster[o] = "made"
            => /\ stateFile # Absent /\ stateFile.owner = o
               /\ Status \notin {"NOT_INSTALLED", "CLUSTER_MISSING"}

================================================================================
