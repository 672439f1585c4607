--------------------------- MODULE ClusterTeardown ---------------------------
(***************************************************************************)
(* The teardown of a cluster with its durable ledger                       *)
(* (scripts/talos_golden_lifecycle.py: teardown, migrate_teardown_ledger   *)
(* and prune_teardown_ledger, started by make or by `ok cluster destroy`): *)
(* a record of what is about to be deleted is stored first, everything is  *)
(* deleted by the identities in it, and the record is marked complete.     *)
(*                                                                         *)
(* Any number of commands run at once, die anywhere, and are started       *)
(* again; meanwhile the controllers provision and release disks, finish    *)
(* deletions in their own time, an operator installs the cluster anew      *)
(* under the same name, and somebody else deletes or recreates objects.    *)
(*                                                                         *)
(* Objects are known by their UIDs.  That of a Cluster and of a Namespace  *)
(* is the number of the installation that created it; a PersistentVolume   *)
(* or Longhorn volume has 1 when it was provisioned and 2 when somebody    *)
(* recreated it under its name.  0 is an absent object.  A disk stands for *)
(* a DataVolume, its bound claim, its Retain volume and the CDI snapshot   *)
(* its clone leaves with the Golden image.  The cluster has such an image; *)
(* its clone authorization carries nothing of an installation and is left  *)
(* out.                                                                    *)
(*                                                                         *)
(* A delete with preconditions is one step with the read it is based on:   *)
(* the API server refuses it if the object read is no longer the one there.*)
(* A ConfigMap is written only over the content that was read, because     *)
(* every write that changes it changes its resourceVersion, and no content *)
(* ever comes back.                                                        *)
(***************************************************************************)
EXTENDS Naturals, FiniteSets

CONSTANTS
    Procs,        \* commands that may run at once
    Disks,        \* the disks that may ever be provisioned
    None,         \* no record
    MaxForeign    \* bound: new installations, new disks, and objects that
                  \* somebody else deletes or recreates, taken together

ASSUME TeardownAssumption ==
    /\ MaxForeign \in Nat
    /\ IsFiniteSet(Disks) /\ Disks # {}

VARIABLES
    split,    \* provider and management are two planes
    gen,      \* installations so far
    cluster,  \* the CAPI Cluster: its UID and who has deleted it
    ns,       \* the namespace of the cluster's name on each plane, likewise
    disks,    \* disks with a DataVolume and a bound claim in the namespace
    made,     \* disks ever provisioned
    pv,       \* UIDs of the PersistentVolumes
    lh,       \* UIDs of the Longhorn volumes
    snaps,    \* disks whose clone snapshot exists
    ledger,   \* the record in the owned namespace
    legacy,   \* the record in the legacy namespace
    rendered, \* the local render directory exists
    run,      \* what each command has in memory
    foreign,
    reused    \* an installation went into a namespace it found (history)

objects == <<cluster, ns, disks, pv, lh, snaps>>
world == <<split, gen, made, objects>>
records == <<ledger, legacy, rendered>>
bounds == <<foreign, reused>>
teardownVars == <<world, records, run, bounds>>

Planes == {"provider", "management"}

(***************************************************************************)
(* What a record holds; None is not one.                                   *)
(***************************************************************************)
TeardownRecords ==
    [cluster : Nat, ns : [Planes -> Nat], disks : SUBSET Disks,
     complete : BOOLEAN, pv : [Disks -> Nat], lh : [Disks -> Nat]]

ASSUME NoneAssumption == None \notin TeardownRecords

(***************************************************************************)
(* With one plane both kubeconfigs lead to the same namespace.             *)
(***************************************************************************)
Namespace(plane) == IF split THEN ns[plane] ELSE ns["management"]
OnPlane(plane) == IF split THEN {plane} ELSE Planes
NamespaceDeletedBy(whom, plane) ==
    [q \in Planes |->
        IF q \in OnPlane(plane) THEN [ns[q] EXCEPT !.by = whom] ELSE ns[q]]

Present(uid) == [uid |-> uid, by |-> "nobody"]
Gone == [uid |-> 0, by |-> "nobody"]

(***************************************************************************)
(* What a command has in memory: whether it saw the render, the ConfigMap  *)
(* it read or wrote last (seen), the record it works from, the one it is   *)
(* about to save, whether the record is new, failures, inventory_ready,    *)
(* the plane it is at and the volumes left to clean up.                    *)
(***************************************************************************)
Idle == [pc |-> "idle", render |-> FALSE, seen |-> None, rec |-> None,
         next |-> None, fresh |-> FALSE, failed |-> FALSE, ready |-> FALSE,
         plane |-> "provider", todo |-> {}]

OneDisk == CHOOSE d \in Disks : TRUE
Captured(S, x) == [d \in Disks |-> IF split /\ d \in S THEN x[d] ELSE 0]

(***************************************************************************)
(* The first installation stands, with a disk; its record may have been    *)
(* left in the legacy namespace by an earlier release.                     *)
(***************************************************************************)
TeardownInit ==
    /\ split \in BOOLEAN
    /\ gen = 1
    /\ cluster = Present(1)
    /\ ns = [plane \in Planes |-> Present(1)]
    /\ disks = {OneDisk}
    /\ made = {OneDisk}
    /\ pv = [d \in Disks |-> IF d = OneDisk THEN 1 ELSE 0]
    /\ lh = pv
    /\ snaps = {OneDisk}
    /\ ledger = None
    /\ legacy \in {None,
           [cluster |-> 1, ns |-> [plane \in Planes |-> 1],
            disks |-> {OneDisk}, complete |-> FALSE,
            pv |-> Captured({OneDisk}, pv), lh |-> Captured({OneDisk}, lh)]}
    /\ rendered = TRUE
    /\ run = [p \in Procs |-> Idle]
    /\ foreign = 0
    /\ reused = FALSE

At(p, pc) == run[p].pc = pc
MovesTo(p, pc) == run' = [run EXCEPT ![p].pc = pc]
Stop(p) == run' = [run EXCEPT ![p] = Idle]
FailTo(p, pc) == run' = [run EXCEPT ![p].pc = pc, ![p].failed = TRUE]

-----------------------------------------------------------------------------
(***************************************************************************)
(* bound_resource: an object that is there must be the recorded one.       *)
(***************************************************************************)
BoundToAnything(object, uid) == TRUE
BoundResource(object, uid) == object.uid \in {0, uid}

(***************************************************************************)
(* teardown_storage_uids: what is still there has the recorded UIDs.       *)
(***************************************************************************)
StorageKept(rec) ==
    \A d \in rec.disks : pv[d] \in {0, rec.pv[d]} /\ lh[d] \in {0, rec.lh[d]}

(***************************************************************************)
(* teardown_inventory and, on two planes, the UIDs of what is new in it.   *)
(* A claim whose volume is gone is accepted only if it was recorded.       *)
(***************************************************************************)
InventoryFails(rec) ==
    \/ Namespace("provider").uid # rec.ns["provider"]
    \/ \E d \in disks \ rec.disks : pv[d] = 0
    \/ split /\ ~StorageKept(rec)

Inventory(rec) ==
    LET found == disks \ rec.disks
        With(saved, x) ==
            [d \in Disks |->
                IF d \in found THEN Captured(found, x)[d] ELSE saved[d]]
    IN
    [rec EXCEPT !.disks = @ \cup found,
                !.pv = With(@, pv), !.lh = With(@, lh)]

(***************************************************************************)
(* The record: the identities of the Cluster and of the namespaces, the    *)
(* disks (data_volume_uids and persistent_volumes), and on two planes the  *)
(* UIDs of their volumes.                                                  *)
(***************************************************************************)
EmptyRecord ==
    [cluster |-> cluster.uid,
     ns |-> [plane \in Planes |-> Namespace(plane).uid],
     disks |-> {}, pv |-> [d \in Disks |-> 0], lh |-> [d \in Disks |-> 0],
     complete |-> FALSE]

(***************************************************************************)
(* write_teardown_configmap and persist_teardown_record: create if none    *)
(* was read, else patch with the resourceVersion read; then the record is  *)
(* read back.  A conflict, an error, an answer that is lost and a record   *)
(* that reads back differently all are errors, with the record written or  *)
(* not.                                                                    *)
(***************************************************************************)
WritableAlways(p) == TRUE
Writable(p) == ledger = run[p].seen

-----------------------------------------------------------------------------
(***************************************************************************)
(* teardown is called, by make or, after the operator has typed ok at a    *)
(* terminal and the targets were verified again, by the destroy command.   *)
(* The local render is read first.                                         *)
(***************************************************************************)
Start(p) ==
    /\ At(p, "idle")
    /\ run' = [run EXCEPT ![p].pc = "read", ![p].render = rendered]
    /\ UNCHANGED <<world, records, bounds>>

(***************************************************************************)
(* The record is read.  With neither record nor render nothing is known    *)
(* and nothing is done.                                                    *)
(***************************************************************************)
ReadRecord(p) ==
    /\ At(p, "read")
    /\ IF ledger = None /\ ~run[p].render
       THEN Stop(p)
       ELSE run' = [run EXCEPT ![p].seen = ledger, ![p].rec = ledger,
                        ![p].render = @ /\ ledger # None /\ ledger.complete,
                        ![p].pc = IF ledger = None THEN "fresh"
                                  ELSE IF ledger.complete THEN "completed"
                                  ELSE "bind"]
    /\ UNCHANGED <<world, records, bounds>>

(***************************************************************************)
(* A completed record: everything absent is a replay; objects of another   *)
(* installation start a new record, on one plane only; anything else is    *)
(* refused.                                                                *)
(***************************************************************************)
CheckCompleted(p) ==
    LET rec == run[p].rec
        other == \/ ~BoundResource(cluster, rec.cluster)
                 \/ ~BoundResource(Namespace("management"), rec.ns["management"])
    IN
    /\ At(p, "completed")
    /\ IF cluster.uid = 0 /\ \A plane \in Planes : Namespace(plane).uid = 0
       THEN IF run[p].render THEN MovesTo(p, "removeLocal") ELSE Stop(p)
       ELSE IF other /\ ~split /\ run[p].render
       THEN run' = [run EXCEPT ![p].rec = None, ![p].render = FALSE,
                        ![p].pc = "fresh"]
       ELSE Stop(p)
    /\ UNCHANGED <<world, records, bounds>>

(***************************************************************************)
(* An incomplete record is taken up: nothing of another installation may   *)
(* be there.  inventory_ready starts as the absence of the provider's      *)
(* namespace.                                                              *)
(***************************************************************************)
Bind(p) ==
    LET rec == run[p].rec IN
    /\ At(p, "bind")
    /\ IF /\ BoundResource(cluster, rec.cluster)
          /\ \A plane \in Planes : BoundResource(Namespace(plane), rec.ns[plane])
       THEN run' = [run EXCEPT ![p].pc = "confirm",
                        ![p].ready = Namespace("provider").uid = 0]
       ELSE Stop(p)
    /\ UNCHANGED <<world, records, bounds>>

(***************************************************************************)
(* A new record: Cluster and namespaces are there and are inventoried.     *)
(***************************************************************************)
TakeInventory(p) ==
    /\ At(p, "fresh")
    /\ IF /\ cluster.uid # 0
          /\ \A plane \in Planes : Namespace(plane).uid # 0
          /\ ~InventoryFails(EmptyRecord)
       THEN run' = [run EXCEPT ![p].rec = Inventory(EmptyRecord),
                        ![p].fresh = TRUE, ![p].pc = "confirm"]
       ELSE Stop(p)
    /\ UNCHANGED <<world, records, bounds>>

(***************************************************************************)
(* The operator has confirmed; on two planes the recorded storage is       *)
(* compared before anything is touched.                                    *)
(***************************************************************************)
Confirm(p) ==
    /\ At(p, "confirm")
    /\ IF split /\ ~StorageKept(run[p].rec)
       THEN Stop(p)
       ELSE run' = [run EXCEPT ![p].fresh = FALSE,
                        ![p].pc =
                            IF run[p].fresh THEN "recheck" ELSE "cluster"]
    /\ UNCHANGED <<world, records, bounds>>

Recheck(p) ==
    LET rec == run[p].rec IN
    /\ At(p, "recheck")
    /\ IF /\ cluster.uid = rec.cluster
          /\ \A plane \in Planes : Namespace(plane).uid = rec.ns[plane]
       THEN MovesTo(p, "record")
       ELSE Stop(p)
    /\ UNCHANGED <<world, records, bounds>>

RecordFirst(p) ==
    /\ At(p, "record")
    /\ \/ /\ Writable(p)
          /\ ledger' = run[p].rec
          /\ \/ run' = [run EXCEPT ![p].pc = "cluster",
                            ![p].seen = run[p].rec]
             \/ Stop(p)
       \/ /\ ~Writable(p)
          /\ Stop(p)
          /\ UNCHANGED ledger
    /\ UNCHANGED <<world, legacy, rendered, bounds>>

-----------------------------------------------------------------------------
(***************************************************************************)
(* The Cluster is deleted by its recorded UID, in the foreground.  From    *)
(* here on an error is noted and the command goes on where that is safe.   *)
(***************************************************************************)
DeleteCluster(p) ==
    LET rec == run[p].rec IN
    /\ At(p, "cluster")
    /\ \/ /\ cluster.uid # 0
          /\ BoundResource(cluster, rec.cluster)
          /\ cluster' = [cluster EXCEPT !.by = "run"]
          /\ \/ MovesTo(p, "awaitCluster")
             \/ FailTo(p, "clusterAfter")
       \/ /\ cluster.uid = 0
          /\ MovesTo(p, "clusterAfter")
          /\ UNCHANGED cluster
       \/ /\ FailTo(p, "clusterAfter")
          /\ UNCHANGED cluster
    /\ UNCHANGED <<split, gen, made, ns, disks, pv, lh, snaps>>
    /\ UNCHANGED <<records, bounds>>

(***************************************************************************)
(* preconditioned_delete waits until the object is absent; another UID and *)
(* the timeout are errors.                                                 *)
(***************************************************************************)
AwaitCluster(p) ==
    /\ At(p, "awaitCluster")
    /\ \/ cluster.uid = 0 /\ MovesTo(p, "clusterAfter")
       \/ FailTo(p, "clusterAfter")
    /\ UNCHANGED <<world, records, bounds>>

(***************************************************************************)
(* Nothing else is deleted while a Cluster is there: with it, the rest of  *)
(* the command only collects errors.                                       *)
(***************************************************************************)
ClusterAfter(p) ==
    /\ At(p, "clusterAfter")
    /\ IF cluster.uid # 0
       THEN Stop(p)
       ELSE MovesTo(p, IF run[p].ready THEN "namespace" ELSE "refresh")
    /\ UNCHANGED <<world, records, bounds>>

(***************************************************************************)
(* The inventory is taken again now that nothing provisions any more, and  *)
(* merged into the record before the namespace may go.                     *)
(***************************************************************************)
Refresh(p) ==
    LET rec == run[p].rec IN
    /\ At(p, "refresh")
    /\ \/ /\ ~InventoryFails(rec)
          /\ run' = [run EXCEPT ![p].pc = "saveRefresh",
                         ![p].next = Inventory(rec)]
       \/ FailTo(p, "namespace")
    /\ UNCHANGED <<world, records, bounds>>

SaveRefresh(p) ==
    LET new == run[p].next
        failed == [run EXCEPT ![p].pc = "namespace", ![p].failed = TRUE,
                       ![p].next = None]
    IN
    /\ At(p, "saveRefresh")
    /\ \/ /\ Writable(p)
          /\ ledger' = new
          /\ \/ run' = [run EXCEPT ![p].pc = "namespace", ![p].rec = new,
                            ![p].seen = new, ![p].ready = TRUE,
                            ![p].next = None]
             \/ run' = failed
       \/ /\ run' = failed
          /\ UNCHANGED ledger
    /\ UNCHANGED <<world, legacy, rendered, bounds>>

(***************************************************************************)
(* The namespaces, the provider's first.  Without a saved inventory the    *)
(* namespace is only read.                                                 *)
(***************************************************************************)
NamespaceDeletableUnsaved(p) == TRUE
NamespaceDeletable(p) == run[p].ready

DeleteNamespace(p) ==
    LET plane == run[p].plane
        uid == run[p].rec.ns[plane]
        here == Namespace(plane)
    IN
    /\ At(p, "namespace")
    /\ \/ /\ NamespaceDeletable(p)
          /\ here.uid # 0
          /\ BoundResource(here, uid)
          /\ ns' = NamespaceDeletedBy("run", plane)
          /\ \/ MovesTo(p, "awaitNamespace")
             \/ FailTo(p, "namespaceAfter")
       \/ /\ NamespaceDeletable(p) /\ here.uid # 0
          /\ FailTo(p, "namespaceAfter")
          /\ UNCHANGED ns
       \/ /\ ~NamespaceDeletable(p) \/ here.uid = 0
          /\ MovesTo(p, "namespaceAfter")
          /\ UNCHANGED ns
    /\ UNCHANGED <<split, gen, made, cluster, disks, pv, lh, snaps>>
    /\ UNCHANGED <<records, bounds>>

AwaitNamespace(p) ==
    LET plane == run[p].plane IN
    /\ At(p, "awaitNamespace")
    /\ \/ Namespace(plane).uid = 0 /\ MovesTo(p, "namespaceAfter")
       \/ FailTo(p, "namespaceAfter")
    /\ UNCHANGED <<world, records, bounds>>

(***************************************************************************)
(* namespace_absent: only with both namespaces verified absent are the     *)
(* volumes and the clone authorization cleaned up.                         *)
(***************************************************************************)
NamespaceAfter(p) ==
    LET plane == run[p].plane IN
    /\ At(p, "namespaceAfter")
    /\ IF Namespace(plane).uid # 0
       THEN Stop(p)
       ELSE IF split /\ plane = "provider"
       THEN run' = [run EXCEPT ![p].pc = "namespace",
                        ![p].plane = "management"]
       ELSE run' = [run EXCEPT ![p].todo = run[p].rec.disks,
                        ![p].pc = IF run[p].rec.disks = {}
                                  THEN "authorization" ELSE "volumes"]
    /\ UNCHANGED <<world, records, bounds>>

-----------------------------------------------------------------------------
(***************************************************************************)
(* cleanup_retained_volumes, one recorded name after the other: the        *)
(* PersistentVolume, on two planes by its recorded UID, then the Longhorn  *)
(* volume.  On two planes an error about the first spares the second; on   *)
(* one plane the second is deleted by name and its failure is only shown.  *)
(***************************************************************************)
VolumeMatches(p, d) == split => pv[d] = run[p].rec.pv[d]

VolumesOr(p, d) == IF run[p].todo = {d} THEN "authorization" ELSE "volumes"

DeleteVolume(p) ==
    /\ At(p, "volumes")
    /\ LET d == CHOOSE x \in run[p].todo : TRUE
           skip == [run EXCEPT ![p].pc = VolumesOr(p, d), ![p].failed = TRUE,
                        ![p].todo = @ \ {d}]
           goOn == [run EXCEPT ![p].pc = "backing", ![p].failed = TRUE]
           onFailure == IF split THEN skip ELSE goOn
       IN
       \/ /\ pv[d] = 0
          /\ MovesTo(p, "backing")
          /\ UNCHANGED pv
       \/ /\ pv[d] # 0
          /\ VolumeMatches(p, d)
          /\ pv' = [pv EXCEPT ![d] = 0]
          /\ \/ MovesTo(p, "backing")
             \/ run' = onFailure
       \/ /\ run' = onFailure
          /\ UNCHANGED pv
    /\ UNCHANGED <<split, gen, made, cluster, ns, disks, lh, snaps>>
    /\ UNCHANGED <<records, bounds>>

DeleteBacking(p) ==
    /\ At(p, "backing")
    /\ LET d == CHOOSE x \in run[p].todo : TRUE
           matches == split => lh[d] = run[p].rec.lh[d]
           done == [run EXCEPT ![p].pc = VolumesOr(p, d), ![p].todo = @ \ {d}]
           failed == [done EXCEPT ![p].failed = split \/ @]
       IN
       \/ /\ lh[d] = 0 \/ matches
          /\ lh' = [lh EXCEPT ![d] = 0]
          /\ \/ run' = done
             \/ run' = failed
       \/ /\ run' = failed
          /\ UNCHANGED lh
    /\ UNCHANGED <<split, gen, made, cluster, ns, disks, pv, snaps>>
    /\ UNCHANGED <<records, bounds>>

(***************************************************************************)
(* cleanup_authorization: after the Role and RoleBinding of the clone, the *)
(* snapshots owned by a recorded DataVolume.  An error ends it, with some  *)
(* of them deleted.                                                        *)
(***************************************************************************)
CleanupAuthorization(p) ==
    LET mine == snaps \cap run[p].rec.disks IN
    /\ At(p, "authorization")
    /\ \/ snaps' = snaps \ mine /\ MovesTo(p, "finish")
       \/ /\ \E S \in SUBSET mine : snaps' = snaps \ S
          /\ FailTo(p, "finish")
    /\ UNCHANGED <<split, gen, made, cluster, ns, disks, pv, lh>>
    /\ UNCHANGED <<records, bounds>>

(***************************************************************************)
(* With any error the command fails and the record stays incomplete;       *)
(* without one it is written as complete and the render is removed, unless *)
(* there are two planes or the caller asked to keep it.                    *)
(***************************************************************************)
FinishableAlways(p) == TRUE
Finishable(p) == ~run[p].failed

Finish(p) ==
    /\ At(p, "finish")
    /\ \/ /\ Finishable(p)
          /\ Writable(p)
          /\ ledger' = [run[p].rec EXCEPT !.complete = TRUE]
          /\ \/ MovesTo(p, "removeLocal")
             \/ Stop(p)
       \/ /\ ~Finishable(p) \/ ~Writable(p)
          /\ Stop(p)
          /\ UNCHANGED ledger
    /\ UNCHANGED <<world, legacy, rendered, bounds>>

RemoveLocal(p) ==
    /\ At(p, "removeLocal")
    /\ rendered' \in IF split THEN {rendered} ELSE {rendered, FALSE}
    /\ Stop(p)
    /\ UNCHANGED <<world, ledger, legacy, bounds>>

-----------------------------------------------------------------------------
(***************************************************************************)
(* prune_teardown_ledger: a completed record of one plane, with Cluster    *)
(* and namespace absent, is deleted as the one that was read.              *)
(***************************************************************************)
Prunable(rec) == rec.complete /\ ~split

PruneRead(p) ==
    /\ At(p, "idle")
    /\ ledger # None
    /\ Prunable(ledger)
    /\ run' = [run EXCEPT ![p].pc = "pruneCheck", ![p].seen = ledger]
    /\ UNCHANGED <<world, records, bounds>>

PruneCheck(p) ==
    /\ At(p, "pruneCheck")
    /\ IF cluster.uid = 0 /\ Namespace("management").uid = 0
       THEN MovesTo(p, "pruneDelete")
       ELSE Stop(p)
    /\ UNCHANGED <<world, records, bounds>>

PruneDelete(p) ==
    /\ At(p, "pruneDelete")
    /\ ledger' = IF Writable(p) THEN None ELSE ledger
    /\ Stop(p)
    /\ UNCHANGED <<world, legacy, rendered, bounds>>

(***************************************************************************)
(* migrate_teardown_ledger: the legacy record is copied unless another one *)
(* is there, and then deleted.                                             *)
(***************************************************************************)
MigrateRead(p) ==
    /\ At(p, "idle")
    /\ legacy # None
    /\ ledger \in {None, legacy}
    /\ run' = [run EXCEPT ![p].pc = "migrateWrite", ![p].seen = ledger,
                   ![p].rec = legacy]
    /\ UNCHANGED <<world, records, bounds>>

MigrateWrite(p) ==
    /\ At(p, "migrateWrite")
    /\ \/ /\ Writable(p)
          /\ ledger' = run[p].rec
          /\ \/ MovesTo(p, "migrateDelete")
             \/ Stop(p)
       \/ /\ ~Writable(p)
          /\ Stop(p)
          /\ UNCHANGED ledger
    /\ UNCHANGED <<world, legacy, rendered, bounds>>

MigrateDelete(p) ==
    /\ At(p, "migrateDelete")
    /\ legacy' = None
    /\ Stop(p)
    /\ UNCHANGED <<world, ledger, rendered, bounds>>

(***************************************************************************)
(* A command dies, or an error ends it before it has deleted anything.     *)
(***************************************************************************)
Die(p) ==
    /\ ~At(p, "idle")
    /\ Stop(p)
    /\ UNCHANGED <<world, records, bounds>>

-----------------------------------------------------------------------------
(***************************************************************************)
(* The cluster is installed again under its name: namespaces that are      *)
(* there are taken, the rest is created.                                   *)
(***************************************************************************)
Install ==
    /\ foreign < MaxForeign
    /\ foreign' = foreign + 1
    /\ cluster.uid = 0
    /\ \A plane \in Planes : ns[plane].by = "nobody"
    /\ gen' = gen + 1
    /\ cluster' = Present(gen + 1)
    /\ ns' = [plane \in Planes |->
                 IF ns[plane].uid = 0 THEN Present(gen + 1) ELSE ns[plane]]
    /\ reused' = (reused \/ \E plane \in Planes : ns[plane].uid # 0)
    /\ rendered' = TRUE
    /\ UNCHANGED <<split, made, disks, pv, lh, snaps, ledger, legacy, run>>

(***************************************************************************)
(* The controllers provision a disk for a machine of a Cluster that is not *)
(* being deleted.                                                          *)
(***************************************************************************)
Provision(d) ==
    /\ foreign < MaxForeign
    /\ foreign' = foreign + 1
    /\ cluster.uid # 0 /\ cluster.by = "nobody"
    /\ Namespace("provider").uid # 0 /\ Namespace("provider").by = "nobody"
    /\ d \notin made
    /\ made' = made \cup {d}
    /\ disks' = disks \cup {d}
    /\ pv' = [pv EXCEPT ![d] = 1]
    /\ lh' = [lh EXCEPT ![d] = 1]
    /\ snaps' = snaps \cup {d}
    /\ UNCHANGED <<split, gen, cluster, ns, records, run, reused>>

(***************************************************************************)
(* The deletion of the Cluster completes: the disks of its machines are    *)
(* released, except those the controllers leave behind.                    *)
(***************************************************************************)
FinalizeCluster ==
    /\ cluster.uid # 0 /\ cluster.by # "nobody"
    /\ cluster' = Gone
    /\ disks' \in SUBSET disks
    /\ UNCHANGED <<split, gen, made, ns, pv, lh, snaps, records, run, bounds>>

(***************************************************************************)
(* The deletion of a namespace completes, with everything in it.           *)
(***************************************************************************)
FinalizeNamespace(plane) ==
    /\ Namespace(plane).uid # 0 /\ Namespace(plane).by # "nobody"
    /\ ns' = [q \in Planes |-> IF q \in OnPlane(plane) THEN Gone ELSE ns[q]]
    /\ cluster' = IF "management" \in OnPlane(plane) THEN Gone ELSE cluster
    /\ disks' = IF "provider" \in OnPlane(plane) THEN {} ELSE disks
    /\ UNCHANGED <<split, gen, made, pv, lh, snaps, records, run, bounds>>

(***************************************************************************)
(* Somebody else deletes the Cluster or a namespace, or recreates a volume *)
(* that is gone under its old name.                                        *)
(***************************************************************************)
Meddle ==
    /\ foreign < MaxForeign
    /\ foreign' = foreign + 1
    /\ \/ /\ cluster.uid # 0 /\ cluster.by = "nobody"
          /\ cluster' = [cluster EXCEPT !.by = "other"]
          /\ UNCHANGED <<ns, pv, lh>>
       \/ /\ \E plane \in Planes :
                /\ Namespace(plane).uid # 0 /\ Namespace(plane).by = "nobody"
                /\ ns' = NamespaceDeletedBy("other", plane)
          /\ UNCHANGED <<cluster, pv, lh>>
       \/ /\ \E d \in made \ disks : pv' = [pv EXCEPT ![d] = 2]
          /\ UNCHANGED <<cluster, ns, lh>>
       \/ /\ \E d \in made \ disks : lh' = [lh EXCEPT ![d] = 2]
          /\ UNCHANGED <<cluster, ns, pv>>
    /\ UNCHANGED <<split, gen, made, disks, snaps, records, run, reused>>

Proceed(p) ==
    \/ ReadRecord(p) \/ CheckCompleted(p) \/ Bind(p) \/ TakeInventory(p)
    \/ Confirm(p) \/ Recheck(p) \/ RecordFirst(p)
    \/ DeleteCluster(p) \/ AwaitCluster(p) \/ ClusterAfter(p)
    \/ Refresh(p) \/ SaveRefresh(p)
    \/ DeleteNamespace(p) \/ AwaitNamespace(p) \/ NamespaceAfter(p)
    \/ DeleteVolume(p) \/ DeleteBacking(p)
    \/ CleanupAuthorization(p) \/ Finish(p) \/ RemoveLocal(p)
    \/ PruneCheck(p) \/ PruneDelete(p) \/ MigrateWrite(p) \/ MigrateDelete(p)

Controllers ==
    FinalizeCluster \/ \E plane \in Planes : FinalizeNamespace(plane)

TeardownNext ==
    \/ \E p \in Procs :
          \/ Start(p) \/ PruneRead(p) \/ MigrateRead(p)
          \/ Proceed(p) \/ Die(p)
    \/ Install
    \/ \E d \in Disks : Provision(d)
    \/ Controllers
    \/ Meddle

TeardownSpec == TeardownInit /\ [][TeardownNext]_teardownVars

-----------------------------------------------------------------------------
(***************************************************************************)
(* "Deletes bind to the verified UID" (README.md): whatever a command      *)
(* deletes, however long ago it read it and whoever was quicker, the       *)
(* durable record of that moment names it and is not complete.  On one     *)
(* plane the record holds the names of volumes, not their UIDs, and that a *)
(* Longhorn volume stayed behind is only shown.                            *)
(***************************************************************************)
Incomplete == ledger # None /\ ~ledger.complete
Deleted(here, next) == here.by # "run" /\ next.by = "run"
Named(x, y, d) == d \in ledger.disks /\ (split => x[d] = y[d])

DeletesRecorded ==
    /\ Deleted(cluster, cluster') => Incomplete /\ ledger.cluster = cluster.uid
    /\ \A plane \in Planes : Deleted(ns[plane], ns'[plane]) =>
          Incomplete /\ ledger.ns[plane] = ns[plane].uid
    /\ \A d \in Disks :
          /\ pv[d] = 1 /\ pv'[d] = 0 => Incomplete /\ Named(ledger.pv, pv, d)
          /\ split /\ lh[d] = 1 /\ lh'[d] = 0 => Incomplete /\ Named(ledger.lh, lh, d)
          /\ d \in snaps \ snaps' => Incomplete /\ d \in ledger.disks

DeletesOnlyRecorded == [][DeletesRecorded]_teardownVars

(***************************************************************************)
(* The record of an installation only grows, is completed once, and is     *)
(* lost or replaced only when it is complete: no concurrent command, lost  *)
(* answer, migration or pruning forgets a disk that is still to be         *)
(* cleaned up.                                                             *)
(***************************************************************************)
Grows(rec, new) ==
    /\ new # None
    /\ new.cluster = rec.cluster /\ new.ns = rec.ns
    /\ rec.disks \subseteq new.disks
    /\ \A d \in rec.disks : new.pv[d] = rec.pv[d] /\ new.lh[d] = rec.lh[d]

KeepsRecord == ledger # None => ledger.complete \/ Grows(ledger, ledger')
RecordKept == [][KeepsRecord]_teardownVars

(***************************************************************************)
(* A completed record tells the truth: the recorded Cluster, namespaces    *)
(* and snapshots are gone, and so are the recorded volumes, on two planes  *)
(* in both layers.                                                         *)
(***************************************************************************)
CompletedIsGone ==
    ledger # None /\ ledger.complete =>
        /\ cluster.uid # ledger.cluster
        /\ \A plane \in Planes : ns[plane].uid # ledger.ns[plane]
        /\ snaps \cap ledger.disks = {}
        /\ \A d \in ledger.disks :
              /\ pv[d] # 1 /\ (split /\ pv[d] # 0 => pv[d] # ledger.pv[d])
              /\ split /\ lh[d] # 0 => lh[d] # ledger.lh[d]

(***************************************************************************)
(* "Teardown merges final DataVolume and PV identities before deleting the *)
(* workload Namespace", and "cleanup runs only after both the CAPI Cluster *)
(* and its Namespace are verified absent": a command that deletes a        *)
(* namespace takes no Cluster with it and no claim whose volume is not on  *)
(* record, and no volume is deleted under a claim.  An installation into   *)
(* the namespace of the one being torn down is the exception to the first: *)
(* nothing ties the last look at the Cluster to the delete.                *)
(***************************************************************************)
KeepsOrder ==
    /\ (\E plane \in Planes : Deleted(ns[plane], ns'[plane])) /\ ~reused =>
          cluster.uid = 0 /\ disks \subseteq ledger.disks
    /\ \A d \in disks : pv[d] # 0 => pv'[d] # 0

OrderKept == [][KeepsOrder]_teardownVars
=============================================================================
