-------------------------- MODULE StageObservation --------------------------
(***************************************************************************)
(* The bounded polling observation behind the read-only stages: the CAPI   *)
(* lifecycle observer, the network observer with its MVP deferrals, the    *)
(* platform observer and the aggregate observer of a plan-level execution  *)
(* (internal/runner/*_observer.go, internal/observation).                  *)
(*                                                                         *)
(* One pass reads several API objects one after the other while the world  *)
(* changes between two reads; the deterministic evaluators turn what was   *)
(* read into True, False or Unknown; the polling loop repeats the pass     *)
(* until an answer, an error or the deadline.  Digests, names and JSON are *)
(* abstracted to whether the value is the one the plan and profile expect. *)
(***************************************************************************)
EXTENDS Integers, FiniteSets, FiniteSetsExt, SequencesExt

CONSTANTS
    Nodes,        \* the node inventory the network profile expects
    Apps,         \* the Applications the platform profile requires
    Interval,     \* polling interval
    Timeout,      \* polling timeout
    Tolerance,    \* probeSchedulingClockToleranceSeconds
    MaxAge,       \* the oldest probe or capability answer that is current
    MaxTime,      \* bound on the clock
    MaxChanges    \* bound on the changes of the world, by family

ASSUME TimeAssumption ==
    /\ {Interval, Timeout, Tolerance, MaxAge, MaxTime} \subseteq Nat
    /\ 0 < Interval /\ Interval <= Timeout /\ Timeout < MaxTime

VARIABLES
    family,       \* which observer runs
    world,        \* what each source would answer now
    now,          \* the observer's clock
    cancelled,    \* the context was cancelled
    changes,      \* changes of the world so far
    pc,           \* where the observer is
    deadline,     \* started plus Timeout
    wakeAt,       \* end of the current wait
    pass,         \* what the current pass has read, by source
    observedAt,   \* ObservedAt of the current snapshot
    first,        \* the result CollectBound already produced
    pendingSince, \* mvpWarmupPendingSince; 0 is the zero time
    last,         \* the last verified result, or NoResult
    outcome,      \* what Observe returned
    held,         \* ghost: sources that were sound at an instant of this pass
    warm,         \* ghost: when the evidences turned to warm-up, or Never
    newest        \* ghost: readiness of the newest verified evidence

sourceVars == <<world, changes>>
loopVars == <<pc, deadline, wakeAt>>
passVars == <<pass, observedAt, held>>
resultVars == <<first, pendingSince, last, warm, newest>>
vars == <<family, now, cancelled, outcome, sourceVars, loopVars, passVars, resultVars>>

-----------------------------------------------------------------------------
(* The world: what the API servers and the probe can answer. *)

Families == {"lifecycle", "network", "deferred", "platform", "aggregate"}
CapiConditions == {"InfrastructureReady", "ControlPlaneAvailable"}
ComponentOrder == <<"cilium-agent", "cilium-envoy", "cilium-operator">>
NetworkSources == {"hcp", "hrp", "nodes", "components", "pods", "probe"}
AppOrder == SetToSeq(Apps)
PlatformSources == Apps \cup {"capability"}
Sources == {"cluster"} \cup NetworkSources \cup PlatformSources

(* The profiles are validated: neither an empty node inventory nor an empty *)
(* list of Applications is observed.  The names given to the other sources *)
(* here are not names of Applications.                                     *)
ASSUME InventoryAssumption ==
    /\ IsFiniteSet(Nodes) /\ Nodes # {} /\ IsFiniteSet(Apps) /\ Apps # {}
    /\ Apps \cap ({"cluster", "capability"} \cup NetworkSources) = {}

NoResult == [ready |-> "none", reason |-> "none"]
Never == -1

(* A Cluster: its incarnation, whether it carries the intent revision, its *)
(* Conditions, and the Conditions observed at the current generation.      *)
SoundCluster == [uid |-> 1, revised |-> TRUE, fresh |-> CapiConditions,
                 status |-> [c \in CapiConditions |-> "True"]]
(* A HelmChartProxy or HelmReleaseProxy: spec and revisions as profiled,   *)
(* status of the current generation, target selected, Conditions True.     *)
SoundAddon == [uid |-> 1, owner |-> 1, revised |-> TRUE, exact |-> TRUE,
               observed |-> TRUE, selected |-> TRUE, ready |-> TRUE, deployed |-> TRUE]
SoundProbe == [kind |-> "answer", lag |-> 0, failed |-> FALSE, nodes |-> Nodes]
SoundApp == [exact |-> TRUE, revised |-> TRUE, applied |-> TRUE,
             synced |-> TRUE, health |-> "Healthy"]
SoundCapability == [bound |-> TRUE, lag |-> 0, passed |-> TRUE]
NodeRecords == {[uid |-> n, provider |-> n, up |-> TRUE] : n \in Nodes}
PodRecords == {[name |-> n, node |-> n, ready |-> TRUE] : n \in Nodes}

Sound ==
    [s \in Sources |->
        CASE s = "cluster" -> SoundCluster
          [] s = "hcp" -> SoundAddon
          [] s = "hrp" -> {SoundAddon}
          [] s = "nodes" -> NodeRecords
          [] s = "components" -> [c \in ToSet(ComponentOrder) |-> "ready"]
          [] s = "pods" -> PodRecords
          [] s = "probe" -> SoundProbe
          [] s = "capability" -> SoundCapability
          [] OTHER -> SoundApp]

(* The answers a source can change to.  An answer deviates in one respect  *)
(* at a time, so the order of the checks inside one list never matters.    *)
Alternatives(s) ==
    LET one == CHOOSE n \in Nodes : TRUE
    IN {Sound[s]} \cup
       CASE s = "cluster" ->
              {[SoundCluster EXCEPT !.uid = 2], [SoundCluster EXCEPT !.revised = FALSE],
               [SoundCluster EXCEPT !.fresh = {}]}
              \cup {[SoundCluster EXCEPT !.status["ControlPlaneAvailable"] = v]
                       : v \in {"False", "Unknown", "Absent"}}
         [] s = "hcp" ->
              {[SoundAddon EXCEPT !.uid = 2], [SoundAddon EXCEPT !.revised = FALSE],
               [SoundAddon EXCEPT !.exact = FALSE], [SoundAddon EXCEPT !.observed = FALSE],
               [SoundAddon EXCEPT !.selected = FALSE]}
         [] s = "hrp" ->
              {{}, {[SoundAddon EXCEPT !.owner = 2]}, {[SoundAddon EXCEPT !.ready = FALSE]},
               {[SoundAddon EXCEPT !.deployed = FALSE]},
               {SoundAddon, [SoundAddon EXCEPT !.uid = 2]}}
         [] s = "nodes" ->
              {{n \in NodeRecords : n.uid = one},
               {[n EXCEPT !.up = FALSE] : n \in NodeRecords},
               {[n EXCEPT !.provider = one] : n \in NodeRecords}}
         [] s = "components" ->
              {[Sound[s] EXCEPT !["cilium-envoy"] = v] : v \in {"rolling", "otherImage"}}
         [] s = "pods" ->
              {{}, {[p EXCEPT !.ready = FALSE] : p \in PodRecords},
               {[p EXCEPT !.node = one] : p \in PodRecords}}
         [] s = "probe" ->
              {[SoundProbe EXCEPT !.kind = k] : k \in {"pending", "exit", "malformed"}}
              \cup {[SoundProbe EXCEPT !.lag = MaxAge + 1], [SoundProbe EXCEPT !.failed = TRUE],
                    [SoundProbe EXCEPT !.nodes = {one}]}
         [] s = "capability" ->
              {[SoundCapability EXCEPT !.bound = FALSE], [SoundCapability EXCEPT !.passed = FALSE],
               [SoundCapability EXCEPT !.lag = MaxAge + 1]}
         [] OTHER ->
              {[SoundApp EXCEPT !.exact = FALSE], [SoundApp EXCEPT !.revised = FALSE],
               [SoundApp EXCEPT !.synced = FALSE], [SoundApp EXCEPT !.applied = FALSE]}
              \cup {[SoundApp EXCEPT !.health = h] : h \in {"Progressing", "Degraded"}}

-----------------------------------------------------------------------------
(* The evaluators: pure functions of what a pass p has read. *)

Verdict(status, reason) == [ready |-> status, reason |-> reason]

(* evaluateEvidence for one CAPI Condition. *)
EvaluateEvidence(cluster, c) ==
    IF cluster.status[c] = "Absent" THEN Verdict("Unknown", "RequiredEvidenceMissing")
    ELSE IF cluster.uid # 1 \/ ~cluster.revised THEN Verdict("Unknown", "RevisionCorrelationUnproven")
    ELSE IF c \notin cluster.fresh THEN Verdict("Unknown", "SourceObservationStale")
    ELSE Verdict(cluster.status[c], "SourceReason")

(* Evaluate: False over Unknown over True. *)
Aggregate(verdicts) ==
    IF \E v \in verdicts : v.ready = "False" THEN Verdict("False", "RequiredConditionFailed")
    ELSE IF \E v \in verdicts : v.ready = "Unknown"
         THEN CHOOSE v \in verdicts : v.ready = "Unknown"
         ELSE Verdict("True", "AllRequiredConditionsSatisfied")

EvaluateLifecycle(p) == Aggregate({EvaluateEvidence(p["cluster"], c) : c \in CapiConditions})

(* evaluateAddonSource for the HCP, which has no owner, or for its HRP. *)
EvaluateAddonSource(source, owned, notReady) ==
    IF ~source.exact \/ ~owned THEN Verdict("False", "IdentityMismatch")
    ELSE IF ~source.observed THEN Verdict("Unknown", notReady)
    ELSE IF ~source.selected THEN Verdict("False", "IdentityMismatch")
    ELSE IF ~source.ready THEN Verdict("Unknown", notReady)
    ELSE Verdict("True", "Ready")

EvaluateRelease(p) ==
    IF Cardinality(p["hrp"]) # 1 THEN Verdict("Unknown", "EnablementReleaseNotReady")
    ELSE LET hrp == CHOOSE r \in p["hrp"] : TRUE
             verdict == EvaluateAddonSource(hrp, hrp.owner = p["hcp"].uid, "EnablementReleaseNotReady")
         IN IF verdict.ready # "True" \/ hrp.deployed THEN verdict
            ELSE Verdict("Unknown", "EnablementReleaseNotReady")

EvaluateNodes(p) ==
    IF Cardinality(p["nodes"]) # Cardinality(Nodes) THEN Verdict("Unknown", "NodeInventoryNotReady")
    ELSE IF Cardinality({n.provider : n \in p["nodes"]}) # Cardinality(Nodes)
         THEN Verdict("False", "NodeIdentityInvalid")
    ELSE IF \E n \in p["nodes"] : ~n.up THEN Verdict("Unknown", "NodeNetworkNotReady")
    ELSE Verdict("True", "NodesReady")

(* Mutant: only the first verdict counts. *)
FirstVerdict(verdicts) == verdicts[1]

(* The first verdict that is not True decides. *)
FirstUnready(verdicts) ==
    LET unready == {i \in DOMAIN verdicts : verdicts[i].ready # "True"}
    IN IF unready = {} THEN Verdict("True", "Ready") ELSE verdicts[Min(unready)]

EvaluateComponent(state) ==
    CASE state = "rolling" -> Verdict("Unknown", "CiliumRolloutNotReady")
      [] state = "otherImage" -> Verdict("False", "CiliumImageMismatch")
      [] OTHER -> Verdict("True", "CiliumRolloutReady")

EvaluateComponents(p) ==
    FirstUnready([i \in DOMAIN ComponentOrder |-> EvaluateComponent(p["components"][ComponentOrder[i]])])

EvaluatePods(p) ==
    IF Cardinality(p["pods"]) # Cardinality(Nodes) \/ \E q \in p["pods"] : ~q.ready
    THEN Verdict("Unknown", "CiliumAgentPodsNotReady")
    ELSE IF {q.node : q \in p["pods"]} # {n.uid : n \in p["nodes"]}
         THEN Verdict("False", "CiliumNodeCoverageInvalid")
         ELSE Verdict("True", "CiliumAgentPodsReady")

(* The probe answer is dated against ObservedAt, taken before the workload *)
(* reads: an answer may lie ahead of it by at most the tolerance.          *)
EvaluateProbe(p, at) ==
    IF "probe" \notin DOMAIN p \/ p["probe"].kind = "pending"
    THEN Verdict("Unknown", "FunctionalProbePending")
    ELSE LET age == at - p["probe"].at
         IN IF age < -Tolerance \/ age > MaxAge THEN Verdict("False", "FunctionalProbeStale")
            ELSE IF p["probe"].nodes # {n.uid : n \in p["nodes"]}
                 THEN Verdict("False", "FunctionalProbeCoverageInvalid")
            ELSE IF p["probe"].failed THEN Verdict("False", "FunctionalProbeFailed")
            ELSE Verdict("True", "NetworkReady")

(* evaluateNetworkState: the first verdict that is not True. *)
EvaluateNetwork(p, at) ==
    LET hcp == EvaluateAddonSource(p["hcp"], TRUE, "EnablementOwnerNotReady")
    IN IF ~p["hcp"].revised THEN Verdict("Unknown", "RevisionCorrelationUnproven")
       ELSE IF hcp.ready # "True" THEN hcp
       ELSE IF EvaluateRelease(p).ready # "True" THEN EvaluateRelease(p)
       ELSE IF EvaluateNodes(p).ready # "True" THEN EvaluateNodes(p)
       ELSE IF EvaluateComponents(p).ready # "True" THEN EvaluateComponents(p)
       ELSE IF EvaluatePods(p).ready # "True" THEN EvaluatePods(p)
       ELSE EvaluateProbe(p, at)

EvaluateApplication(app) ==
    IF ~app.exact THEN Verdict("False", "PlatformApplicationIdentityMismatch")
    ELSE IF ~app.revised THEN Verdict("Unknown", "RevisionCorrelationUnproven")
    ELSE IF ~app.applied \/ ~app.synced \/ app.health = "Progressing"
         THEN Verdict("Unknown", "PlatformConvergencePending")
    ELSE IF app.health # "Healthy" THEN Verdict("False", "PlatformHealthFailed")
    ELSE Verdict("True", "PlatformApplicationsReady")

EvaluateApplications(p) ==
    FirstUnready([i \in DOMAIN AppOrder |-> EvaluateApplication(p[AppOrder[i]])])

EvaluateCapability(p, at) ==
    IF ~p["capability"].bound THEN Verdict("Unknown", "RevisionCorrelationUnproven")
    ELSE IF at - p["capability"].at \notin 0 .. MaxAge THEN Verdict("Unknown", "PlatformCapabilityStale")
    ELSE IF ~p["capability"].passed THEN Verdict("False", "PlatformCapabilityFailed")
    ELSE Verdict("True", "PlatformReady")

EvaluatePlatform(p, at) ==
    IF EvaluateApplications(p).ready # "True" THEN EvaluateApplications(p)
    ELSE EvaluateCapability(p, at)

-----------------------------------------------------------------------------
(* Which source a pass reads next: every collector opens the next authority *)
(* only when what it has read so far is ready for it.                       *)

AddonReadyForWorkloadCollection(p) ==
    /\ p["hcp"].observed /\ p["hcp"].selected /\ p["hcp"].ready
    /\ Cardinality(p["hrp"]) = 1
    /\ \A r \in p["hrp"] : r.observed /\ r.selected /\ r.owner = p["hcp"].uid /\ r.ready /\ r.deployed

RuntimeReadyForProbe(p) ==
    /\ p["nodes"] # {} /\ Cardinality(p["pods"]) = Cardinality(p["nodes"])
    /\ \A n \in p["nodes"] : n.up
    /\ \A c \in DOMAIN p["components"] : p["components"][c] # "rolling"
    /\ \A q \in p["pods"] : q.ready

ManagementReads == {"hcp", "hrp"}
WorkloadReads == {"nodes", "components", "pods"}

(* NetworkSourceCollector.Collect *)
NetworkReads(p) ==
    ManagementReads
    \cup (IF ManagementReads \subseteq DOMAIN p /\ AddonReadyForWorkloadCollection(p)
          THEN WorkloadReads
               \cup IF WorkloadReads \subseteq DOMAIN p /\ RuntimeReadyForProbe(p) THEN {"probe"} ELSE {}
          ELSE {})

(* PlatformSourceCollector.Observe *)
PlatformReads(p) ==
    Apps \cup IF Apps \subseteq DOMAIN p /\ EvaluateApplications(p).ready = "True"
              THEN {"capability"} ELSE {}

(* AggregateObserver.Observe over its lazily opened sources *)
AggregateReads(p, at) ==
    {"cluster"}
    \cup (IF "cluster" \in DOMAIN p /\ EvaluateLifecycle(p).ready = "True"
          THEN NetworkReads(p)
               \cup IF NetworkReads(p) \subseteq DOMAIN p /\ EvaluateNetwork(p, at).ready = "True"
                    THEN PlatformReads(p) ELSE {}
          ELSE {})

Reads(p) ==
    CASE family = "lifecycle" -> {"cluster"}
      [] family = "network" -> NetworkReads(p)
      [] family = "platform" -> PlatformReads(p)
      [] OTHER -> AggregateReads(p, observedAt)

ReadOrder == <<"cluster", "hcp", "hrp", "nodes", "components", "pods", "probe">>
             \o AppOrder \o <<"capability">>

(* At most one source: the first that is to be read and is not. *)
NextSource ==
    LET unread == Reads(pass) \ DOMAIN pass
        indices == {i \in DOMAIN ReadOrder : ReadOrder[i] \in unread}
    IN IF unread = {} THEN {} ELSE {ReadOrder[Min(indices)]}

(* What the reader makes of the answer; the probe and the capability carry *)
(* the time they were produced at.                                         *)
Reading(s) ==
    CASE s = "probe" -> [kind |-> world[s].kind, at |-> now - world[s].lag,
                         failed |-> world[s].failed, nodes |-> world[s].nodes]
      [] s = "capability" -> [bound |-> world[s].bound, at |-> now - world[s].lag,
                              passed |-> world[s].passed]
      [] OTHER -> world[s]

(* An answer that cannot be normalised is a terminal source error: a probe *)
(* or an agent Pod of a Node the Node list did not have.                   *)
Malformed(s) ==
    \/ /\ s = "probe"
       /\ \/ world[s].kind = "malformed"
          \/ /\ world[s].kind = "answer"
             /\ ~(world[s].nodes \subseteq {n.uid : n \in pass["nodes"]})
    \/ s = "pods" /\ \E q \in world[s] : q.node \notin {n.uid : n \in pass["nodes"]}

(* isMVPNetworkWarmup; the evaluator never produces its first reason, the   *)
(* HCP that is not ready yet is EnablementOwnerNotReady.                   *)
WarmupReasons ==
    [False |-> {"FunctionalProbeStale", "FunctionalProbeFailed"},
     Unknown |-> {"EnablementSourceNotReady", "EnablementReleaseNotReady", "NodeInventoryNotReady",
                  "NodeNetworkNotReady", "CiliumRolloutNotReady", "CiliumAgentPodsNotReady",
                  "FunctionalProbePending"},
     True |-> {}]
IsMVPNetworkWarmup(evidence) == evidence.reason \in WarmupReasons[evidence.ready]

(* mvpNetworkWarmupDeferralDelay *)
MvpNetworkWarmupDeferralDelay ==
    IF Interval <= 0 \/ Timeout < Interval THEN 0 ELSE Interval

(* Mutant: evidence that is no warm-up leaves the start of the delay. *)
PendingSinceKept(evidence) ==
    IF pendingSince = Never /\ IsMVPNetworkWarmup(evidence) THEN now ELSE pendingSince

(* networkPollingSource.Observe: since is mvpWarmupPendingSince after it.  *)
PendingSince(evidence) ==
    IF ~IsMVPNetworkWarmup(evidence) THEN Never
    ELSE IF pendingSince = Never THEN now ELSE pendingSince
DeferWarmup(evidence) ==
    IF IsMVPNetworkWarmup(evidence) /\ now >= PendingSince(evidence) + MvpNetworkWarmupDeferralDelay
    THEN Verdict("True", "MVPNetworkWarmupDeferred")
    ELSE evidence

(* AggregateObserver.evaluate over the evidence the pass collected. *)
EvaluateAggregate(p, at) ==
    LET lifecycle == EvaluateLifecycle(p)
        network == EvaluateNetwork(p, at)
    IN IF lifecycle.ready # "True" THEN lifecycle
       ELSE IF network.ready # "True" THEN network
       ELSE EvaluatePlatform(p, now)

-----------------------------------------------------------------------------
(* The sources a family depends on; changes behind others are invisible. *)
RequiredSources ==
    CASE family = "lifecycle" -> {"cluster"}
      [] family = "network" -> NetworkSources
      [] family = "platform" -> PlatformSources
      [] family = "aggregate" -> Sources
      [] OTHER -> {}

(* Ghosts: the sources that answered soundly at an instant of this pass. *)

SoundAnswer(s, w) ==
    CASE s = "hcp" -> [w[s] EXCEPT !.uid = 1] = SoundAddon
      [] s = "hrp" -> {[r EXCEPT !.owner = 1] : r \in w[s]} = {SoundAddon}
      [] s = "probe" -> [w[s] EXCEPT !.lag = 0] = SoundProbe
      [] OTHER -> w[s] = Sound[s]
SoundSources(w) == {s \in RequiredSources : SoundAnswer(s, w)}

-----------------------------------------------------------------------------
(* The environment. *)

(* A target whose add-on and Applications have not converged yet. *)
Unconverged ==
    [Sound EXCEPT !["hrp"] = {}, !["pods"] = {}, !["probe"].kind = "pending",
                  ![AppOrder[1]].health = "Progressing"]

Init ==
    /\ family \in Families
    /\ world \in {Sound, Unconverged} /\ changes = 0 /\ cancelled = FALSE
    /\ now = 0 /\ pc = "begin" /\ deadline = 0 /\ wakeAt = 0
    /\ pass = << >> /\ observedAt = 0 /\ held = {}
    /\ first = NoResult /\ pendingSince = Never /\ last = NoResult /\ outcome = NoResult
    /\ warm = Never /\ newest = "none"

(* A controller, a node or a person changes one object behind one source. *)
WorldChanges ==
    /\ pc # "done" /\ changes < MaxChanges[family]
    /\ \E s \in RequiredSources : \E answer \in Alternatives(s) \ {world[s]} :
           world' = [world EXCEPT ![s] = answer]
    /\ changes' = changes + 1
    /\ held' = IF pc = "waiting" THEN held ELSE held \cup SoundSources(world')
    /\ UNCHANGED <<family, now, cancelled, loopVars, pass, observedAt, outcome,
                   resultVars>>

Tick ==
    /\ pc # "done" /\ (pc = "begin" => first # NoResult) /\ (now < MaxTime \/ (pc = "waiting" /\ now < wakeAt))
    /\ now' = now + 1
    /\ UNCHANGED <<family, cancelled, outcome, sourceVars, loopVars, passVars, resultVars>>

(* Inside a pass a cancellation shows as the read it fails.                *)
Cancel ==
    /\ pc \in {"begin", "bind", "waiting"} /\ ~cancelled
    /\ cancelled' = TRUE
    /\ UNCHANGED <<family, now, outcome, sourceVars, loopVars, passVars, resultVars>>

-----------------------------------------------------------------------------
(* The observer. *)

Stop(reason) ==
    /\ pc' = "done" /\ outcome' = Verdict("error", reason)

(* The observer is called; the deferred network mode answers from the plan *)
(* alone, and the lifecycle observer first correlates the Cluster.         *)
Begin ==
    /\ pc = "begin"
    /\ IF family = "deferred"
       THEN /\ pc' = "done" /\ outcome' = Verdict("True", "MVPNetworkObservationDeferred")
            /\ UNCHANGED <<deadline>>
       ELSE IF family = "lifecycle" /\ first = NoResult
       THEN pc' = "bind" /\ UNCHANGED <<deadline, outcome>>
       ELSE IF cancelled THEN Stop("OBSERVATION_INTERRUPTED") /\ UNCHANGED deadline
       ELSE /\ pc' = "pass" /\ deadline' = now + Timeout /\ UNCHANGED outcome
    /\ pass' = << >>
    /\ held' = IF first = NoResult THEN SoundSources(world) ELSE held
    /\ UNCHANGED <<family, now, cancelled, sourceVars, wakeAt, observedAt, first, pendingSince,
                   last, warm, newest>>

(* CollectBound: one GET binds the incarnation named by the lifecycle       *)
(* receipt and yields the first result.                                    *)
BindTarget ==
    /\ pc = "bind"
    /\ \/ Stop("CORRELATION") /\ UNCHANGED first
       \/ /\ ~cancelled
          /\ IF world["cluster"].uid # 1
             THEN Stop("CORRELATION") /\ UNCHANGED first
             ELSE /\ first' = EvaluateLifecycle(world)
                  /\ pc' = "begin" /\ UNCHANGED outcome
    /\ UNCHANGED <<family, now, cancelled, sourceVars, deadline, wakeAt, passVars, pendingSince,
                   last, warm, newest>>

(* One read of the pass. *)
Read ==
    /\ pc = "pass" /\ first = NoResult
    /\ \E source \in NextSource :
           /\ ~Malformed(source)
           /\ ~(source = "probe" /\ world["probe"].kind = "exit")
           /\ pass' = [s \in DOMAIN pass \cup {source} |->
                          IF s = source THEN Reading(s) ELSE pass[s]]
           /\ observedAt' = IF source = "hrp" THEN now ELSE observedAt
    /\ UNCHANGED <<family, now, cancelled, outcome, sourceVars, loopVars, held, resultVars>>

AwaitNextPass ==
    /\ pc' = "waiting" /\ UNCHANGED outcome
    /\ wakeAt' = now + Min({Interval, deadline - now})
    /\ pass' = << >> /\ observedAt' = 0 /\ held' = {}

(* Mutant: a deadline met before any evidence returns the zero result. *)
RepollToZeroResult(result) ==
    IF now >= deadline
    THEN pc' = "done" /\ UNCHANGED <<wakeAt, passVars>> /\ outcome' = [result EXCEPT !.ready = "Unknown"]
    ELSE AwaitNextPass

(* Mutant: the deadline is never met. *)
RepollForEver(result) == AwaitNextPass

(* Poll decides after a verified result or a pollable error: at the         *)
(* deadline the last result is returned as it is, otherwise it waits.      *)
Repoll(result) ==
    IF now >= deadline
    THEN /\ pc' = "done" /\ UNCHANGED <<wakeAt, passVars>>
         /\ outcome' = IF result = NoResult THEN Verdict("error", "UNVERIFIED") ELSE result
    ELSE AwaitNextPass

(* A read fails: in transport, by status, in its schema, or cancelled.     *)
(* Only the network observer polls on.                                     *)
ContinuesOnError(transient) ==
    family = "network" /\ (last # NoResult \/ transient)

ReadFails(transient) ==
    /\ pc = "pass" /\ first = NoResult /\ NextSource # {}
    /\ \A source \in NextSource :
           /\ Malformed(source) => ~transient
           /\ (source = "probe" /\ world["probe"].kind = "exit") => transient
    /\ IF ContinuesOnError(transient) THEN Repoll(last)
       ELSE Stop("OBSERVATION_SOURCE_ERROR") /\ UNCHANGED <<wakeAt, passVars>>
    /\ UNCHANGED <<family, now, cancelled, sourceVars, deadline, first, pendingSince,
                   last, warm, newest>>

Evidence ==
    CASE family = "lifecycle" -> IF first # NoResult THEN first ELSE EvaluateLifecycle(pass)
      [] family = "network" -> EvaluateNetwork(pass, observedAt)
      [] family = "platform" -> EvaluatePlatform(pass, now)
      [] OTHER -> EvaluateAggregate(pass, observedAt)

ContinueOnFalse == family \in {"lifecycle", "network"}

(* The pass is complete: evaluate it and decide. *)
Evaluate ==
    /\ pc = "pass" /\ (first # NoResult \/ NextSource = {})
    /\ LET evidence == Evidence
           result == IF family = "network" THEN DeferWarmup(evidence) ELSE evidence
       IN /\ last' = result
          /\ pendingSince' = IF family = "network" THEN PendingSince(evidence) ELSE pendingSince
          /\ IF result.ready = "True" \/ (result.ready = "False" /\ ~ContinueOnFalse)
             THEN pc' = "done" /\ outcome' = result /\ UNCHANGED <<wakeAt, passVars>>
             ELSE Repoll(result)
          /\ newest' = evidence.ready
          /\ warm' = IF ~IsMVPNetworkWarmup(evidence) THEN Never
                     ELSE IF warm = Never THEN now ELSE warm
    /\ first' = NoResult
    /\ UNCHANGED <<family, now, cancelled, sourceVars, deadline>>

(* Wait returns at its time or when the context is cancelled. *)
Wake ==
    /\ pc = "waiting"
    /\ \/ /\ now >= wakeAt /\ ~cancelled
          /\ pc' = "pass" /\ UNCHANGED outcome
       \/ cancelled /\ Stop("OBSERVATION_INTERRUPTED")
    /\ pass' = << >> /\ held' = SoundSources(world)
    /\ UNCHANGED <<family, now, cancelled, sourceVars, deadline, wakeAt, observedAt, resultVars>>

(* Observe has returned. *)
Returned == pc = "done" /\ UNCHANGED vars

Observer == Begin \/ BindTarget \/ Read \/ (\E transient \in BOOLEAN : ReadFails(transient)) \/ Evaluate \/ Wake
Next == WorldChanges \/ Tick \/ Cancel \/ Observer \/ Returned

(* The goroutine is scheduled, requests end at the client's timeout, and    *)
(* the clock runs.                                                         *)
Fairness == WF_vars(Observer \/ Tick)
Spec == Init /\ [][Next]_vars /\ Fairness

-----------------------------------------------------------------------------
(* Properties. *)

Verified == outcome.ready \in {"True", "False", "Unknown"} /\ family # "deferred"

(* A True that no deferral produced rests on the deciding pass alone: every *)
(* required source, of the correlated Cluster incarnation, was sound at an *)
(* instant of that pass, however the world changed between its reads       *)
(* (NetworkSourceCollector.Collect, PlatformSourceCollector.Observe).      *)
SucceededRestsOnItsPass ==
    (Verified /\ outcome.ready = "True" /\ outcome.reason # "MVPNetworkWarmupDeferred")
        => RequiredSources \subseteq held

(* Observe returns the newest verified evidence, never an older one and     *)
(* never a result nobody verified: a deadline met before any evidence is   *)
(* an error (BoundedPollingObserver.Observe).                              *)
OutcomeIsNewest ==
    Verified => \/ outcome.ready = newest
                \/ outcome.reason = "MVPNetworkWarmupDeferred" /\ newest # "True"

(* A warm-up is deferred only when every evidence of a whole deferral delay *)
(* was warm-up; any other evidence starts the delay again.                 *)
DeferralWasContinuous ==
    outcome.reason = "MVPNetworkWarmupDeferred" =>
        warm # Never /\ now - warm >= MvpNetworkWarmupDeferralDelay

(* Every bounded observation returns: polling ends by its deadline. *)
EveryObservationEnds == <>(pc = "done")
=============================================================================
