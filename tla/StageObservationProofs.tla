----------------------- MODULE StageObservationProofs -----------------------
(* Proofs about StageObservation, for any inventory of nodes, any required  *)
(* Applications, any intervals, tolerances and ages, and a world that may   *)
(* change as often as it likes.                                             *)
EXTENDS StageObservation, FiniteSetTheorems, FunctionTheorems, WellFoundedInduction, TLAPS

-----------------------------------------------------------------------------
(* The inductive invariant.                                                 *)

Statuses == {"True", "False", "Unknown"}

(* What an evaluator returns: never the reason the deferral gives.          *)
IsEvidence(v) == v.ready \in Statuses /\ v.reason # "MVPNetworkWarmupDeferred"

Typed ==
    /\ family \in Families
    /\ now \in Nat
    /\ warm \in Nat \cup {Never}
    /\ DOMAIN world = Sources
    /\ \A s \in Sources : world[s] \in Alternatives(s)
    /\ (family = "deferred" => pc \in {"begin", "done"})
    /\ (pc = "bind" => family = "lifecycle")
    /\ (family = "network" => pendingSince = warm)

(* Until the observer returns, it holds no outcome, and the last result is  *)
(* the newest evidence, which was neither True nor deferred.                *)
LastIsNewest ==
    pc # "done" =>
        /\ outcome = NoResult
        /\ \/ last = NoResult
           \/ IsEvidence(last) /\ last.ready # "True" /\ last.ready = newest

(* The bound result of the lifecycle observer is evaluated before the first *)
(* wait, and stands on an instant of the same pass.                        *)
FirstKnows ==
    first # NoResult =>
        /\ family = "lifecycle" /\ pc # "waiting" /\ IsEvidence(first)
        /\ (first.ready = "True" => RequiredSources \subseteq held)

(* What is sound now was sound at an instant of this pass.                  *)
HeldNow ==
    (pc \in {"bind", "pass"} \/ (pc = "begin" /\ first # NoResult))
        => SoundSources(world) \subseteq held

(* A reading that passes its own check: sound, whatever its time, but for   *)
(* the capability, which dates itself.                                      *)
LooksSound(s, p) ==
    CASE s = "probe" -> p[s].kind = "answer" /\ ~p[s].failed /\ p[s].nodes = Nodes
      [] s = "capability" -> p[s].bound /\ p[s].passed /\ now - p[s].at <= MaxAge
      [] OTHER -> SoundAnswer(s, p)

(* What the pass has read is what the sources can answer, and what looks    *)
(* sound was sound when it was read.                                        *)
PassKnows ==
    \A s \in DOMAIN pass \cap RequiredSources :
        /\ s \notin {"probe", "capability"} => pass[s] \in Alternatives(s)
        /\ s = "probe" => pass[s].kind \in {"answer", "pending"}
        /\ s = "capability" => pass[s].at \in Int
        /\ LooksSound(s, pass) => s \in held

(* When Observe has returned.                                               *)
Concluded ==
    pc = "done" => SucceededRestsOnItsPass /\ OutcomeIsNewest /\ DeferralWasContinuous

PInv == Typed /\ LastIsNewest /\ FirstKnows /\ HeldNow /\ PassKnows /\ Concluded

-----------------------------------------------------------------------------
(* Least elements and lists.                                                *)

(* A nonempty set of positions has a least one: the intervals up to its     *)
(* members are finite, and strict inclusion of finite sets is well founded. *)
LEMMA LeastExists ==
    ASSUME NEW n \in Nat, NEW S, S \subseteq 1 .. n, S # {}
    PROVE  Min(S) \in S
  <1> DEFINE T == {1 .. i : i \in S}
             R == StrictSubsetOrdering(1 .. n)
  <1>1. IsFiniteSet(1 .. n)
    BY FS_Interval
  <1>2. IsWellFoundedOn(R, FiniteSubsetsOf(1 .. n))
    BY FS_StrictSubsetOrderingWellFounded
  <1>3. FiniteSubsetsOf(1 .. n) = SUBSET (1 .. n)
    BY <1>1, FS_FiniteSubsetsOfFinite
  <1>4. T \subseteq SUBSET (1 .. n) /\ T # {}
    <2>1. \A i \in S : 1 .. i \subseteq 1 .. n
      OBVIOUS
    <2>2. PICK i \in S : TRUE
      OBVIOUS
    <2>3. 1 .. i \in T
      OBVIOUS
    <2> QED  BY <2>1, <2>3
  <1>5. PICK x \in T : \A y \in T : <<y, x>> \notin R
    <2> HIDE DEF T, R
    <2>1. IsWellFoundedOn(R, SUBSET (1 .. n))
      BY <1>2, <1>3
    <2>2. ASSUME NEW P, IsWellFoundedOn(R, P), T \subseteq P
          PROVE  \E x \in T : \A y \in T : <<y, x>> \notin R
      BY <1>4, <2>2, WFMin
    <2> QED  BY <1>4, <2>1, <2>2, Zenon
  <1>6. PICK m \in S : x = 1 .. m
    OBVIOUS
  <1>7. \A i \in S : m <= i
    <2> SUFFICES ASSUME NEW i \in S, i < m
                 PROVE  FALSE
      OBVIOUS
    <2>1. (1 .. i) \in T /\ (1 .. i) \subseteq (1 .. m) /\ m \in 1 .. m /\ m \notin 1 .. i
      OBVIOUS
    <2>2. <<1 .. i, x>> \in R
      BY <2>1, <1>6, <1>4 DEF StrictSubsetOrdering
    <2> QED  BY <2>1, <2>2, <1>5
  <1> QED  BY <1>7 DEF Min

(* The list of a finite set has every member of it.                         *)
LEMMA ListCovers ==
    ASSUME NEW S, IsFiniteSet(S)
    PROVE  /\ Cardinality(S) \in Nat
           /\ SetToSeq(S) \in [1 .. Cardinality(S) -> S]
           /\ \A x \in S : \E i \in 1 .. Cardinality(S) : SetToSeq(S)[i] = x
  <1> DEFINE n == Cardinality(S)
             f == SetToSeq(S)
  <1>1. n \in Nat /\ ExistsBijection(1 .. n, S)
    BY FS_CardinalityType
  <1>2. PICK g : g \in Bijection(1 .. n, S)
    BY <1>1 DEF ExistsBijection
  <1>3. g \in [1 .. n -> S] /\ IsInjective(g)
    BY <1>2 DEF Bijection, Injection, IsInjective
  <1>4. f \in [1 .. n -> S] /\ IsInjective(f)
    BY <1>3 DEF SetToSeq
  <1>5. f \in Injection(1 .. n, S)
    BY <1>4 DEF Injection, IsInjective
  <1>6. IsFiniteSet(1 .. n) /\ Cardinality(1 .. n) = n
    BY <1>1, FS_Interval
  <1>7. f \in Surjection(1 .. n, S)
    BY <1>5, <1>6, FS_Injection
  <1> QED  BY <1>1, <1>4, <1>7 DEF Surjection

(* The first verdict that is not True decides: the result is one of the     *)
(* verdicts, or True, and it is True only if all of them are.              *)
LEMMA FirstUnreadyDecides ==
    ASSUME NEW n \in Nat, NEW verdicts, DOMAIN verdicts = 1 .. n,
           \A i \in 1 .. n : IsEvidence(verdicts[i])
    PROVE  /\ IsEvidence(FirstUnready(verdicts))
           /\ FirstUnready(verdicts).ready = "True" => \A i \in 1 .. n : verdicts[i].ready = "True"
  <1> DEFINE unready == {i \in DOMAIN verdicts : verdicts[i].ready # "True"}
  <1>1. CASE unready = {}
    BY <1>1 DEF FirstUnready, IsEvidence, Statuses, Verdict
  <1>2. CASE unready # {}
    <2>1. Min(unready) \in unready
      BY <1>2, LeastExists
    <2>2. FirstUnready(verdicts) = verdicts[Min(unready)]
      BY <1>2 DEF FirstUnready
    <2> QED  BY <2>1, <2>2
  <1> QED  BY <1>1, <1>2

-----------------------------------------------------------------------------
(* What the sources can answer, and which of their answers are sound.       *)

LEMMA SourcesApart ==
    \A a \in Apps : /\ a \notin {"cluster", "capability"} \cup NetworkSources
                    /\ a \in Sources /\ a \in PlatformSources
  BY InventoryAssumption DEF Sources, PlatformSources

LEMMA SoundValues ==
    /\ Sound["cluster"] = SoundCluster /\ Sound["hcp"] = SoundAddon
    /\ Sound["hrp"] = {SoundAddon} /\ Sound["nodes"] = NodeRecords
    /\ Sound["components"] = [c \in ToSet(ComponentOrder) |-> "ready"]
    /\ Sound["pods"] = PodRecords /\ Sound["probe"] = SoundProbe
    /\ Sound["capability"] = SoundCapability
    /\ \A a \in Apps : Sound[a] = SoundApp
  <1>1. {"cluster", "capability"} \cup NetworkSources \subseteq Sources
    BY DEF Sources, PlatformSources
  <1>2. \A a \in Apps : Sound[a] = SoundApp
    BY SourcesApart DEF Sound, NetworkSources
  <1> QED  BY <1>1, <1>2 DEF Sound, NetworkSources

LEMMA ClusterAnswers ==
    ASSUME NEW w \in Alternatives("cluster")
    PROVE  /\ \A c \in CapiConditions : w.status[c] \in Statuses \cup {"Absent"}
           /\ (w.uid = 1 /\ w.revised /\ w.fresh # {}
                 /\ w.status["ControlPlaneAvailable"] = "True") => w = SoundCluster
  <1>1. w \in {SoundCluster, [SoundCluster EXCEPT !.uid = 2], [SoundCluster EXCEPT !.revised = FALSE],
               [SoundCluster EXCEPT !.fresh = {}]}
              \cup {[SoundCluster EXCEPT !.status["ControlPlaneAvailable"] = v]
                       : v \in {"False", "Unknown", "Absent"}}
    BY SoundValues DEF Alternatives
  <1>2. CASE w = [SoundCluster EXCEPT !.uid = 2]
    BY <1>2 DEF SoundCluster, CapiConditions, Statuses
  <1>3. CASE w = [SoundCluster EXCEPT !.revised = FALSE]
    BY <1>3 DEF SoundCluster, CapiConditions, Statuses
  <1>4. CASE w = [SoundCluster EXCEPT !.fresh = {}]
    BY <1>4 DEF SoundCluster, CapiConditions, Statuses
  <1>5. ASSUME NEW v \in {"False", "Unknown", "Absent"},
               w = [SoundCluster EXCEPT !.status["ControlPlaneAvailable"] = v]
        PROVE  /\ w.status["ControlPlaneAvailable"] = v
               /\ w.status["InfrastructureReady"] = "True"
    BY <1>5 DEF SoundCluster, CapiConditions
  <1>6. CASE w = SoundCluster
    BY <1>6 DEF SoundCluster, CapiConditions, Statuses
  <1> QED  BY <1>1, <1>2, <1>3, <1>4, <1>5, <1>6 DEF CapiConditions, Statuses

(* An add-on source that is sound but for its identity and its owner.       *)
AddonOf(u, o) ==
    [uid |-> u, owner |-> o, revised |-> TRUE, exact |-> TRUE,
     observed |-> TRUE, selected |-> TRUE, ready |-> TRUE, deployed |-> TRUE]

LEMMA AddonFields ==
    ASSUME NEW r, NEW u, NEW o, NEW v, r = AddonOf(u, o)
    PROVE  [r EXCEPT !.uid = v] = AddonOf(v, o) /\ [r EXCEPT !.owner = v] = AddonOf(u, v)
  <1>1. ASSUME NEW q, q = [r EXCEPT !.uid = v]
        PROVE  q = AddonOf(v, o)
    BY <1>1 DEF AddonOf
  <1>2. ASSUME NEW q, q = [r EXCEPT !.owner = v]
        PROVE  q = AddonOf(u, v)
    BY <1>2 DEF AddonOf
  <1> QED  BY <1>1, <1>2

LEMMA AddonRestored ==
    /\ [SoundAddon EXCEPT !.uid = 1] = SoundAddon
    /\ [SoundAddon EXCEPT !.owner = 1] = SoundAddon
    /\ [[SoundAddon EXCEPT !.uid = 2] EXCEPT !.uid = 1] = SoundAddon
    /\ [[SoundAddon EXCEPT !.owner = 2] EXCEPT !.owner = 1] = SoundAddon
  <1>1. SoundAddon = AddonOf(1, 1)
    BY DEF SoundAddon, AddonOf
  <1>2. [SoundAddon EXCEPT !.uid = 1] = SoundAddon /\ [SoundAddon EXCEPT !.owner = 1] = SoundAddon
    BY <1>1, AddonFields
  <1>3. [SoundAddon EXCEPT !.uid = 2] = AddonOf(2, 1) /\ [SoundAddon EXCEPT !.owner = 2] = AddonOf(1, 2)
    BY <1>1, AddonFields
  <1>4. [AddonOf(2, 1) EXCEPT !.uid = 1] = SoundAddon /\ [AddonOf(1, 2) EXCEPT !.owner = 1] = SoundAddon
    BY <1>1, AddonFields
  <1> QED  BY <1>2, <1>3, <1>4

LEMMA HcpAnswers ==
    ASSUME NEW p, p["hcp"] \in Alternatives("hcp"), p["hcp"].exact, p["hcp"].observed,
           p["hcp"].selected, p["hcp"].ready, p["hcp"].revised
    PROVE  SoundAnswer("hcp", p)
  <1> DEFINE w == p["hcp"]
  <1>1. w \in {SoundAddon, [SoundAddon EXCEPT !.uid = 2], [SoundAddon EXCEPT !.revised = FALSE],
               [SoundAddon EXCEPT !.exact = FALSE], [SoundAddon EXCEPT !.observed = FALSE],
               [SoundAddon EXCEPT !.selected = FALSE]}
    BY SoundValues DEF Alternatives
  <1>2. w \in {SoundAddon, [SoundAddon EXCEPT !.uid = 2]}
    BY <1>1 DEF SoundAddon
  <1>3. [w EXCEPT !.uid = 1] = SoundAddon
    BY <1>2, AddonRestored
  <1> QED  BY <1>3 DEF SoundAnswer

LEMMA HrpAnswers ==
    ASSUME NEW p, p["hrp"] \in Alternatives("hrp"), Cardinality(p["hrp"]) = 1,
           \A r \in p["hrp"] : r.ready /\ r.deployed
    PROVE  SoundAnswer("hrp", p)
  <1> DEFINE w == p["hrp"]
  <1>1. w \in {{SoundAddon}, {}, {[SoundAddon EXCEPT !.owner = 2]}, {[SoundAddon EXCEPT !.ready = FALSE]},
               {[SoundAddon EXCEPT !.deployed = FALSE]},
               {SoundAddon, [SoundAddon EXCEPT !.uid = 2]}}
    BY SoundValues DEF Alternatives
  <1>2. w # {}
    BY FS_EmptySet
  <1>3. w # {SoundAddon, [SoundAddon EXCEPT !.uid = 2]}
    <2>1. SoundAddon # [SoundAddon EXCEPT !.uid = 2]
      BY DEF SoundAddon
    <2> DEFINE other == [SoundAddon EXCEPT !.uid = 2]
    <2>2. ~\E x : {SoundAddon, other} = {x}
      <3> HIDE DEF other
      <3> QED  BY <2>1 DEF other
    <2>3. IsFiniteSet({SoundAddon, other})
      <3> HIDE DEF other
      <3>1. IsFiniteSet({SoundAddon}) /\ {SoundAddon, other} = {SoundAddon} \cup {other}
        BY FS_Singleton
      <3> QED  BY <3>1, FS_AddElement
    <2> QED  BY <2>2, <2>3, FS_Singleton
  <1>4. w = {SoundAddon} \/ w = {[SoundAddon EXCEPT !.owner = 2]}
    BY <1>1, <1>2, <1>3 DEF SoundAddon
  <1>5. {[r EXCEPT !.owner = 1] : r \in w} = {SoundAddon}
    <2> DEFINE owned(r) == [r EXCEPT !.owner = 1]
               other == [SoundAddon EXCEPT !.owner = 2]
    <2>1. owned(SoundAddon) = SoundAddon /\ owned(other) = SoundAddon
      BY AddonRestored
    <2>2. w = {SoundAddon} \/ w = {other}
      BY <1>4
    <2> HIDE DEF owned, other
    <2>3. {owned(r) : r \in w} = {SoundAddon}
      BY <2>1, <2>2
    <2> QED  BY <2>3 DEF owned
  <1> QED  BY <1>5 DEF SoundAnswer

LEMMA PairFinite ==
    ASSUME NEW x, NEW y
    PROVE  IsFiniteSet({x}) /\ IsFiniteSet({x, y})
  <1>1. {x, y} = {x} \cup {y}
    OBVIOUS
  <1>2. IsFiniteSet({x})
    BY FS_Singleton
  <1>3. IsFiniteSet({x} \cup {y})
    BY <1>2, FS_AddElement
  <1> QED  BY <1>1, <1>2, <1>3

LEMMA AddonsFinite ==
    ASSUME NEW w \in Alternatives("hrp")
    PROVE  IsFiniteSet(w)
  <1> DEFINE a == [SoundAddon EXCEPT !.owner = 2]
             b == [SoundAddon EXCEPT !.ready = FALSE]
             c == [SoundAddon EXCEPT !.deployed = FALSE]
             d == [SoundAddon EXCEPT !.uid = 2]
  <1>1. w \in {{SoundAddon}, {}, {a}, {b}, {c}, {SoundAddon, d}}
    BY SoundValues DEF Alternatives
  <1> HIDE DEF a, b, c, d
  <1>2. /\ IsFiniteSet({SoundAddon}) /\ IsFiniteSet({a}) /\ IsFiniteSet({b})
        /\ IsFiniteSet({c}) /\ IsFiniteSet({SoundAddon, d})
    BY PairFinite
  <1> QED  BY <1>1, <1>2, FS_EmptySet

LEMMA OneNode ==
    ASSUME Cardinality(Nodes) = 1, NEW one \in Nodes
    PROVE  Nodes = {one}
  <1>1. PICK x : Nodes = {x}
    BY FS_Singleton, InventoryAssumption
  <1> QED  BY <1>1

LEMMA RecordFields ==
    ASSUME NEW n, NEW m
    PROVE  /\ \A r : r = [uid |-> n, provider |-> n, up |-> TRUE] =>
                  /\ ~[r EXCEPT !.up = FALSE].up
                  /\ [r EXCEPT !.provider = m].provider = m
                  /\ [r EXCEPT !.provider = n] = r
           /\ \A r : r = [name |-> n, node |-> n, ready |-> TRUE] =>
                  /\ ~[r EXCEPT !.ready = FALSE].ready
                  /\ [r EXCEPT !.node = m].node = m
                  /\ [r EXCEPT !.node = n] = r
  OBVIOUS

LEMMA NodesAnswers ==
    ASSUME NEW w \in Alternatives("nodes"), Cardinality(w) = Cardinality(Nodes),
           Cardinality({n.provider : n \in w}) = Cardinality(Nodes), \A n \in w : n.up
    PROVE  w = NodeRecords
  <1> DEFINE one == CHOOSE n \in Nodes : TRUE
             rec(n) == [uid |-> n, provider |-> n, up |-> TRUE]
             down(r) == [r EXCEPT !.up = FALSE]
             same(r) == [r EXCEPT !.provider = one]
  <1>1. one \in Nodes
    BY InventoryAssumption
  <1>2. w \in {NodeRecords, {n \in NodeRecords : n.uid = one},
               {down(n) : n \in NodeRecords}, {same(n) : n \in NodeRecords}}
    BY SoundValues DEF Alternatives
  <1>3. NodeRecords = {rec(n) : n \in Nodes}
    BY DEF NodeRecords
  <1>4. \A n : rec(n).uid = n /\ rec(n).provider = n
    OBVIOUS
  <1>5. \A n \in Nodes : ~down(rec(n)).up /\ same(rec(n)).provider = one
    BY RecordFields
  <1>6. same(rec(one)) = rec(one)
    <2> HIDE DEF one
    <2> QED  BY RecordFields
  <1> HIDE DEF one, rec, down, same
  <1>7. CASE w = {n \in NodeRecords : n.uid = one}
    <2>1. w = {rec(one)}
      BY <1>1, <1>3, <1>4, <1>7
    <2>2. Nodes = {one}
      BY <1>1, <2>1, FS_Singleton, OneNode
    <2> QED  BY <1>3, <2>1, <2>2
  <1>8. ASSUME w = {down(n) : n \in NodeRecords}
        PROVE  FALSE
    BY <1>1, <1>3, <1>5, <1>8
  <1>9. CASE w = {same(n) : n \in NodeRecords}
    <2>1. {n.provider : n \in w} = {one}
      BY <1>1, <1>3, <1>5, <1>9
    <2>2. Nodes = {one}
      BY <1>1, <2>1, FS_Singleton, OneNode
    <2>3. NodeRecords = {rec(one)}
      BY <1>3, <2>2
    <2> QED  BY <1>6, <1>9, <2>3
  <1> QED  BY <1>2, <1>7, <1>8, <1>9

LEMMA ComponentsAnswers ==
    ASSUME NEW w \in Alternatives("components"),
           \A c \in ToSet(ComponentOrder) : EvaluateComponent(w[c]).ready = "True"
    PROVE  w = Sound["components"]
  <1> DEFINE names == {"cilium-agent", "cilium-envoy", "cilium-operator"}
  <1>1. ToSet(ComponentOrder) = names
    BY DEF ToSet, ComponentOrder
  <1>2. Sound["components"] = [c \in names |-> "ready"]
    BY <1>1, SoundValues
  <1>3. ASSUME NEW v \in {"rolling", "otherImage"}, w = [Sound["components"] EXCEPT !["cilium-envoy"] = v]
        PROVE  FALSE
    <2>1. w["cilium-envoy"] = v
      BY <1>2, <1>3
    <2>2. EvaluateComponent(v).ready # "True"
      BY DEF EvaluateComponent, Verdict
    <2> QED  BY <1>1, <2>1, <2>2
  <1>4. w \in {Sound["components"]} \cup {[Sound["components"] EXCEPT !["cilium-envoy"] = v] : v \in {"rolling", "otherImage"}}
    BY DEF Alternatives
  <1> QED  BY <1>3, <1>4

LEMMA PodsAnswers ==
    ASSUME NEW w \in Alternatives("pods"), Cardinality(w) = Cardinality(Nodes),
           \A q \in w : q.ready, {q.node : q \in w} = Nodes
    PROVE  w = PodRecords
  <1> DEFINE one == CHOOSE n \in Nodes : TRUE
             rec(n) == [name |-> n, node |-> n, ready |-> TRUE]
             down(r) == [r EXCEPT !.ready = FALSE]
             same(r) == [r EXCEPT !.node = one]
  <1>1. one \in Nodes
    BY InventoryAssumption
  <1>2. w \in {PodRecords, {}, {down(q) : q \in PodRecords}, {same(q) : q \in PodRecords}}
    BY SoundValues DEF Alternatives
  <1>3. PodRecords = {rec(n) : n \in Nodes}
    BY DEF PodRecords
  <1>4. \A n \in Nodes : ~down(rec(n)).ready /\ same(rec(n)).node = one
    BY RecordFields
  <1>5. same(rec(one)) = rec(one)
    <2> HIDE DEF one
    <2> QED  BY RecordFields
  <1> HIDE DEF one, rec, down, same
  <1>6. w # {}
    BY <1>1
  <1>7. ASSUME w = {down(q) : q \in PodRecords}
        PROVE  FALSE
    BY <1>1, <1>3, <1>4, <1>7
  <1>8. CASE w = {same(q) : q \in PodRecords}
    <2>1. {q.node : q \in w} = {one}
      BY <1>1, <1>3, <1>4, <1>8
    <2>2. PodRecords = {rec(one)}
      BY <1>3, <2>1
    <2> QED  BY <1>5, <1>8, <2>2
  <1> QED  BY <1>2, <1>6, <1>7, <1>8

LEMMA ProbeAnswers ==
    ASSUME NEW w \in Alternatives("probe")
    PROVE  /\ w.kind \in {"answer", "pending", "exit", "malformed"}
           /\ (w.kind = "answer" /\ ~w.failed /\ w.nodes = Nodes)
                => [w EXCEPT !.lag = 0] = SoundProbe
  <1> DEFINE one == CHOOSE n \in Nodes : TRUE
  <1>1. w \in {SoundProbe} \cup {[SoundProbe EXCEPT !.kind = k] : k \in {"pending", "exit", "malformed"}}
              \cup {[SoundProbe EXCEPT !.lag = MaxAge + 1], [SoundProbe EXCEPT !.failed = TRUE],
                    [SoundProbe EXCEPT !.nodes = {one}]}
    BY SoundValues DEF Alternatives
  <1> HIDE DEF one
  <1>3. CASE w = SoundProbe
    <2>1. ASSUME NEW q, q = [w EXCEPT !.lag = 0]
          PROVE  q = SoundProbe
      BY <2>1, <1>3 DEF SoundProbe
    <2>2. w.kind = "answer"
      BY <1>3 DEF SoundProbe
    <2> QED  BY <2>1, <2>2
  <1>4. ASSUME NEW k \in {"pending", "exit", "malformed"}, w = [SoundProbe EXCEPT !.kind = k]
        PROVE  w.kind = k
    BY <1>4 DEF SoundProbe
  <1>5. CASE w = [SoundProbe EXCEPT !.lag = MaxAge + 1]
    <2>1. w.kind = "answer"
      BY <1>5 DEF SoundProbe
    <2>2. ASSUME NEW q, q = [w EXCEPT !.lag = 0]
          PROVE  q = SoundProbe
      BY <2>2, <1>5 DEF SoundProbe
    <2> QED  BY <2>1, <2>2
  <1>6. ASSUME w = [SoundProbe EXCEPT !.failed = TRUE]
        PROVE  w.kind = "answer" /\ w.failed
    BY <1>6 DEF SoundProbe
  <1>7. CASE w = [SoundProbe EXCEPT !.nodes = {one}]
    <2>1. w.kind = "answer" /\ w.nodes = {one}
      BY <1>7 DEF SoundProbe
    <2>2. ASSUME NEW q, q = [w EXCEPT !.lag = 0], {one} = Nodes
          PROVE  q = SoundProbe
      BY <2>2, <1>7 DEF SoundProbe
    <2> QED  BY <2>1, <2>2
  <1> QED  BY <1>1, <1>3, <1>4, <1>5, <1>6, <1>7

LEMMA CapabilityAnswers ==
    ASSUME NEW w \in Alternatives("capability")
    PROVE  /\ w.lag \in Nat
           /\ (w.bound /\ w.passed /\ w.lag <= MaxAge) => w = SoundCapability
  <1>1. w \in {SoundCapability, [SoundCapability EXCEPT !.bound = FALSE],
               [SoundCapability EXCEPT !.passed = FALSE], [SoundCapability EXCEPT !.lag = MaxAge + 1]}
    BY SoundValues DEF Alternatives
  <1>2. MaxAge \in Nat
    BY TimeAssumption
  <1>3. SoundCapability.lag = 0
    BY DEF SoundCapability
  <1>4. ASSUME w = [SoundCapability EXCEPT !.bound = FALSE]
        PROVE  w.lag = 0 /\ ~w.bound
    BY <1>4 DEF SoundCapability
  <1>5. ASSUME w = [SoundCapability EXCEPT !.passed = FALSE]
        PROVE  w.lag = 0 /\ ~w.passed
    BY <1>5 DEF SoundCapability
  <1>6. ASSUME w = [SoundCapability EXCEPT !.lag = MaxAge + 1]
        PROVE  w.lag = MaxAge + 1
    BY <1>6 DEF SoundCapability
  <1> QED  BY <1>1, <1>2, <1>3, <1>4, <1>5, <1>6

LEMMA AppAnswers ==
    ASSUME NEW a \in Apps, NEW w \in Alternatives(a), EvaluateApplication(w).ready = "True"
    PROVE  w = SoundApp
  <1>1. w \in {SoundApp, [SoundApp EXCEPT !.exact = FALSE], [SoundApp EXCEPT !.revised = FALSE],
               [SoundApp EXCEPT !.synced = FALSE], [SoundApp EXCEPT !.applied = FALSE]}
              \cup {[SoundApp EXCEPT !.health = h] : h \in {"Progressing", "Degraded"}}
    BY SoundValues, SourcesApart DEF Alternatives, NetworkSources
  <1>2. w.exact /\ w.revised /\ w.applied /\ w.synced /\ w.health = "Healthy"
    BY DEF EvaluateApplication, Verdict
  <1>3. ASSUME NEW h \in {"Progressing", "Degraded"}, w = [SoundApp EXCEPT !.health = h]
        PROVE  w.health = h
    BY <1>3 DEF SoundApp
  <1>4. /\ w = [SoundApp EXCEPT !.exact = FALSE] => ~w.exact
        /\ w = [SoundApp EXCEPT !.revised = FALSE] => ~w.revised
        /\ w = [SoundApp EXCEPT !.synced = FALSE] => ~w.synced
        /\ w = [SoundApp EXCEPT !.applied = FALSE] => ~w.applied
    BY DEF SoundApp
  <1> QED  BY <1>1, <1>2, <1>3, <1>4

-----------------------------------------------------------------------------
(* What the evaluators return, and on what a True of theirs rests.          *)

LEMMA LifecycleVerdict ==
    ASSUME NEW p, p["cluster"] \in Alternatives("cluster")
    PROVE  /\ IsEvidence(EvaluateLifecycle(p))
           /\ EvaluateLifecycle(p).ready = "True" => SoundAnswer("cluster", p)
  <1> DEFINE w == p["cluster"]
             verdicts == {EvaluateEvidence(w, c) : c \in CapiConditions}
  <1>1. \A c \in CapiConditions : IsEvidence(EvaluateEvidence(w, c))
    BY ClusterAnswers DEF EvaluateEvidence, Verdict, IsEvidence, Statuses
  <1>2. \A v \in verdicts : IsEvidence(v)
    BY <1>1
  <1>3. EvaluateLifecycle(p) = Aggregate(verdicts)
    BY DEF EvaluateLifecycle
  <1>4. /\ IsEvidence(Aggregate(verdicts))
        /\ Aggregate(verdicts).ready = "True" => \A v \in verdicts : v.ready = "True"
    <2> HIDE DEF verdicts
    <2> QED  BY <1>2 DEF Aggregate, IsEvidence, Statuses, Verdict
  <1>5. ASSUME \A c \in CapiConditions : EvaluateEvidence(w, c).ready = "True"
        PROVE  w = SoundCluster
    <2>1. \A c \in CapiConditions :
              w.uid = 1 /\ w.revised /\ c \in w.fresh /\ w.status[c] = "True"
      BY <1>5 DEF EvaluateEvidence, Verdict
    <2> QED  BY <2>1, ClusterAnswers DEF CapiConditions
  <1>6. w = SoundCluster => SoundAnswer("cluster", p)
    BY SoundValues DEF SoundAnswer
  <1>7. (\A v \in verdicts : v.ready = "True")
            => \A c \in CapiConditions : EvaluateEvidence(w, c).ready = "True"
    OBVIOUS
  <1> QED  BY <1>3, <1>4, <1>5, <1>6, <1>7

LEMMA AddonVerdict ==
    ASSUME NEW source, NEW owned, NEW notReady, notReady # "MVPNetworkWarmupDeferred"
    PROVE  LET v == EvaluateAddonSource(source, owned, notReady)
           IN /\ IsEvidence(v)
              /\ v.ready = "True" =>
                    source.exact /\ owned /\ source.observed /\ source.selected /\ source.ready
  BY DEF EvaluateAddonSource, Verdict, IsEvidence, Statuses

LEMMA ReleaseVerdict ==
    ASSUME NEW p
    PROVE  /\ IsEvidence(EvaluateRelease(p))
           /\ EvaluateRelease(p).ready = "True" =>
                 /\ Cardinality(p["hrp"]) = 1
                 /\ LET hrp == CHOOSE r \in p["hrp"] : TRUE
                    IN /\ hrp.owner = p["hcp"].uid /\ hrp.observed /\ hrp.selected
                       /\ hrp.ready /\ hrp.deployed
  <1> DEFINE hrp == CHOOSE r \in p["hrp"] : TRUE
             verdict == EvaluateAddonSource(hrp, hrp.owner = p["hcp"].uid, "EnablementReleaseNotReady")
  <1>1. /\ IsEvidence(verdict)
        /\ verdict.ready = "True" =>
              hrp.owner = p["hcp"].uid /\ hrp.observed /\ hrp.selected /\ hrp.ready
    <2> HIDE DEF hrp
    <2> QED  BY DEF EvaluateAddonSource, Verdict, IsEvidence, Statuses
  <1>2. EvaluateRelease(p) =
            IF Cardinality(p["hrp"]) # 1 THEN Verdict("Unknown", "EnablementReleaseNotReady")
            ELSE IF verdict.ready # "True" \/ hrp.deployed THEN verdict
            ELSE Verdict("Unknown", "EnablementReleaseNotReady")
    BY DEF EvaluateRelease
  <1>3. LET v == Verdict("Unknown", "EnablementReleaseNotReady")
        IN IsEvidence(v) /\ v.ready # "True"
    BY DEF Verdict, IsEvidence, Statuses
  <1> HIDE DEF verdict
  <1>4. IsEvidence(EvaluateRelease(p))
    BY <1>1, <1>2, <1>3
  <1>5. EvaluateRelease(p).ready = "True" =>
            Cardinality(p["hrp"]) = 1 /\ verdict.ready = "True" /\ hrp.deployed
    BY <1>2, <1>3
  <1> QED  BY <1>1, <1>4, <1>5

LEMMA NodesVerdict ==
    ASSUME NEW p
    PROVE  /\ IsEvidence(EvaluateNodes(p))
           /\ EvaluateNodes(p).ready = "True" =>
                 /\ Cardinality(p["nodes"]) = Cardinality(Nodes)
                 /\ Cardinality({n.provider : n \in p["nodes"]}) = Cardinality(Nodes)
                 /\ \A n \in p["nodes"] : n.up
  BY DEF EvaluateNodes, Verdict, IsEvidence, Statuses

LEMMA ComponentVerdicts ==
    ASSUME NEW p
    PROVE  /\ IsEvidence(EvaluateComponents(p))
           /\ EvaluateComponents(p).ready = "True" =>
                 \A c \in ToSet(ComponentOrder) : EvaluateComponent(p["components"][c]).ready = "True"
  <1> DEFINE verdicts ==
          [i \in DOMAIN ComponentOrder |-> EvaluateComponent(p["components"][ComponentOrder[i]])]
  <1>1. DOMAIN ComponentOrder = 1 .. 3 /\ ToSet(ComponentOrder) = {ComponentOrder[i] : i \in 1 .. 3}
    BY DEF ToSet, ComponentOrder
  <1>2. \A i \in 1 .. 3 : IsEvidence(verdicts[i])
    BY <1>1 DEF EvaluateComponent, Verdict, IsEvidence, Statuses
  <1>3. DOMAIN verdicts = 1 .. 3
    BY <1>1
  <1>4. EvaluateComponents(p) = FirstUnready(verdicts)
    BY DEF EvaluateComponents
  <1>5. \A i \in 1 .. 3 : verdicts[i] = EvaluateComponent(p["components"][ComponentOrder[i]])
    BY <1>1
  <1> HIDE DEF verdicts
  <1>6. /\ IsEvidence(FirstUnready(verdicts))
        /\ FirstUnready(verdicts).ready = "True" => \A i \in 1 .. 3 : verdicts[i].ready = "True"
    BY <1>2, <1>3, FirstUnreadyDecides
  <1> QED  BY <1>1, <1>4, <1>5, <1>6

LEMMA PodsVerdict ==
    ASSUME NEW p
    PROVE  /\ IsEvidence(EvaluatePods(p))
           /\ EvaluatePods(p).ready = "True" =>
                 /\ Cardinality(p["pods"]) = Cardinality(Nodes)
                 /\ \A q \in p["pods"] : q.ready
                 /\ {q.node : q \in p["pods"]} = {n.uid : n \in p["nodes"]}
  BY DEF EvaluatePods, Verdict, IsEvidence, Statuses

LEMMA ProbeVerdict ==
    ASSUME NEW p, NEW at
    PROVE  /\ IsEvidence(EvaluateProbe(p, at))
           /\ EvaluateProbe(p, at).ready = "True" =>
                 /\ "probe" \in DOMAIN p /\ p["probe"].kind # "pending" /\ ~p["probe"].failed
                 /\ p["probe"].nodes = {n.uid : n \in p["nodes"]}
  BY DEF EvaluateProbe, Verdict, IsEvidence, Statuses

LEMMA NetworkVerdict ==
    ASSUME NEW p, NEW at
    PROVE  /\ IsEvidence(EvaluateNetwork(p, at))
           /\ EvaluateNetwork(p, at).ready = "True" =>
                 /\ p["hcp"].revised
                 /\ EvaluateAddonSource(p["hcp"], TRUE, "EnablementOwnerNotReady").ready = "True"
                 /\ EvaluateRelease(p).ready = "True" /\ EvaluateNodes(p).ready = "True"
                 /\ EvaluateComponents(p).ready = "True" /\ EvaluatePods(p).ready = "True"
                 /\ EvaluateProbe(p, at).ready = "True"
  <1>1. IsEvidence(EvaluateAddonSource(p["hcp"], TRUE, "EnablementOwnerNotReady"))
    BY AddonVerdict
  <1>2. IsEvidence(Verdict("Unknown", "RevisionCorrelationUnproven"))
        /\ Verdict("Unknown", "RevisionCorrelationUnproven").ready # "True"
    BY DEF Verdict, IsEvidence, Statuses
  <1> QED  BY <1>1, <1>2, ReleaseVerdict, NodesVerdict, ComponentVerdicts, PodsVerdict, ProbeVerdict
           DEF EvaluateNetwork

LEMMA ApplicationsVerdict ==
    ASSUME NEW p
    PROVE  /\ IsEvidence(EvaluateApplications(p))
           /\ EvaluateApplications(p).ready = "True" =>
                 \A a \in Apps : EvaluateApplication(p[a]).ready = "True"
  <1> DEFINE verdicts == [i \in DOMAIN AppOrder |-> EvaluateApplication(p[AppOrder[i]])]
             n == Cardinality(Apps)
  <1>1. /\ n \in Nat /\ DOMAIN AppOrder = 1 .. n
        /\ \A a \in Apps : \E i \in 1 .. n : AppOrder[i] = a
    BY ListCovers, InventoryAssumption DEF AppOrder
  <1>2. \A i \in 1 .. n : IsEvidence(verdicts[i])
    BY <1>1 DEF EvaluateApplication, Verdict, IsEvidence, Statuses
  <1>3. DOMAIN verdicts = 1 .. n
    BY <1>1
  <1>4. EvaluateApplications(p) = FirstUnready(verdicts)
    BY DEF EvaluateApplications
  <1>5. \A i \in 1 .. n : verdicts[i] = EvaluateApplication(p[AppOrder[i]])
    BY <1>1
  <1> HIDE DEF verdicts, n
  <1>6. /\ IsEvidence(FirstUnready(verdicts))
        /\ FirstUnready(verdicts).ready = "True" => \A i \in 1 .. n : verdicts[i].ready = "True"
    BY <1>1, <1>2, <1>3, FirstUnreadyDecides
  <1> QED  BY <1>1, <1>4, <1>5, <1>6

LEMMA CapabilityVerdict ==
    ASSUME NEW p, NEW at
    PROVE  /\ IsEvidence(EvaluateCapability(p, at))
           /\ EvaluateCapability(p, at).ready = "True" =>
                 /\ p["capability"].bound /\ p["capability"].passed
                 /\ at - p["capability"].at \in 0 .. MaxAge
  BY DEF EvaluateCapability, Verdict, IsEvidence, Statuses

LEMMA PlatformVerdict ==
    ASSUME NEW p, NEW at
    PROVE  /\ IsEvidence(EvaluatePlatform(p, at))
           /\ EvaluatePlatform(p, at).ready = "True" =>
                 EvaluateApplications(p).ready = "True" /\ EvaluateCapability(p, at).ready = "True"
  BY ApplicationsVerdict, CapabilityVerdict DEF EvaluatePlatform

-----------------------------------------------------------------------------
(* A True rests on every source its family requires.                        *)

(* What has been read is what the sources can answer.                       *)
Plausible(s, p) ==
    /\ s \notin {"probe", "capability"} => p[s] \in Alternatives(s)
    /\ s = "probe" => p[s].kind \in {"answer", "pending"}

LEMMA NetworkRests ==
    ASSUME NEW p, NEW at, \A s \in DOMAIN p \cap NetworkSources : Plausible(s, p),
           NetworkReads(p) \subseteq DOMAIN p, EvaluateNetwork(p, at).ready = "True"
    PROVE  NetworkSources \subseteq DOMAIN p /\ \A s \in NetworkSources : LooksSound(s, p)
  <1> DEFINE addon == EvaluateAddonSource(p["hcp"], TRUE, "EnablementOwnerNotReady")
             hrp == CHOOSE r \in p["hrp"] : TRUE
  <1>1. /\ p["hcp"].revised /\ addon.ready = "True"
        /\ EvaluateRelease(p).ready = "True" /\ EvaluateNodes(p).ready = "True"
        /\ EvaluateComponents(p).ready = "True" /\ EvaluatePods(p).ready = "True"
        /\ EvaluateProbe(p, at).ready = "True"
    BY NetworkVerdict
  <1>2. {"hcp", "hrp"} \subseteq DOMAIN p
    BY DEF NetworkReads, ManagementReads
  <1>3. p["hcp"].exact /\ p["hcp"].observed /\ p["hcp"].selected /\ p["hcp"].ready
    BY <1>1, AddonVerdict
  <1>4. p["hcp"] \in Alternatives("hcp") /\ p["hrp"] \in Alternatives("hrp")
    BY <1>2 DEF Plausible, NetworkSources
  <1>5. /\ Cardinality(p["hrp"]) = 1 /\ hrp.owner = p["hcp"].uid /\ hrp.observed
        /\ hrp.selected /\ hrp.ready /\ hrp.deployed
    BY <1>1, ReleaseVerdict
  <1>6. p["hrp"] = {hrp}
    <2>1. IsFiniteSet(p["hrp"])
      BY <1>4, AddonsFinite
    <2>2. PICK x : p["hrp"] = {x}
      BY <1>5, <2>1, FS_Singleton
    <2> QED  BY <2>2
  <1>7. AddonReadyForWorkloadCollection(p)
    BY <1>3, <1>5, <1>6 DEF AddonReadyForWorkloadCollection
  <1>8. {"nodes", "components", "pods"} \subseteq DOMAIN p
    BY <1>2, <1>7 DEF NetworkReads, ManagementReads, WorkloadReads
  <1>9. /\ p["nodes"] \in Alternatives("nodes") /\ p["components"] \in Alternatives("components")
        /\ p["pods"] \in Alternatives("pods")
    BY <1>8 DEF Plausible, NetworkSources
  <1>10. SoundAnswer("hcp", p)
    BY <1>1, <1>3, <1>4, HcpAnswers
  <1>11. SoundAnswer("hrp", p)
    BY <1>4, <1>5, <1>6, HrpAnswers
  <1>12. p["nodes"] = NodeRecords
    BY <1>1, <1>9, NodesVerdict, NodesAnswers
  <1>13. p["components"] = Sound["components"]
    BY <1>1, <1>9, ComponentVerdicts, ComponentsAnswers
  <1>14. {n.uid : n \in p["nodes"]} = Nodes
    <2> DEFINE rec(n) == [uid |-> n, provider |-> n, up |-> TRUE]
    <2>1. p["nodes"] = {rec(n) : n \in Nodes} /\ \A n : rec(n).uid = n
      BY <1>12 DEF NodeRecords
    <2> HIDE DEF rec
    <2> QED  BY <2>1
  <1>15. p["pods"] = PodRecords
    BY <1>1, <1>9, <1>14, PodsVerdict, PodsAnswers
  <1>16. "probe" \in DOMAIN p /\ p["probe"].kind # "pending" /\ ~p["probe"].failed
         /\ p["probe"].nodes = Nodes
    BY <1>1, <1>14, ProbeVerdict
  <1>17. p["probe"].kind = "answer"
    BY <1>16 DEF Plausible, NetworkSources
  <1>18. SoundAnswer("nodes", p) /\ SoundAnswer("components", p) /\ SoundAnswer("pods", p)
    BY <1>12, <1>13, <1>15, SoundValues DEF SoundAnswer
  <1>19. NetworkSources \subseteq DOMAIN p
    BY <1>2, <1>8, <1>16 DEF NetworkSources
  <1>20. \A s \in NetworkSources : LooksSound(s, p)
    <2> HIDE DEF hrp, addon
    <2> QED  BY <1>10, <1>11, <1>16, <1>17, <1>18 DEF LooksSound, NetworkSources
  <1> QED  BY <1>19, <1>20

LEMMA PlatformRests ==
    ASSUME NEW p, \A s \in DOMAIN p \cap PlatformSources : Plausible(s, p),
           PlatformReads(p) \subseteq DOMAIN p, EvaluatePlatform(p, now).ready = "True"
    PROVE  PlatformSources \subseteq DOMAIN p /\ \A s \in PlatformSources : LooksSound(s, p)
  <1>1. EvaluateApplications(p).ready = "True" /\ EvaluateCapability(p, now).ready = "True"
    BY PlatformVerdict
  <1>2. Apps \subseteq DOMAIN p
    BY DEF PlatformReads
  <1>3. "capability" \in DOMAIN p
    BY <1>1, <1>2 DEF PlatformReads
  <1>4. ASSUME NEW a \in Apps
        PROVE  LooksSound(a, p)
    <2>1. a \notin {"cluster", "capability"} \cup NetworkSources /\ a \in PlatformSources
      BY SourcesApart
    <2>2. p[a] \in Alternatives(a)
      BY <1>2, <2>1 DEF Plausible, NetworkSources
    <2>3. p[a] = Sound[a]
      BY <1>1, <2>2, ApplicationsVerdict, AppAnswers, SoundValues
    <2>4. SoundAnswer(a, p)
      BY <2>1, <2>3 DEF SoundAnswer, NetworkSources
    <2> QED  BY <2>1, <2>4 DEF LooksSound, NetworkSources
  <1>5. LooksSound("capability", p)
    <2>1. /\ p["capability"].bound /\ p["capability"].passed
          /\ now - p["capability"].at \in 0 .. MaxAge
      BY <1>1, CapabilityVerdict
    <2> QED  BY <2>1 DEF LooksSound
  <1> QED  BY <1>2, <1>3, <1>4, <1>5 DEF PlatformSources

(* The evidence of a complete pass: an evaluator's verdict, and a True of   *)
(* it has every required source sound at an instant of the pass.            *)
LEMMA EvidenceRests ==
    ASSUME PInv, pc = "pass", first # NoResult \/ NextSource = {}
    PROVE  /\ IsEvidence(Evidence)
           /\ Evidence.ready = "True" => RequiredSources \subseteq held
  <1>1. family \in {"lifecycle", "network", "platform", "aggregate"}
    BY DEF PInv, Typed, Families
  <1>2. ASSUME first # NoResult
        PROVE  family = "lifecycle" /\ Evidence = first
    BY <1>2 DEF PInv, FirstKnows, Evidence
  <1>3. CASE first # NoResult
    BY <1>2, <1>3 DEF PInv, FirstKnows
  <1>4. CASE first = NoResult
    <2>1. Reads(pass) \subseteq DOMAIN pass
      <3> DEFINE unread == Reads(pass) \ DOMAIN pass
                 indices == {i \in DOMAIN ReadOrder : ReadOrder[i] \in unread}
      <3>1. NextSource = IF unread = {} THEN {} ELSE {ReadOrder[Min(indices)]}
        BY DEF NextSource
      <3>2. NextSource = {}
        BY <1>4
      <3> HIDE DEF unread, indices
      <3>3. unread = {}
        BY <3>1, <3>2
      <3> QED  BY <3>3 DEF unread
    <2>2. \A s \in DOMAIN pass \cap RequiredSources :
              Plausible(s, pass) /\ (LooksSound(s, pass) => s \in held)
      BY DEF PInv, PassKnows, Plausible
    <2>3. CASE family = "lifecycle"
      <3>1. RequiredSources = {"cluster"} /\ Evidence = EvaluateLifecycle(pass) /\ "cluster" \in DOMAIN pass
        BY <1>4, <2>1, <2>3 DEF RequiredSources, Evidence, Reads
      <3>2. pass["cluster"] \in Alternatives("cluster")
        BY <2>2, <3>1 DEF Plausible
      <3>3. SoundAnswer("cluster", pass) => LooksSound("cluster", pass)
        BY DEF LooksSound
      <3> QED  BY <2>2, <3>1, <3>2, <3>3, LifecycleVerdict
    <2>4. CASE family = "network"
      <3>1. RequiredSources = NetworkSources /\ Evidence = EvaluateNetwork(pass, observedAt)
        BY <2>4 DEF RequiredSources, Evidence
      <3>2. NetworkReads(pass) \subseteq DOMAIN pass
        BY <2>1, <2>4 DEF Reads
      <3>3. IsEvidence(Evidence)
        BY <3>1, NetworkVerdict
      <3>4. ASSUME Evidence.ready = "True"
            PROVE  NetworkSources \subseteq DOMAIN pass /\ \A s \in NetworkSources : LooksSound(s, pass)
        BY <2>2, <3>1, <3>2, <3>4, NetworkRests
      <3> QED  BY <2>2, <3>1, <3>3, <3>4
    <2>5. CASE family = "platform"
      <3>1. RequiredSources = PlatformSources /\ Evidence = EvaluatePlatform(pass, now)
        BY <2>5 DEF RequiredSources, Evidence
      <3>2. PlatformReads(pass) \subseteq DOMAIN pass
        BY <2>1, <2>5 DEF Reads
      <3>3. IsEvidence(Evidence)
        BY <3>1, PlatformVerdict
      <3>4. ASSUME Evidence.ready = "True"
            PROVE  PlatformSources \subseteq DOMAIN pass /\ \A s \in PlatformSources : LooksSound(s, pass)
        BY <2>2, <3>1, <3>2, <3>4, PlatformRests
      <3> QED  BY <2>2, <3>1, <3>3, <3>4
    <2>6. CASE family = "aggregate"
      <3>1. /\ RequiredSources = {"cluster"} \cup NetworkSources \cup PlatformSources
            /\ Evidence = EvaluateAggregate(pass, observedAt)
        BY <2>6 DEF RequiredSources, Sources, Evidence
      <3>2. AggregateReads(pass, observedAt) \subseteq DOMAIN pass
        BY <2>1, <2>6 DEF Reads
      <3>3. "cluster" \in DOMAIN pass
        BY <3>2 DEF AggregateReads
      <3>4. pass["cluster"] \in Alternatives("cluster")
        BY <2>2, <3>1, <3>3 DEF Plausible
      <3>5. IsEvidence(Evidence)
        BY <3>1, <3>4, LifecycleVerdict, NetworkVerdict, PlatformVerdict DEF EvaluateAggregate
      <3>6. ASSUME Evidence.ready = "True"
            PROVE  RequiredSources \subseteq held
        <4>1. /\ EvaluateLifecycle(pass).ready = "True"
              /\ EvaluateNetwork(pass, observedAt).ready = "True"
              /\ EvaluatePlatform(pass, now).ready = "True"
          BY <3>1, <3>6 DEF EvaluateAggregate
        <4>2. SoundAnswer("cluster", pass) => LooksSound("cluster", pass)
          BY DEF LooksSound
        <4>3. "cluster" \in held
          BY <2>2, <3>1, <3>3, <3>4, <4>1, <4>2, LifecycleVerdict
        <4>4. NetworkReads(pass) \subseteq DOMAIN pass
          BY <3>2, <3>3, <4>1 DEF AggregateReads
        <4>5. NetworkSources \subseteq DOMAIN pass /\ \A s \in NetworkSources : LooksSound(s, pass)
          BY <2>2, <3>1, <4>1, <4>4, NetworkRests
        <4>6. PlatformReads(pass) \subseteq DOMAIN pass
          BY <3>2, <3>3, <4>1, <4>4 DEF AggregateReads
        <4>7. PlatformSources \subseteq DOMAIN pass /\ \A s \in PlatformSources : LooksSound(s, pass)
          BY <2>2, <3>1, <4>1, <4>6, PlatformRests
        <4> QED  BY <2>2, <3>1, <4>3, <4>5, <4>7
      <3> QED  BY <3>5, <3>6
    <2> QED  BY <1>1, <2>3, <2>4, <2>5, <2>6
  <1> QED  BY <1>3, <1>4

-----------------------------------------------------------------------------
(* The initial states.                                                      *)

LEMMA WorldsAreAnswers ==
    /\ DOMAIN Sound = Sources /\ DOMAIN Unconverged = Sources
    /\ \A s \in Sources : Sound[s] \in Alternatives(s) /\ Unconverged[s] \in Alternatives(s)
  <1>1. DOMAIN Sound = Sources /\ DOMAIN Unconverged = Sources
    BY DEF Sound, Unconverged
  <1>2. \A s \in Sources : Sound[s] \in Alternatives(s)
    BY DEF Alternatives
  <1>3. AppOrder[1] \in Apps
    <2>1. Cardinality(Apps) \in Nat /\ Cardinality(Apps) # 0
      BY InventoryAssumption, FS_CardinalityType, FS_EmptySet
    <2>2. AppOrder \in [1 .. Cardinality(Apps) -> Apps]
      BY ListCovers, InventoryAssumption DEF AppOrder
    <2> QED  BY <2>1, <2>2
  <1>4. {"hrp", "pods", "probe"} \subseteq Sources /\ AppOrder[1] \in Sources
        /\ AppOrder[1] \notin {"cluster", "capability"} \cup NetworkSources
    BY <1>3, SourcesApart DEF Sources, NetworkSources
  <1> DEFINE a == AppOrder[1]
  <1>5. /\ Unconverged["hrp"] = {} /\ Unconverged["pods"] = {}
        /\ Unconverged["probe"] = [Sound["probe"] EXCEPT !.kind = "pending"]
        /\ Unconverged[a] = [Sound[a] EXCEPT !.health = "Progressing"]
        /\ \A s \in Sources \ {"hrp", "pods", "probe", a} : Unconverged[s] = Sound[s]
    <2> HIDE DEF a
    <2> QED  BY <1>1, <1>4 DEF Unconverged, NetworkSources, a
  <1>6. Unconverged["hrp"] \in Alternatives("hrp") /\ Unconverged["pods"] \in Alternatives("pods")
    BY <1>5 DEF Alternatives
  <1>7. Unconverged["probe"] \in Alternatives("probe")
    BY <1>5, SoundValues DEF Alternatives
  <1>8. Unconverged[a] \in Alternatives(a)
    <2>1. Unconverged[a] = [SoundApp EXCEPT !.health = "Progressing"]
      BY <1>3, <1>5, SoundValues
    <2> HIDE DEF a
    <2> QED  BY <1>4, <2>1 DEF Alternatives, NetworkSources, a
  <1> QED  BY <1>1, <1>2, <1>5, <1>6, <1>7, <1>8

LEMMA ObservationInit == Init => PInv
  <1> SUFFICES ASSUME Init PROVE PInv
    OBVIOUS
  <1>1. Typed
    BY WorldsAreAnswers DEF Init, Typed
  <1>2. LastIsNewest /\ FirstKnows /\ HeldNow /\ Concluded
    BY DEF Init, LastIsNewest, FirstKnows, HeldNow, Concluded
  <1>3. PassKnows
    BY DEF Init, PassKnows
  <1> QED  BY <1>1, <1>2, <1>3 DEF PInv

-----------------------------------------------------------------------------
(* The steps.                                                               *)

(* Nothing is required or sound because of anything but family and world.   *)
LEMMA SameFamily ==
    ASSUME family' = family
    PROVE  RequiredSources' = RequiredSources
  BY DEF RequiredSources

LEMMA SameWorld ==
    ASSUME family' = family, world' = world
    PROVE  SoundSources(world)' = SoundSources(world)
  BY SameFamily DEF SoundSources

(* Time alone makes nothing look sound.                                     *)
LEMMA LaterLooks ==
    ASSUME PInv, now' \in Nat, now <= now', NEW s \in DOMAIN pass \cap RequiredSources, pass' = pass,
           LooksSound(s, pass)'
    PROVE  s \in held
  <1>1. now \in Nat /\ (s = "capability" => pass[s].at \in Int)
    BY DEF PInv, Typed, PassKnows
  <1>2. MaxAge \in Nat
    BY TimeAssumption
  <1>3. LooksSound(s, pass)
    BY <1>1, <1>2 DEF LooksSound, SoundAnswer
  <1> QED  BY <1>3 DEF PInv, PassKnows

(* The pass keeps what it knows while it only waits.                        *)
LEMMA PassKeeps ==
    ASSUME PInv, family' = family, pass' = pass, held \subseteq held', now' \in Nat, now <= now'
    PROVE  PassKnows'
  <1>1. RequiredSources' = RequiredSources
    BY SameFamily
  <1> SUFFICES ASSUME NEW s \in DOMAIN pass \cap RequiredSources
               PROVE  /\ s \notin {"probe", "capability"} => pass[s] \in Alternatives(s)
                      /\ s = "probe" => pass[s].kind \in {"answer", "pending"}
                      /\ s = "capability" => pass[s].at \in Int
                      /\ LooksSound(s, pass)' => s \in held'
    BY <1>1 DEF PassKnows
  <1>2. LooksSound(s, pass)' => s \in held
    BY LaterLooks
  <1> QED  BY <1>2 DEF PInv, PassKnows

LEMMA QuietStep ==
    ASSUME PInv, pc # "done", now' \in {now, now + 1},
           UNCHANGED <<family, outcome, sourceVars, loopVars, passVars, resultVars>>
    PROVE  PInv'
  <1> USE DEF sourceVars, loopVars, passVars, resultVars
  <1>1. now \in Nat /\ now' \in Nat /\ now <= now'
    BY DEF PInv, Typed
  <1>2. RequiredSources' = RequiredSources /\ SoundSources(world)' = SoundSources(world)
    BY SameFamily, SameWorld
  <1>3. Typed'
    BY <1>1 DEF PInv, Typed
  <1>4. LastIsNewest'
    BY DEF PInv, LastIsNewest
  <1>5. FirstKnows'
    BY <1>2 DEF PInv, FirstKnows
  <1>6. HeldNow'
    BY <1>2 DEF PInv, HeldNow
  <1>7. PassKnows'
    BY <1>1, PassKeeps
  <1>8. Concluded'
    BY DEF Concluded
  <1> QED  BY <1>3, <1>4, <1>5, <1>6, <1>7, <1>8 DEF PInv

LEMMA WorldStep ==
    ASSUME PInv, WorldChanges
    PROVE  PInv'
  <1> USE DEF loopVars, resultVars
  <1>1. PICK s \in RequiredSources : \E answer \in Alternatives(s) : world' = [world EXCEPT ![s] = answer]
    BY DEF WorldChanges
  <1>2. PICK answer \in Alternatives(s) : world' = [world EXCEPT ![s] = answer]
    BY <1>1
  <1>3. /\ pc # "done" /\ pc' = pc /\ family' = family /\ now' = now /\ pass' = pass
        /\ UNCHANGED <<outcome, first, pendingSince, last, warm, newest>>
        /\ held' = IF pc = "waiting" THEN held ELSE held \cup SoundSources(world')
    BY DEF WorldChanges
  <1>4. RequiredSources' = RequiredSources
    BY <1>3, SameFamily
  <1>5. SoundSources(world)' = SoundSources(world')
    BY <1>4 DEF SoundSources
  <1>6. held \subseteq held' /\ (pc # "waiting" => SoundSources(world)' \subseteq held')
    BY <1>3, <1>5
  <1>7. now \in Nat
    BY DEF PInv, Typed
  <1>8. Typed'
    <2>1. DOMAIN world' = Sources /\ \A t \in Sources : world'[t] \in Alternatives(t)
      BY <1>2 DEF PInv, Typed
    <2> QED  BY <1>3, <2>1 DEF PInv, Typed
  <1>9. LastIsNewest'
    BY <1>3 DEF PInv, LastIsNewest
  <1>10. FirstKnows'
    BY <1>3, <1>4, <1>6 DEF PInv, FirstKnows
  <1>11. HeldNow'
    BY <1>3, <1>6 DEF HeldNow
  <1>12. PassKnows'
    BY <1>3, <1>6, <1>7, PassKeeps
  <1>13. Concluded'
    BY <1>3 DEF Concluded
  <1> QED  BY <1>8, <1>9, <1>10, <1>11, <1>12, <1>13 DEF PInv

(* An error concludes nothing.                                              *)
LEMMA ErrorConcludes ==
    ASSUME NEW reason \in {"OBSERVATION_INTERRUPTED", "CORRELATION", "OBSERVATION_SOURCE_ERROR", "UNVERIFIED"},
           outcome' = Verdict("error", reason)
    PROVE  Concluded'
  BY DEF Concluded, SucceededRestsOnItsPass, OutcomeIsNewest, DeferralWasContinuous, Verified, Verdict

LEMMA BeginStep ==
    ASSUME PInv, Begin
    PROVE  PInv'
  <1> USE DEF sourceVars
  <1>1. /\ pc = "begin" /\ UNCHANGED <<family, now, world, first, pendingSince, last, warm, newest>>
        /\ pass' = << >> /\ held' = IF first = NoResult THEN SoundSources(world) ELSE held
    BY DEF Begin
  <1>2. \/ /\ family = "deferred" /\ pc' = "done"
           /\ outcome' = Verdict("True", "MVPNetworkObservationDeferred")
        \/ family = "lifecycle" /\ pc' = "bind" /\ outcome' = outcome
        \/ family # "deferred" /\ pc' = "done" /\ outcome' = Verdict("error", "OBSERVATION_INTERRUPTED")
        \/ family # "deferred" /\ pc' = "pass" /\ outcome' = outcome
    BY DEF Begin, Stop
  <1>3. RequiredSources' = RequiredSources /\ SoundSources(world)' = SoundSources(world)
    BY <1>1, SameFamily, SameWorld
  <1>4. Typed'
    BY <1>1, <1>2 DEF PInv, Typed
  <1>5. LastIsNewest'
    BY <1>1, <1>2 DEF PInv, LastIsNewest
  <1>6. FirstKnows'
    BY <1>1, <1>2, <1>3 DEF PInv, FirstKnows
  <1>7. HeldNow'
    BY <1>1, <1>3 DEF PInv, HeldNow
  <1>8. PassKnows'
    BY <1>1 DEF PassKnows
  <1>9. Concluded'
    <2>1. CASE pc' # "done"
      BY <2>1 DEF Concluded
    <2>2. CASE outcome' = Verdict("error", "OBSERVATION_INTERRUPTED")
      BY <2>2, ErrorConcludes
    <2>3. CASE family = "deferred" /\ outcome' = Verdict("True", "MVPNetworkObservationDeferred")
      BY <1>1, <2>3 DEF Concluded, SucceededRestsOnItsPass, OutcomeIsNewest, DeferralWasContinuous,
         Verified, Verdict
    <2> QED  BY <1>2, <2>1, <2>2, <2>3
  <1> QED  BY <1>4, <1>5, <1>6, <1>7, <1>8, <1>9 DEF PInv

LEMMA BindStep ==
    ASSUME PInv, BindTarget
    PROVE  PInv'
  <1> USE DEF sourceVars, passVars
  <1>1. /\ pc = "bind" /\ family = "lifecycle"
        /\ UNCHANGED <<family, now, world, pass, held, pendingSince, last, warm, newest>>
    BY DEF PInv, Typed, BindTarget
  <1>2. \/ pc' = "done" /\ outcome' = Verdict("error", "CORRELATION") /\ first' = first
        \/ pc' = "begin" /\ outcome' = outcome /\ first' = EvaluateLifecycle(world)
    BY DEF BindTarget, Stop
  <1>3. RequiredSources' = RequiredSources /\ SoundSources(world)' = SoundSources(world)
    BY <1>1, SameFamily, SameWorld
  <1>4. SoundSources(world) \subseteq held
    BY <1>1 DEF PInv, HeldNow
  <1>5. RequiredSources = {"cluster"} /\ "cluster" \in Sources
    BY <1>1 DEF RequiredSources, Sources
  <1>6. Typed'
    BY <1>1, <1>2 DEF PInv, Typed
  <1>7. LastIsNewest'
    BY <1>1, <1>2 DEF PInv, LastIsNewest
  <1>8. FirstKnows'
    <2>1. CASE first' = first
      BY <1>1, <1>2, <1>3, <2>1 DEF PInv, FirstKnows
    <2>2. CASE first' = EvaluateLifecycle(world)
      <3>1. world["cluster"] \in Alternatives("cluster")
        BY <1>5 DEF PInv, Typed
      <3>2. IsEvidence(first') /\ (first'.ready = "True" => SoundAnswer("cluster", world))
        BY <2>2, <3>1, LifecycleVerdict
      <3>3. first'.ready = "True" => RequiredSources \subseteq held
        BY <1>4, <1>5, <3>2 DEF SoundSources
      <3> QED  BY <1>1, <1>2, <1>3, <3>2, <3>3 DEF FirstKnows, IsEvidence
    <2> QED  BY <1>2, <2>1, <2>2
  <1>9. HeldNow'
    BY <1>1, <1>3, <1>4 DEF HeldNow
  <1>10. PassKnows'
    <2>1. now \in Nat
      BY DEF PInv, Typed
    <2> QED  BY <1>1, <2>1, PassKeeps
  <1>11. Concluded'
    BY <1>2, ErrorConcludes DEF Concluded
  <1> QED  BY <1>6, <1>7, <1>8, <1>9, <1>10, <1>11 DEF PInv

(* What a read brings: an answer of the source, sound if it looks sound.    *)
LEMMA ReadingKnows ==
    ASSUME PInv, NEW s \in RequiredSources, ~Malformed(s), ~(s = "probe" /\ world["probe"].kind = "exit"),
           NEW p, p[s] = Reading(s)
    PROVE  /\ s \notin {"probe", "capability"} => p[s] \in Alternatives(s)
           /\ s = "probe" => p[s].kind \in {"answer", "pending"}
           /\ s = "capability" => p[s].at \in Int
           /\ LooksSound(s, p) => SoundAnswer(s, world)
  <1>1. s \in Sources
    BY DEF RequiredSources, Sources
  <1>2. world[s] \in Alternatives(s) /\ now \in Nat
    BY <1>1 DEF PInv, Typed
  <1>3. CASE s = "probe"
    <2>1. /\ p[s].kind = world[s].kind /\ p[s].failed = world[s].failed /\ p[s].nodes = world[s].nodes
      BY <1>3 DEF Reading
    <2>2. world[s].kind \notin {"malformed", "exit"}
      BY <1>3 DEF Malformed
    <2>3. world[s].kind \in {"answer", "pending"}
      BY <1>2, <1>3, <2>2, ProbeAnswers
    <2>4. LooksSound(s, p) => [world[s] EXCEPT !.lag = 0] = SoundProbe
      BY <1>2, <1>3, <2>1, ProbeAnswers DEF LooksSound
    <2> QED  BY <1>3, <2>1, <2>3, <2>4 DEF SoundAnswer
  <1>4. CASE s = "capability"
    <2>1. /\ p[s].bound = world[s].bound /\ p[s].at = now - world[s].lag /\ p[s].passed = world[s].passed
      BY <1>4 DEF Reading
    <2>2. world[s].lag \in Nat /\ MaxAge \in Nat
      BY <1>2, <1>4, CapabilityAnswers, TimeAssumption
    <2>3. LooksSound(s, p) => world[s].bound /\ world[s].passed /\ world[s].lag <= MaxAge
      BY <1>2, <1>4, <2>1, <2>2 DEF LooksSound
    <2>4. LooksSound(s, p) => world[s] = Sound[s]
      BY <1>2, <1>4, <2>3, CapabilityAnswers, SoundValues
    <2> QED  BY <1>2, <1>4, <2>1, <2>2, <2>4 DEF SoundAnswer
  <1>5. CASE s \notin {"probe", "capability"}
    <2>1. p[s] = world[s]
      BY <1>5 DEF Reading
    <2> QED  BY <1>2, <1>5, <2>1 DEF LooksSound, SoundAnswer
  <1> QED  BY <1>3, <1>4, <1>5

LEMMA ReadStep ==
    ASSUME PInv, Read
    PROVE  PInv'
  <1> USE DEF sourceVars, loopVars, resultVars
  <1>1. /\ pc = "pass" /\ pc' = pc
        /\ UNCHANGED <<family, now, outcome, world, held, first, pendingSince, last, warm, newest>>
    BY DEF Read
  <1>2. PICK source \in NextSource :
            /\ ~Malformed(source)
            /\ ~(source = "probe" /\ world["probe"].kind = "exit")
            /\ pass' = [s \in DOMAIN pass \cup {source} |-> IF s = source THEN Reading(s) ELSE pass[s]]
    BY DEF Read
  <1>3. RequiredSources' = RequiredSources /\ SoundSources(world)' = SoundSources(world)
    BY <1>1, SameFamily, SameWorld
  <1>4. SoundSources(world) \subseteq held
    BY <1>1 DEF PInv, HeldNow
  <1>5. Typed'
    BY <1>1 DEF PInv, Typed
  <1>6. LastIsNewest'
    BY <1>1 DEF PInv, LastIsNewest
  <1>7. FirstKnows'
    BY <1>1, <1>3 DEF PInv, FirstKnows
  <1>8. HeldNow'
    BY <1>1, <1>3, <1>4 DEF HeldNow
  <1>9. PassKnows'
    <2> SUFFICES ASSUME NEW s \in DOMAIN pass' \cap RequiredSources
                 PROVE  /\ s \notin {"probe", "capability"} => pass'[s] \in Alternatives(s)
                        /\ s = "probe" => pass'[s].kind \in {"answer", "pending"}
                        /\ s = "capability" => pass'[s].at \in Int
                        /\ LooksSound(s, pass)' => s \in held'
      BY <1>3 DEF PassKnows
    <2>1. LooksSound(s, pass)' = LooksSound(s, pass')
      BY <1>1 DEF LooksSound, SoundAnswer
    <2>2. CASE s = source
      <3>1. pass'[s] = Reading(s)
        BY <1>2, <2>2
      <3>2. SoundAnswer(s, world) => s \in held'
        BY <1>1, <1>4 DEF SoundSources
      <3> QED  BY <1>2, <2>1, <2>2, <3>1, <3>2, ReadingKnows
    <2>3. CASE s # source
      <3>1. s \in DOMAIN pass /\ pass'[s] = pass[s]
        BY <1>2, <2>3
      <3>2. LooksSound(s, pass') = LooksSound(s, pass)
        BY <3>1 DEF LooksSound, SoundAnswer
      <3> QED  BY <1>1, <2>1, <3>1, <3>2 DEF PInv, PassKnows
    <2> QED  BY <2>2, <2>3
  <1>10. Concluded'
    BY <1>1 DEF Concluded
  <1> QED  BY <1>5, <1>6, <1>7, <1>8, <1>9, <1>10 DEF PInv

(* A deferral stands on a warm-up that has lasted the whole delay.          *)
LEMMA DeferralKnows ==
    ASSUME PInv, family = "network", NEW e, IsEvidence(e)
    PROVE  LET since == PendingSince(e) IN
           /\ since = IF ~IsMVPNetworkWarmup(e) THEN Never ELSE IF warm = Never THEN now ELSE warm
           /\ since \in Nat \cup {Never}
           /\ \/ DeferWarmup(e) = e
              \/ /\ DeferWarmup(e) = Verdict("True", "MVPNetworkWarmupDeferred")
                 /\ e.ready # "True" /\ since # Never
                 /\ now - since >= MvpNetworkWarmupDeferralDelay
  <1>1. pendingSince = warm /\ now \in Nat /\ warm \in Nat \cup {Never}
    BY DEF PInv, Typed
  <1>2. MvpNetworkWarmupDeferralDelay \in Nat
    BY TimeAssumption DEF MvpNetworkWarmupDeferralDelay
  <1>3. Never \notin Nat
    BY DEF Never
  <1>4. IsMVPNetworkWarmup(e) => e.ready # "True"
    BY DEF IsMVPNetworkWarmup, WarmupReasons
  <1>5. IsMVPNetworkWarmup(e) => PendingSince(e) \in Nat
    BY <1>1, <1>3 DEF PendingSince
  <1>6. PendingSince(e) = IF ~IsMVPNetworkWarmup(e) THEN Never ELSE IF warm = Never THEN now ELSE warm
    BY <1>1 DEF PendingSince
  <1> QED  BY <1>1, <1>2, <1>3, <1>4, <1>5, <1>6 DEF DeferWarmup

(* A pass that does not decide: the observer waits for the next one, or     *)
(* returns the newest evidence, or an error if there is none.               *)
LEMMA RepollStep ==
    ASSUME PInv, pc = "pass", NEW result, Repoll(result), last' = result,
           result = NoResult \/ (IsEvidence(result) /\ result.ready # "True" /\ result.ready = newest'),
           first' = NoResult,
           UNCHANGED <<family, now, world>>, warm' \in Nat \cup {Never},
           family = "network" => pendingSince' = warm'
    PROVE  PInv'
  <1> USE DEF passVars
  <1>1. \/ /\ pc' = "done" /\ UNCHANGED <<pass, held>>
           /\ outcome' = IF result = NoResult THEN Verdict("error", "UNVERIFIED") ELSE result
        \/ /\ pc' = "waiting" /\ outcome' = outcome /\ pass' = << >>
    BY DEF Repoll, AwaitNextPass
  <1>2. Typed'
    BY <1>1 DEF PInv, Typed
  <1>3. LastIsNewest'
    BY <1>1 DEF PInv, LastIsNewest
  <1>4. FirstKnows'
    BY DEF FirstKnows
  <1>5. HeldNow'
    BY <1>1 DEF HeldNow
  <1>6. PassKnows'
    <2>1. CASE UNCHANGED <<pass, held>>
      <3>1. now \in Nat
        BY DEF PInv, Typed
      <3> QED  BY <2>1, <3>1, PassKeeps
    <2>2. CASE pass' = << >>
      BY <2>2 DEF PassKnows
    <2> QED  BY <1>1, <2>1, <2>2
  <1>7. Concluded'
    <2>1. CASE pc' # "done"
      BY <2>1 DEF Concluded
    <2>2. CASE outcome' = Verdict("error", "UNVERIFIED")
      BY <2>2, ErrorConcludes
    <2>3. CASE outcome' = result /\ result # NoResult
      BY <2>3 DEF Concluded, SucceededRestsOnItsPass, OutcomeIsNewest, DeferralWasContinuous,
         Verified, IsEvidence
    <2> QED  BY <1>1, <2>1, <2>2, <2>3
  <1> QED  BY <1>2, <1>3, <1>4, <1>5, <1>6, <1>7 DEF PInv

LEMMA ReadFailsStep ==
    ASSUME PInv, NEW transient \in BOOLEAN, ReadFails(transient)
    PROVE  PInv'
  <1> USE DEF sourceVars, passVars
  <1>1. /\ pc = "pass" /\ first = NoResult
        /\ UNCHANGED <<family, now, world, first, pendingSince, last, warm, newest>>
    BY DEF ReadFails
  <1>2. CASE Repoll(last)
    <2>1. last = NoResult \/ (IsEvidence(last) /\ last.ready # "True" /\ last.ready = newest')
      BY <1>1 DEF PInv, LastIsNewest
    <2>2. warm \in Nat \cup {Never} /\ (family = "network" => pendingSince = warm)
      BY DEF PInv, Typed
    <2> QED  BY <1>1, <1>2, <2>1, <2>2, RepollStep
  <1>3. CASE Stop("OBSERVATION_SOURCE_ERROR") /\ UNCHANGED <<wakeAt, passVars>>
    <2>1. /\ pc' = "done" /\ outcome' = Verdict("error", "OBSERVATION_SOURCE_ERROR")
          /\ UNCHANGED <<pass, held>>
      BY <1>3 DEF Stop
    <2>2. now \in Nat
      BY DEF PInv, Typed
    <2>3. Typed'
      BY <1>1, <2>1 DEF PInv, Typed
    <2>4. LastIsNewest' /\ FirstKnows' /\ HeldNow'
      BY <1>1, <2>1 DEF LastIsNewest, FirstKnows, HeldNow
    <2>5. PassKnows'
      BY <1>1, <2>1, <2>2, PassKeeps
    <2>6. Concluded'
      BY <2>1, ErrorConcludes
    <2> QED  BY <2>3, <2>4, <2>5, <2>6 DEF PInv
  <1> QED  BY <1>2, <1>3 DEF ReadFails

LEMMA EvaluateStep ==
    ASSUME PInv, Evaluate
    PROVE  PInv'
  <1> USE DEF sourceVars, passVars
  <1> DEFINE evidence == Evidence
             result == IF family = "network" THEN DeferWarmup(evidence) ELSE evidence
             since == IF ~IsMVPNetworkWarmup(evidence) THEN Never
                      ELSE IF warm = Never THEN now ELSE warm
  <1>1. /\ pc = "pass" /\ (first # NoResult \/ NextSource = {})
        /\ UNCHANGED <<family, now, world>> /\ first' = NoResult
        /\ last' = result /\ newest' = evidence.ready /\ warm' = since
        /\ pendingSince' = IF family = "network" THEN PendingSince(evidence) ELSE pendingSince
    BY DEF Evaluate
  <1>2. IF result.ready = "True" \/ (result.ready = "False" /\ ~ContinueOnFalse)
        THEN pc' = "done" /\ outcome' = result /\ UNCHANGED <<wakeAt, passVars>>
        ELSE Repoll(result)
    BY DEF Evaluate
  <1>3. IsEvidence(evidence) /\ (evidence.ready = "True" => RequiredSources \subseteq held)
    BY <1>1, EvidenceRests
  <1>4. now \in Nat /\ warm \in Nat \cup {Never}
    BY DEF PInv, Typed
  <1> HIDE DEF evidence
  <1>5. family = "network" => PendingSince(evidence) = since
    BY <1>3, DeferralKnows
  <1>6. \/ result = evidence
        \/ /\ result = Verdict("True", "MVPNetworkWarmupDeferred") /\ evidence.ready # "True"
           /\ since # Never /\ now - since >= MvpNetworkWarmupDeferralDelay
    BY <1>3, <1>5, DeferralKnows
  <1>7. since \in Nat \cup {Never}
    BY <1>4
  <1>8. family = "network" => pendingSince' = warm'
    BY <1>1, <1>5
  <1> HIDE DEF since, result
  <1>9. CASE result.ready # "True" /\ Repoll(result)
    <2>1. IsEvidence(result) /\ result.ready = newest'
      BY <1>1, <1>3, <1>6, <1>9 DEF Verdict
    <2> QED  BY <1>1, <1>7, <1>8, <1>9, <2>1, RepollStep
  <1>10. CASE pc' = "done" /\ outcome' = result /\ UNCHANGED <<wakeAt, passVars>>
    <2>1. Typed'
      BY <1>1, <1>7, <1>8, <1>10 DEF PInv, Typed
    <2>2. LastIsNewest' /\ FirstKnows' /\ HeldNow'
      BY <1>1, <1>10 DEF LastIsNewest, FirstKnows, HeldNow
    <2>3. PassKnows'
      BY <1>1, <1>4, <1>10, PassKeeps
    <2>4. RequiredSources' = RequiredSources
      BY <1>1, SameFamily
    <2>5. SucceededRestsOnItsPass'
      BY <1>3, <1>6, <1>10, <2>4 DEF SucceededRestsOnItsPass, Verdict
    <2>6. OutcomeIsNewest'
      BY <1>1, <1>6, <1>10 DEF OutcomeIsNewest, Verdict
    <2>7. DeferralWasContinuous'
      BY <1>1, <1>3, <1>6, <1>10 DEF DeferralWasContinuous, IsEvidence, Verdict,
         MvpNetworkWarmupDeferralDelay
    <2> QED  BY <2>1, <2>2, <2>3, <2>5, <2>6, <2>7 DEF PInv, Concluded
  <1> QED  BY <1>2, <1>9, <1>10

LEMMA WakeStep ==
    ASSUME PInv, Wake
    PROVE  PInv'
  <1> USE DEF sourceVars, resultVars
  <1>1. /\ pc = "waiting" /\ pass' = << >> /\ held' = SoundSources(world)
        /\ UNCHANGED <<family, now, world, first, pendingSince, last, warm, newest>>
    BY DEF Wake
  <1>2. \/ pc' = "pass" /\ outcome' = outcome
        \/ pc' = "done" /\ outcome' = Verdict("error", "OBSERVATION_INTERRUPTED")
    BY DEF Wake, Stop
  <1>3. SoundSources(world)' = SoundSources(world)
    BY <1>1, SameWorld
  <1>4. Typed'
    BY <1>1, <1>2 DEF PInv, Typed
  <1>5. LastIsNewest'
    BY <1>1, <1>2 DEF PInv, LastIsNewest
  <1>6. FirstKnows'
    BY <1>1 DEF PInv, FirstKnows
  <1>7. HeldNow'
    BY <1>1, <1>3 DEF HeldNow
  <1>8. PassKnows'
    BY <1>1 DEF PassKnows
  <1>9. Concluded'
    BY <1>2, ErrorConcludes DEF Concluded
  <1> QED  BY <1>4, <1>5, <1>6, <1>7, <1>8, <1>9 DEF PInv


LEMMA ObservationStep == PInv /\ [Next]_vars => PInv'
  <1> SUFFICES ASSUME PInv, [Next]_vars PROVE PInv'
    OBVIOUS
  <1>1. CASE WorldChanges
    BY <1>1, WorldStep
  <1>2. CASE Tick
    <2>1. pc # "done" /\ now' = now + 1
      BY <1>2 DEF Tick
    <2> QED  BY <1>2, <2>1, QuietStep DEF Tick
  <1>3. CASE Cancel
    <2>1. pc # "done" /\ now' = now
      BY <1>3 DEF Cancel
    <2> QED  BY <1>3, <2>1, QuietStep DEF Cancel
  <1>4. CASE Begin
    BY <1>4, BeginStep
  <1>5. CASE BindTarget
    BY <1>5, BindStep
  <1>6. CASE Read
    BY <1>6, ReadStep
  <1>7. CASE \E transient \in BOOLEAN : ReadFails(transient)
    BY <1>7, ReadFailsStep
  <1>8. CASE Evaluate
    BY <1>8, EvaluateStep
  <1>9. CASE Wake
    BY <1>9, WakeStep
  <1>10. CASE UNCHANGED vars
    <2>1. CASE pc # "done"
      BY <1>10, <2>1, QuietStep DEF vars
    <2>2. CASE pc = "done"
      <3> USE DEF vars, sourceVars, loopVars, passVars, resultVars
      <3>1. RequiredSources' = RequiredSources /\ now \in Nat
        BY <1>10, SameFamily DEF PInv, Typed
      <3>2. Typed' /\ LastIsNewest' /\ HeldNow'
        BY <1>10, <2>2 DEF PInv, Typed, LastIsNewest, HeldNow
      <3>3. FirstKnows'
        BY <1>10, <3>1 DEF PInv, FirstKnows
      <3>4. PassKnows'
        BY <1>10, <3>1, PassKeeps
      <3>5. Concluded'
        BY <1>10, <3>1 DEF PInv, Concluded, SucceededRestsOnItsPass, OutcomeIsNewest,
           DeferralWasContinuous, Verified, MvpNetworkWarmupDeferralDelay
      <3> QED  BY <3>2, <3>3, <3>4, <3>5 DEF PInv
    <2> QED  BY <2>1, <2>2
  <1> QED  BY <1>1, <1>2, <1>3, <1>4, <1>5, <1>6, <1>7, <1>8, <1>9, <1>10
           DEF Next, Observer, Returned

LEMMA ObservationInvariant == Spec => []PInv
  BY ObservationInit, ObservationStep, PTL DEF Spec

-----------------------------------------------------------------------------
(* The theorems.  Before Observe has returned nothing is claimed.           *)

LEMMA InvariantSuffices ==
    ASSUME PInv
    PROVE  SucceededRestsOnItsPass /\ OutcomeIsNewest /\ DeferralWasContinuous
  <1>1. CASE pc = "done"
    BY <1>1 DEF PInv, Concluded
  <1>2. CASE pc # "done"
    <2>1. outcome.ready = "none" /\ outcome.reason = "none"
      BY <1>2 DEF PInv, LastIsNewest, NoResult
    <2> QED  BY <2>1 DEF SucceededRestsOnItsPass, OutcomeIsNewest, DeferralWasContinuous, Verified
  <1> QED  BY <1>1, <1>2

(* A True that no deferral produced rests on the deciding pass: every       *)
(* required source was sound at an instant of it, whatever changed between *)
(* its reads, for any inventory and any number of changes                  *)
(* (NetworkSourceCollector.Collect, PlatformSourceCollector.Observe).      *)
THEOREM TrueRestsOnItsPass == Spec => []SucceededRestsOnItsPass
  BY ObservationInvariant, InvariantSuffices, PTL

(* What Observe returns is the newest verified evidence or a deferral of    *)
(* it, never an older one and never a result that nobody verified          *)
(* (BoundedPollingObserver.Observe).                                       *)
THEOREM NewestIsReturned == Spec => []OutcomeIsNewest
  BY ObservationInvariant, InvariantSuffices, PTL

(* A warm-up is reported True only after a whole delay in which every       *)
(* evidence was warm-up (networkPollingSource.Observe).                    *)
THEOREM DeferralsAreContinuous == Spec => []DeferralWasContinuous
  BY ObservationInvariant, InvariantSuffices, PTL

=============================================================================
