---------------------------- MODULE SubmissionPlan ----------------------------
(***************************************************************************)
(* How a plane is loaded before it is submitted: the projection directory  *)
(* of a renderer (internal/projection), the submission plan made of it     *)
(* (internal/submission), the provider credential that is inserted when    *)
(* the stage is opened (runner/staged_submission_bundle.go), and the       *)
(* artifacts of one file each: enablement, target access, registration     *)
(* and applications.  The operation over both planes                       *)
(* (internal/execution/execution.go) gets its binding from an earlier      *)
(* process.  PlaneSubmission goes on with what was loaded.                 *)
(*                                                                         *)
(* The digest of a file is its content.  Others may change the files at    *)
(* any time until the plane is open; afterwards no file is looked at, and  *)
(* the model forgets them.  An object is the document that declares it: of *)
(* its content the model keeps what the loaders compare with something,    *)
(* and whether the remaining checks of its form accept it.                 *)
(***************************************************************************)
EXTENDS PlaneSubmission, SequencesExt

CONSTANTS
    MaxEdits,   \* bound: changes made to the files by others
    MaxPlane    \* bound by stage: longer planes are loaded and not submitted

ASSUME EditsAssumption == MaxEdits \in Nat

VARIABLES
    stage,      \* what is loaded
    reviewed,   \* what the plan of the run binds, or the request
    file,       \* the files as they are
    edits,      \* changes made by others
    load,       \* the next thing to be read
    pending,    \* artifacts still to be read in this pass over the map
    held,       \* the binding that projection.Verify returned
    loaded      \* planes decoded so far

loadVars == <<stage, reviewed, file, edits, load, pending, held, loaded>>
vars == <<submitVars, loadVars>>

-----------------------------------------------------------------------------
(***************************************************************************)
(* Documents.  The form of one is "plain" as it was rendered, "changed"    *)
(* with other contents that pass, or "refused": a status, metadata that    *)
(* only a server sets, a missing revision, an unknown field, an alias.     *)
(***************************************************************************)
Doc(kind, ns, name) ==
    [kind |-> kind, ns |-> ns, name |-> name, form |-> "plain", ref |-> "",
     subject |-> "", rules |-> {}, list |-> <<>>]
Identity(d) == <<d.kind, d.ns, d.name>>
Identities(docs) == [i \in 1..Len(docs) |-> Identity(docs[i])]

Kept(docs) == \A i \in 1..Len(docs) : docs[i].form # "refused"

(***************************************************************************)
(* The allow-list of CreateCluster: the kinds that may be submitted, and   *)
(* whether they have a namespace.                                          *)
(***************************************************************************)
Namespaced == {"Role", "Cluster", "KubevirtCluster"}
Routable(d) == d.kind \in Namespaced \cup {"Namespace"} /\ (d.kind \in Namespaced <=> d.ns # "")

(***************************************************************************)
(* decodeObjects: the documents of an artifact are the identities of the   *)
(* authority map, in its order.                                            *)
(***************************************************************************)
Decodes(docs, ids) ==
    /\ Kept(docs)
    /\ \A i \in 1..Len(docs) : Routable(docs[i])
    /\ Identities(docs) = ids

(***************************************************************************)
(* The files of a projection.  The authority map lists the identities of   *)
(* each plane, and the manifest the digests of the artifacts.              *)
(***************************************************************************)
Artifacts == {"authority-map", "infra", "mgmt"}

ValidPlane(ids) == ids # <<>> /\ IsInjective(ids)

ValidAuthorityMap(map) ==
    /\ map.revision = "R"
    /\ map.authorities[1] # map.authorities[2]
    /\ ValidPlane(map.infra)
    /\ ValidPlane(map.mgmt)

ValidManifest(m) ==
    /\ m.revision = "R"
    /\ m.state = "NO-GO"

MatchesCounts(counts, map) == counts = <<Len(map.infra), Len(map.mgmt)>>

AuthorityMap(infra, mgmt) ==
    [revision |-> "R", authorities |-> <<"infrastructure", "management">>,
     infra |-> Identities(infra), mgmt |-> Identities(mgmt)]

Manifest(f) ==
    [revision |-> "R", state |-> "NO-GO", digests |-> [a \in Artifacts |-> f[a]],
     counts |-> <<Len(f["authority-map"].infra), Len(f["authority-map"].mgmt)>>]

-----------------------------------------------------------------------------
(***************************************************************************)
(* The provider credential.  Its policy is public and bound by the plan;   *)
(* the kubeconfig is private and read only when the stage is opened.       *)
(***************************************************************************)
Policy == [revision |-> "R", ns |-> "tenant", name |-> "external-infra-kubeconfig", immutable |-> TRUE]

ValidPolicy(p) == p.revision = "R" /\ p.ns = "tenant" /\ p.name = Policy.name /\ p.immutable

NamesUnique(entries) == IsInjective([i \in 1..Len(entries) |-> entries[i].name])
Names(entries) == {e.name : e \in Range(entries)}
Named(entries, name) == CHOOSE e \in Range(entries) : e.name = name

(***************************************************************************)
(* The selected user authenticates in exactly one way, and by what the     *)
(* file itself holds; so does the endpoint.                                *)
(***************************************************************************)
StaticIdentity(cluster, user) ==
    cluster.static /\ user.modes \in {{"token"}, {"certificate"}}

Current(k) == Named(k.contexts, k.current)
Selected(k) ==
    [contexts |-> <<Current(k)>>,
     clusters |-> <<Named(k.clusters, Current(k).cluster)>>,
     users    |-> <<Named(k.users, Current(k).user)>>]

ValidKubeconfig(k) ==
    /\ k.private
    /\ \A entries \in {k.contexts, k.clusters, k.users} : NamesUnique(entries)
    /\ k.current \in Names(k.contexts)
    /\ Current(k).cluster \in Names(k.clusters)
    /\ Current(k).user \in Names(k.users)
    /\ StaticIdentity(Selected(k).clusters[1], Selected(k).users[1])

(***************************************************************************)
(* Only the selected context is carried, in the namespace of the policy.   *)
(***************************************************************************)
Rewritten(k, ns) == [Selected(k) EXCEPT !.contexts[1].namespace = ns]

MaterializeSecret(p, k) ==
    [kind |-> "Secret", ns |-> p.ns, name |-> p.name, form |-> "plain",
     data |-> Rewritten(k, p.ns)]

(***************************************************************************)
(* Exactly one KubevirtCluster, in the namespace of the Secret, names it.  *)
(***************************************************************************)
BindsSecret(docs, p) ==
    LET clusters == SelectSeq(docs, LAMBDA d : d.kind = "KubevirtCluster") IN
    /\ Len(clusters) = 1
    /\ clusters[1].ns = p.ns
    /\ clusters[1].ref = p.name

NamespaceAt(docs, p) == {i \in 1..Len(docs) : Identity(docs[i]) = <<"Namespace", "", p.ns>>}

BindsProviderAccess(docs, p) ==
    BindsSecret(docs, p) /\ Cardinality(NamespaceAt(docs, p)) = 1

(***************************************************************************)
(* "The Secret is namespaced, so its Namespace must be created first."     *)
(***************************************************************************)
WithSecret(docs, p, secret) ==
    LET at == CHOOSE i \in NamespaceAt(docs, p) : TRUE IN InsertAt(docs, at + 1, secret)

-----------------------------------------------------------------------------
(***************************************************************************)
(* The artifacts of one file.  Enablement is one object that carries the   *)
(* fixture of the run.                                                     *)
(***************************************************************************)
EnablementDocs == <<[Doc("HelmChartProxy", "tenant", "network") EXCEPT !.ref = "fixture"]>>

ValidEnablement(docs) ==
    /\ Len(docs) = 1
    /\ Identity(docs[1]) = Identity(EnablementDocs[1])
    /\ docs[1].ref = "fixture"

(***************************************************************************)
(* Target access: the manager may escalate to the roles of the platform,   *)
(* which it therefore can create later, and the observer may read.  One    *)
(* of the two pairs of namespaced roles and two of the five roles of the   *)
(* platform stand for all.                                                 *)
(***************************************************************************)
Rule(verbs, names) == [verbs |-> verbs, names |-> names]
PlatformRoles == {"metrics", "logs"}
ObserverRules == {Rule({"get"}, {"services"}), Rule({"list"}, {"endpointslices"})}

WithRules(d, rules) == [d EXCEPT !.rules = rules]
Bind(d, role, subject) == [d EXCEPT !.ref = role, !.subject = subject]

TargetAccessDocs ==
    << Doc("Namespace", "", "observability"),
       Doc("ServiceAccount", "observability", "manager"),
       WithRules(Doc("ClusterRole", "", "manager"),
                 {Rule({"get", "create"}, {}), Rule({"bind", "escalate"}, PlatformRoles)}),
       Bind(Doc("ClusterRoleBinding", "", "manager"), "manager", "manager"),
       WithRules(Doc("Role", "observability", "workloads"), {Rule({"create"}, {})}),
       Bind(Doc("RoleBinding", "observability", "workloads"), "workloads", "manager"),
       Doc("ServiceAccount", "observability", "observer"),
       WithRules(Doc("Role", "observability", "observer"), ObserverRules),
       Bind(Doc("RoleBinding", "observability", "observer"), "observer", "observer"),
       WithRules(Doc("ClusterRole", "", "metrics"), {Rule({"get"}, {})}),
       WithRules(Doc("ClusterRole", "", "logs"), {Rule({"get"}, {})}) >>

Elevating(rule) == rule.verbs \cap {"bind", "escalate"} # {}

ValidRules(d) ==
    /\ d.rules # {}
    /\ \A rule \in d.rules :
          /\ rule.verbs # {}
          /\ Elevating(rule) => rule.names # {}

ValidPrerequisiteRules(d) ==
    d.rules # {} /\ \A rule \in d.rules : rule.verbs # {} /\ ~Elevating(rule)

ManagerEscalation(d) ==
    LET elevated == {rule \in d.rules : Elevating(rule)}
        escalating == {rule \in elevated : "escalate" \in rule.verbs}
    IN /\ UNION {rule.names : rule \in elevated} \subseteq PlatformRoles
       /\ UNION {rule.names : rule \in escalating} = PlatformRoles

ValidTargetAccess(docs) ==
    /\ Identities(docs) = Identities(TargetAccessDocs)
    /\ \A i \in {3, 5, 8} : ValidRules(docs[i])
    /\ \A i \in {10, 11} : ValidPrerequisiteRules(docs[i])
    /\ ManagerEscalation(docs[3])
    /\ \A i \in {4, 6} : docs[i].ref = docs[i - 1].name /\ docs[i].subject = docs[2].name
    /\ docs[8].rules = ObserverRules
    /\ docs[9].ref = docs[8].name /\ docs[9].subject = docs[7].name

(***************************************************************************)
(* Registration: the project, and the template of the registration Secret. *)
(* Both are templates of the identity of the target, which is put in after *)
(* the lifecycle has established it.  The allow-list of the project is     *)
(* sorted and has no wildcard (0).                                         *)
(***************************************************************************)
Template(d) == [d EXCEPT !.ref = "RUNTIME-TARGET-IDENTITY-DIGEST-REQUIRED"]
IsTemplate(d) == d = Template(d)
Bound(d) == [d EXCEPT !.ref = "target"]

RegistrationDocs ==
    << Template([Doc("AppProject", "argocd", "project") EXCEPT !.list = <<1, 2>>]),
       Template(Doc("Secret", "argocd", "registration")) >>

ValidAllowList(list) ==
    list # <<>> /\ 0 \notin Range(list) /\ \A i \in 1..(Len(list) - 1) : list[i] < list[i + 1]

ValidRegistration(docs) ==
    /\ Identities(docs) = Identities(RegistrationDocs)
    /\ \A i \in 1..Len(docs) : IsTemplate(docs[i])
    /\ ValidAllowList(docs[1].list)

(***************************************************************************)
(* Applications: exactly those of the platform profile, each with the      *)
(* contents the profile has the digest of, in any order in the file and    *)
(* sorted by name when loaded.                                             *)
(***************************************************************************)
AppNames == <<"alerts", "logs", "metrics">>
ApplicationDocs == [i \in 1..3 |-> Template(Doc("Application", "argocd", AppNames[i]))]

ValidApplications(docs) ==
    /\ Len(docs) = Len(AppNames)
    /\ \A i \in 1..Len(docs) : \E j \in 1..Len(AppNames) : docs[i] = ApplicationDocs[j]
    /\ IsInjective(docs)

Sorted(docs) == [i \in 1..Len(docs) |-> Named(docs, AppNames[i])]

Singles == {"enablement", "target-access", "target-registration", "platform-applications"}

Accepts(docs) ==
    /\ Kept(docs)
    /\ CASE stage = "enablement"            -> ValidEnablement(docs)
         [] stage = "target-access"         -> ValidTargetAccess(docs)
         [] stage = "target-registration"   -> ValidRegistration(docs)
         [] stage = "platform-applications" -> ValidApplications(docs)

Projected(docs) ==
    CASE stage \in {"enablement", "target-access"} -> docs
      [] stage = "target-registration"   -> [i \in 1..Len(docs) |-> Bound(docs[i])]
      [] stage = "platform-applications" ->
             LET s == Sorted(docs) IN [i \in 1..Len(docs) |-> Bound(s[i])]

-----------------------------------------------------------------------------
(***************************************************************************)
(* What the plan of the run binds: the digest of the stage's artifact and, *)
(* for a lifecycle with provider access, of its policy.  The request of    *)
(* the operation over both planes binds a whole projection.                *)
(***************************************************************************)
Projections == {"provider-prerequisites", "cluster-lifecycle", "provider-access", "create-cluster"}
Stages == Projections \cup Singles

ASSUME PlaneAssumption == MaxPlane \in [Stages -> Nat]

StageArtifact == IF stage = "provider-prerequisites" THEN "infra"
                 ELSE IF stage \in Singles THEN "artifact" ELSE "mgmt"

HasPolicy == stage = "provider-access"

InfraDocs == <<Doc("Namespace", "", "images")>>
MgmtDocs == <<Doc("Namespace", "", "tenant"),
              [Doc("KubevirtCluster", "tenant", "cluster") EXCEPT !.ref = Policy.name],
              Doc("Cluster", "tenant", "cluster")>>
ArtifactDocs(s) ==
    CASE s = "enablement" -> EnablementDocs
      [] s = "target-access" -> TargetAccessDocs
      [] s = "target-registration" -> RegistrationDocs
      [] OTHER -> ApplicationDocs

Kubeconfig ==
    [private |-> TRUE, current |-> "infra",
     contexts |-> <<[name |-> "infra", cluster |-> "c1", user |-> "u1", namespace |-> "default"],
                    [name |-> "other", cluster |-> "c2", user |-> "u2", namespace |-> "default"]>>,
     clusters |-> <<[name |-> "c1", static |-> TRUE], [name |-> "c2", static |-> TRUE]>>,
     users    |-> <<[name |-> "u1", modes |-> {"token"}], [name |-> "u2", modes |-> {"certificate"}]>>]

(***************************************************************************)
(* What a file may hold instead: one document more, fewer, changed or in   *)
(* another place.                                                          *)
(***************************************************************************)
AlteredRules(d) ==
    IF d.rules = {} THEN {[d EXCEPT !.subject = "elsewhere"], [d EXCEPT !.list = <<2, 1>>],
                           [d EXCEPT !.list = <<0, 1>>]}
    ELSE {WithRules(d, {}), WithRules(d, d.rules \cup {Rule({"bind"}, {})}),
          WithRules(d, d.rules \cup {Rule({"escalate"}, {"elsewhere"})}),
          WithRules(d, {Rule(r.verbs, r.names \ {"logs"}) : r \in d.rules})}

Altered(d) ==
    {[d EXCEPT !.form = f] : f \in {"changed", "refused"}}
    \cup {[d EXCEPT !.ref = "elsewhere"], [d EXCEPT !.ns = "elsewhere"]}
    \cup (IF stage \in Singles THEN AlteredRules(d) ELSE {})

Variants(docs) ==
    LET n == Len(docs) IN
    {docs}
    \cup {RemoveAt(docs, i) : i \in 1..n}
    \cup {InsertAt(docs, i, docs[i]) : i \in 1..n}
    \cup {[docs EXCEPT ![i] = docs[i + 1], ![i + 1] = docs[i]] : i \in 1..(n - 1)}
    \cup UNION {{[docs EXCEPT ![i] = d] : d \in Altered(docs[i])} : i \in 1..n}

KubeconfigVariants ==
    {[Kubeconfig EXCEPT !.private = FALSE],
     [Kubeconfig EXCEPT !.current = "other"],
     [Kubeconfig EXCEPT !.current = "absent"],
     [Kubeconfig EXCEPT !.contexts[2].name = "infra"],
     [Kubeconfig EXCEPT !.contexts[1].user = "absent"],
     [Kubeconfig EXCEPT !.clusters[1].static = FALSE],
     [Kubeconfig EXCEPT !.users[1].modes = {"token", "certificate"}],
     [Kubeconfig EXCEPT !.users[1].modes = {"exec"}]}

Forgotten == <<>>

Init ==
    /\ SubmitInit
    /\ stage \in Stages
    /\ \E docs \in CASE stage = "provider-prerequisites" -> Variants(InfraDocs)
                     [] stage \in Singles -> Variants(ArtifactDocs(stage))
                     [] OTHER -> Variants(MgmtDocs) :
          LET infra == IF stage = "provider-prerequisites" THEN docs ELSE InfraDocs
              mgmt  == IF stage \in Projections \ {"provider-prerequisites"} THEN docs ELSE MgmtDocs
              held0 == [a \in Artifacts |->
                           CASE a = "infra" -> infra [] a = "mgmt" -> mgmt
                             [] OTHER -> AuthorityMap(infra, mgmt)]
          IN /\ reviewed = [artifact |-> docs, policy |-> Policy, digests |-> held0]
             /\ file = [f \in Artifacts \cup {"manifest", "policy", "kubeconfig", "artifact"} |->
                          CASE f \in Artifacts -> held0[f]
                            [] f = "manifest"   -> Manifest(held0)
                            [] f = "policy"     -> Policy
                            [] f = "kubeconfig" -> Kubeconfig
                            [] OTHER            -> docs]
    /\ edits = 0
    /\ load = IF stage \in Singles THEN "artifact"
              ELSE IF stage = "create-cluster" THEN "reverify" ELSE "manifest"
    /\ pending = IF stage = "create-cluster" THEN Artifacts ELSE {}
    /\ held = IF stage = "create-cluster" THEN reviewed.digests ELSE Forgotten
    /\ loaded = <<>>

-----------------------------------------------------------------------------
(***************************************************************************)
(* Other processes write the files.  The renderer may run again: it writes *)
(* an authority map and a manifest that fit the planes as they are then.   *)
(***************************************************************************)
Loading == load \notin {"open", "begun", "refused"}

Contents(f) ==
    CASE f = "infra" -> Variants(InfraDocs)
      [] f = "mgmt" -> Variants(MgmtDocs)
      [] f = "authority-map" ->
             {AuthorityMap(file["infra"], file["mgmt"]),
              [file[f] EXCEPT !.revision = "other"],
              [file[f] EXCEPT !.authorities[2] = "infrastructure"]}
      [] f = "manifest" ->
             LET m == Manifest(file) IN
             {m, [m EXCEPT !.state = "GO"], [m EXCEPT !.revision = "other"],
              [m EXCEPT !.counts = <<0, 0>>]}
      [] f = "policy" -> {[Policy EXCEPT !.immutable = FALSE], [Policy EXCEPT !.ns = "elsewhere"]}
      [] f = "kubeconfig" -> KubeconfigVariants

Edited ==
    IF stage \in Singles THEN {}
    ELSE {"infra", "mgmt", "authority-map", "manifest"}
         \cup (IF HasPolicy THEN {"policy", "kubeconfig"} ELSE {})

Edit ==
    /\ Loading /\ edits < MaxEdits
    /\ edits' = edits + 1
    /\ \/ \E f \in Edited : \E c \in Contents(f) : file' = [file EXCEPT ![f] = c]
       \/ /\ stage \in Singles
          /\ file' = [file EXCEPT !["artifact"] = Append(@, Doc("Namespace", "", "other"))]
    /\ UNCHANGED <<submitVars, stage, reviewed, load, pending, held, loaded>>

(***************************************************************************)
(* A check fails, or a file cannot be read: nothing is submitted.          *)
(***************************************************************************)
Refuse ==
    /\ Loading
    /\ load' = "refused"
    /\ file' = Forgotten
    /\ held' = Forgotten
    /\ loaded' = <<>>
    /\ pending' = {}
    /\ UNCHANGED <<submitVars, stage, reviewed, edits>>

Goes(l) ==
    /\ load' = l
    /\ UNCHANGED <<submitVars, stage, reviewed, file, edits>>

(***************************************************************************)
(* projection.Verify reads the manifest, then the artifacts in the order   *)
(* of a Go map.                                                            *)
(***************************************************************************)
ReadManifest ==
    /\ load = "manifest"
    /\ ValidManifest(file["manifest"])
    /\ held' = file["manifest"].digests
    /\ loaded' = <<file["manifest"].counts>>
    /\ pending' = Artifacts
    /\ Goes("artifacts")

VerifyArtifact ==
    /\ load = "artifacts"
    /\ \E a \in pending :
          /\ file[a] = held[a]
          /\ pending' = pending \ {a}
    /\ UNCHANGED <<held, loaded>>
    /\ Goes("artifacts")

(***************************************************************************)
(* The authority map is checked when all have been read.  The plan of the  *)
(* run binds one artifact: the manifest and the map are only as good as    *)
(* the directory they are in.                                              *)
(***************************************************************************)
Verify ==
    /\ load = "artifacts" /\ pending = {}
    /\ ValidAuthorityMap(held["authority-map"])
    /\ MatchesCounts(loaded[1], held["authority-map"])
    /\ held[StageArtifact] = reviewed.artifact
    /\ pending' = Artifacts
    /\ loaded' = <<>>
    /\ UNCHANGED held
    /\ Goes("reverify")

(***************************************************************************)
(* ReverifyAtUse reads them again, "immediately before submission".        *)
(***************************************************************************)
Reverify ==
    /\ load = "reverify"
    /\ \E a \in pending :
          /\ file[a] = held[a]
          /\ a = "authority-map" => ValidAuthorityMap(file[a])
          /\ pending' = pending \ {a}
    /\ UNCHANGED <<held, loaded>>
    /\ Goes(IF pending' = {} THEN "infra" ELSE "reverify")

(***************************************************************************)
(* loadPlane reads its artifact once more, and compares what it read with  *)
(* the binding before it decodes it.  The variant relies on ReverifyAtUse. *)
(***************************************************************************)
AsVerified(a) == TRUE
AsBound(a) == file[a] = held[a]

LoadPlane(a) ==
    /\ load = a
    /\ AsBound(a)
    /\ Decodes(file[a], IF a = "infra" THEN held["authority-map"].infra
                        ELSE held["authority-map"].mgmt)
    /\ loaded' = Append(loaded, file[a])
    /\ UNCHANGED <<held, pending>>
    /\ Goes(IF a = "infra" THEN "mgmt" ELSE IF HasPolicy THEN "policy" ELSE "loaded")

LoadProviderAccessPolicy ==
    /\ load = "policy"
    /\ file["policy"] = reviewed.policy /\ ValidPolicy(file["policy"])
    /\ UNCHANGED <<held, pending, loaded>>
    /\ Goes("loaded")

LoadArtifact ==
    /\ load = "artifact"
    /\ file["artifact"] = reviewed.artifact
    /\ Accepts(file["artifact"])
    /\ loaded' = <<Projected(file["artifact"])>>
    /\ UNCHANGED <<held, pending>>
    /\ Goes("loaded")

(***************************************************************************)
(* The planes of a stage are bound to its credentials.  The operation over *)
(* both planes submits one after the other.                                *)
(***************************************************************************)
Success == CASE stage = "provider-prerequisites" -> "ensured"
             [] stage \in {"cluster-lifecycle", "provider-access"} -> "lifecycle"
             [] stage = "create-cluster" -> "observed"
             [] OTHER -> "attempted"

StagePlane ==
    CASE stage = "provider-prerequisites" -> loaded[1]
      [] stage = "cluster-lifecycle" -> loaded[2]
      [] stage = "provider-access" ->
             WithSecret(loaded[2], Policy, MaterializeSecret(Policy, file["kubeconfig"]))
      [] stage = "create-cluster" -> loaded[1] \o loaded[2]
      [] OTHER -> loaded[1]

Opens ==
    /\ load = "loaded"
    /\ HasPolicy => /\ ValidKubeconfig(file["kubeconfig"])
                    /\ BindsProviderAccess(loaded[2], Policy)
    /\ load' = "open"
    /\ loaded' = <<StagePlane>>
    /\ file' = Forgotten /\ held' = Forgotten
    /\ UNCHANGED <<submitVars, stage, reviewed, edits, pending>>

(***************************************************************************)
(* A plane that is not too long for the model is submitted.  Submit looks  *)
(* at nothing but the objects it got, of which the model keeps the kind.   *)
(***************************************************************************)
Begins ==
    /\ load = "open" /\ pc = "closed"
    /\ Len(loaded[1]) <= MaxPlane[stage]
    /\ Open([i \in 1..Len(loaded[1]) |-> loaded[1][i].kind], Success)
    /\ load' = "begun"
    /\ loaded' = <<>> /\ reviewed' = Forgotten
    /\ edits' = 0
    /\ UNCHANGED <<stage, file, pending, held>>

(***************************************************************************)
(* The operation over both planes binds its observation to the identity of *)
(* the Cluster it submitted.  An observation from before the claim or from *)
(* the future is none; an observer that fails leaves the claim without an  *)
(* outcome.                                                                *)
(***************************************************************************)
Observe ==
    /\ pc = "observe"
    /\ pc' = "done"
    /\ outcome' \in {"NONE", "STOPPED", "FAILED"} \cup
                    (IF mutation = "ATTEMPTED" THEN {"SUCCEEDED"} ELSE {})
    /\ UNCHANGED <<plane, mode, server, position, first, attempt, results, mutation,
                   category, posts, met, loadVars>>

Load ==
    \/ ReadManifest \/ VerifyArtifact \/ Verify \/ Reverify
    \/ LoadPlane("infra") \/ LoadPlane("mgmt")
    \/ LoadProviderAccessPolicy \/ LoadArtifact \/ Opens \/ Begins

Submits == Submit /\ UNCHANGED loadVars

Next ==
    \/ Load \/ Refuse \/ Edit \/ Observe \/ Submits
    \/ (LatePost \/ Others) /\ UNCHANGED loadVars

(***************************************************************************)
(* Every request, every wait and every file has its end.  Nothing is       *)
(* assumed of the other clients and writers.                               *)
(***************************************************************************)
Spec == Init /\ [][Next]_vars /\ WF_vars(Load \/ Refuse \/ Observe \/ Submits)

-----------------------------------------------------------------------------
TypeOK ==
    /\ SubmitTypeOK
    /\ stage \in Stages
    /\ edits \in 0..MaxEdits
    /\ load \in {"manifest", "artifacts", "reverify", "infra", "mgmt", "policy",
                 "artifact", "loaded", "open", "begun", "refused"}
    /\ pending \subseteq Artifacts
    /\ pc # "closed" <=> load = "begun"

(***************************************************************************)
(* What a target-access artifact grants cluster-wide, by the semantics of  *)
(* bindings: an account holds the rules of the roles bound to it.          *)
(***************************************************************************)
Grants(docs, account, binding, role) ==
    UNION {LET b == docs[i] IN
           UNION {docs[j].rules : j \in {k \in 1..Len(docs) :
                     docs[k].kind = role /\ docs[k].ns = b.ns /\ docs[k].name = b.ref}} :
           i \in {k \in 1..Len(docs) : docs[k].kind = binding /\ docs[k].subject = account}}

ReadersAndManager(docs) ==
    LET cluster(account) == Grants(docs, account, "ClusterRoleBinding", "ClusterRole") IN
    /\ cluster("observer") = {}
    /\ Grants(docs, "observer", "RoleBinding", "Role") = ObserverRules
    /\ \A r \in cluster("manager") : Elevating(r) => r.names # {} /\ r.names \subseteq PlatformRoles
    /\ \A n \in PlatformRoles :
          \E r \in cluster("manager") : "escalate" \in r.verbs /\ n \in r.names

SecretIsSelected(d) ==
    /\ d.data.contexts = <<[d.data.contexts[1] EXCEPT !.namespace = d.ns]>>
    /\ Len(d.data.clusters) = 1 /\ d.data.clusters[1].name = d.data.contexts[1].cluster
    /\ Len(d.data.users) = 1 /\ d.data.users[1].name = d.data.contexts[1].user

Bare(docs) == {[docs[i] EXCEPT !.ref = ""] : i \in 1..Len(docs)}

AsReviewed(docs) ==
    LET secrets == {i \in 1..Len(docs) : docs[i].kind = "Secret" /\ docs[i].ns = "tenant"} IN
    /\ stage \in {"provider-prerequisites", "cluster-lifecycle", "enablement", "target-access"} =>
          docs = reviewed.artifact
    /\ stage = "create-cluster" =>
          docs = reviewed.digests["infra"] \o reviewed.digests["mgmt"]
    /\ stage \in {"target-registration", "platform-applications"} =>
          /\ \A i \in 1..Len(docs) : docs[i].ref = "target"
          /\ Bare(docs) = Bare(reviewed.artifact)
    /\ Cardinality(secrets) = IF HasPolicy THEN 1 ELSE 0
    /\ \A i \in secrets :
          /\ RemoveAt(docs, i) = reviewed.artifact
          /\ i > 1 /\ Identity(docs[i - 1]) = <<"Namespace", "", docs[i].ns>>
          /\ SecretIsSelected(docs[i])
    /\ stage = "target-access" => ReadersAndManager(docs)

(***************************************************************************)
(* "re-reads and re-verifies the two renderer artifacts to close the       *)
(* verify/use gap": what is submitted is what the plan of the run binds,   *)
(* in its order, whatever was written to the files meanwhile.  Only the    *)
(* provider Secret is added: directly after its Namespace, once, with the  *)
(* selected identity and no other.                                         *)
(***************************************************************************)
SubmitsWhatWasReviewed == load = "open" => AsReviewed(loaded[1])

(***************************************************************************)
(* A submission comes to an end although others may go on changing the     *)
(* objects, and before them the files.                                     *)
(***************************************************************************)
SubmitEnds == <>(pc = "done" \/ load = "refused" \/ (load = "open" /\ Len(loaded[1]) > MaxPlane[stage]))
=============================================================================
