--------------------------- MODULE LaunchFamilies ---------------------------
(* The families of objects ok creates on a cluster to start work there:     *)
(* seven stage Jobs, two executors, the stage authority, two sets a mutator *)
(* installs and four sets with an installer of their own.  Each launcher of *)
(* the code reads its whole plan with one GET per object and then POSTs     *)
(* what is missing in the plan's order; they differ in the order, in what   *)
(* they accept as already there and in what they check before.  A family is *)
(* what its launcher differs in:                                            *)
(*   objects   the role of each object, in the order of the plan            *)
(*   files     the source files captured into its input                     *)
(*   pinned    the files read once and compared with a digest in the flags  *)
(*   mounts    the roles the workload cannot start without                  *)
(*   job       what the workload verifies and opens before it works         *)
(*   binds     the parts of a candidate its reviewed digest covers          *)
(*   verifies  the positions whose existing object is compared with the     *)
(*             plan; at any other position an existing object stops         *)
(*   elsewhere the positions that other work creates                        *)
(*   requires  the positions whose absence stops at once                    *)
(*   resumes   the sets of exact existing objects the launcher goes on from *)
(*   complete  the state reported when all objects exist exactly, or "none" *)
(*             when the launcher does not accept that                       *)
(*   checks    what is compared with the clock before the first GET         *)
(*   unknown   the mutation state after a lost or altered create            *)
(*   refused   the mutation state after a POST answered by another status   *)
(*   reviewed  whether the launcher is pinned to a reviewed digest: its     *)
(*             commands are then two, `prepare' and `execute'               *)
(*   done      the state of a receipt of a complete launch                  *)
EXTENDS Naturals, Sequences, SequencesExt

(* The Secrets of a Job's credentials, each for one authority.              *)
CredentialRoles ==
    {"ledger", "ledger-writer", "authority", "writer", "observer",
     "management-observer", "workload-observer", "workload-writer",
     "persistence-writer", "argo-observer"}

(* What the digest of a candidate can cover.                                *)
CandidateParts == {"input", "token"}

(* A Job's command verifies the files `loads' of its input as one bundle,   *)
(* and then takes the steps `opens' in order: a file is verified late, a    *)
(* credential is read into a client.  No step contacts an API.  Only then   *)
(* the stage runs, bounded by the command's timeout.                        *)
Job(loads, opens) == [loads |-> loads, opens |-> opens]
NoJob == Job({}, <<>>)

LedgerRoles == {"ledger", "ledger-writer"}

(* The private material of a stage launch: what its package is built from,  *)
(* the objects of the package, and the credentials.                         *)
StageMaterial(files, pinned, package, credentials) ==
    [files |-> files, pinned |-> pinned, package |-> package,
     credentials |-> credentials]

(* The order of six of the seven stages: what is public before the          *)
(* credentials, and the Job last.                                           *)
StageOrder(material) ==
    <<"runtime">> \o Front(material.package) \o material.credentials
        \o <<Last(material.package)>>

(* What is created by a command of its own is reviewed when that command    *)
(* comes with one that prints the digest: `execute' then demands a digest,  *)
(* derives its candidate again and opens the launcher with both.            *)
Reviewed(commands) == {"prepare", "execute"} \subseteq commands

(* A stage launcher reports a set that is wholly there.                     *)
StageFamily(objects, material, mounts, job, binds, verifies, resumes, checks, commands) ==
    [objects |-> objects, files |-> material.files,
     pinned |-> material.pinned, mounts |-> mounts, job |-> job,
     binds |-> binds, verifies |-> verifies, elsewhere |-> {},
     requires |-> {}, resumes |-> resumes, complete |-> "ALREADY_LAUNCHED",
     checks |-> checks, unknown |-> "ATTEMPTED_UNKNOWN",
     refused |-> "ATTEMPTED_UNKNOWN", reviewed |-> Reviewed(commands),
     done |-> "LAUNCHED"]

(* An activation launcher wants every name of its package absent.           *)
ActivationFamily(objects, mounts, checks, commands, done) ==
    [objects |-> objects, files |-> {}, pinned |-> {}, mounts |-> mounts,
     job |-> NoJob, binds |-> CandidateParts, verifies |-> {},
     elsewhere |-> {}, requires |-> {}, resumes |-> {{}}, complete |-> "none",
     checks |-> checks, unknown |-> "ATTEMPTED_UNKNOWN",
     refused |-> "ATTEMPTED", reviewed |-> Reviewed(commands),
     done |-> done]

(* An installer of one object takes an exact one for its own work.          *)
OneObjectFamily(role, existing, unknown, done) ==
    [ActivationFamily(<<role>>, {}, {}, {}, done)
        EXCEPT !.verifies = {1}, !.complete = existing, !.unknown = unknown]

(* The receipts of a stage's predecessors, as its input captures them.      *)
ReceiptFiles ==
    <<"provider-receipt", "lifecycle-receipt",
      "lifecycle-observation-receipt", "enablement-receipt",
      "network-observation-receipt", "runtime-binding-receipt",
      "target-access-receipt", "target-credential-receipt",
      "target-registration-receipt", "platform-applications-receipt",
      "platform-observation-receipt">>
Predecessors(n) == {ReceiptFiles[i] : i \in 1..n}
Granted == {"staged-plan", "stage-grant", "stage-authority"}

-----------------------------------------------------------------------------

(* What every stage reads once and compares with a digest: the template of  *)
(* its Job and the manifest of the ServiceAccount the Job runs as.          *)
Templates == {"job-template", "runtime-manifest"}

(* The two comparisons with the clock.                                      *)
Clocked == {"remaining", "materialized"}

-----------------------------------------------------------------------------

(* This launcher goes on from any exact prefix.                             *)
SubmissionPackage == <<"input", "policy", "job">>
SubmissionCredentials == <<"ledger", "authority">>
SubmissionFiles ==
    Granted \cup {"projection-manifest", "authority-map",
                  "ok-infra-prerequisites", "ok-mgmt-lifecycle"}
            \cup Predecessors(1)
SubmissionPinned == Templates
SubmissionMaterial ==
    StageMaterial(SubmissionFiles, SubmissionPinned,
                  SubmissionPackage, SubmissionCredentials)
SubmissionObjects ==
    <<"runtime">> \o SubmissionCredentials \o SubmissionPackage
SubmissionMounts == {"runtime", "input", "ledger", "authority"}
SubmissionLoads == SubmissionFiles
SubmissionOpens == <<"ledger", "authority">>
SubmissionJob == Job(SubmissionLoads, SubmissionOpens)
SubmissionBinds == CandidateParts
SubmissionVerifies == 1..Len(SubmissionObjects)
SubmissionCommands == {"prepare", "execute"}
Submission ==
    StageFamily(SubmissionObjects, SubmissionMaterial,
                SubmissionMounts, SubmissionJob, SubmissionBinds,
                SubmissionVerifies,
                {1..k : k \in 0..(Len(SubmissionObjects) - 1)}, Clocked,
                SubmissionCommands)

EnablementPackage == <<"input", "policy", "job">>
EnablementCredentials == <<"ledger", "writer">>
EnablementFiles == Granted \cup {"enablement"} \cup Predecessors(3)
EnablementPinned == Templates
EnablementMaterial ==
    StageMaterial(EnablementFiles, EnablementPinned,
                  EnablementPackage, EnablementCredentials)
EnablementObjects == StageOrder(EnablementMaterial)
EnablementMounts == {"runtime", "input", "ledger", "writer"}
EnablementLoads == EnablementFiles
EnablementOpens == <<"ledger", "writer">>
EnablementJob == Job(EnablementLoads, EnablementOpens)
EnablementBinds == CandidateParts
EnablementVerifies == 1..Len(EnablementObjects)
EnablementCommands == {"prepare", "execute"}
Enablement ==
    StageFamily(EnablementObjects, EnablementMaterial,
                EnablementMounts, EnablementJob, EnablementBinds,
                EnablementVerifies, {{}, {1}}, Clocked, EnablementCommands)

LifecycleObservationPackage == <<"input", "policy", "job">>
LifecycleObservationCredentials == <<"ledger", "observer">>
LifecycleObservationFiles == {"staged-plan"} \cup Predecessors(2)
LifecycleObservationPinned == Templates
LifecycleObservationMaterial ==
    StageMaterial(LifecycleObservationFiles, LifecycleObservationPinned,
                  LifecycleObservationPackage, LifecycleObservationCredentials)
LifecycleObservationObjects == StageOrder(LifecycleObservationMaterial)
LifecycleObservationMounts == {"runtime", "input", "ledger", "observer"}
LifecycleObservationLoads == LifecycleObservationFiles
LifecycleObservationOpens == <<"ledger", "observer">>
LifecycleObservationJob ==
    Job(LifecycleObservationLoads, LifecycleObservationOpens)
LifecycleObservationBinds == CandidateParts
LifecycleObservationVerifies == 1..Len(LifecycleObservationObjects)
LifecycleObservationCommands == {"prepare", "execute"}
LifecycleObservation ==
    StageFamily(LifecycleObservationObjects, LifecycleObservationMaterial,
                LifecycleObservationMounts, LifecycleObservationJob,
                LifecycleObservationBinds, LifecycleObservationVerifies,
                {{}, {1}}, Clocked, LifecycleObservationCommands)

NetworkObservationPackage == <<"input", "policy", "job">>
NetworkObservationCredentials ==
    <<"ledger", "management-observer", "workload-observer">>
NetworkObservationFiles ==
    {"staged-plan", "network-profile"} \cup Predecessors(4)
NetworkObservationPinned == Templates \cup {"workload-binding"}
NetworkObservationMaterial ==
    StageMaterial(NetworkObservationFiles, NetworkObservationPinned,
                  NetworkObservationPackage, NetworkObservationCredentials)
NetworkObservationObjects == StageOrder(NetworkObservationMaterial)
NetworkObservationMounts ==
    {"runtime", "input", "ledger", "management-observer",
     "workload-observer"}
(* The profile of this stage is not part of its bundle.                     *)
NetworkObservationLoads == NetworkObservationFiles \ {"network-profile"}
NetworkObservationOpens ==
    <<"network-profile", "ledger", "management-observer",
      "workload-observer">>
NetworkObservationJob == Job(NetworkObservationLoads, NetworkObservationOpens)
NetworkObservationBinds == CandidateParts
NetworkObservationVerifies == 1..Len(NetworkObservationObjects)
NetworkObservationCommands == {"prepare", "execute"}
NetworkObservation ==
    StageFamily(NetworkObservationObjects, NetworkObservationMaterial,
                NetworkObservationMounts, NetworkObservationJob,
                NetworkObservationBinds, NetworkObservationVerifies,
                {{}, {1}}, Clocked, NetworkObservationCommands)

(* This launcher alone does not look at the time of materialization.        *)
RuntimeBindingPackage == <<"input", "policy", "job">>
RuntimeBindingCredentials ==
    <<"ledger-writer", "persistence-writer", "workload-observer">>
RuntimeBindingFiles == {"staged-plan"} \cup Predecessors(5)
RuntimeBindingPinned == Templates \cup {"workload-binding"}
RuntimeBindingMaterial ==
    StageMaterial(RuntimeBindingFiles, RuntimeBindingPinned,
                  RuntimeBindingPackage, RuntimeBindingCredentials)
RuntimeBindingObjects == StageOrder(RuntimeBindingMaterial)
RuntimeBindingMounts ==
    {"runtime", "input", "ledger-writer", "persistence-writer",
     "workload-observer"}
RuntimeBindingLoads == RuntimeBindingFiles
RuntimeBindingOpens ==
    <<"persistence-writer", "ledger-writer", "workload-observer">>
RuntimeBindingJob == Job(RuntimeBindingLoads, RuntimeBindingOpens)
RuntimeBindingBinds == CandidateParts
RuntimeBindingVerifies == 1..Len(RuntimeBindingObjects)
RuntimeBindingCommands == {"prepare", "execute"}
RuntimeBinding ==
    StageFamily(RuntimeBindingObjects, RuntimeBindingMaterial,
                RuntimeBindingMounts, RuntimeBindingJob, RuntimeBindingBinds,
                RuntimeBindingVerifies, {{}, {1}}, {"remaining"},
                RuntimeBindingCommands)

TargetAccessPackage == <<"input", "policy", "job">>
TargetAccessCredentials == <<"ledger-writer", "workload-writer">>
TargetAccessFiles == Granted \cup {"target-access"} \cup Predecessors(6)
TargetAccessPinned == Templates \cup {"workload-binding"}
TargetAccessMaterial ==
    StageMaterial(TargetAccessFiles, TargetAccessPinned,
                  TargetAccessPackage, TargetAccessCredentials)
TargetAccessObjects == StageOrder(TargetAccessMaterial)
TargetAccessMounts ==
    {"runtime", "input", "ledger-writer", "workload-writer"}
TargetAccessLoads == TargetAccessFiles
TargetAccessOpens == <<"ledger-writer", "workload-writer">>
TargetAccessJob == Job(TargetAccessLoads, TargetAccessOpens)
TargetAccessBinds == CandidateParts
TargetAccessVerifies == 1..Len(TargetAccessObjects)
TargetAccessCommands == {"prepare", "execute"}
TargetAccess ==
    StageFamily(TargetAccessObjects, TargetAccessMaterial,
                TargetAccessMounts, TargetAccessJob, TargetAccessBinds,
                TargetAccessVerifies, {{}, {1}}, Clocked, TargetAccessCommands)

(* The private runtime input (2) is the runtime binding stage's work.       *)
AggregateEvidencePackage == <<"input", "policy", "job">>
AggregateEvidenceCredentials ==
    <<"ledger", "management-observer", "workload-observer", "argo-observer">>
AggregateEvidenceFiles ==
    {"staged-plan", "aggregate-evidence-profile", "network-profile",
     "platform-profile"} \cup Predecessors(11)
AggregateEvidencePinned == Templates \cup {"platform-capability"}
AggregateEvidenceMaterial ==
    StageMaterial(AggregateEvidenceFiles, AggregateEvidencePinned,
                  AggregateEvidencePackage, AggregateEvidenceCredentials)
AggregateEvidenceObjects ==
    <<"runtime", "private", "input", "policy">>
        \o AggregateEvidenceCredentials \o <<"private", "job">>
AggregateEvidenceMounts ==
    {"runtime", "input", "private", "ledger", "management-observer",
     "workload-observer", "argo-observer"}
(* The workload's credential is opened by the evaluation itself.            *)
AggregateEvidenceLoads == AggregateEvidenceFiles
AggregateEvidenceOpens ==
    <<"private", "ledger", "management-observer", "argo-observer">>
AggregateEvidenceJob == Job(AggregateEvidenceLoads, AggregateEvidenceOpens)
AggregateEvidenceBinds == CandidateParts
AggregateEvidenceVerifies == 1..Len(AggregateEvidenceObjects)
AggregateEvidenceCommands == {"prepare", "execute"}
AggregateEvidence ==
    [StageFamily(AggregateEvidenceObjects, AggregateEvidenceMaterial,
                 AggregateEvidenceMounts, AggregateEvidenceJob,
                 AggregateEvidenceBinds, AggregateEvidenceVerifies,
                 {{2}, {1, 2}}, Clocked, AggregateEvidenceCommands)
        EXCEPT !.elsewhere = {2}]

PostRuntimeObjects == <<"private", "policy", "job">>
PostRuntimeCommands == {"prepare", "execute"}
PostRuntime ==
    ActivationFamily(PostRuntimeObjects, {"private"}, {},
                     PostRuntimeCommands, "ACTIVATED")

(* The collector's ServiceAccount (1) is a prerequisite, not created here.  *)
CollectorObjects == <<"runtime", "private", "service", "policy", "job">>
CollectorCommands == {"prepare", "execute"}
Collector ==
    [ActivationFamily(CollectorObjects, {"runtime", "private"}, {},
                      CollectorCommands, "ACTIVATED")
        EXCEPT !.verifies = {1}, !.elsewhere = {1}, !.requires = {1},
               !.resumes = {{1}}]

StageAuthorityObjects ==
    <<"private", "runtime", "volume", "service", "policy", "statefulset">>
StageAuthorityCommands == {"prepare", "execute"}
StageAuthority ==
    ActivationFamily(StageAuthorityObjects, {"private", "runtime", "volume"},
                     {}, StageAuthorityCommands, "INSTALLED")

PlatformApplicationsObjects == <<"application", "application", "application">>
(* One command creates the Applications as a part of its stage.             *)
PlatformApplicationsCommands == {"execute"}
PlatformApplications ==
    ActivationFamily(PlatformApplicationsObjects, {}, {},
                     PlatformApplicationsCommands, "INSTALLED")

TargetRegistrationObjects == <<"project", "registration">>
TargetRegistration ==
    ActivationFamily(TargetRegistrationObjects, {}, Clocked, {},
                     "INSTALLED")

-----------------------------------------------------------------------------
(* The installers that bring a part of a stage's objects on their own: the  *)
(* submission package, its two credentials, its ServiceAccount, and the     *)
(* credentials of the observability platform.                               *)

PackageInstallation ==
    ActivationFamily(SubmissionPackage, {"input"}, {}, {}, "INSTALLED")

CredentialInstallation ==
    ActivationFamily(SubmissionCredentials, {}, Clocked, {}, "INSTALLED")

RuntimeInstallation ==
    OneObjectFamily("runtime", "READY", "ATTEMPTED_UNKNOWN", "READY")

ObservabilityCredentials ==
    OneObjectFamily("private", "EXISTING_VERIFIED", "ATTEMPTED", "CREATED")

=============================================================================
