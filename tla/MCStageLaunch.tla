--------------------------- MODULE MCStageLaunch ---------------------------
(* Two processes, two issues of credentials of which the first expires      *)
(* early, two source files of which the network observation verifies one    *)
(* late, one foreign or altered object.  The sixteen families are fourteen  *)
(* different records.  A plan of at most three objects runs against the     *)
(* whole clock and has two reviewed candidates; of the longer ones only the *)
(* lifecycle observation sees the clock move, and only the submission,      *)
(* which resumes any prefix, has two reviewed candidates.                   *)
EXTENDS StageLaunch, TLC

MCFamilies ==
    {Submission, Enablement, LifecycleObservation, NetworkObservation,
     TargetAccess, RuntimeBinding, AggregateEvidence, PostRuntime, Collector,
     StageAuthority, PlatformApplications, TargetRegistration,
     PackageInstallation, CredentialInstallation, RuntimeInstallation,
     ObservabilityCredentials}
Symmetric == Permutations(Launchers)
MCMaterializedAt == [t \in Tokens |-> IF t = "early" THEN 0 ELSE 1]
MCExpiry == [t \in Tokens |-> IF t = "early" THEN 2 ELSE 3]

Short(f) == Len(f.objects) <= 3
MCMaxTime ==
    [f \in Families |-> IF Short(f) THEN 3
                        ELSE IF f = LifecycleObservation THEN 1 ELSE 0]
MCMaxReviews ==
    [f \in Families |-> IF Short(f) \/ f = Submission THEN 2 ELSE 1]

=============================================================================
