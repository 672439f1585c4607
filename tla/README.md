# ok-cluster: TLA+ specifications of the contract executor

These modules specify the parts of this repository that write to clusters and
machines: the Go executor under `src/internal`, which runs a signed
twelve-stage plan once, under separately authorised grants, and records what
it did; the launchers that put its Jobs into a management cluster; `ok local`;
and the teardown of a cluster. Their design rests on promises that a unit test
hardly reaches, because each takes several processes, crashes, lost or late
messages to break:

1. **One grant, one mutation.** Whatever crashes, races or is repeated, a grant
   pays for one effect, and none follows an attempt whose result is unknown.
2. **Records tell the truth.** A receipt that somebody holds is durable, belongs
   to the attempt that was made, and is never replaced.
3. **No step ahead of its evidence.** A stage begins only on the persisted
   successes of all stages before it, on reviewed inputs, and on credentials
   that have not expired; a stop says where it happened.
4. **Nothing is destroyed that is not one's own.** A teardown and `ok local down`
   delete what their durable record names, and nothing else.

Sections: 1 the system, 2 the modules, 3 the runs, 4 the proofs, 5 what is only
model-checked, 6 abstractions, 7 disagreements met while modelling, 8 what is
left, 9 how to run it.

## 1. The system

### Components and how they interact

```
   operator ── ok local ─────────> Docker, Kind, port forward      LocalCluster
      |
      |  files: plan, projection, artifacts, grants       SubmissionPlan
      v
   capture ─> candidate ─> review ─> launch ─> Job / CLI  StageLaunch,
      |                                                   LaunchFamilies
      v
   FullRunOrchestration ─> prefix 1-7 ─> bind ─> suffix 8-12       FullRun
      |                                  (credential 8 -> 9 in memory)
      |        prefix of receipts ─> cursor ─> next stage          StageChain
      |
      |  mutating stage                     read-only stage
      |    HTTP resolver ── POST ──> bounded authority    StageAuthorization
      |    StagedOperation.Run                            StageLedger, GrantOnce
      |      └> mutator ─> Kubernetes API                 PlaneSubmission
      |      └> stages 8, 9 and their recoveries          TargetCredentials
      |                                     Run / Retry   ReadOnlyStage
      |                                       └> bind     RuntimeBinding
      |                                       └> poll     StageObservation
      v
   grant and receipt ledger: claims, outcomes, stage receipts
   (create-only: files, or ConfigMaps)

   ok cluster teardown ─> provider and management planes           ClusterTeardown
```

| Component (source) | State it keeps | Operations | What is hard | What makes it correct |
|---|---|---|---|---|
| Grant and receipt ledger (`ledger/`) | claim, outcome and receipt records, create-only, in files or ConfigMaps | claim, complete, inspect, store, finalize, load | files torn by a crash; lost answers of a create, or a create served after it was given up; two executors with one grant | a grant is consumed once, an outcome belongs to its claim, a receipt to its outcome |
| Staged operation (`execution/staged.go`) | its claim, in memory | inspect, claim, mutate, complete, finalize | a crash between any two calls | no second mutation; an orphaned claim is never retried |
| Authorization resolver (`runner/stage_authorization_http_resolver.go`) and authority (`stageauthority/`) | used requests, grant file; claim files | resolve; verify, claim, sign | repeated POSTs, handlers that outlive their caller, lost answers, restarts | one grant is signed per request; a lost one stays lost; every call ends |
| Read-only operations (`execution/staged_{observation,binding,evaluation}.go`) | none besides the ledger | `Run`, `Retry` | two runs race for one slot; a retry rests on a receipt read earlier | what is returned is durable; replay does not observe again |
| Runtime binding (`runner/runtime_binding_*.go`) | Secret or file with the material, receipt beside it | poll, build, persist, hand off, load | the StorageClass is re-created meanwhile; a create served late; death between file and receipts | every success is backed by the one material it names |
| Observation and evaluators (`observation/`, `runner/*_observer.go`) | one pass, the last verified result, start of a warm-up | read sources, evaluate, poll, defer | the world changes between two reads; deadline, failing reads | a True rests on its own pass; the newest evidence is returned; it ends |
| Plans, receipts, cursor, recovery (`stageplan/`, `stagereceipt/`, `stagecursor/`) | documents, a cursor | load prefix, evaluate, recover | reordered, foreign, forked or stopped prefixes | a decision rests on one linear history |
| Submission (`submission/`, mutators in `execution/`) | files read three times; local to the call | load, verify, plane; GET, confirm, POST per object | files change between two reads; other clients create, change and delete in between | what is submitted is what was reviewed; each object is posted once, in order; the receipt is true |
| Launchers (`runner/*_launcher.go`, `*_installer.go`) | candidate, prepared receipt, objects in the cluster | capture, review, check the clock, preflight, create | two launchers, edited files, foreign objects, expiring tokens | no workload but from one reviewed candidate; receipts are true |
| Full run (`runner/full_run_*`, `pre_runtime_*`, `post_runtime_*`) | `used`, receipt directory, credential handoff | run, checkpoint, bind, discard | goroutines sharing one object, cancellation anywhere, replacement of the process | evidence before work; plan run once; truthful stop; credential confined |
| Target credential and registration, with recoveries (`runner/target_*`) | grants, receipts, registration Secret | token request, create, reissue, compare-and-swap refresh | lost updates, expiry, crash between reissue and refresh | a grant pays for one effect; the Secret is accounted for; refreshes in turn |
| `ok local` (`cmd/ok/local_cluster.go`) | ownership receipt, Kind cluster, forward process | up, resume, reconnect, status, diagnose, down | no lock; death anywhere; reused pids; a cluster re-created behind the receipt | only the recorded cluster is destroyed; none is forgotten |
| Teardown (`scripts/talos_golden_lifecycle.py`, `cmd/ok/destroy_cluster.go`) | record of UIDs, in two places over its history | record, delete in order, clean up, migrate, prune | disks come and go; the cluster is installed again; two commands | deletes what is recorded, in order; "complete" means gone |
| Everything else | none worth a model | parsing, packaging, probes, admission webhook, CLI | | |

The full list, with the reason for each part left out, is in `PROJECT.json`
("components"); so are the hazards, each at its line with the properties that
would catch it going wrong.

### The environment assumed

- A process may die between any two store calls, requests or file operations.
  Files and ConfigMaps survive. A power failure that undoes an unsynced
  directory entry is not modelled; for the authority's claim directory
  (`stageauthority/authority.go:392`) it would matter.
- Clocks are not synchronised where two machines are involved.
- A request that was given up may be processed at any later time.
- A digest identifies what it is taken of: where the code embeds a digest, the
  models embed the record. Signatures are not forged.
- Recovery plans are built and verified but refused for execution
  (`ErrRecoveryExecutionDisabled`, `stageplan/plan.go:450`).

## 2. Modules

| Module | Models | Run | Proved in |
|---|---|---|---|
| `GrantOnce` | what the ledger promises, without processes, stores or crashes | (as a property of `ledger`) | |
| `StageLedger` | ledger and staged operation, one action per store call | `ledger` | `LedgerTeardownProofs` |
| `StageAuthorization` | resolver and authority, one action per request or file operation | `authorization` | `StageAuthorizationProofs` |
| `ReadOnlyStage` | `Run` and `Retry` of the read-only stages over the receipt store | `readonly` | `RuntimeBindingProofs` |
| `RuntimeBinding` | the binding stage on top of it, and what later stages load | `readonly` | `RuntimeBindingProofs` |
| `StageObservation` | polling, passes, evaluators, deferral | `observation` | `StageObservationProofs` |
| `StageChain` | plans, receipts, cursor, recovery | `chain` | `ChainLaunchProofs` |
| `PlaneSubmission` | one `Submit` against a shared API server | `submission` | `PlaneSubmissionProofs` |
| `SubmissionPlan` | how the planes are read from files, on top of it | `submission` | `PlaneSubmissionProofs` |
| `LaunchFamilies` | the sixteen launch families, as data | `launch` | |
| `StageLaunch` | a launch and the start of its workload | `launch` | `ChainLaunchProofs` |
| `FullRun` | the orchestration of twelve stages | `full_run` | `RunLocalProofs` |
| `TargetCredentials` | stages 8 and 9 and their recoveries | `target_credentials`, `full_run_registration` | `TargetCredentialsProofs` |
| `LocalCluster` | the commands of `ok local` on one name | `local` | `RunLocalProofs` |
| `ClusterTeardown` | teardown, migration and pruning of its record | `cluster_teardown` | `LedgerTeardownProofs` |

`MC*.tla` give the constants small values, `MC*.cfg` are the runs. Some
definitions have a neighbour (`ExactReplay` and `ReplayOfAnything`), named
"mutant" or "variant" in its comment: a plausible mistake in the definition
beside it, which no action uses, and which its property has been seen to catch.

**StageLedger.** `claims`, `outcomes`, `slot` and `attempt` are the categories of
the store; `pc`, `grant`, `held`, `result` the locals of `StagedOperation.Run`;
`mutated` counts calls of the mutator. `ClaimStage` and `ClaimWrite` are the
halves of `writeExclusive`: after the first the record is `Torn`, which exists
and does not decode, and a crash leaves it so. Over the Kubernetes store
(`fileBacked` FALSE) a create is one action whose answer may be an error although
it took effect; `GiveUp` is the create whose client stops waiting, or dies, before
the server has looked at it. It stays in `late`, and `ServeLate` processes it at
any later time, or never, under the same rule as any other create.

**StageAuthorization.** A POST adds a connection to `conn`. `ServeClaim` and
`ServeSign` are the handler's two halves, separated by the claim file, and run
whether or not the caller still waits. `ResolverRestart` and `AuthorityRestart`
forget what is in memory.

**ReadOnlyStage, RuntimeBinding.** The three operations share their protocol and
differ in which outcomes may be retried, the constant `Retryable`. `key` is the
slot a run stores to: the deterministic one, or, where that holds another
receipt, the one named by the digest. `RuntimeBinding` extends it: what a run
does when it observes. `bind` is how far the binder is; `secret`, `output`,
`handed` are the Secret, the files and the material receipts beside them, `late`
the creates nobody waits for any more. `kind` chooses between the Secret of a
stage Job, the file of a full run, and any other read-only stage, whose observer
is left open; both stores of the ledger are looked at for the last only, since
bindings exist over the Kubernetes ledger alone. The binder's identity is read
before the predecessors are read again and long before the material is
persisted, so what was observed may be stale when it is recorded.

**StageObservation.** `world` is what every source would answer now, `pass` what
the current pass has read; `Read` reads one source, the next its collector is
allowed to open. The evaluators are pure operators over `pass`. `held` (a
history) collects the sources that were sound at some instant of the pass.

**StageChain.** Plans and receipts are documents that embed each other; `cursor`
holds the receipts being loaded and then the decision. A stage may only be run
on a decision, and what is stored is any receipt the verification admits, under
any plan, so forks into recovery plans and reordered prefixes occur.

**PlaneSubmission, SubmissionPlan.** `Get`, `Confirm`, `PostCreates`,
`PostConflicts` and `PostFails` are the branches of `submitObject` and
`confirmObservedMismatch`; `Others` and `LatePost` are the rest of the world.
`SubmissionPlan` puts before it how each stage's files are read, three times in
all (`Verify`, `ReverifyAtUse`, and the digests `loadPlane` compares), while
`Edit` changes them.

**LaunchFamilies, StageLaunch.** A family is a record: its source files, its
objects in order, the credential they hold, what its workload opens. `StageLaunch`
takes any of them through capture, candidate, review, clock, preflight and
creates, twice at once, and then through the workload.

**FullRun.** A stage passes the phases *install* (only 10), *resolve* (only
mutating stages), *open*, *run*, *persist*; *bind* stands between 7 and 8. A
stage's inner working is one step, whose result may be any that `StageLedger` or
`ReadOnlyStage` allow. The authority appears as the set of stages whose grant is
gone. `NewProcess` keeps what is durable and forgets the rest.

**TargetCredentials.** An execution (`run`) claims a grant of stage 8, asks for
one token, records and finalizes the issue, and then registers or refreshes
under a grant of stage 9; the kinds differ in where they begin. `secret` is the
sequence of credentials the registration Secret has held, its length the
resourceVersion. `spent` counts the effects each grant has paid for.

**LocalCluster.** One action per command step between two that another process
or a death can separate. The temporary file of the receipt (`temps`), the process
table and the cluster behind the recorded name are separate, so that a pid may be
reused and a cluster re-created between a check and the act it was made for.

**ClusterTeardown.** The two planes, the namespace, disks with their volumes, the
record in its two places, and commands that hold what they read in `run`.
`Controllers` release disks, `Install` installs the cluster again, `Meddle` is
another client.

### How they fit together

`StageLedger` implements `GrantOnce` under a refinement mapping, checked and
proved. `RuntimeBinding` extends `ReadOnlyStage`, `SubmissionPlan` extends
`PlaneSubmission`, and `StageLaunch` is driven by `LaunchFamilies`: each pair is
one specification and is checked as one. `FullRun` takes from `StageLedger`
(`AtMostOneMutation`) that an operation leaves at most one outcome, and from
`StageAuthorization` (`AtMostOneGrant`) that a stage's grant is obtained once,
which it states as `Grantable`; `TargetCredentials` takes the ledger's grant
record the same way. These last links are stated in words only.

## 3. What the runs show

Every passing run explores its whole state space. Deadlock is checked in
`ledger`, `readonly`, `observation` and `chain`, where something can always go
on; the others stop when their bounds are used up or the work is done.

| Run | Shows |
|---|---|
| `ledger` | 2 executors with 2 grants of one stage, over either store, with torn writes, lost and late answers and deaths: single use (`AtMostOneMutation`), an outcome belongs to the claim it was made under (`OutcomeBoundToClaim`), a receipt to the outcome of its grant (`ReceiptBoundToOutcome`), an orphaned claim is never retried, and the only outcome it may still get is the one its own run had posted (`OrphanNeverRetried`), the ledger implements `GrantOnce`. Creates are served late, after the run that gave them up has returned. 303,549 states |
| `authorization` | 2 calls, a permitted and a refused request, 2 attempts, restarts of both processes: one grant per request (`AtMostOneGrant`), a lost one stays lost (`LostStaysLost`), every call ends although the authority need never answer. 332,343 states |
| `readonly` | 2 executors, 2 predecessors, every kind of read-only stage: what was returned is durable (`CompletedIsDurable`), retries rest on what is on record (`RetryRestsOnTerminal`), nothing on record is replaced (`ReceiptsKept`), every success of a binding is backed by the one material it names (`BindingBacked`). 493,723 states |
| `observation` | five observers over a world that changes between two reads: a True rests on its own pass (`SucceededRestsOnItsPass`), the newest verified evidence is returned (`OutcomeIsNewest`), a deferral was continuous (`DeferralWasContinuous`), it ends. 667,742 states |
| `chain` | any stored receipts under any plan document: `DecisionRestsOnOneHistory`, `EveryReceiptHasItsHistory`. 84,919 states |
| `submission` | every stage that submits, from its files to the result: `SubmitsWhatWasReviewed`, `CreatedOnceInOrder`, `ResultsTrue`, `SubmitEnds`. 1,660,397 states |
| `launch` | sixteen families, two launchers each: no workload but from one reviewed candidate (`WorkloadRestsOnReview`), true receipts (`ReceiptTrue`), credentials outlive the launch (`CredentialsOutliveLaunch`). 1,817,988 states |
| `full_run` | three processes in turn, two callers each, both completion modes: `PredecessorsPersisted`, `NoStageTwice`, `StoppedWhereItSays`, `SucceededIsWhole` |
| `target_credentials` | three executions over stages 8 and 9 and their recoveries: `OneEffectPerGrant`, `RegistrationIsAccounted`, `RefreshReplacesWhatItRead`. 139,851 states |
| `full_run_registration` | violation of `FullRunRegistersItsCredential`, see 7 |
| `local` | two commands on one name: `NoClusterForgotten`, `DestroysItsOwn`, `IdentityKept`. 1,339,325 states |
| `cluster_teardown` | two commands on one or two planes: `CompletedIsGone`, `DeletesOnlyRecorded`, `RecordKept`, `OrderKept`. 753,180 states |

### Bounds

- *Two processes* everywhere but in `target_credentials` (three executions: one
  that fails, one that recovers, one that competes): every race in the code is
  between one that has created a record and one that has not, or between a check
  and the act it was made for. What the proofs cover does not depend on the
  number.
- `ledger`: two grants of one stage are what a retried predecessor produces; they
  compete for the deterministic receipt slot. Two instants put a reading inside
  and at the end of a grant's window. The number of late creates is not bounded.
- `authorization`: two attempts are one retry; `MaxCalls` = 2 is one call before
  and one after a restart, or two at once.
- `readonly`: `MaxUid` = 2 is one re-creation of the StorageClass, `MaxRuns` = 3
  a run, its competitor and a retry, two paths for the files.
- `observation`: an interval of 1 in a timeout of 2 gives three passes; three
  changes of the world for the lifecycle observer, one for the aggregate observer
  (whose world has every source), two for the others.
- `chain`: a complete plan of 4 stages, a bare one of 3, 2 inherited; 3 receipts
  and 1 stop allow a recovery and a fork beside what it inherits. The proof does
  not depend on the lengths.
- `submission`: one edit between two readings of one file (`MaxEdits`), planes up
  to 2 objects are submitted and longer ones only loaded (`MaxPlane`; 3 for the
  operation over both planes, whose shortest plane that names a Cluster has as
  many), 4 identities allow two objects to come into being after those that exist
  at the start; `Attempts` = 2 has a first and a last confirmation, and the code's
  900 only repeat the first.
- `launch`: one foreign or altered object, one edited file of two, two sets of
  tokens (one that expires within the launch), two reviewed candidates for plans
  of up to three objects and for the submission, one for the longer ones. The
  clock runs to its end for plans of up to three objects, one step for the
  lifecycle observation, and stands for the other long ones; the proof covers
  any clock.
- `target_credentials`: one instant after the start, lifetimes at and above the
  minimum.
- `local`: 2 owners (one installation after another), one pid and 2 starts of the
  forward: what somebody else runs, or the second forward, takes the pid of the
  first.
- `cluster_teardown`: 2 disks, and one event (`MaxForeign`) among a new
  installation, a new disk, and an object somebody else deletes or re-creates.

### Fairness

`authorization`: weak fairness of a call's own steps, giving up on a connection
(the HTTP client has a timeout) among them. `submission`: weak fairness of the
client, whose requests time out after 15 s and whose confirmation window after
30 min; none of other clients. `observation`: weak fairness of "the observer or
the clock": requests end at the client's timeout and time passes.
`ledger` states no liveness: a run of `StagedOperation.Run` is a straight line of
calls, each under a context or a client timeout, with no loop to get stuck in.
Liveness of the launchers, of recoveries, of `ok local` and of the teardown is
not stated: they may be stopped by their callers at any point, and their
re-runs are started by people.

## 4. What is proved

The theorems hold for every value of the constants that satisfies the named
assumptions in the modules (disjointness of markers and records, numbers being
natural), which TLC evaluates in the runs.

| Module | Theorems | Say |
|---|---|---|
| `LedgerTeardownProofs` | `SingleUse`, `OutcomesBound`, `OrphansAreNotRetried`, `ReceiptsBound`, `LedgerImplementsGrantOnce`, `TypeCorrect` | all properties of `ledger`, for any number of executors, grants and stages, either store, any number of late creates |
| `LedgerTeardownProofs` | `TeardownInductive`, `CompletedRecordsAreTrue`, `OnlyRecordedIsDeleted`, `TheRecordIsKept`, `TheOrderIsKept` | all properties of `cluster_teardown`, for any number of commands at once, disks, installations, deaths and objects somebody else deletes or recreates |
| `StageAuthorizationProofs` | `SingleGrant`, `LostRequestsStayLost`, `AuthorizationTypeCorrect` | the safety of resolver and authority, for any number of calls, attempts and restarts |
| `RuntimeBindingProofs` | `CompletionIsDurable`, `RetriesFollowTerminal`, `RecordsStay`, `SuccessesAreBacked`, `OperationAlone` | all properties of `readonly`, for any number of processes, paths and StorageClasses; the first three also for the operation with any observer |
| `StageObservationProofs` | `TrueRestsOnItsPass`, `NewestIsReturned`, `DeferralsAreContinuous` | the safety of `observation`, for any inventory of nodes, any Applications, any intervals and ages, and a world that changes without bound |
| `ChainLaunchProofs` | `HistoriesAreWhole`, `DecisionsRestOnOneHistory` | both properties of `chain`, for any documents, lengths and numbers of receipts |
| `ChainLaunchProofs` | `LaunchInductive`, `WorkRestsOnReview`, `ReceiptsAreTrue`, `CredentialsOutlive` | all properties of `launch`, for any number of launches at once, any orderly family, any files, credentials, times and foreign objects |
| `PlaneSubmissionProofs` | `CreatesOnceInOrder`, `ReceiptsAreTrue`, `WhatWasReviewedIsSubmitted` | the safety of `submission`, for planes of any length, any number of confirmations and any other clients, and any number of changes to the files that are loaded |
| `TargetCredentialsProofs` | `GrantsPayOnce`, `RegistrationAccounted`, `RefreshesInTurn` | all properties of `target_credentials`, for any number of executions and grants |
| `RunLocalProofs` | `PlanRunOnce`, `PredecessorsFirst`, `StopsTruthfully`, `SucceedsWhole`, `CredentialStaysInside`, `RunTypeCorrect` | all properties of `full_run`, for any number of callers and processes, and that the stage-8 credential is held only by a run between stages 8 and 9, never after it returned |
| `RunLocalProofs` | `LocalInductive`, `ClustersAreNotForgotten`, `OnlyItsOwnIsDestroyed`, `IdentitiesAreKept`, `LocalTypesHold` | all properties of `local`, for any number of commands at once, owners, pids and forwards, deaths anywhere, and anything outsiders do to processes and clusters |

Each proof has the same layout. An inductive invariant strengthens the property
(TLC has checked it as an invariant of the run before it was proved); one lemma
per action shows that the action preserves it; where actions are many, a *frame*
lemma says once what a step of one process may do to the rest (which variables of
others it leaves, which records it may create), and each action is shown to be
such a step and to restore what is known of its own process. The temporal
theorems follow from the invariant by one step of temporal logic.

**The ledger.** `AtMostOneMutation` is not inductive: a second mutation is
excluded only if it is known who may still make the first. `IInv` adds that. The
steps between creating the claim and creating the outcome are *owning*;
`OneOwner` says that one process at most is owning a grant, because a claim is
created only where there was none. `OwnerKnows` is what an owner relies on: the
stored claim is its own, or torn if not yet written; the mutator was called
exactly if it is past that step; there is no outcome but the one it is writing.
`LateKnows` says the same of a create nobody waits for: a late claim is inside the
window of its grant, and once an outcome is late, no run owns its grant any more
and no second outcome is late; so whatever the server makes of it, it is the
outcome of the one mutation under the stored claim.
The refinement maps a claim of any kind, torn included, to a consumed grant and
a complete outcome to its result. `ReceiptsBound` needs four more parts (`RInv`):
what a run is about to store, what is stored, what may still be served late and
what was returned all rest on the recorded outcome of a grant of that stage.

**Resolver and authority.** The claim file is what makes the grant unique:
`OneBears` says that one connection at most is past the claim of a request, or
holds its 201, and `ConnectionsKnow` that the number of signatures is 0 until
that connection is answered and 1 from then on. `OneCall` says the same of the
calls of one resolver object, whose `used` set outlives the call; `CallsKnow`,
`FilesKnow` and `RepliesKnow` tie what a call received to its file.

**Read-only stages and the binding.** `StoreInv` says that a file being written
has one writer (`WriterAlone`), that what a run found when it began is still
there when it looks (`StillThere`), and what each process may rely on.
`RecordGrows` is the frame: a step creates a record where there was none, or
completes the torn one it created itself. `BindingInv` adds the binder: a file
being written is its writer's alone, and every receipt that is stored, about to
be stored or returned is of the material that is in the Secret (`ReceiptsBacked`),
which works because a success is reported only after the Secret was seen or
created with this very material, and nothing replaces it.

**Observation.** `PInv` says three things of an observer that has not returned.
What is sound now was sound at an instant of the pass (`HeldNow`), so what a read
brings is in `held` if it looks sound (`PassKnows`); what is last was not True
(`LastIsNewest`); and the CAPI result bound before the first pass stands on an
instant of the same pass (`FirstKnows`). Below that lies the larger part of the
proof: lemmas that say what each evaluator's True demands of what was read
(`NetworkVerdict`, `PlatformVerdict`), that among the answers a source can give
only sound ones meet the demand (`NodesAnswers`, `ProbeAnswers`), and that a
collector which has nothing left to read has read every source of its family
(`NetworkRests`, `PlatformRests`). They need the inventory to be finite and not
empty, as the profiles' validation requires (`InventoryAssumption`).

**Plans and receipts.** `ChainInv` says that every receipt on record has its whole
history on record (`ReceiptKnown`), that a cursor's prefix is one the loader
admits, and that a recovery's prefix begins with what its binding inherits. A
receipt is stored only on a decision, so histories grow by one; that a decision
rests on one history then follows from the links that verification compares.

**Launches.** `LaunchInv` has four parts. `Everyone` says of each process, beside
its shape (`Shaped`), that it derived from files of its family and, once open,
from an admitted candidate (`Sourced`); that its deadline lies within the launch
timeout of the instant at which the clock was checked (`Timely`), which is what
credentials outliving the launch rests on; and that all it believes exists, or
has sent the predecessors of, is exact for its own candidate (`Exact`). `Disjoint`
says that no two processes claim to have created the same object. A request the
server still has may outlive its launch, so `Exact` speaks of the request as well
as of the process: everything below the position it asks for is there.
`Grounded` draws the conclusion for the cluster: the object that starts the work
exists only when all others are those of one admitted candidate, whoever sent it
and however late. `WorkVerified` follows the work from there. It rests on objects
being immutable: what exists stays what it is (`Kept`, `OthersKept`). What the
proof needs of a family is `Orderly`, assumed of every family
(`FamilyAssumption`) and evaluated by TLC for the sixteen of the code: the digest
covers the whole candidate, the last object is the launch's own, and the work
verifies every captured file before it opens a credential of the ledger or runs.

**Submission.** `SInv` identifies the objects posted with the position the
submission has reached, and what it believes of an object with what that object
was at some time: an object that matches is known to have matched, and the
identity being confirmed is the one first met.

**Loading.** `PlanInv` says, for each place a loader may stand at, what has been
bound by then: past `Verify` the artifact of the stage is the reviewed one
(`HeldIsReviewed`), and what has been decoded is what was bound, not what the files
hold now (`Holds`). That is why the reading which decodes has to compare once more
(`AsBound`). The rest is about opening, stage by stage: inserting the Secret moves
nothing else (`InsertedAt`); binding the identity of the target and sorting by name
lose and repeat no document (`BoundAll`, `ApplicationsAsReviewed`); the accepted
kubeconfig yields one context with its cluster and user (`SecretHasSelected`); and
the documents of target access, given by kind and name, grant what
`ReadersAndManager` says (`ReadersAre`).

**Credential and registration.** `CInv` says of each execution which grants it
owns and what the ledger holds of them, that it has paid with a grant only once
it has sent what the grant is for, that nothing of it is on the wire or in the
Secret before it has come to its writes, and that a result it recorded is true:
a success was registered, a "not attempted" wrote nothing.

**The full run.** `NoStageTwice` rests on one fact about two processes: a run
that is past the grant of stage 1 took it when it was still free, so nothing had
been begun before it (`Single`). From there on `Progress` identifies what was
invoked with what the run has reached.

**The teardown.** What commands know is stated about the identities that exist
(`World`), and of a step it is said once what it may do to them (`Moves`: what is
gone comes back, if at all, with another identity; claims are added only while a
Cluster and the namespace stand) and to the record (`Succeeds`: an incomplete
record only grows, and is completed when nothing of it is left). `KnowsMoves` and
`KnowsSucceeds` show that nothing a command relies on is disturbed by either, so
each action has to be examined for its own command only. The invariant rests on
one disjunction in `Relies`: the record a command works from is still in the
ledger, perhaps grown (`Covers`), or everything it names is gone already
(`Over`), so that a command overtaken by another has nothing left to delete.
`Achieved` and `CleanedUp` say what it has seen deleted; `Inventoried`, that a
namespace under a saved inventory holds no claim the record does not know. It
speaks of installations that did not reuse a namespace, as `OrderKept` does.

**ok local.** `NoClusterForgotten` is about files that commands replace by path,
so the proof has to say who may replace them. `LInv` says of each command where
it may be and what it then holds (`Placed`, `Remembers`), and that what it checked
last still holds, or was overtaken (`Checked`): the recorded process has the pid
or nobody has, the recorded cluster has the name or none has, and a command that
removes files has seen the cluster gone. `Alone` says that up to its first update
of the receipt the command that drew an owner is the only one that knows it;
`Agree`, that from then on all receipts of the owner carry the same identities, in
whatever command's memory they are. `Accounted` is the property strengthened to
clusters that may still be created: their receipt is on disk, and every command
past its intent holds a receipt of the same owner. A step of one command leaves
what relates the others to the files (`QuietStep`), or changes the machine and
must show that it disturbs no check but of those it overtakes (`LoudStep`,
`FitsMoves`); only four actions, which write the configuration, the intent, a later
receipt or remove it, have proofs of their own.

## 5. What is only model-checked, and why

- Liveness (`EveryCallEnds`, `SubmitEnds`, `EveryObservationEnds`): fairness and
  ENABLED are out of reach of the proof system used here.
- The refinement of `GrantOnce` is proved for safety; that `GrantOnce` itself
  has no more behaviours than intended is for the reader.

## 6. Abstractions

Formatting, digests, redaction and logging are left out; redacted stop categories
are kept in groups where a property is about them. Histories are marked as such in
the declarations and no guard reads one. Beyond that, by module:

- Creates in the ledger that are served after they were given up are modelled in
  `StageLedger`, which speaks of grants whose run is gone. In `ReadOnlyStage` and
  `TargetCredentials` such a create is that of a run that is only slow and then
  fails or dies: their properties do not ask whether the run that stored a record
  still stands, and the proofs are for any number of runs.
- `ReadOnlyStage`, `RuntimeBinding`: `CompletedAt` is ignored; attempts and
  deadline of the poll are one choice; `OpenWriter`'s Lstat and O_EXCL are one
  step; the Secret is immutable and nobody deletes it or a file.
- `StageObservation`: an answer of a source deviates from the sound one in one
  respect; JSON normalisation is whether an answer is well formed.
- `StageChain`: FAILED and STOPPED are one terminal outcome. The cursor does not
  know of longer prefixes than the one it is given.
- `PlaneSubmission`, `SubmissionPlan`: the comparison of an object is one Boolean;
  the confirmation window may close at any observation; what exists at the start
  is an exact prefix and one arbitrary object; files are forgotten after opening,
  a submission sees kinds only; two of five platform roles and one of two role
  pairs stand for all.
- `StageLaunch`: objects are immutable and never deleted; `PreparedAt`, the
  endpoint, CA and installer credential a candidate also binds are left out; a
  death is a lost answer; reloading the files is one step. The candidate's
  `validUntil` (`submission_stage_launcher.go:194`) is the first expiry less
  `minimumStageCredentialRemaining`: its check and that of each credential (`:202`)
  are one condition on the clock in `ClockAdmits`.
- `FullRun`: without the content of bundles, post-prefix activators, mismatch
  evidence and the suffix's recovery branches, and without the gate that closes it
  at this commit: `validatePreRuntimeCredentialPolicy` (`pre_runtime_execution.go:431-454`,
  called at `:133` and from `full_run_execution.go:75`) refuses every
  `WorkloadAuthority` that is not nil ("Approved resolver allowlist: EMPTY"), and a
  nil one fails the completeness check (`:146`). So no full run, and no prefix of
  one, can be opened through the exported API. `FullRun` and the full runs of
  `TargetCredentials` show what happens once a resolver is approved, as in the
  tests, which open them through substituted factories.
- `TargetCredentials`: inspecting and claiming a grant are one step; the receipt
  file is the ledger's slot; a token nobody receives is dropped; an altered
  response is given up on.
- `LocalCluster`: port and HTTP health check answer or refuse; a change of the
  provider is a refusal; the diagnostic's temporary file is atomic.
- `ClusterTeardown`: without the clone Role and RoleBinding and the render's
  other files; reading a record back is part of the write; no resourceVersion
  comes back; Flatcar's teardown is not modelled.

## 7. Disagreements met while modelling

`full_run_registration` is the one a run shows.
`docs/contract-executor-mvp.md:2747` says the runner normally issues and registers
the target credential within one process lifetime. A full run fixes the time of
materialization when it binds the suffix (`full_run_execution.go:178`), before
stage 8 asks for the token, and `target_registration_material.go:124` refuses a
materialization before the token's issue: unless both fall into one second, stage
9 stops. The tests use fixed clocks. The disagreement is latent: at this commit
no full run can be opened at all (section 6, `FullRun`).

Others, met on the way and stated here only:

*Ledger, authorization, read-only stages.*
- `docs/contract-executor-mvp.md:914` says a completed outcome can be made a stage
  receipt; one completed, by a slow clock, before its predecessor never can
  (`stagereceipt/receipt.go:249`), and nothing checks it before the mutation.
- `stage_authorization_http_resolver.go:130` promises exactly one POST per
  request; the polling loop (`:177`) makes several.
- `docs/contract-executor-mvp.md:882` promises that only a retry puts a success
  beside a failure; two plain runs that both found the slot empty store both
  (`ledger/stage_receipt.go:58`).

*Runtime binding.*
- The completion time is taken before the poll, so a receipt precedes its
  evidence. If the StorageClass is re-created after the Secret exists, the stage
  can never succeed again under that plan. A full run that dies between the
  stage's receipt and the material receipt cannot get past stage 6. In file mode
  two runs with different paths may both succeed, with different materials; the
  loader does not compare the receipt's evidence with the material.

*Observation.*
- An unready HCP is reported as `EnablementOwnerNotReady`, while the warm-up list
  has `EnablementSourceNotReady` (`network_stage_observer.go:227`).
- The comment "other False evidence remains terminal" and `ContinueOnFalse: true`
  disagree; so do `docs/ok147-r25-network-observation-diagnostic.md:35` (an error on the first read stops
  immediately) and `ContinueOnInitialError`.
- A Node that joins between the Node list and the Pod list is a terminal source
  error. A source error does not restart the delay of a warm-up deferral, and the
  deferral may report True although no HelmReleaseProxy and no Node was read.

*Plans and submission.*
- After a source error both the source plan and its recovery have the observation
  as next stage, which is why executing a recovery is refused.
- A stage plan binds only the stage's artifact; manifest and authority map are as
  good as their directory.

*Launchers.*
- "Mixed state stops zero-write" (`submission_stage_launcher.go:176`), while an
  exact prefix is resumed. A result says ATTEMPTED on any status but 201 even where
  a 5xx may have written. The runtime-binding launch does not compare the clock
  with `materializedAt`. `minimumStageCredentialRemaining` is 15 minutes, less than
  some of the runs it is meant for. The collector's prerequisite ServiceAccount is
  counted in results and not in the receipt.

*Full run, credentials.*
- A suffix that stops at stage 8 reports no plan digest, is taken for one of
  another plan, and its category never reaches the receipt
  (`full_run_orchestrator.go:224`), which `full_run_orchestrator_test.go:263`
  expects it to do.
- A stage-9 grant found COMPLETED is finalized without writing the fresh
  credential. A refresh compares tokens only for difference, not for expiry. A
  token whose answer crosses a second is refused after it exists
  (`target_credential_issuer.go:262`).

*ok local.*
- No lock between commands: a late rename or removal decided on an earlier owner's
  receipt can replace or remove the next installation's. `NoClusterForgotten`
  excepts those owners (`overtaken`); without the exception it is violated, and
  the text "original CREATING intent remains" is then untrue. A death may leave
  states that no command resolves: a rendered configuration without an intent, a
  deleted cluster with its receipt, a leftover temporary file, and a receipt READY
  without a forward. A killed run stays CREATING where the help says INCOMPLETE.

*Teardown.*
- A single-plane Longhorn volume is deleted by name and a failure there only warns
  although the record becomes complete; the promise that deletes bind to the
  verified UID does not hold for it. A disk provisioned between the inventory and
  the deletion of the Cluster is never recorded. An installation into a namespace
  that is being torn down is destroyed with it (`reused`, the exception in
  `OrderKept`). A completed record together with removal of local files (`remove-local`) may remove a
  render just made for a new installation.

## 8. What is left

1. Models: the bootstrap authority's claims and results with its observer task,
   the plan-level ledger calls, the assembly of activation packages.
2. Not worth a model: pure verification, canonical encoding, rendering, the
   stateless admission webhook, and the sequential scripts around external tools.

## 9. Running

```
tlc -workers 2 -config MCStageLedger.cfg MCStageLedger
tlapm LedgerTeardownProofs.tla
```

The longest runs take about a minute and a half on two cores, a proof module some
seconds to a few minutes.
