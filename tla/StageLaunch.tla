---------------------------- MODULE StageLaunch ----------------------------
(* How the objects of one family (LaunchFamilies) come to exist.  A launch  *)
(* is a short-lived ok process.  It verifies the source files, captures     *)
(* them one by one, verifies them again, and derives from what it captured, *)
(* from one set of credentials and from the times in its flags a candidate. *)
(* `prepare' prints the candidate's digest for a human to review; `execute' *)
(* derives the candidate again and goes on only when its digest is the one  *)
(* it was given.  Then it reads the clock, GETs every object of the plan    *)
(* and, when what exists is nothing, or exactly what the family may resume  *)
(* from, POSTs the rest in order.  It never writes again what it wrote.     *)
(*                                                                          *)
(* Several launches run at the same time, die, or give up on a request the  *)
(* API server still serves; the files are edited and edited back; somebody  *)
(* else creates an object of the same name; admission alters one.  The      *)
(* objects are immutable and nobody deletes one: that is assumed.           *)
EXTENDS LaunchFamilies, FiniteSets

CONSTANTS
    Launchers,          \* the ok processes
    Families,           \* the families of LaunchFamilies looked at
    Editable,           \* the source files somebody edits
    Tokens,             \* sets of credentials, one per issue
    MaterializedAt,     \* the time in the flags each set comes with
    Expiry,             \* when the first credential of a set expires
    MinRemaining,       \* minimumStageCredentialRemaining (15 min)
    LaunchTimeout,      \* stageLaunchTimeout
    MaxTime,            \* bound of the clock, for each family
    MaxForeign,         \* bound of foreign and altered objects
    MaxReviews          \* bound of reviewed candidates, for each family

ASSUME LaunchAssumption ==
    /\ MaterializedAt \in [Tokens -> Nat] /\ Expiry \in [Tokens -> Nat]
    /\ MaxTime \in [Families -> Nat] /\ MaxReviews \in [Families -> Nat]
    /\ {MinRemaining, LaunchTimeout, MaxForeign} \subseteq Nat
    /\ "absent" \notin Editable \cup Tokens
    /\ "foreign" \notin Editable \cup Tokens

(* What the families of the code have in common.  The digest covers a       *)
(* candidate as a whole; the last object is the launch's own; an attempt is *)
(* never reported as none, nor a stop as a complete launch; files that are  *)
(* captured go into an input object, and the work verifies all of them, in  *)
(* its bundle or late, before it opens a credential of the ledger.          *)
Orderly(f) ==
    /\ f.objects \in Seq(STRING) /\ f.objects # <<>>
    /\ f.job.opens \in Seq(STRING)
    /\ CandidateParts \subseteq f.binds
    /\ Len(f.objects) \notin f.elsewhere
    /\ "NOT_ATTEMPTED" \notin {f.unknown, f.refused}
    /\ {f.done, f.complete}
           \cap {"STOPPED_ZERO_WRITE", "STOPPED_PARTIAL_OR_UNKNOWN"} = {}
    /\ f.files # {} => \E i \in 1..Len(f.objects) : f.objects[i] = "input"
    /\ \A n \in 1..(Len(f.job.opens) + 1) :
          n = Len(f.job.opens) + 1 \/ f.job.opens[n] \in LedgerRoles =>
              f.files \subseteq
                  f.job.loads \cup {f.job.opens[i] : i \in 1..(n - 1)}

ASSUME FamilyAssumption == \A f \in Families : Orderly(f)

VARIABLES
    family,             \* the family being launched
    now,                \* the clock
    edited,             \* the files whose content is not the authorized one
    reviewed,           \* the candidates a human has reviewed
    cluster,            \* content of each object of the family
    wire,               \* the POST of each launcher the server has or answered
    workload,           \* how far the started work is, what it has opened
    launch              \* the state of each ok process
vars == <<family, now, edited, reviewed, cluster, wire, workload, launch>>

(* Everything but the processes.                                            *)
world == <<family, now, edited, reviewed, cluster, wire, workload>>

(* What the cluster holds under a name: nothing, somebody else's object, or *)
(* the object of a candidate, told apart by what of it varies.              *)
Absent == {"absent"}
Foreign == {"foreign"}

(* The last object starts the work, in a family that starts any.            *)
Size == Len(family.objects)
ForeignAt == {i \in 1..Size : cluster[i] = Foreign}
Workloads == {"job", "statefulset"}

(* A candidate is the set of files that were changed when they were         *)
(* captured, and the credentials; every other object is the same in all.    *)
Content(position, candidate) ==
    LET role == family.objects[position]
    IN  IF role = "input" THEN candidate.input
        ELSE IF role \in CredentialRoles \cup {"private", "registration"}
        THEN {candidate.token}
        ELSE {}

Idle == [pc |-> "idle"]
NoWork == [state |-> "none", opened |-> {}, at |-> 1]
NoRequest == [at |-> 0, reply |-> "none"]

(* What a launch reports: its state, what it knows of its own writes, the   *)
(* positions it verified or created and which of them it created.           *)
Receipt(state, mutation, results, created) ==
    [state |-> state, mutation |-> mutation, results |-> results,
     created |-> created]

Init ==
    /\ family \in Families
    /\ now = 0
    /\ edited = {}
    /\ reviewed = {}
    /\ \E present \in SUBSET family.elsewhere, other \in Tokens :
          cluster = [i \in 1..Size |->
              IF i \in present THEN Content(i, [input |-> {}, token |-> other])
                              ELSE Absent]
    /\ wire = [l \in Launchers |-> NoRequest]
    /\ workload = NoWork
    /\ launch = [l \in Launchers |-> Idle]

-----------------------------------------------------------------------------
(* Building a candidate                                                     *)

(* A process starts: its flags name the credentials and the time of their   *)
(* materialization, at which the credential package wants the minimum       *)
(* lifetime left.  What is pinned is read and compared with its digest; the *)
(* files are verified as they are, before they are captured; those nobody   *)
(* edits are captured as they are.  The timeout of the command starts.      *)
Build(l) ==
    /\ launch[l].pc = "idle"
    /\ edited \cap (family.files \cup family.pinned) = {}
    /\ \E token \in Tokens :
          /\ MaterializedAt[token] + MinRemaining <= Expiry[token]
          /\ launch' = [launch EXCEPT ![l] =
                 [pc |-> "capturing", token |-> token,
                  left |-> family.files \cap Editable, input |-> {},
                  deadline |-> now + LaunchTimeout]]
    /\ UNCHANGED world

(* One file is read into the package, in the order of a Go map: any.        *)
Capture(l) ==
    /\ launch[l].pc = "capturing"
    /\ \E file \in launch[l].left :
          launch' = [launch EXCEPT ![l].left = @ \ {file},
                                   ![l].input = @ \cup ({file} \cap edited)]
    /\ UNCHANGED world

CandidateOf(l) ==
    [input |-> launch[l].input, token |-> launch[l].token]

(* The files are verified again after the last was captured; a difference   *)
(* ends the process before it made a request.                               *)
Reload(l) ==
    /\ launch[l].pc = "capturing"
    /\ launch[l].left = {}
    /\ launch' = [launch EXCEPT ![l] =
          IF edited \cap family.files = {}
          THEN [pc |-> "built", candidate |-> CandidateOf(l),
                deadline |-> launch[l].deadline]
          ELSE Idle]
    /\ UNCHANGED world

(* `prepare' prints the candidate and ends; a human reviews its digest.     *)
Review(l) ==
    /\ launch[l].pc = "built"
    /\ family.reviewed
    /\ Cardinality(reviewed) < MaxReviews[family]
    /\ reviewed' = reviewed \cup {launch[l].candidate}
    /\ launch' = [launch EXCEPT ![l] = Idle]
    /\ UNCHANGED <<family, now, edited, cluster, wire, workload>>

(* The digest of a candidate stands for the parts it covers.                *)
Digest(candidate) == [part \in family.binds |-> candidate[part]]

(* `execute' is given a reviewed digest and opens the launcher only when    *)
(* what it derived has it.                                                  *)
Matches(candidate, expected) == Digest(candidate) = Digest(expected)

Open(l) ==
    /\ launch[l].pc = "built"
    /\ family.reviewed =>
          \E expected \in reviewed : Matches(launch[l].candidate, expected)
    /\ launch' = [launch EXCEPT ![l] =
          [pc |-> "opened", candidate |-> launch[l].candidate,
           deadline |-> launch[l].deadline]]
    /\ UNCHANGED world

(* Any other digest ends the process.                                       *)
Refuse(l) ==
    /\ launch[l].pc = "built"
    /\ family.reviewed
    /\ launch' = [launch EXCEPT ![l] = Idle]
    /\ UNCHANGED world

-----------------------------------------------------------------------------
(* Launch: the clock, the preflight, the decision                           *)

Stop(l, receipt) ==
    launch' = [launch EXCEPT ![l] =
        [pc |-> "done", candidate |-> launch[l].candidate,
         receipt |-> receipt]]

ZeroWrite == Receipt("STOPPED_ZERO_WRITE", "NOT_ATTEMPTED", {}, {})

Partial(l, mutation) ==
    Receipt("STOPPED_PARTIAL_OR_UNKNOWN", mutation, launch[l].results,
            launch[l].created)

(* Mutant: the remaining lifetime is not checked again at the launch. *)
ClockAdmitsAnyLifetime(candidate) ==
    "materialized" \in family.checks => now >= MaterializedAt[candidate.token]

(* What the clock must say before the first request.  The validUntil of a   *)
(* candidate is the first expiry of its credentials less the minimum that   *)
(* must remain, so `remaining' covers its check as well.                    *)
ClockAdmits(candidate) ==
    /\ "materialized" \in family.checks =>
          now >= MaterializedAt[candidate.token]
    /\ "remaining" \in family.checks =>
          now + MinRemaining <= Expiry[candidate.token]

CheckClock(l) ==
    /\ launch[l].pc = "opened"
    /\ IF ClockAdmits(launch[l].candidate)
       THEN launch' = [launch EXCEPT ![l] =
                [pc |-> "preflight", candidate |-> launch[l].candidate,
                 deadline |-> launch[l].deadline, at |-> 1, existing |-> {}]]
       ELSE Stop(l, ZeroWrite)
    /\ UNCHANGED world

(* Mutant: an object of the right name is taken for the planned one. *)
VerifyExistingName(l, position) == cluster[position] # Absent

(* An existing object is compared with the plan's.                          *)
VerifyExisting(l, position) ==
    cluster[position] = Content(position, launch[l].candidate)

(* The GET of one position answers: absent goes on unless the object is     *)
(* required; present goes on when it is compared and exact.                 *)
Get(l) ==
    /\ launch[l].pc = "preflight"
    /\ launch[l].at <= Size
    /\ now <= launch[l].deadline
    /\ LET position == launch[l].at
           absent == cluster[position] = Absent
       IN  IF \/ absent /\ position \in family.requires
              \/ ~absent /\ position \notin family.verifies
              \/ ~absent /\ ~VerifyExisting(l, position)
           THEN Stop(l, ZeroWrite)
           ELSE launch' = [launch EXCEPT
                    ![l].at = @ + 1,
                    ![l].existing = IF absent THEN @ ELSE @ \cup {position}]
    /\ UNCHANGED world

(* A GET fails, returns another status, or runs into the deadline.          *)
GetFails(l) ==
    /\ launch[l].pc = "preflight"
    /\ launch[l].at <= Size
    /\ Stop(l, ZeroWrite)
    /\ UNCHANGED world

(* After the last GET: everything exact is a finished launch, a set the     *)
(* family resumes from is continued, all else stops without a write.        *)
Decide(l) ==
    /\ launch[l].pc = "preflight"
    /\ launch[l].at > Size
    /\ LET existing == launch[l].existing
       IN  IF family.complete # "none" /\ existing = 1..Size
           THEN Stop(l, Receipt(family.complete, "NOT_ATTEMPTED", existing,
                                {}))
           ELSE IF existing \in family.resumes
           THEN launch' = [launch EXCEPT ![l] =
                    [pc |-> "creating", candidate |-> launch[l].candidate,
                     deadline |-> launch[l].deadline, results |-> existing,
                     created |-> {}]]
           ELSE Stop(l, ZeroWrite)
    /\ UNCHANGED world

-----------------------------------------------------------------------------
(* Launch: the creates                                                      *)

(* The first position neither found nor created.                            *)
NextPosition(l) ==
    CHOOSE i \in 1..Size :
        /\ i \notin launch[l].results
        /\ 1..(i - 1) \subseteq launch[l].results

Whole(l) == launch[l].results = 1..Size

(* One POST is sent; the next only after its answer.                        *)
Post(l) ==
    /\ launch[l].pc = "creating"
    /\ ~Whole(l)
    /\ now <= launch[l].deadline
    /\ wire' = [wire EXCEPT ![l] = [at |-> NextPosition(l), reply |-> "none"]]
    /\ launch' = [launch EXCEPT ![l].pc = "waiting"]
    /\ UNCHANGED <<family, now, edited, reviewed, cluster, workload>>

(* Mutant: a name that is taken counts as created. *)
AnswerOrConflict(l) ==
    /\ launch[l].pc = "waiting"
    /\ wire[l].reply \in {"exact", "conflict"}
    /\ launch' = [launch EXCEPT ![l].pc = "creating",
                                ![l].results = @ \cup {wire[l].at},
                                ![l].created = @ \cup {wire[l].at}]
    /\ wire' = [wire EXCEPT ![l] = NoRequest]
    /\ UNCHANGED <<family, now, edited, reviewed, cluster, workload>>

(* 201 with the object as it was sent.                                      *)
Answer(l) ==
    /\ launch[l].pc = "waiting"
    /\ wire[l].reply = "exact"
    /\ launch' = [launch EXCEPT ![l].pc = "creating",
                                ![l].results = @ \cup {wire[l].at},
                                ![l].created = @ \cup {wire[l].at}]
    /\ wire' = [wire EXCEPT ![l] = NoRequest]
    /\ UNCHANGED <<family, now, edited, reviewed, cluster, workload>>

(* 201 with an object that differs, or another status: the launch stops.    *)
Refused(l) ==
    /\ launch[l].pc = "waiting"
    /\ wire[l].reply \in {"altered", "conflict", "error"}
    /\ Stop(l, Partial(l, IF wire[l].reply = "altered"
                          THEN family.unknown ELSE family.refused))
    /\ wire' = [wire EXCEPT ![l] = NoRequest]
    /\ UNCHANGED <<family, now, edited, reviewed, cluster, workload>>

(* No answer: the connection fails, the client's own timeout or the         *)
(* command's deadline is met.  A request the server has is not taken back.  *)
Lose(l) ==
    /\ launch[l].pc = "waiting"
    /\ Stop(l, Partial(l, family.unknown))
    /\ wire' = IF wire[l].reply = "none" THEN wire
               ELSE [wire EXCEPT ![l] = NoRequest]
    /\ UNCHANGED <<family, now, edited, reviewed, cluster, workload>>

(* Past the deadline the POST fails before it is sent, which is reported    *)
(* like a lost one.                                                         *)
PostFails(l) ==
    /\ launch[l].pc = "creating"
    /\ ~Whole(l)
    /\ now > launch[l].deadline
    /\ Stop(l, Partial(l, family.unknown))
    /\ UNCHANGED world

Finish(l) ==
    /\ launch[l].pc = "creating"
    /\ Whole(l)
    /\ Stop(l, Receipt(family.done, "ATTEMPTED", launch[l].results,
                       launch[l].created))
    /\ UNCHANGED world

-----------------------------------------------------------------------------
(* The API server, the files, the clock, the workload                       *)

Pending(l) == wire[l].at > 0 /\ wire[l].reply = "none"

(* A request of a launch that gave up has nobody to answer.                 *)
Reply(l, reply) ==
    wire' = [wire EXCEPT ![l] = IF launch[l].pc = "waiting"
                                THEN [@ EXCEPT !.reply = reply]
                                ELSE NoRequest]

(* The server creates the object if the name is free; the client may see an *)
(* error all the same.                                                      *)
ServeCreate(l) ==
    /\ Pending(l)
    /\ cluster[wire[l].at] = Absent
    /\ cluster' = [cluster EXCEPT
           ![wire[l].at] = Content(wire[l].at, launch[l].candidate)]
    /\ \E reply \in {"exact", "error"} : Reply(l, reply)
    /\ UNCHANGED <<family, now, edited, reviewed, workload, launch>>

(* Admission changes the object it creates.                                 *)
ServeAltered(l) ==
    /\ Pending(l)
    /\ cluster[wire[l].at] = Absent
    /\ Cardinality(ForeignAt) < MaxForeign
    /\ cluster' = [cluster EXCEPT ![wire[l].at] = Foreign]
    /\ Reply(l, "altered")
    /\ UNCHANGED <<family, now, edited, reviewed, workload, launch>>

(* The name is taken, or the server refuses.                                *)
ServeRefuse(l) ==
    /\ Pending(l)
    /\ Reply(l, IF cluster[wire[l].at] = Absent THEN "error" ELSE "conflict")
    /\ UNCHANGED <<family, now, edited, reviewed, cluster, workload, launch>>

(* Somebody else creates an object of that name.                            *)
CreateForeign ==
    /\ Cardinality(ForeignAt) < MaxForeign
    /\ \E i \in 1..Size :
          /\ cluster[i] = Absent
          /\ cluster' = [cluster EXCEPT ![i] = Foreign]
    /\ UNCHANGED <<family, now, edited, reviewed, wire, workload, launch>>

(* A file the family reads is edited, or edited back to what it should be.  *)
Edit ==
    /\ \E file \in Editable \cap (family.files \cup family.pinned) :
          edited' = (edited \ {file}) \cup ({file} \ edited)
    /\ UNCHANGED <<family, now, reviewed, cluster, wire, workload, launch>>

Tick ==
    /\ now < MaxTime[family]
    /\ now' = now + 1
    /\ UNCHANGED <<family, edited, reviewed, cluster, wire, workload, launch>>

-----------------------------------------------------------------------------
(* The work                                                                 *)

Work(state) == workload' = [workload EXCEPT !.state = state]
RefuseWork == workload' = [NoWork EXCEPT !.state = "refused"]
OnlyWork == UNCHANGED <<family, now, edited, reviewed, cluster, wire, launch>>

(* The planned workload starts once what it mounts exists; its Job has no   *)
(* second attempt.                                                          *)
StartWorkload ==
    /\ workload.state = "none"
    /\ family.objects[Size] \in Workloads
    /\ cluster[Size] = {}
    /\ \A i \in 1..Size : family.objects[i] \in family.mounts => cluster[i] # Absent
    /\ Work("loading")
    /\ OnlyWork

(* What of its input is not what was authorized.                            *)
InputAt == {i \in 1..Size : family.objects[i] = "input"}
Changed == UNION {cluster[i] : i \in InputAt}

(* The bundle is verified as one; somebody else's input may be anything.    *)
LoadBundle ==
    /\ workload.state = "loading"
    /\ \/ Changed \cap family.job.loads = {} /\ Work("opening")
       \/ Changed \cap (family.job.loads \cup Foreign) # {} /\ RefuseWork
    /\ OnlyWork

Opens == family.job.opens

(* The next step: a late file is verified, a credential is read.  Either    *)
(* stops the work, a credential also when it is unusable or not distinct    *)
(* from one before.                                                         *)
OpenNext ==
    /\ workload.state = "opening"
    /\ workload.at <= Len(Opens)
    /\ LET step == Opens[workload.at]
       IN  \/ /\ step \notin Changed
              /\ workload' = [workload EXCEPT
                     !.at = @ + 1, !.opened = @ \cup ({step} \ family.files)]
           \/ /\ step \in family.files => Changed \cap ({step} \cup Foreign) # {}
              /\ RefuseWork
    /\ OnlyWork

(* Everything is open: the stage runs.                                      *)
RunStage ==
    /\ workload.state = "opening"
    /\ workload.at > Len(Opens)
    /\ Work("running")
    /\ OnlyWork

-----------------------------------------------------------------------------

(* What a process that has begun does next.                                 *)
Step(l) ==
    \/ Capture(l) \/ Reload(l) \/ Review(l) \/ Open(l) \/ Refuse(l)
    \/ CheckClock(l) \/ Get(l) \/ GetFails(l) \/ Decide(l)
    \/ Post(l) \/ Answer(l) \/ Refused(l) \/ Lose(l) \/ PostFails(l)
    \/ Finish(l)

Serve(l) == ServeCreate(l) \/ ServeAltered(l) \/ ServeRefuse(l)

Next ==
    \/ \E l \in Launchers : Build(l) \/ Step(l) \/ Serve(l)
    \/ CreateForeign \/ Edit \/ Tick
    \/ StartWorkload \/ LoadBundle \/ OpenNext \/ RunStage

Spec == Init /\ [][Next]_vars

-----------------------------------------------------------------------------
(* Properties                                                               *)

Done == {l \in Launchers : launch[l].pc = "done"}

(* A workload that has opened a credential was started from the objects of  *)
(* one candidate, one a human reviewed where the launcher is pinned to a    *)
(* digest, every one of them exact; it has verified what its bundle holds,  *)
(* and before it opens the ledger or runs, every file of its input:         *)
(* however many launches ran, died, resumed one another or were overtaken   *)
(* by their own late requests, and whoever else wrote.                      *)
WorkloadRestsOnReview ==
    workload.opened # {} \/ workload.state = "running" =>
        \E candidate \in IF family.reviewed THEN reviewed
                          ELSE [input : SUBSET Editable, token : Tokens] :
            /\ candidate.input \cap family.job.loads = {}
            /\ \A i \in 1..Size : cluster[i] = Content(i, candidate)
            /\ \/ workload.opened \cap LedgerRoles # {}
               \/ workload.state = "running"
               => candidate.input = {}

(* What a receipt says of the cluster is so: what it lists exists exactly   *)
(* as its candidate has it, what it says it created no other receipt says,  *)
(* a launch that says it attempted nothing has no request on its way, and   *)
(* one that says it is complete lists everything.                           *)
ReceiptTrue ==
    \A l \in Done :
        LET receipt == launch[l].receipt
        IN  /\ \A i \in receipt.results :
                   cluster[i] = Content(i, launch[l].candidate)
            /\ \A k \in Done \ {l} :
                   receipt.created \cap launch[k].receipt.created = {}
            /\ receipt.mutation = "NOT_ATTEMPTED" =>
                   wire[l] = NoRequest /\ receipt.created = {}
            /\ receipt.state \in {family.done, family.complete} =>
                   receipt.results = 1..Size

(* When the last object is sent, which starts the work, every credential    *)
(* sent with it is still good for the minimum lifetime less the time a      *)
(* launch may take: a slow preflight or slow creates cannot start a Job     *)
(* whose credentials are about to expire.                                   *)
CredentialsOutliveLaunch ==
    [][\A l \in Launchers :
          /\ wire[l].at # Size /\ wire'[l].at = Size
          /\ "remaining" \in family.checks
          => now + MinRemaining <=
                 Expiry[launch[l].candidate.token] + LaunchTimeout]_vars

=============================================================================
