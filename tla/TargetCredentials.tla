------------------------- MODULE TargetCredentials -------------------------
(* The target's credential and its registration in Argo CD: stages 8 and 9, *)
(* and the two recoveries of a run that stopped after them.  Stage 8 asks   *)
(* the workload API server for a token and keeps it in memory only; stage 9 *)
(* of the same process writes it into the registration Secret.  A process   *)
(* that died in between leaves a durable receipt and no token: a recovery   *)
(* claims another grant of stage 8 and asks for another token, and, when    *)
(* stage 9 had been done too, claims a grant of stage 9 to replace the      *)
(* token in the existing Secret.                                            *)
(*                                                                          *)
(* Several executions run at the same time, over one ledger, one workload   *)
(* API server and one GitOps API server.  Each may die at any step, lose an *)
(* answer, or give up on a request that is still served afterwards.  One    *)
(* tick of the clock is a second, the resolution of the times a receipt     *)
(* holds.                                                                   *)
EXTENDS Naturals, Sequences

CONSTANTS
    Procs,              \* the executions; each asks for one token at most
    Grants8, Grants9,   \* the signed grants of stages 8 and 9
    None,
    Kinds,              \* the kinds of execution looked at
    Materializations,   \* times of materialization a manifest may carry
    Lifetimes,          \* lifetimes the API server gives a token
    MinLifetime,        \* minimumTargetCredentialLifetime (2 h)
    MaxLifetime,        \* expirationSeconds of the policy (3 h)
    MinRemaining,       \* what must remain of a credential to register it
    MaxTime             \* bound of the clock

ASSUME CredentialAssumption ==
    /\ None \notin Procs \cup Grants8 \cup Grants9
    /\ Grants8 \cap Grants9 = {}
    /\ Kinds \subseteq {"full", "first", "credential", "registration"}
    /\ Materializations \cup Lifetimes \subseteq Nat
    /\ {MinLifetime, MaxLifetime, MinRemaining, MaxTime} \subseteq Nat

Grants == Grants8 \cup Grants9
Stages == {8, 9}

VARIABLES
    now,                \* the clock
    ledger,             \* what the ledger holds of each grant
    slot,               \* the stage receipt of each stage
    project,            \* whether the AppProject exists
    secret,             \* the credentials the registration Secret has held
    wire,               \* the mutating request of each process
    run,                \* the state of each process
    spent               \* how many effects each grant has paid for
vars == <<now, ledger, slot, project, secret, wire, run, spent>>

servers == <<project, secret>>
stores == <<ledger, slot>>

(* A grant is available, claimed by a process, or completed by it with an   *)
(* outcome, what it says of the mutation, and the credential it is about.   *)
Available == [state |-> "AVAILABLE"]
Claimed(p) == [state |-> "CLAIMED", by |-> p]
Completed(p, result) ==
    [state |-> "COMPLETED", by |-> p, outcome |-> result.outcome,
     mutation |-> result.mutation]

Result(outcome, mutation) == [outcome |-> outcome, mutation |-> mutation]
Success == Result("SUCCEEDED", "ATTEMPTED")
Stopped(mutation) == Result("STOPPED", mutation)

(* A stage without a receipt is not one with an outcome.                    *)
ASSUME NoneAssumption ==
    \A p \in Procs, mutation \in {"ATTEMPTED", "NOT_ATTEMPTED", "UNKNOWN"} :
       /\ None # Completed(p, Result("SUCCEEDED", mutation))
       /\ None # Completed(p, Result("STOPPED", mutation))

(* The kinds of execution.  "full" is the suffix a full run binds, "first"  *)
(* a post-runtime manifest; a manifest with a recovery names the receipt of *)
(* stage 8 ("credential"), or those of stages 8 and 9 ("registration").     *)
Fresh == {"full", "first"}
Recovering == {"credential", "registration"}

Idle == [pc |-> "idle"]
Over == [pc |-> "over"]

NoRequest == [reply |-> "none"]
Request(kind, seen) == [kind |-> kind, reply |-> "pending", seen |-> seen]

(* The last credential is the current one, and their number tells the       *)
(* versions of the Secret apart.  What a write is based on is one of them.  *)
Present == secret # <<>>
Holds == IF Present THEN secret[Len(secret)] ELSE None
Snapshot == [version |-> Len(secret), credential |-> Holds]

Init ==
    /\ now = 0
    /\ ledger = [g \in Grants |-> Available]
    /\ slot = [s \in Stages |-> None]
    /\ project = FALSE
    /\ secret = <<>>
    /\ wire = [p \in Procs |-> NoRequest]
    /\ run = [p \in Procs |-> Idle]
    /\ spent = [g \in Grants |-> 0]

Goto(p, pc) == run' = [run EXCEPT ![p].pc = pc]
End(p) == run' = [run EXCEPT ![p] = Over]

(* The operation has a result and goes on to record it at this pc.          *)
Conclude(p, pc, result) ==
    run' = [run EXCEPT ![p].pc = pc, ![p].result = result]

Succeeded(s) == slot[s] # None /\ slot[s].outcome = "SUCCEEDED"

-----------------------------------------------------------------------------
(* Opening.                                                                 *)

(* A full run fixes the time of the registration's materialization when it  *)
(* binds its suffix; a manifest carries one its author chose.  A recovery   *)
(* needs the receipts of the stages it continues after.                     *)
Start(p) ==
    /\ run[p].pc = "idle"
    /\ \E kind \in Kinds, materialized \in Materializations \cup {now} :
          /\ IF kind = "full" THEN materialized = now
             ELSE materialized \in Materializations
          /\ kind \in Recovering => Succeeded(8)
          /\ kind = "registration" => Succeeded(9)
          /\ run' = [run EXCEPT ![p] =
                [pc |-> "credential", kind |-> kind,
                 materialized |-> materialized, issued |-> 0, expires |-> 0,
                 g8 |-> None, g9 |-> None, result |-> Stopped("UNKNOWN")]]
    /\ UNCHANGED <<now, servers, stores, wire, spent>>

(* InspectStage, then ClaimStage: of two that saw the grant available one   *)
(* creates the claim.                                                       *)
(* Mutant: a claim without an outcome can be taken over. *)
MutantClaimable(g) == ledger[g].state # "COMPLETED"
Claimable(g) == ledger[g] = Available
Claim(p, g) == ledger' = [ledger EXCEPT ![g] = Claimed(p)]

(* FinalizeStageReceipt creates the receipt of a stage from the outcome of  *)
(* a grant, or finds the very same; another one stays and is an error.      *)
Finalizable(s, g) == slot[s] \in {None, ledger[g]}
Finalize(s, g) == slot' = [slot EXCEPT ![s] = ledger[g]]

(* Stage 8, or its recovery, whose grant is not the historical one: that    *)
(* one is not available any more.  A first execution that finds its grant   *)
(* completed finalizes the receipt and has no credential; one that finds it *)
(* claimed stops.                                                           *)
ClaimCredential(p, g) ==
    /\ run[p].pc = "credential"
    /\ IF Claimable(g)
       THEN /\ Claim(p, g)
            /\ run' = [run EXCEPT ![p].pc = "issue", ![p].g8 = g]
            /\ UNCHANGED slot
       ELSE /\ End(p)
            /\ \/ /\ run[p].kind \in Fresh /\ ledger[g].state = "COMPLETED"
                  /\ Finalizable(8, g) /\ Finalize(8, g)
               \/ /\ \/ run[p].kind \in Recovering
                     \/ ledger[g].state # "COMPLETED"
                     \/ ~Finalizable(8, g)
                  /\ UNCHANGED slot
            /\ UNCHANGED ledger
    /\ UNCHANGED <<now, servers, wire, spent>>

-----------------------------------------------------------------------------
(* The issuer.                                                              *)

(* The clock is read, then the one TokenRequest is sent.                    *)
RequestToken(p) ==
    /\ run[p].pc = "issue"
    /\ run' = [run EXCEPT ![p].pc = "issuing", ![p].issued = now]
    /\ wire' = [wire EXCEPT ![p] = Request("token", None)]
    /\ spent' = [spent EXCEPT ![run[p].g8] = @ + 1]
    /\ UNCHANGED <<now, servers, stores>>

(* Only what lives long enough, and not longer than asked for, is taken.    *)
InWindow(issued, expires) ==
    /\ expires >= issued + MinLifetime
    /\ expires <= issued + MaxLifetime

Taken(p) ==
    wire[p].reply = "done" /\ InWindow(run[p].issued, wire[p].expires)

ReceiveToken(p) ==
    /\ run[p].pc = "issuing" /\ wire[p].reply \in {"done", "refused"}
    /\ IF Taken(p)
       THEN run' = [run EXCEPT ![p].pc = "record", ![p].result = Success,
                               ![p].expires = wire[p].expires]
       ELSE Conclude(p, "record", Stopped("UNKNOWN"))
    /\ wire' = [wire EXCEPT ![p] = NoRequest]
    /\ UNCHANGED <<now, servers, stores, spent>>

Complete(p, g) == ledger' = [ledger EXCEPT ![g] = Completed(p, run[p].result)]

(* Where a run goes with a recorded result.                                 *)
HandOverOrStop(p) ==
    IF run[p].result = Success THEN Goto(p, "handoff") ELSE End(p)

(* CompleteStage.  A recovery hands its credential over now, and never      *)
(* finalizes: the receipt of stage 8 stays what it is.                      *)
RecordIssue(p) ==
    /\ run[p].pc = "record"
    /\ Complete(p, run[p].g8)
    /\ IF run[p].kind \in Fresh THEN Goto(p, "finalize")
                               ELSE HandOverOrStop(p)
    /\ UNCHANGED <<now, servers, slot, wire, spent>>

FinalizeIssue(p) ==
    /\ run[p].pc = "finalize"
    /\ IF Finalizable(8, run[p].g8)
       THEN Finalize(8, run[p].g8) /\ HandOverOrStop(p)
       ELSE End(p) /\ UNCHANGED slot
    /\ UNCHANGED <<now, servers, ledger, wire, spent>>

-----------------------------------------------------------------------------
(* The handoff and the registration.                                        *)

(* BuildTargetRegistrationMaterial takes the credential out of the handoff, *)
(* and refuses a materialization before its issue or too near its end.      *)
Materializable(p) ==
    /\ run[p].materialized >= run[p].issued
    /\ run[p].expires >= run[p].materialized + MinRemaining

TakeCredential(p) ==
    /\ run[p].pc = "handoff"
    /\ IF Materializable(p) THEN Goto(p, "register") ELSE End(p)
    /\ UNCHANGED <<now, servers, stores, wire, spent>>

(* Stage 9 as a staged operation, or its recovery.  A staged operation that *)
(* finds its grant completed finalizes, and goes on when that succeeded (to *)
(* stage 10, beyond this module): it does not write the credential it has.  *)
ClaimRegistration(p, g) ==
    /\ run[p].pc = "register"
    /\ IF Claimable(g)
       THEN /\ Claim(p, g)
            /\ run' = [run EXCEPT ![p].pc = "write", ![p].g9 = g]
            /\ UNCHANGED slot
       ELSE /\ IF /\ run[p].kind # "registration"
                  /\ ledger[g].state = "COMPLETED" /\ Finalizable(9, g)
               THEN Finalize(9, g)
               ELSE UNCHANGED slot
            /\ End(p)
            /\ UNCHANGED ledger
    /\ UNCHANGED <<now, servers, wire, spent>>

(* The one look at the clock of a launch and of a refresh.                  *)
Timely(p) ==
    /\ now >= run[p].materialized
    /\ run[p].expires >= now + MinRemaining

(* What stops before the first write, a lost GET included.                  *)
NothingWritten(p) ==
    /\ Conclude(p, "complete", Stopped("NOT_ATTEMPTED"))
    /\ UNCHANGED <<wire, spent>>

Send(p, kind, pc) ==
    /\ wire' = [wire EXCEPT ![p] = Request(kind, Snapshot)]
    /\ spent' = IF kind = "project" THEN spent
                ELSE [spent EXCEPT ![run[p].g9] = @ + 1]
    /\ Goto(p, pc)

(* Install: neither object may exist; the AppProject is created first.      *)
Install(p) ==
    /\ run[p].pc = "write" /\ run[p].kind # "registration"
    /\ \/ NothingWritten(p)
       \/ Timely(p) /\ ~project /\ ~Present /\ Send(p, "project", "writing")
    /\ UNCHANGED <<now, servers, stores>>

(* Refresh: the AppProject is there, and the Secret with another token; the *)
(* replacement carries the uid and the resourceVersion it was read with.    *)
Refresh(p) ==
    /\ run[p].pc = "write" /\ run[p].kind = "registration"
    /\ \/ NothingWritten(p)
       \/ /\ Timely(p) /\ project /\ Present
          /\ Holds # p
          /\ Send(p, "refresh", "writing")
    /\ UNCHANGED <<now, servers, stores>>

(* A status that says the write was not done, the conflict among them.      *)
Refused(p) ==
    Stopped(IF wire[p].kind = "refresh" THEN "UNKNOWN" ELSE "ATTEMPTED")

(* What a launch or a refresh makes of the answer to a write.               *)
ReceiveWrite(p) ==
    /\ run[p].pc = "writing"
    /\ \/ /\ wire[p].reply = "done" /\ wire[p].kind = "project"
          /\ Send(p, "secret", "writing")
       \/ /\ wire[p].reply = "done" /\ wire[p].kind # "project"
          /\ Conclude(p, "complete", Success)
          /\ wire' = [wire EXCEPT ![p] = NoRequest]
          /\ UNCHANGED spent
       \/ /\ wire[p].reply = "refused"
          /\ Conclude(p, "complete", Refused(p))
          /\ wire' = [wire EXCEPT ![p] = NoRequest]
          /\ UNCHANGED spent
    /\ UNCHANGED <<now, servers, stores>>

(* A write without an answer stays on the wire when its sender leaves; a    *)
(* token nobody receives is nothing.                                        *)
Writing(p) == wire[p].reply = "pending" /\ wire[p].kind # "token"
Abandon(p) ==
    wire' = IF Writing(p) THEN wire ELSE [wire EXCEPT ![p] = NoRequest]

(* Mutant: a write whose answer is lost is not known to be attempted. *)
MutantGiveUp(p) ==
    /\ run[p].pc \in {"issuing", "writing"}
    /\ Abandon(p)
    /\ \/ run[p].pc = "issuing" /\ Conclude(p, "record", Stopped("UNKNOWN"))
       \/ /\ run[p].pc = "writing"
          /\ Conclude(p, "complete", Stopped("NOT_ATTEMPTED"))
    /\ UNCHANGED <<now, servers, stores, spent>>

(* No answer in time, or none that can be used.                             *)
GiveUp(p) ==
    /\ run[p].pc \in {"issuing", "writing"}
    /\ Abandon(p)
    /\ \/ run[p].pc = "issuing" /\ Conclude(p, "record", Stopped("UNKNOWN"))
       \/ run[p].pc = "writing" /\ Conclude(p, "complete", Stopped("UNKNOWN"))
    /\ UNCHANGED <<now, servers, stores, spent>>

(* CompleteStage; a recovery leaves the receipt of stage 9 as it is.        *)
RecordRegistration(p) ==
    /\ run[p].pc = "complete"
    /\ Complete(p, run[p].g9)
    /\ IF run[p].kind = "registration" THEN End(p) ELSE Goto(p, "receipt")
    /\ UNCHANGED <<now, servers, slot, wire, spent>>

FinalizeRegistration(p) ==
    /\ run[p].pc = "receipt"
    /\ IF Finalizable(9, run[p].g9)
       THEN Finalize(9, run[p].g9) ELSE UNCHANGED slot
    /\ End(p)
    /\ UNCHANGED <<now, servers, ledger, wire, spent>>

-----------------------------------------------------------------------------
(* The API servers, which serve a request its sender may have given up.     *)

(* Nobody waits for the answer of a request its sender has given up.        *)
Waiting(p) == run[p].pc \in {"issuing", "writing"}
Answer(p, answer) ==
    wire' = [wire EXCEPT ![p] = IF Waiting(p) THEN answer ELSE NoRequest]
Done(p) == Answer(p, [wire[p] EXCEPT !.reply = "done"])

IssueToken(p) ==
    /\ wire[p].kind = "token"
    /\ \E lifetime \in Lifetimes :
          Answer(p, [reply |-> "done", expires |-> now + lifetime])
    /\ UNCHANGED servers

CreateProject(p) ==
    /\ wire[p].kind = "project" /\ ~project
    /\ project' = TRUE /\ Done(p)
    /\ UNCHANGED secret

(* The Secret's next content is the credential of p.                        *)
Put(p) == secret' = Append(secret, p) /\ Done(p) /\ UNCHANGED project

CreateSecret(p) ==
    /\ wire[p].kind = "secret" /\ ~Present
    /\ Put(p)

(* Mutant: the replacement leaves the resourceVersion out. *)
MutantCurrent(p) == Present
(* A replacement says which version of the Secret it is of.                 *)
Current(p) == wire[p].seen.version = Len(secret)
ReplaceSecret(p) ==
    /\ wire[p].kind = "refresh" /\ Current(p)
    /\ Put(p)

(* A conflict, or any other status without an effect.                       *)
Refuse(p) ==
    Answer(p, [wire[p] EXCEPT !.reply = "refused"]) /\ UNCHANGED servers

Serve(p) ==
    /\ wire[p].reply = "pending"
    /\ \/ IssueToken(p)
       \/ CreateProject(p)
       \/ CreateSecret(p)
       \/ ReplaceSecret(p)
       \/ Refuse(p)
    /\ UNCHANGED <<now, stores, run, spent>>

-----------------------------------------------------------------------------
(* An execution dies at any step.  What the ledger or a server was asked to *)
(* do before stays, so this is also a failed or lost answer of the ledger.  *)
Die(p) ==
    /\ run[p].pc \notin {"idle", "over"}
    /\ End(p)
    /\ Abandon(p)
    /\ UNCHANGED <<now, servers, stores, spent>>

Tick ==
    /\ now < MaxTime /\ now' = now + 1
    /\ UNCHANGED <<servers, stores, wire, run, spent>>

Step(p) ==
    \/ Start(p)
    \/ \E g \in Grants8 : ClaimCredential(p, g)
    \/ RequestToken(p)
    \/ ReceiveToken(p)
    \/ RecordIssue(p)
    \/ FinalizeIssue(p)
    \/ TakeCredential(p)
    \/ \E g \in Grants9 : ClaimRegistration(p, g)
    \/ Install(p)
    \/ Refresh(p)
    \/ ReceiveWrite(p)
    \/ GiveUp(p)
    \/ RecordRegistration(p)
    \/ FinalizeRegistration(p)

Next ==
    \/ \E p \in Procs : Step(p) \/ Serve(p) \/ Die(p)
    \/ Tick

Spec == Init /\ [][Next]_vars

-----------------------------------------------------------------------------
(* Who claimed or completed a grant.                                        *)
Owns(p, g) == ledger[g] # Available /\ ledger[g].by = p
Registered(p) == \E i \in DOMAIN secret : secret[i] = p

(* A grant pays for one TokenRequest, or for one write of the registration, *)
(* whoever presents it, however often, and whatever became of the answer    *)
(* (RecoverTargetCredential and RecoverTargetRegistration claim before they *)
(* ask; a consumed recovery grant cannot reach a second PUT).               *)
OneEffectPerGrant == \A g \in Grants : spent[g] <= 1

(* The registration never holds a credential the ledger does not know: the  *)
(* success of its issue was recorded before it was written, and a grant of  *)
(* stage 9 was claimed for it.  A recorded success did put its credential   *)
(* there, and a stop that says NOT_ATTEMPTED stays true: no write of it is  *)
(* under way either (Install and Refresh, the state they leave in a stop).  *)
(* However many recoveries follow, the first credential it held is the one  *)
(* of the execution the receipt of stage 9 names, and stage 8 succeeded.    *)
RegistrationIsAccounted ==
    /\ \A p \in Procs : Registered(p) =>
          /\ \E g \in Grants8 : ledger[g] = Completed(p, Success)
          /\ \E g \in Grants9 : Owns(p, g)
    /\ \A p \in Procs, g \in Grants9 :
          /\ ledger[g] = Completed(p, Success) => Registered(p)
          /\ ledger[g] = Completed(p, Stopped("NOT_ATTEMPTED")) =>
                ~Registered(p) /\ ~Writing(p)
    /\ Succeeded(9) => Present /\ secret[1] = slot[9].by /\ Succeeded(8)

(* A refresh replaces the very credential it has verified: two recoveries   *)
(* that read the same Secret do not overwrite each other (the uid and the   *)
(* resourceVersion of the replacement).                                     *)
RefreshReplacesWhatItRead ==
    [][\A p \in Procs :
          Present /\ secret' = Append(secret, p)
             => wire[p].seen.credential = Holds]_vars

(* What the suffix of a full run takes out of its handoff it can register:  *)
(* docs/contract-executor-mvp.md says that it normally executes both steps  *)
(* within one process.  It cannot when the clock has moved on by a second   *)
(* between the binding of the suffix and the TokenRequest.                  *)
FullRunRegistersItsCredential ==
    \A p \in Procs :
       run[p].pc = "handoff" /\ run[p].kind = "full" => Materializable(p)
=============================================================================
