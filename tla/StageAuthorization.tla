-------------------------- MODULE StageAuthorization --------------------------
(***************************************************************************)
(* How a mutating stage obtains its signed grant: calls of the HTTP        *)
(* resolver (internal/runner/stage_authorization_http_resolver.go) against *)
(* the bounded stage authority (internal/stageauthority/authority.go).     *)
(*                                                                         *)
(* A call polls: it repeats its POST after a transient failure.  Each POST *)
(* is a connection of its own; the handler behind it may still run after   *)
(* the caller has given the connection up, and its answer may be lost.     *)
(* The authority keeps one create-only claim file per request digest, the  *)
(* resolver one create-only grant file.  Both processes may die; the files *)
(* survive.                                                                *)
(***************************************************************************)
EXTENDS Naturals, Sequences, FiniteSets

CONSTANTS
    Call,           \* concurrent calls of one resolver object
    Request,        \* canonical authorization requests, by digest
    Permitted,      \* the requests that verifyRequest accepts
    MaxAttempts,    \* maxAttempts of the resolver
    GrantValidFor,  \* length of a grant's window
    Time,           \* readings of a clock, here or at the authority
    MaxCalls,       \* bound on the calls that get to post, over all restarts
    Absent,         \* no file
    Torn            \* a file that was opened and not completely written

ASSUME StageAuthorizationAssumption ==
    /\ Permitted \subseteq Request
    /\ MaxAttempts \in Nat \ {0}
    /\ GrantValidFor \in Nat \ {0}
    /\ Time \subseteq Nat
    /\ MaxCalls \in Nat

(***************************************************************************)
(* A signed grant.  Its grant ID is derived from the request digest and    *)
(* its window starts when the authority handled the request.               *)
(***************************************************************************)
SignedGrant == [request : Request, notBefore : Time]

ASSUME FileAssumption == Absent # Torn /\ {Absent, Torn} \cap SignedGrant = {}

VARIABLES
    claimed,    \* claim files of the authority
    signed,     \* how many grants were signed for a request (history)
    conn,       \* the connections made so far, oldest first
    used,       \* request digests the resolver object has seen
    file,       \* grant files in the resolver's output directory
    pc,         \* where a call of ResolveStageAuthorization stands
    request,    \* the request of the call
    attempt,    \* loop variable attempt of resolve
    wire,       \* the connection the call waits on
    body,       \* the grant the call received
    reply,      \* what the last finished call returned
    started,    \* calls that got to post so far (bound)
    resolved    \* how often a request was resolved to a grant (history)

authorityVars == <<claimed, signed>>
callVars == <<pc, request, attempt, wire, body, reply>>
vars == <<authorityVars, conn, used, file, callVars, started, resolved>>

Connection == [request : Request, at : Time \cup {Absent},
               state : {"sent", "claimed", "answered", "closed"},
               status : {"none", "201", "403", "409", "500"}]

Step == {"idle", "post", "waiting", "store", "write", "verify"}

Verdict == {"NONE", "SINGLE_USE", "DESTINATION_INVALID", "TRANSPORT_STOPPED",
            "INTERRUPTED", "HTTP_REJECTED", "RESPONSE_INVALID",
            "PERSISTENCE_STOPPED", "VERIFIED"}

NoReply == [verdict |-> "NONE", grant |-> Absent]

Init ==
    /\ claimed = {}
    /\ signed = [q \in Request |-> 0]
    /\ conn = <<>>
    /\ used = {}
    /\ file = [q \in Request |-> Absent]
    /\ pc = [c \in Call |-> "idle"]
    /\ request = [c \in Call |-> Absent]
    /\ attempt = [c \in Call |-> 0]
    /\ wire = [c \in Call |-> 0]
    /\ body = [c \in Call |-> Absent]
    /\ reply = [c \in Call |-> NoReply]
    /\ started = 0
    /\ resolved = [q \in Request |-> 0]

-----------------------------------------------------------------------------
(***************************************************************************)
(* The authority, Authority.ServeHTTP.                                     *)
(***************************************************************************)
Answer(i, status) ==
    conn' = [conn EXCEPT ![i].state = "answered", ![i].status = status]

(***************************************************************************)
(* claim: the claim file is created exclusively.  The variant takes a file *)
(* that is already there for its own.                                      *)
(***************************************************************************)
ClaimableAlways(q) == TRUE
Claimable(q) == q \notin claimed

(***************************************************************************)
(* The handler verifies the request, reads the clock and claims.  Every    *)
(* error of claim, a failed write of a file just created included, is      *)
(* answered as "request already consumed".                                 *)
(***************************************************************************)
ServeClaim(i, now) ==
    LET q == conn[i].request IN
    /\ conn[i].state = "sent"
    /\ \/ /\ q \notin Permitted
          /\ Answer(i, "403")
          /\ UNCHANGED claimed
       \/ /\ q \in Permitted
          /\ Claimable(q)
          /\ claimed' = claimed \cup {q}
          /\ \/ conn' = [conn EXCEPT ![i].state = "claimed", ![i].at = now]
             \/ Answer(i, "409")
       \/ /\ q \in Permitted
          /\ ~Claimable(q)
          /\ Answer(i, "409")
          /\ UNCHANGED claimed
    /\ UNCHANGED <<signed, used, file, callVars, started, resolved>>

(***************************************************************************)
(* The claimed request is signed, unless encoding the grant fails.         *)
(***************************************************************************)
ServeSign(i) ==
    LET q == conn[i].request IN
    /\ conn[i].state = "claimed"
    /\ \/ /\ signed' = [signed EXCEPT ![q] = @ + 1]
          /\ Answer(i, "201")
       \/ /\ Answer(i, "500")
          /\ UNCHANGED signed
    /\ UNCHANGED <<claimed, used, file, callVars, started, resolved>>

(***************************************************************************)
(* The authority process dies and is started again over its claim files.   *)
(***************************************************************************)
AuthorityRestart ==
    /\ \E i \in DOMAIN conn : conn[i].state \in {"sent", "claimed"}
    /\ conn' = [i \in DOMAIN conn |->
                   IF conn[i].state \in {"sent", "claimed"}
                   THEN [conn[i] EXCEPT !.state = "closed"]
                   ELSE conn[i]]
    /\ UNCHANGED <<authorityVars, used, file, callVars, started, resolved>>

-----------------------------------------------------------------------------
(***************************************************************************)
(* The resolver.                                                           *)
(***************************************************************************)
Goto(c, l) == pc' = [pc EXCEPT ![c] = l]

Return(c, verdict, grant) ==
    /\ Goto(c, "idle")
    /\ reply' = [reply EXCEPT ![c] = [verdict |-> verdict, grant |-> grant]]
    /\ request' = [request EXCEPT ![c] = Absent]
    /\ attempt' = [attempt EXCEPT ![c] = 0]
    /\ wire' = [wire EXCEPT ![c] = 0]
    /\ body' = [body EXCEPT ![c] = Absent]

Stop(c, verdict) == Return(c, verdict, Absent)

(***************************************************************************)
(* resolve refuses a request digest it has seen before and a destination   *)
(* that is not absent.                                                     *)
(***************************************************************************)
Fresh(q) == q \notin used

Resolve(c, q) ==
    /\ pc[c] = "idle"
    /\ used' = used \cup {q}
    /\ \/ /\ ~Fresh(q)
          /\ Stop(c, "SINGLE_USE")
          /\ UNCHANGED started
       \/ /\ Fresh(q)
          /\ file[q] # Absent
          /\ Stop(c, "DESTINATION_INVALID")
          /\ UNCHANGED started
       \/ /\ Fresh(q)
          /\ file[q] = Absent
          /\ started < MaxCalls
          /\ started' = started + 1
          /\ request' = [request EXCEPT ![c] = q]
          /\ attempt' = [attempt EXCEPT ![c] = 1]
          /\ Goto(c, "post")
          /\ UNCHANGED <<wire, body, reply>>
    /\ UNCHANGED <<authorityVars, conn, file, resolved>>

Post(c) ==
    /\ pc[c] = "post"
    /\ conn' = Append(conn, [request |-> request[c], at |-> Absent,
                             state |-> "sent", status |-> "none"])
    /\ wire' = [wire EXCEPT ![c] = Len(conn) + 1]
    /\ Goto(c, "waiting")
    /\ UNCHANGED <<authorityVars, used, file, request, attempt, body, reply, started, resolved>>

(***************************************************************************)
(* canPollAgain bounds the attempts; its deadline may pass earlier.        *)
(***************************************************************************)
MayPollAgain(c) == attempt[c] < MaxAttempts

PollAgain(c) ==
    /\ MayPollAgain(c)
    /\ attempt' = [attempt EXCEPT ![c] = @ + 1]
    /\ wire' = [wire EXCEPT ![c] = 0]
    /\ Goto(c, "post")
    /\ UNCHANGED <<request, body, reply>>

(***************************************************************************)
(* A transport error, or a 429/5xx from whatever stands in between.  The   *)
(* call cannot know what becomes of the handler.  It polls again if the    *)
(* failure is transient, and stops otherwise, when the attempts or the     *)
(* time are used up, or when the wait is interrupted.  The variant has no  *)
(* timeout and only notices that the connection was closed.                *)
(***************************************************************************)
PostFailsOnceClosed(c) ==
    /\ pc[c] = "waiting"
    /\ conn[wire[c]].state = "closed"
    /\ PollAgain(c) \/ Stop(c, "TRANSPORT_STOPPED")
    /\ UNCHANGED <<authorityVars, conn, used, file, started, resolved>>

PostFails(c) ==
    /\ pc[c] = "waiting"
    /\ \/ PollAgain(c)
       \/ \E verdict \in {"TRANSPORT_STOPPED", "HTTP_REJECTED", "INTERRUPTED"} :
             Stop(c, verdict)
    /\ UNCHANGED <<authorityVars, conn, used, file, started, resolved>>

(***************************************************************************)
(* The answer of the authority arrives.  Only 201 carries a grant, and it  *)
(* may still be cut short; 500 is transient; anything else is final.       *)
(***************************************************************************)
Receive(c) ==
    LET answer == conn[wire[c]] IN
    /\ pc[c] = "waiting"
    /\ answer.state = "answered"
    /\ \/ /\ answer.status = "201"
          /\ \/ /\ body' = [body EXCEPT ![c] =
                       [request |-> answer.request, notBefore |-> answer.at]]
                /\ wire' = [wire EXCEPT ![c] = 0]
                /\ Goto(c, "store")
                /\ UNCHANGED <<request, attempt, reply>>
             \/ Stop(c, "RESPONSE_INVALID")
       \/ /\ answer.status = "500"
          /\ PollAgain(c) \/ Stop(c, "HTTP_REJECTED")
       \/ /\ answer.status \in {"403", "409"}
          /\ Stop(c, "HTTP_REJECTED")
    /\ UNCHANGED <<authorityVars, conn, used, file, started, resolved>>

(***************************************************************************)
(* The grant file is opened exclusively, then written, synced and read     *)
(* back.  A failure on the way leaves what has been written.               *)
(***************************************************************************)
OpenGrantFile(c) ==
    LET q == request[c] IN
    /\ pc[c] = "store"
    /\ \/ /\ file[q] = Absent
          /\ file' = [file EXCEPT ![q] = Torn]
          /\ Goto(c, "write")
          /\ UNCHANGED <<request, attempt, wire, body, reply>>
       \/ /\ Stop(c, "PERSISTENCE_STOPPED")
          /\ UNCHANGED file
    /\ UNCHANGED <<authorityVars, conn, used, started, resolved>>

WriteGrantFile(c) ==
    LET q == request[c] IN
    /\ pc[c] = "write"
    /\ \/ /\ file' = [file EXCEPT ![q] = body[c]]
          /\ Goto(c, "verify")
          /\ UNCHANGED <<request, attempt, wire, body, reply>>
       \/ /\ file' \in {file, [file EXCEPT ![q] = body[c]]}
          /\ Stop(c, "PERSISTENCE_STOPPED")
    /\ UNCHANGED <<authorityVars, conn, used, started, resolved>>

(***************************************************************************)
(* LoadStage and BindStageGrant, as ResolveStageAuthorization applies them *)
(* to the stored file: right request, and active at the evaluation time.   *)
(***************************************************************************)
Active(grant, at) ==
    grant.notBefore <= at /\ at < grant.notBefore + GrantValidFor

VerifyGrant(c, at) ==
    LET q == request[c] IN
    /\ pc[c] = "verify"
    /\ \/ /\ Active(file[q], at)
          /\ Return(c, "VERIFIED", file[q])
          /\ resolved' = [resolved EXCEPT ![q] = @ + 1]
       \/ /\ Stop(c, "RESPONSE_INVALID")
          /\ UNCHANGED resolved
    /\ UNCHANGED <<authorityVars, conn, used, file, started>>

(***************************************************************************)
(* The executor process dies; a new one opens a resolver over the same     *)
(* output directory.  Connections are not taken back.                      *)
(***************************************************************************)
ResolverRestart ==
    /\ used # {}
    /\ used' = {}
    /\ pc' = [c \in Call |-> "idle"]
    /\ request' = [c \in Call |-> Absent]
    /\ attempt' = [c \in Call |-> 0]
    /\ wire' = [c \in Call |-> 0]
    /\ body' = [c \in Call |-> Absent]
    /\ reply' = [c \in Call |-> NoReply]
    /\ UNCHANGED <<authorityVars, conn, file, started, resolved>>

CallStep(c) ==
    \/ Post(c)
    \/ PostFails(c)
    \/ Receive(c)
    \/ OpenGrantFile(c)
    \/ WriteGrantFile(c)
    \/ \E at \in Time : VerifyGrant(c, at)

Next ==
    \/ \E c \in Call, q \in Request : Resolve(c, q)
    \/ \E c \in Call : CallStep(c)
    \/ \E i \in DOMAIN conn, now \in Time : ServeClaim(i, now)
    \/ \E i \in DOMAIN conn : ServeSign(i)
    \/ AuthorityRestart
    \/ ResolverRestart

Spec == Init /\ [][Next]_vars

(***************************************************************************)
(* Requests and file operations of a live call return: the HTTP client has *)
(* a timeout.  Nothing is assumed of the authority.                        *)
(***************************************************************************)
FairSpec == Spec /\ \A c \in Call : WF_vars(CallStep(c))

-----------------------------------------------------------------------------
TypeOK ==
    /\ claimed \subseteq Request
    /\ signed \in [Request -> Nat]
    /\ conn \in Seq(Connection)
    /\ used \subseteq Request
    /\ file \in [Request -> SignedGrant \cup {Absent, Torn}]
    /\ pc \in [Call -> Step]
    /\ request \in [Call -> Request \cup {Absent}]
    /\ attempt \in [Call -> 0..MaxAttempts]
    /\ wire \in [Call -> 0..Len(conn)]
    /\ body \in [Call -> SignedGrant \cup {Absent}]
    /\ reply \in [Call -> [verdict : Verdict, grant : SignedGrant \cup {Absent}]]
    /\ started \in 0..MaxCalls
    /\ resolved \in [Request -> Nat]

(***************************************************************************)
(* However often a request is posted, given up and posted again, and       *)
(* whichever of its handlers run late, the authority signs at most one     *)
(* grant for it, only if its policy permits the request; over all calls    *)
(* and restarts the grant is resolved at most once, and what a call        *)
(* returns is the one in the stored file.                                  *)
(***************************************************************************)
AtMostOneGrant ==
    /\ \A q \in Request :
          /\ signed[q] <= 1
          /\ signed[q] = 1 => q \in claimed \cap Permitted
          /\ resolved[q] <= signed[q]
    /\ \A c \in Call :
          reply[c].verdict = "VERIFIED" => reply[c].grant = file[reply[c].grant.request]

(***************************************************************************)
(* A claimed request is never resolved once no connection and no call can  *)
(* bring its grant any more: polling again, a second call and a restart    *)
(* all end in a stop.                                                      *)
(***************************************************************************)
Lost(q) ==
    /\ q \in claimed
    /\ resolved[q] = 0
    /\ \A i \in DOMAIN conn : conn[i].request = q => conn[i].state # "claimed"
    /\ \A c \in Call : request[c] = q =>
          /\ pc[c] \notin {"store", "write", "verify"}
          /\ pc[c] = "waiting" => conn[wire[c]].status # "201"

LostStaysLost == [][\A q \in Request : Lost(q) => Lost(q)']_vars

(***************************************************************************)
(* A call comes to an end even if the authority never answers.             *)
(***************************************************************************)
EveryCallEnds == \A c \in Call : pc[c] # "idle" ~> pc[c] = "idle"

=============================================================================
