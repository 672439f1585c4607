----------------------- MODULE StageAuthorizationProofs -----------------------
(***************************************************************************)
(* Proofs about StageAuthorization for any number of calls, requests,      *)
(* attempts and restarts, and any clock readings.                          *)
(***************************************************************************)
EXTENDS StageAuthorization, TLAPS

(***************************************************************************)
(* A connection that has, or will have, the grant of its request.          *)
(***************************************************************************)
Bears(i) == conn[i].state = "claimed" \/ conn[i].status = "201"

(***************************************************************************)
(* What the state of a connection says about the authority's files.        *)
(***************************************************************************)
ConnectionKnows(i) ==
    /\ conn[i].state \in {"sent", "claimed"} => conn[i].status = "none"
    /\ conn[i].status = "201" => conn[i].state = "answered"
    /\ Bears(i) => /\ conn[i].at \in Time
                   /\ conn[i].request \in claimed \cap Permitted
                   /\ signed[conn[i].request] = IF conn[i].state = "claimed" THEN 0 ELSE 1

ConnectionsKnow == \A i \in DOMAIN conn : ConnectionKnows(i)

OneBears ==
    \A i, j \in DOMAIN conn :
        Bears(i) /\ Bears(j) /\ conn[i].request = conn[j].request => i = j

(***************************************************************************)
(* The calls that are under way have requests of their own.                *)
(***************************************************************************)
OneCall ==
    /\ \A c \in Call : pc[c] # "idle" => request[c] \in used
    /\ \A c, d \in Call :
          pc[c] # "idle" /\ pc[d] # "idle" /\ request[c] = request[d] => c = d

(***************************************************************************)
(* What a call knows of its connection, its grant and its file.            *)
(***************************************************************************)
CallsKnow ==
    \A c \in Call :
        /\ pc[c] = "waiting" => /\ wire[c] \in DOMAIN conn
                                /\ conn[wire[c]].request = request[c]
        /\ pc[c] \in {"post", "waiting", "store"} => file[request[c]] = Absent
        /\ pc[c] \in {"store", "write", "verify"} =>
              /\ body[c] \in SignedGrant
              /\ body[c].request = request[c]
              /\ signed[request[c]] = 1
              /\ resolved[request[c]] = 0
        /\ pc[c] = "write" => file[request[c]] = Torn
        /\ pc[c] = "verify" => file[request[c]] = body[c]

(***************************************************************************)
(* What was signed was claimed before, and what was resolved was signed    *)
(* before and is in its file.                                              *)
(***************************************************************************)
FilesKnow ==
    \A q \in Request :
        /\ signed[q] \in {0, 1}
        /\ signed[q] = 1 => q \in claimed \cap Permitted
        /\ resolved[q] \in {0, 1}
        /\ resolved[q] = 1 => signed[q] = 1 /\ file[q] \in SignedGrant
        /\ file[q] \in SignedGrant => file[q].request = q

RepliesKnow ==
    \A c \in Call : reply[c].verdict = "VERIFIED" =>
        /\ reply[c].grant \in SignedGrant
        /\ file[reply[c].grant.request] = reply[c].grant

IInv ==
    /\ TypeOK
    /\ ConnectionsKnow
    /\ OneBears
    /\ OneCall
    /\ CallsKnow
    /\ FilesKnow
    /\ RepliesKnow

-----------------------------------------------------------------------------
(***************************************************************************)
(* The markers of a missing and of a torn file are not grants.             *)
(***************************************************************************)
LEMMA Markers == Absent # Torn /\ Absent \notin SignedGrant /\ Torn \notin SignedGrant
BY FileAssumption

(***************************************************************************)
(* Connections have their types, and positions are their numbers.          *)
(***************************************************************************)
LEMMA Connections ==
    ASSUME TypeOK
    PROVE  /\ conn \in Seq(Connection) /\ Len(conn) \in Nat
           /\ DOMAIN conn = 1..Len(conn)
           /\ \A i \in DOMAIN conn : conn[i] \in Connection
BY DEF TypeOK

(***************************************************************************)
(* One connection changes its state.                                       *)
(***************************************************************************)
LEMMA ConnectionChanges ==
    ASSUME TypeOK, NEW i \in DOMAIN conn, NEW x \in Connection,
           conn' = [conn EXCEPT ![i] = x]
    PROVE  /\ conn' \in Seq(Connection) /\ Len(conn') = Len(conn) /\ DOMAIN conn' = DOMAIN conn
           /\ conn'[i] = x
           /\ \A j \in DOMAIN conn : j # i => conn'[j] = conn[j]
<1>1. /\ conn \in [1..Len(conn) -> Connection] /\ Len(conn) \in Nat
      /\ DOMAIN conn = 1..Len(conn)
    BY Connections
<1>2. conn' \in [1..Len(conn) -> Connection]
    BY <1>1
<1> QED
    BY <1>1, <1>2

(***************************************************************************)
(* No connection, no call and no file: the invariant holds.                *)
(***************************************************************************)
LEMMA InitIInv == Init => IInv
<1> SUFFICES ASSUME Init PROVE IInv
    OBVIOUS
<1>1. TypeOK
    <2>1. NoReply \in [verdict : Verdict, grant : SignedGrant \cup {Absent}]
        BY DEF NoReply, Verdict
    <2>2. 0 \in 0..MaxAttempts /\ 0 \in 0..MaxCalls /\ 0 \in 0..Len(conn)
        BY StageAuthorizationAssumption DEF Init
    <2>3. QED
        BY <2>1, <2>2 DEF Init, TypeOK, Step
<1>2. ConnectionsKnow /\ OneBears
    BY DEF Init, ConnectionsKnow, ConnectionKnows, OneBears
<1>3. OneCall /\ CallsKnow /\ FilesKnow /\ RepliesKnow
    BY Markers DEF Init, OneCall, CallsKnow, FilesKnow, RepliesKnow, NoReply
<1> QED
    BY <1>1, <1>2, <1>3 DEF IInv

(***************************************************************************)
(* The types of what belongs to the calls.                                 *)
(***************************************************************************)
LocalOK ==
    /\ pc \in [Call -> Step]
    /\ request \in [Call -> Request \cup {Absent}]
    /\ attempt \in [Call -> 0..MaxAttempts]
    /\ wire \in [Call -> 0..Len(conn)]
    /\ body \in [Call -> SignedGrant \cup {Absent}]
    /\ reply \in [Call -> [verdict : Verdict, grant : SignedGrant \cup {Absent}]]

(***************************************************************************)
(* A call that returns forgets what it knew.                               *)
(***************************************************************************)
LEMMA ReturnType ==
    ASSUME TypeOK, NEW c \in Call, NEW verdict \in Verdict,
           NEW grant \in SignedGrant \cup {Absent}, Return(c, verdict, grant),
           UNCHANGED conn
    PROVE  LocalOK'
<1>1. [verdict |-> verdict, grant |-> grant]
          \in [verdict : Verdict, grant : SignedGrant \cup {Absent}]
    OBVIOUS
<1>2. 0 \in 0..MaxAttempts /\ 0 \in 0..Len(conn) /\ Len(conn) \in Nat
    BY StageAuthorizationAssumption DEF TypeOK
<1> QED
    BY <1>1, <1>2 DEF LocalOK, TypeOK, Return, Goto, Step

LEMMA PollAgainType ==
    ASSUME TypeOK, NEW c \in Call, PollAgain(c), UNCHANGED conn
    PROVE  LocalOK'
<1>1. attempt[c] + 1 \in 0..MaxAttempts
    BY StageAuthorizationAssumption DEF PollAgain, MayPollAgain, TypeOK
<1>2. 0 \in 0..Len(conn) /\ Len(conn) \in Nat
    BY DEF TypeOK
<1> QED
    BY <1>1, <1>2 DEF LocalOK, TypeOK, PollAgain, Goto, Step

(***************************************************************************)
(* A step of a call that leaves the files and the connections alone: it    *)
(* ends, polls again or has received its grant.                            *)
(***************************************************************************)
QuietStep(c) ==
    /\ UNCHANGED <<claimed, signed, conn, file, resolved>>
    /\ used \subseteq used'
    /\ \A d \in Call \ {c} :
          /\ pc'[d] = pc[d] /\ request'[d] = request[d] /\ wire'[d] = wire[d]
          /\ body'[d] = body[d] /\ reply'[d] = reply[d]
    /\ reply'[c].verdict = "VERIFIED" => reply'[c] = reply[c]
    /\ pc'[c] # "idle" => request'[c] = request[c]
    /\ \/ pc'[c] = "idle"
       \/ pc[c] = "waiting" /\ pc'[c] = "post"
       \/ /\ pc[c] = "waiting" /\ pc'[c] = "store"
          /\ body'[c] \in SignedGrant
          /\ body'[c].request = request[c]
          /\ signed[request[c]] = 1
          /\ resolved[request[c]] = 0

LEMMA QuietIInv ==
    ASSUME IInv, TypeOK', NEW c \in Call, QuietStep(c)
    PROVE  IInv'
<1>1. ConnectionsKnow' /\ OneBears' /\ FilesKnow'
    BY DEF IInv, QuietStep, ConnectionsKnow, ConnectionKnows, OneBears, FilesKnow, Bears
<1>2. OneCall'
    BY DEF IInv, QuietStep, OneCall
<1>3. CallsKnow'
    BY DEF IInv, QuietStep, CallsKnow
<1>4. RepliesKnow'
    BY DEF IInv, QuietStep, RepliesKnow
<1> QED
    BY <1>1, <1>2, <1>3, <1>4 DEF IInv

(***************************************************************************)
(* A stop is quiet.                                                        *)
(***************************************************************************)
LEMMA StopIInv ==
    ASSUME IInv, NEW c \in Call, NEW verdict \in Verdict \ {"VERIFIED"}, Stop(c, verdict),
           UNCHANGED <<claimed, signed, conn, file, started, resolved>>,
           used \subseteq used', used' \subseteq Request
    PROVE  IInv'
<1>1. LocalOK'
    BY ReturnType DEF IInv, Stop
<1>2. TypeOK'
    BY <1>1 DEF IInv, TypeOK, LocalOK
<1>3. QuietStep(c)
    BY DEF IInv, TypeOK, QuietStep, Stop, Return, Goto
<1> QED
    BY <1>2, <1>3, QuietIInv

LEMMA PollAgainIInv ==
    ASSUME IInv, NEW c \in Call, PollAgain(c), pc[c] = "waiting",
           UNCHANGED <<claimed, signed, conn, used, file, started, resolved>>
    PROVE  IInv'
<1>1. LocalOK'
    BY PollAgainType DEF IInv
<1>2. TypeOK'
    BY <1>1 DEF IInv, TypeOK, LocalOK
<1>3. QuietStep(c)
    BY DEF IInv, TypeOK, QuietStep, PollAgain, Goto
<1> QED
    BY <1>2, <1>3, QuietIInv

-----------------------------------------------------------------------------
(***************************************************************************)
(* One lemma per action.  First the calls.                                 *)
(***************************************************************************)
LEMMA ResolveIInv ==
    ASSUME IInv, NEW c \in Call, NEW q \in Request, Resolve(c, q)
    PROVE  IInv'
<1>1. ASSUME NEW verdict \in {"SINGLE_USE", "DESTINATION_INVALID"},
             Stop(c, verdict), UNCHANGED started
      PROVE  IInv'
    BY <1>1, StopIInv DEF Resolve, Verdict, authorityVars, IInv, TypeOK
<1>2. CASE /\ q \notin used
           /\ file[q] = Absent
           /\ started < MaxCalls
           /\ started' = started + 1
           /\ request' = [request EXCEPT ![c] = q]
           /\ attempt' = [attempt EXCEPT ![c] = 1]
           /\ Goto(c, "post")
           /\ UNCHANGED <<wire, body, reply>>
    <2>0. /\ UNCHANGED <<claimed, signed, conn, file, resolved, wire, body, reply>>
          /\ used' = used \cup {q}
          /\ pc' = [pc EXCEPT ![c] = "post"]
        BY <1>2 DEF Resolve, authorityVars, Goto
    <2>1. TypeOK'
        <3>1. 1 \in 0..MaxAttempts /\ started + 1 \in 0..MaxCalls
            BY <1>2, StageAuthorizationAssumption DEF IInv, TypeOK
        <3>2. QED
            BY <1>2, <2>0, <3>1 DEF IInv, TypeOK, Step
    <2>2. ConnectionsKnow' /\ OneBears' /\ FilesKnow' /\ RepliesKnow'
        BY <2>0 DEF IInv,
                    ConnectionsKnow, ConnectionKnows, OneBears, FilesKnow, RepliesKnow, Bears
    <2>3. \A d \in Call : IF d = c THEN pc'[d] = "post" /\ request'[d] = q
                          ELSE pc'[d] = pc[d] /\ request'[d] = request[d]
        BY <1>2, <2>0 DEF IInv, TypeOK
    <2>4. OneCall'
        BY <1>2, <2>0, <2>3 DEF IInv, OneCall
    <2>5. CallsKnow'
        BY <1>2, <2>0, <2>3 DEF IInv, CallsKnow
    <2>6. QED
        BY <2>1, <2>2, <2>4, <2>5 DEF IInv
<1> QED
    BY <1>1, <1>2 DEF Resolve, Fresh

LEMMA PostIInv ==
    ASSUME IInv, NEW c \in Call, Post(c)
    PROVE  IInv'
<1> DEFINE x == [request |-> request[c], at |-> Absent, state |-> "sent", status |-> "none"]
           n == Len(conn) + 1
<1>1. /\ conn' = Append(conn, x)
      /\ UNCHANGED <<claimed, signed, used, file, request, attempt, body, reply, started, resolved>>
      /\ wire' = [wire EXCEPT ![c] = n]
      /\ pc[c] = "post" /\ pc' = [pc EXCEPT ![c] = "waiting"]
    BY DEF Post, authorityVars, Goto
<1>2. request[c] \in Request
    BY <1>1 DEF IInv, TypeOK, OneCall
<1>3. x \in Connection
    BY <1>2 DEF Connection
<1>4. /\ conn' \in Seq(Connection)
      /\ Len(conn') = n /\ n \in Nat /\ n > 0
      /\ DOMAIN conn = 1..Len(conn) /\ DOMAIN conn' = 1..n
      /\ \A i \in DOMAIN conn : conn'[i] = conn[i]
      /\ conn'[n] = x
    BY <1>1, <1>3 DEF IInv, TypeOK
<1>5. TypeOK'
    <2>1. \A d \in Call : wire'[d] \in 0..Len(conn')
        BY <1>1, <1>4 DEF IInv, TypeOK
    <2>2. wire' \in [Call -> 0..Len(conn')]
        BY <1>1, <2>1 DEF IInv, TypeOK
    <2>3. QED
        BY <1>1, <1>4, <2>2 DEF IInv, TypeOK, Step
<1>6. \A i \in DOMAIN conn' : IF i = n THEN conn'[i].state = "sent" /\ conn'[i].status = "none"
                              ELSE i \in DOMAIN conn /\ conn'[i] = conn[i]
    BY <1>4
<1>7. ConnectionsKnow' /\ OneBears'
    BY <1>1, <1>6 DEF IInv, ConnectionsKnow, ConnectionKnows, OneBears, Bears
<1>8. OneCall' /\ FilesKnow' /\ RepliesKnow'
    BY <1>1 DEF IInv, TypeOK, OneCall, FilesKnow, RepliesKnow
<1>9. CallsKnow'
    <2>1. wire'[c] \in DOMAIN conn' /\ conn'[wire'[c]].request = request'[c]
        BY <1>1, <1>4 DEF IInv, TypeOK
    <2>2. ASSUME NEW d \in Call, d # c, pc[d] = "waiting"
          PROVE  wire'[d] \in DOMAIN conn' /\ conn'[wire'[d]].request = request'[d]
        BY <1>1, <1>4, <2>2 DEF IInv, TypeOK, CallsKnow
    <2>3. QED
        BY <1>1, <2>1, <2>2 DEF IInv, TypeOK, CallsKnow
<1> QED
    BY <1>5, <1>7, <1>8, <1>9 DEF IInv

LEMMA PostFailsIInv ==
    ASSUME IInv, NEW c \in Call, PostFails(c)
    PROVE  IInv'
<1>1. used' \subseteq Request
    BY DEF IInv, TypeOK, PostFails
<1> QED
    BY <1>1, StopIInv, PollAgainIInv DEF PostFails, Verdict, authorityVars

LEMMA ReceiveIInv ==
    ASSUME IInv, NEW c \in Call, Receive(c)
    PROVE  IInv'
<1> DEFINE answer == conn[wire[c]]
<1>1. /\ UNCHANGED <<claimed, signed, conn, used, file, started, resolved>>
      /\ pc[c] = "waiting" /\ answer.state = "answered"
      /\ used' \subseteq Request
    BY DEF Receive, authorityVars, IInv, TypeOK
<1>2. ASSUME NEW verdict \in {"RESPONSE_INVALID", "HTTP_REJECTED"}, Stop(c, verdict)
      PROVE  IInv'
    BY <1>1, <1>2, StopIInv DEF Verdict
<1>3. CASE PollAgain(c)
    BY <1>1, <1>3, PollAgainIInv
<1>4. CASE /\ answer.status = "201"
           /\ body' = [body EXCEPT ![c] = [request |-> answer.request, notBefore |-> answer.at]]
           /\ wire' = [wire EXCEPT ![c] = 0]
           /\ Goto(c, "store")
           /\ UNCHANGED <<request, attempt, reply>>
    <2>1. wire[c] \in DOMAIN conn /\ answer.request = request[c]
        BY <1>1 DEF IInv, CallsKnow
    <2>2. /\ answer.at \in Time /\ answer.request \in Request
          /\ signed[answer.request] = 1
        BY <1>1, <1>4, <2>1, StageAuthorizationAssumption DEF IInv,
                                                              ConnectionsKnow, ConnectionKnows, Bears
    <2>3. [request |-> answer.request, notBefore |-> answer.at] \in SignedGrant
        BY <2>2 DEF SignedGrant
    <2>4. TypeOK'
        BY <1>1, <1>4, <2>3 DEF IInv, TypeOK, Goto, Step
    <2>5. resolved[request[c]] = 0
        BY <1>1, <2>1, <2>2, Markers DEF IInv, CallsKnow, FilesKnow
    <2>6. body'[c] = [request |-> answer.request, notBefore |-> answer.at]
        BY <1>4 DEF IInv, TypeOK
    <2>7. QuietStep(c)
        BY <1>1, <1>4, <2>1, <2>2, <2>3, <2>5, <2>6 DEF IInv, TypeOK, QuietStep, Goto
    <2>8. QED
        BY <2>4, <2>7, QuietIInv
<1> QED
    BY <1>2, <1>3, <1>4 DEF Receive

(***************************************************************************)
(* The file of a call changes, and no other call or reply knows of it.     *)
(***************************************************************************)
LEMMA FileOfCall ==
    ASSUME IInv, NEW c \in Call, pc[c] \in {"store", "write"},
           NEW content \in SignedGrant \cup {Torn},
           content \in SignedGrant => content.request = request[c],
           file' = [file EXCEPT ![request[c]] = content],
           UNCHANGED <<claimed, signed, conn, used, resolved>>
    PROVE  /\ ConnectionsKnow' /\ OneBears' /\ FilesKnow'
           /\ request[c] \in Request
           /\ file' \in [Request -> SignedGrant \cup {Absent, Torn}]
           /\ file'[request[c]] = content
           /\ \A d \in Call : pc[d] # "idle" /\ d # c => /\ request[d] # request[c]
                                                        /\ file'[request[d]] = file[request[d]]
           /\ \A d \in Call : reply[d].verdict = "VERIFIED" =>
                 file'[reply[d].grant.request] = reply[d].grant
<1>1. request[c] \in Request /\ file[request[c]] \in {Absent, Torn}
    BY DEF IInv, TypeOK, OneCall, CallsKnow
<1>2. /\ file' \in [Request -> SignedGrant \cup {Absent, Torn}]
      /\ file'[request[c]] = content
      /\ \A q \in Request : q # request[c] => file'[q] = file[q]
    BY <1>1 DEF IInv, TypeOK
<1>3. ConnectionsKnow' /\ OneBears'
    BY DEF IInv, ConnectionsKnow, ConnectionKnows, OneBears, Bears
<1>4. FilesKnow'
    BY <1>1, <1>2, Markers DEF IInv, FilesKnow
<1>5. \A d \in Call : pc[d] # "idle" => request[d] \in Request
    BY DEF IInv, TypeOK, OneCall
<1>6. \A d \in Call : pc[d] # "idle" /\ d # c => request[d] # request[c]
    BY DEF IInv, OneCall
<1>7. ASSUME NEW d \in Call, reply[d].verdict = "VERIFIED"
      PROVE  file'[reply[d].grant.request] = reply[d].grant
    <2>1. reply[d].grant \in SignedGrant /\ file[reply[d].grant.request] = reply[d].grant
        BY <1>7 DEF IInv, RepliesKnow
    <2>2. reply[d].grant.request \in Request
        BY <2>1 DEF SignedGrant
    <2>3. QED
        BY <1>1, <1>2, <2>1, <2>2, Markers
<1> QED
    BY <1>1, <1>2, <1>3, <1>4, <1>5, <1>6, <1>7

LEMMA OpenGrantFileIInv ==
    ASSUME IInv, NEW c \in Call, OpenGrantFile(c)
    PROVE  IInv'
<1>1. /\ UNCHANGED <<claimed, signed, conn, used, started, resolved>>
      /\ pc[c] = "store" /\ used' \subseteq Request
    BY DEF OpenGrantFile, authorityVars, IInv, TypeOK
<1>2. CASE Stop(c, "PERSISTENCE_STOPPED") /\ UNCHANGED file
    BY <1>1, <1>2, StopIInv DEF Verdict
<1>3. CASE /\ file[request[c]] = Absent
           /\ file' = [file EXCEPT ![request[c]] = Torn]
           /\ Goto(c, "write")
           /\ UNCHANGED <<request, attempt, wire, body, reply>>
    <2>1. /\ ConnectionsKnow' /\ OneBears' /\ FilesKnow'
          /\ file' \in [Request -> SignedGrant \cup {Absent, Torn}]
          /\ file'[request[c]] = Torn
          /\ \A d \in Call : pc[d] # "idle" /\ d # c => file'[request[d]] = file[request[d]]
          /\ \A d \in Call : reply[d].verdict = "VERIFIED" =>
                file'[reply[d].grant.request] = reply[d].grant
        BY <1>1, <1>3, Markers, FileOfCall
    <2>2. TypeOK'
        BY <1>1, <1>3, <2>1 DEF IInv, TypeOK, Goto, Step
    <2>3. OneCall' /\ RepliesKnow'
        BY <1>1, <1>3, <2>1 DEF IInv, TypeOK, OneCall, RepliesKnow, Goto
    <2>4. CallsKnow'
        <3>1. pc'[c] = "write" /\ \A d \in Call : d # c => pc'[d] = pc[d]
            BY <1>3 DEF IInv, TypeOK, Goto
        <3>2. \A d \in Call : pc[d] # "idle" /\ d # c => file'[request'[d]] = file[request[d]]
            BY <1>3, <2>1
        <3>3. file'[request'[c]] = Torn
            BY <1>3, <2>1
        <3>4. QED
            BY <1>1, <1>3, <3>1, <3>2, <3>3 DEF IInv, CallsKnow
    <2>5. QED
        BY <2>1, <2>2, <2>3, <2>4 DEF IInv
<1> QED
    BY <1>2, <1>3 DEF OpenGrantFile

LEMMA WriteGrantFileIInv ==
    ASSUME IInv, NEW c \in Call, WriteGrantFile(c)
    PROVE  IInv'
<1>1. /\ UNCHANGED <<claimed, signed, conn, used, started, resolved>>
      /\ pc[c] = "write" /\ used' \subseteq Request
      /\ body[c] \in SignedGrant /\ body[c].request = request[c]
    BY DEF WriteGrantFile, authorityVars, IInv, TypeOK, CallsKnow
<1>2. CASE Stop(c, "PERSISTENCE_STOPPED") /\ file' = file
    BY <1>1, <1>2, StopIInv DEF Verdict
<1>3. CASE file' = [file EXCEPT ![request[c]] = body[c]]
    <2>1. /\ ConnectionsKnow' /\ OneBears' /\ FilesKnow'
          /\ file' \in [Request -> SignedGrant \cup {Absent, Torn}]
          /\ file'[request[c]] = body[c]
          /\ \A d \in Call : pc[d] # "idle" /\ d # c => file'[request[d]] = file[request[d]]
          /\ \A d \in Call : reply[d].verdict = "VERIFIED" =>
                file'[reply[d].grant.request] = reply[d].grant
        BY <1>1, <1>3, FileOfCall
    <2>2. CASE Goto(c, "verify") /\ UNCHANGED <<request, attempt, wire, body, reply>>
        <3>1. TypeOK'
            BY <1>1, <2>1, <2>2 DEF IInv, TypeOK, Goto, Step
        <3>2. OneCall' /\ RepliesKnow'
            BY <1>1, <2>1, <2>2 DEF IInv, TypeOK, OneCall, RepliesKnow, Goto
        <3>3. CallsKnow'
            BY <1>1, <2>1, <2>2 DEF IInv, TypeOK, CallsKnow, Goto
        <3>4. QED
            BY <2>1, <3>1, <3>2, <3>3 DEF IInv
    <2>3. CASE Stop(c, "PERSISTENCE_STOPPED")
        <3>1. LocalOK'
            BY <1>1, <2>3, ReturnType DEF IInv, Stop, Verdict
        <3>2. TypeOK'
            BY <1>1, <2>1, <3>1 DEF IInv, TypeOK, LocalOK
        <3>3. /\ pc'[c] = "idle" /\ reply'[c].verdict # "VERIFIED"
              /\ \A d \in Call \ {c} :
                    /\ pc'[d] = pc[d] /\ request'[d] = request[d] /\ wire'[d] = wire[d]
                    /\ body'[d] = body[d] /\ reply'[d] = reply[d]
            BY <2>3 DEF IInv, TypeOK, Stop, Return, Goto
        <3>4. OneCall' /\ RepliesKnow'
            BY <1>1, <2>1, <3>3 DEF IInv, OneCall, RepliesKnow
        <3>5. CallsKnow'
            BY <1>1, <2>1, <3>3 DEF IInv, CallsKnow
        <3>6. QED
            BY <2>1, <3>2, <3>4, <3>5 DEF IInv
    <2>4. QED
        BY <2>2, <2>3 DEF WriteGrantFile
<1> QED
    BY <1>2, <1>3 DEF WriteGrantFile

LEMMA VerifyGrantIInv ==
    ASSUME IInv, NEW c \in Call, NEW at \in Time, VerifyGrant(c, at)
    PROVE  IInv'
<1>1. /\ UNCHANGED <<claimed, signed, conn, used, file, started>>
      /\ pc[c] = "verify" /\ used' \subseteq Request
    BY DEF VerifyGrant, authorityVars, IInv, TypeOK
<1>2. CASE Stop(c, "RESPONSE_INVALID") /\ UNCHANGED resolved
    BY <1>1, <1>2, StopIInv DEF Verdict
<1>3. CASE /\ Return(c, "VERIFIED", file[request[c]])
           /\ resolved' = [resolved EXCEPT ![request[c]] = @ + 1]
    <2>1. /\ request[c] \in Request
          /\ file[request[c]] \in SignedGrant /\ file[request[c]].request = request[c]
          /\ signed[request[c]] = 1 /\ resolved[request[c]] = 0
        BY <1>1 DEF IInv, TypeOK, OneCall, CallsKnow
    <2>2. LocalOK'
        BY <1>1, <1>3, <2>1, ReturnType DEF IInv, Verdict
    <2>3. /\ resolved' \in [Request -> Nat]
          /\ resolved'[request[c]] = 1
          /\ \A q \in Request : q # request[c] => resolved'[q] = resolved[q]
        BY <1>3, <2>1 DEF IInv, TypeOK
    <2>4. TypeOK'
        BY <1>1, <2>2, <2>3 DEF IInv, TypeOK, LocalOK
    <2>5. /\ pc'[c] = "idle"
          /\ reply'[c] = [verdict |-> "VERIFIED", grant |-> file[request[c]]]
          /\ \A d \in Call \ {c} :
                /\ pc'[d] = pc[d] /\ request'[d] = request[d] /\ wire'[d] = wire[d]
                /\ body'[d] = body[d] /\ reply'[d] = reply[d]
        BY <1>3 DEF IInv, TypeOK, Return, Goto
    <2>6. ConnectionsKnow' /\ OneBears'
        BY <1>1 DEF IInv, ConnectionsKnow, ConnectionKnows, OneBears, Bears
    <2>7. FilesKnow'
        BY <1>1, <2>1, <2>3 DEF IInv, FilesKnow
    <2>8. OneCall' /\ RepliesKnow'
        BY <1>1, <2>1, <2>5 DEF IInv, OneCall, RepliesKnow
    <2>9. CallsKnow'
        <3>1. \A d \in Call \ {c} : pc[d] # "idle" => /\ request[d] # request[c]
                                                     /\ request[d] \in Request
            BY <1>1 DEF IInv, TypeOK, OneCall
        <3>2. QED
            BY <1>1, <2>3, <2>5, <3>1 DEF IInv, CallsKnow
    <2>10. QED
        BY <2>4, <2>6, <2>7, <2>8, <2>9 DEF IInv
<1> QED
    BY <1>2, <1>3 DEF VerifyGrant

LEMMA ResolverRestartIInv ==
    ASSUME IInv, ResolverRestart
    PROVE  IInv'
<1>1. TypeOK'
    <2>1. NoReply \in [verdict : Verdict, grant : SignedGrant \cup {Absent}]
        BY DEF NoReply, Verdict
    <2>2. 0 \in 0..MaxAttempts /\ 0 \in 0..Len(conn)
        BY StageAuthorizationAssumption DEF IInv, TypeOK
    <2>3. QED
        BY <2>1, <2>2 DEF ResolverRestart, authorityVars, IInv, TypeOK, Step
<1>2. ConnectionsKnow' /\ OneBears' /\ FilesKnow'
    BY DEF ResolverRestart, authorityVars, IInv,
           ConnectionsKnow, ConnectionKnows, OneBears, FilesKnow, Bears
<1>3. OneCall' /\ CallsKnow' /\ RepliesKnow'
    BY DEF ResolverRestart, OneCall, CallsKnow, RepliesKnow, NoReply
<1> QED
    BY <1>1, <1>2, <1>3 DEF IInv

-----------------------------------------------------------------------------
(***************************************************************************)
(* The authority.  What the calls know does not depend on the state of a   *)
(* connection.                                                             *)
(***************************************************************************)
LEMMA AuthorityIInv ==
    ASSUME IInv, TypeOK', ConnectionsKnow', OneBears',
           UNCHANGED <<used, file, callVars, resolved>>,
           claimed \subseteq claimed',
           \A q \in Request : signed'[q] = signed[q] \/ (signed[q] = 0 /\ signed'[q] = 1),
           \A q \in Request : signed'[q] = 1 => q \in claimed' \cap Permitted,
           DOMAIN conn' = DOMAIN conn,
           \A i \in DOMAIN conn : conn'[i].request = conn[i].request
    PROVE  IInv'
<1>1. OneCall' /\ RepliesKnow'
    BY DEF IInv, callVars, OneCall, RepliesKnow
<1>2. \A c \in Call : pc[c] # "idle" => request[c] \in Request
    BY DEF IInv, TypeOK, OneCall
<1>3. CallsKnow'
    BY <1>2 DEF IInv, callVars, CallsKnow
<1>4. FilesKnow'
    BY DEF IInv, FilesKnow
<1> QED
    BY <1>1, <1>3, <1>4 DEF IInv

LEMMA ServeClaimIInv ==
    ASSUME IInv, NEW i \in DOMAIN conn, NEW now \in Time, ServeClaim(i, now)
    PROVE  IInv'
<1> DEFINE q == conn[i].request
<1>1. TypeOK /\ conn[i] \in Connection
    BY Connections DEF IInv
<1>2. /\ conn[i].state = "sent" /\ conn[i].status = "none" /\ q \in Request
      /\ UNCHANGED <<signed, used, file, callVars, started, resolved>>
    BY <1>1 DEF ServeClaim, IInv, ConnectionsKnow, ConnectionKnows, Connection
<1>3. /\ UNCHANGED <<used, file, callVars, resolved>>
      /\ \A r \in Request : signed'[r] = signed[r]
    BY <1>2
<1>4. ASSUME NEW status \in {"403", "409"}, Answer(i, status),
             claimed \subseteq claimed', claimed' \subseteq claimed \cup {q}
      PROVE  IInv'
    <2> DEFINE x == [conn[i] EXCEPT !.state = "answered", !.status = status]
    <2>1. x \in Connection /\ conn' = [conn EXCEPT ![i] = x]
        BY <1>1, <1>4 DEF Answer, Connection
    <2>2. /\ conn' \in Seq(Connection) /\ Len(conn') = Len(conn) /\ DOMAIN conn' = DOMAIN conn
          /\ conn'[i] = x
          /\ \A j \in DOMAIN conn : j # i => conn'[j] = conn[j]
        BY <1>1, <2>1, ConnectionChanges
    <2>3. conn'[i].state = "answered" /\ conn'[i].status = status /\ conn'[i].request = q
        BY <1>1, <2>2 DEF Connection
    <2>4. TypeOK'
        BY <1>1, <1>2, <1>4, <2>2 DEF TypeOK, callVars
    <2>5. ConnectionsKnow'
      <3>1. ConnectionKnows(i)'
          BY <2>3 DEF ConnectionKnows, Bears
      <3>2. ASSUME NEW j \in DOMAIN conn, j # i PROVE ConnectionKnows(j)'
        <4>1. ConnectionKnows(j) /\ conn'[j] = conn[j]
            BY <2>2, <3>2 DEF IInv, ConnectionsKnow
        <4> QED
            BY <1>2, <1>4, <4>1 DEF ConnectionKnows, Bears
      <3> QED
          BY <2>2, <3>1, <3>2 DEF ConnectionsKnow
    <2>6. OneBears'
      <3>1. \A j \in DOMAIN conn : Bears(j)' => Bears(j) /\ conn'[j] = conn[j]
          BY <2>2, <2>3 DEF Bears
      <3> QED
          BY <2>2, <3>1 DEF IInv, OneBears
    <2>7. \A j \in DOMAIN conn : conn'[j].request = conn[j].request
        BY <2>2, <2>3
    <2>8. \A r \in Request : signed'[r] = 1 => r \in claimed' \cap Permitted
        BY <1>3, <1>4 DEF IInv, FilesKnow
    <2>9. QED
        BY <1>3, <1>4, <2>2, <2>4, <2>5, <2>6, <2>7, <2>8, AuthorityIInv
<1>5. CASE /\ q \in Permitted /\ q \notin claimed
           /\ claimed' = claimed \cup {q}
           /\ conn' = [conn EXCEPT ![i].state = "claimed", ![i].at = now]
    <2> DEFINE x == [conn[i] EXCEPT !.state = "claimed", !.at = now]
    <2>1. x \in Connection /\ conn' = [conn EXCEPT ![i] = x]
        BY <1>1, <1>5 DEF Connection
    <2>2. /\ conn' \in Seq(Connection) /\ Len(conn') = Len(conn) /\ DOMAIN conn' = DOMAIN conn
          /\ conn'[i] = x
          /\ \A j \in DOMAIN conn : j # i => conn'[j] = conn[j]
        BY <1>1, <2>1, ConnectionChanges
    <2>3. /\ conn'[i].state = "claimed" /\ conn'[i].at = now /\ conn'[i].request = q
          /\ conn'[i].status = "none"
        BY <1>1, <1>2, <2>2 DEF Connection
    <2>4. TypeOK'
        BY <1>1, <1>2, <1>5, <2>2 DEF TypeOK, callVars
    <2>5. signed[q] = 0
        BY <1>2, <1>5 DEF IInv, FilesKnow
    <2>6. ConnectionsKnow'
        BY <1>2, <1>5, <2>2, <2>3, <2>5 DEF IInv, ConnectionsKnow, ConnectionKnows, Bears
    <2>7. OneBears'
        BY <1>5, <2>2, <2>3 DEF IInv, ConnectionsKnow, ConnectionKnows, OneBears, Bears
    <2>8. \A j \in DOMAIN conn : conn'[j].request = conn[j].request
        BY <2>2, <2>3
    <2>9. \A r \in Request : signed'[r] = 1 => r \in claimed' \cap Permitted
        BY <1>3, <1>5 DEF IInv, FilesKnow
    <2>10. QED
        BY <1>3, <1>5, <2>2, <2>4, <2>6, <2>7, <2>8, <2>9, AuthorityIInv
<1> QED
    BY <1>4, <1>5 DEF ServeClaim, Claimable

LEMMA ServeSignIInv ==
    ASSUME IInv, NEW i \in DOMAIN conn, ServeSign(i)
    PROVE  IInv'
<1> DEFINE q == conn[i].request
<1>1. TypeOK /\ conn[i] \in Connection
    BY Connections DEF IInv
<1>2. /\ conn[i].state = "claimed" /\ q \in Request
      /\ UNCHANGED <<claimed, used, file, callVars, started, resolved>>
    BY <1>1 DEF ServeSign, Connection
<1>3. /\ UNCHANGED <<used, file, callVars, resolved>> /\ claimed \subseteq claimed'
      /\ claimed' = claimed
    BY <1>2
<1>4. q \in claimed \cap Permitted /\ signed[q] = 0 /\ conn[i].at \in Time
    BY <1>2 DEF IInv, ConnectionsKnow, ConnectionKnows, Bears
<1>5. \A j \in DOMAIN conn : j # i /\ conn[j].request = q =>
          conn[j].state # "claimed" /\ conn[j].status # "201"
    BY <1>2 DEF IInv, OneBears, Bears
<1>6. ASSUME NEW status \in {"201", "500"}, Answer(i, status)
      PROVE  /\ conn' \in Seq(Connection) /\ Len(conn') = Len(conn) /\ DOMAIN conn' = DOMAIN conn
             /\ conn'[i].state = "answered" /\ conn'[i].status = status
             /\ conn'[i].request = q /\ conn'[i].at = conn[i].at
             /\ \A j \in DOMAIN conn : j # i => conn'[j] = conn[j]
             /\ \A j \in DOMAIN conn : conn'[j].request = conn[j].request
    <2> DEFINE x == [conn[i] EXCEPT !.state = "answered", !.status = status]
    <2>1. x \in Connection /\ conn' = [conn EXCEPT ![i] = x]
        BY <1>1, <1>6 DEF Answer, Connection
    <2>2. /\ conn' \in Seq(Connection) /\ Len(conn') = Len(conn) /\ DOMAIN conn' = DOMAIN conn
          /\ conn'[i] = x
          /\ \A j \in DOMAIN conn : j # i => conn'[j] = conn[j]
        BY <1>1, <2>1, ConnectionChanges
    <2>3. /\ conn'[i].state = "answered" /\ conn'[i].status = status
          /\ conn'[i].request = q /\ conn'[i].at = conn[i].at
        BY <1>1, <2>2 DEF Connection
    <2>4. QED
        BY <2>2, <2>3
<1>7. CASE Answer(i, "500") /\ UNCHANGED signed
    <2>1. TypeOK'
        BY <1>1, <1>2, <1>6, <1>7 DEF TypeOK, callVars
    <2>2. ConnectionsKnow' /\ OneBears'
        BY <1>2, <1>6, <1>7 DEF IInv, ConnectionsKnow, ConnectionKnows, OneBears, Bears
    <2>3. \A r \in Request : signed'[r] = signed[r]
        BY <1>7
    <2>4. \A r \in Request : signed'[r] = 1 => r \in claimed' \cap Permitted
        BY <1>3, <2>3 DEF IInv, FilesKnow
    <2>5. QED
        BY <1>3, <1>6, <1>7, <2>1, <2>2, <2>3, <2>4, AuthorityIInv
<1>8. CASE Answer(i, "201") /\ signed' = [signed EXCEPT ![q] = @ + 1]
    <2>1. /\ signed' \in [Request -> Nat] /\ signed'[q] = 1
          /\ \A r \in Request : r # q => signed'[r] = signed[r]
        BY <1>2, <1>4, <1>8 DEF IInv, TypeOK
    <2>2. TypeOK'
        BY <1>1, <1>2, <1>6, <1>8, <2>1 DEF TypeOK, callVars
    <2>3. ConnectionsKnow'
        <3>1. ASSUME NEW j \in DOMAIN conn, j # i, Bears(j)'
              PROVE  /\ conn'[j] = conn[j] /\ Bears(j) /\ conn[j].request # q
                     /\ conn[j].request \in Request
            BY <1>5, <1>6, <1>8, <3>1, StageAuthorizationAssumption
               DEF IInv, ConnectionsKnow, ConnectionKnows, Bears
        <3>2. QED
            BY <1>3, <1>4, <1>6, <1>8, <2>1, <3>1 DEF IInv,
                                                      ConnectionsKnow, ConnectionKnows, Bears
    <2>4. OneBears'
        BY <1>5, <1>6, <1>8 DEF IInv, OneBears, Bears
    <2>5. \A r \in Request : signed'[r] = 1 => r \in claimed' \cap Permitted
        BY <1>3, <1>4, <2>1 DEF IInv, FilesKnow
    <2>6. \A r \in Request : signed'[r] = signed[r] \/ (signed[r] = 0 /\ signed'[r] = 1)
        BY <1>4, <2>1
    <2>7. QED
        BY <1>3, <1>6, <1>8, <2>2, <2>3, <2>4, <2>5, <2>6, AuthorityIInv
<1> QED
    BY <1>7, <1>8 DEF ServeSign

LEMMA AuthorityRestartIInv ==
    ASSUME IInv, AuthorityRestart
    PROVE  IInv'
<1>1. /\ TypeOK /\ conn \in Seq(Connection) /\ Len(conn) \in Nat
      /\ DOMAIN conn = 1..Len(conn)
      /\ \A i \in DOMAIN conn : conn[i] \in Connection
    BY Connections DEF IInv
<1>2. UNCHANGED <<claimed, signed, used, file, callVars, started, resolved>>
    BY DEF AuthorityRestart, authorityVars
<1>3. ASSUME NEW i \in DOMAIN conn
      PROVE  [conn[i] EXCEPT !.state = "closed"] \in Connection
    BY <1>1 DEF Connection
<1>4. conn' = [i \in 1..Len(conn) |->
                  IF conn[i].state \in {"sent", "claimed"}
                  THEN [conn[i] EXCEPT !.state = "closed"] ELSE conn[i]]
    BY <1>1 DEF AuthorityRestart
<1>5. conn' \in [1..Len(conn) -> Connection]
    BY <1>1, <1>3, <1>4
<1>6. conn' \in Seq(Connection) /\ Len(conn') = Len(conn) /\ DOMAIN conn' = DOMAIN conn
    BY <1>1, <1>5
<1>7. ASSUME NEW i \in DOMAIN conn
      PROVE  /\ conn'[i].request = conn[i].request
             /\ \/ conn'[i].state = "closed" /\ conn'[i].status = "none"
                \/ conn'[i] = conn[i] /\ conn[i].state \notin {"sent", "claimed"}
    <2>1. conn[i] \in Connection
        BY <1>1
    <2>2. CASE conn[i].state \in {"sent", "claimed"}
        <3>1. conn'[i] = [conn[i] EXCEPT !.state = "closed"] /\ conn[i].status = "none"
            BY <1>1, <1>4, <2>2 DEF IInv, ConnectionsKnow, ConnectionKnows
        <3>2. QED
            BY <2>1, <3>1 DEF Connection
    <2>3. CASE conn[i].state \notin {"sent", "claimed"}
        BY <1>1, <1>4, <2>3
    <2>4. QED
        BY <2>2, <2>3
<1>8. TypeOK'
    BY <1>1, <1>2, <1>6 DEF TypeOK, callVars
<1>9. ConnectionsKnow' /\ OneBears'
    BY <1>2, <1>6, <1>7 DEF IInv, ConnectionsKnow, ConnectionKnows, OneBears, Bears
<1>10. /\ UNCHANGED <<used, file, callVars, resolved>> /\ claimed \subseteq claimed'
       /\ \A r \in Request : signed'[r] = signed[r]
       /\ \A r \in Request : signed'[r] = 1 => r \in claimed' \cap Permitted
    BY <1>2 DEF IInv, FilesKnow
<1> QED
    BY <1>6, <1>7, <1>8, <1>9, <1>10, AuthorityIInv

(***************************************************************************)
(* Every step preserves the invariant.                                     *)
(***************************************************************************)
LEMMA StepIInv == IInv /\ [Next]_vars => IInv'
<1> SUFFICES ASSUME IInv, [Next]_vars PROVE IInv'
    OBVIOUS
<1>1. CASE UNCHANGED vars
    BY <1>1
       DEF vars, authorityVars, callVars, IInv, TypeOK, ConnectionsKnow, ConnectionKnows,
           OneBears, Bears,
           OneCall, CallsKnow, FilesKnow, RepliesKnow
<1>2. ASSUME NEW c \in Call, CallStep(c) PROVE IInv'
    BY <1>2, PostIInv, PostFailsIInv, ReceiveIInv, OpenGrantFileIInv, WriteGrantFileIInv,
       VerifyGrantIInv DEF CallStep
<1> QED
    BY <1>1, <1>2, ResolveIInv, ServeClaimIInv, ServeSignIInv, AuthorityRestartIInv,
       ResolverRestartIInv DEF Next

-----------------------------------------------------------------------------
(***************************************************************************)
(* Every variable keeps its type, whatever is lost or restarted.           *)
(***************************************************************************)
THEOREM AuthorizationTypeCorrect == Spec => []TypeOK
<1>1. IInv => TypeOK
    BY DEF IInv
<1> QED
    BY <1>1, InitIInv, StepIInv, PTL DEF Spec

(***************************************************************************)
(* The authority signs at most one grant for a request, only a permitted   *)
(* one, and it is resolved at most once, to what is in the grant file.     *)
(***************************************************************************)
THEOREM SingleGrant == Spec => []AtMostOneGrant
<1>1. IInv => AtMostOneGrant
    BY DEF IInv, FilesKnow, RepliesKnow, AtMostOneGrant
<1> QED
    BY <1>1, InitIInv, StepIInv, PTL DEF Spec

(***************************************************************************)
(* A request whose grant got lost is lost after every step: a claimed      *)
(* request is not claimed again, and no call of it can get to its file.    *)
(***************************************************************************)
LEMMA LostStep ==
    ASSUME IInv, [Next]_vars, NEW q \in Request, Lost(q)
    PROVE  Lost(q)'
<1>1. /\ TypeOK /\ q \in claimed /\ resolved[q] = 0
      /\ \A i \in DOMAIN conn : conn[i].request = q => conn[i].state # "claimed"
      /\ \A c \in Call : request[c] = q => /\ pc[c] \notin {"store", "write", "verify"}
                                           /\ pc[c] = "waiting" => conn[wire[c]].status # "201"
      /\ \A c \in Call : pc[c] = "waiting" => /\ wire[c] \in DOMAIN conn
                                              /\ conn[wire[c]].request = request[c]
    BY DEF IInv, Lost, CallsKnow
<1>2. CASE UNCHANGED vars
    BY <1>1, <1>2 DEF vars, authorityVars, callVars, Lost
<1>3. ASSUME NEW c \in Call, UNCHANGED <<claimed, conn>>, resolved'[q] = resolved[q],
             \A d \in Call : d # c => pc'[d] = pc[d] /\ request'[d] = request[d] /\ wire'[d] = wire[d],
             \/ pc'[c] \in {"idle", "post"}
             \/ pc'[c] \in {"store", "write", "verify"} /\ request'[c] # q
      PROVE  Lost(q)'
    BY <1>1, <1>3 DEF Lost
<1>4. ASSUME NEW c \in Call, NEW r \in Request, Resolve(c, r) PROVE Lost(q)'
    BY <1>1, <1>3, <1>4 DEF Resolve, Stop, Return, Goto, authorityVars, TypeOK
<1>5. ASSUME NEW c \in Call, Post(c) PROVE Lost(q)'
    <2> DEFINE x == [request |-> request[c], at |-> Absent, state |-> "sent", status |-> "none"]
               n == Len(conn) + 1
    <2>1. /\ conn' = Append(conn, x) /\ UNCHANGED <<claimed, request, resolved>>
          /\ wire' = [wire EXCEPT ![c] = n] /\ pc' = [pc EXCEPT ![c] = "waiting"]
          /\ pc[c] = "post" /\ DOMAIN conn = 1..Len(conn) /\ Len(conn) \in Nat
        BY <1>1, <1>5, Connections DEF Post, authorityVars, Goto
    <2>2. /\ DOMAIN conn' = 1..n /\ conn'[n] = x
          /\ \A i \in DOMAIN conn : conn'[i] = conn[i]
        BY <1>1, <2>1 DEF TypeOK
    <2>3. \A i \in DOMAIN conn' : conn'[i].request = q => conn'[i].state # "claimed"
        BY <1>1, <2>1, <2>2
    <2>4. wire'[c] = n /\ \A d \in Call : d # c => wire'[d] = wire[d] /\ pc'[d] = pc[d]
        BY <1>1, <2>1 DEF TypeOK
    <2>5. pc'[c] = "waiting"
        BY <1>1, <2>1 DEF TypeOK
    <2>6. ASSUME NEW d \in Call, request'[d] = q
          PROVE  /\ pc'[d] \notin {"store", "write", "verify"}
                 /\ pc'[d] = "waiting" => conn'[wire'[d]].status # "201"
        BY <1>1, <2>1, <2>2, <2>4, <2>5, <2>6
    <2>7. QED
        BY <1>1, <2>1, <2>3, <2>6 DEF Lost
<1>6. ASSUME NEW c \in Call, PostFails(c) PROVE Lost(q)'
    BY <1>1, <1>3, <1>6 DEF PostFails, PollAgain, Stop, Return, Goto, authorityVars, TypeOK
<1>7. ASSUME NEW c \in Call, Receive(c) PROVE Lost(q)'
    BY <1>1, <1>3, <1>7 DEF Receive, PollAgain, Stop, Return, Goto, authorityVars, TypeOK
<1>8. ASSUME NEW c \in Call, OpenGrantFile(c) PROVE Lost(q)'
    BY <1>1, <1>3, <1>8 DEF OpenGrantFile, Stop, Return, Goto, authorityVars, TypeOK
<1>9. ASSUME NEW c \in Call, WriteGrantFile(c) PROVE Lost(q)'
    BY <1>1, <1>3, <1>9 DEF WriteGrantFile, Stop, Return, Goto, authorityVars, TypeOK
<1>10. ASSUME NEW c \in Call, NEW at \in Time, VerifyGrant(c, at) PROVE Lost(q)'
    BY <1>1, <1>3, <1>10 DEF VerifyGrant, Stop, Return, Goto, authorityVars, TypeOK
<1>11. ASSUME UNCHANGED <<callVars, resolved>>, claimed \subseteq claimed',
              DOMAIN conn' = DOMAIN conn,
              \A i \in DOMAIN conn : /\ conn'[i].request = conn[i].request
                                     /\ conn[i].request = q => /\ conn'[i].state # "claimed"
                                                               /\ conn[i].status # "201" =>
                                                                     conn'[i].status # "201"
       PROVE  Lost(q)'
    BY <1>1, <1>11 DEF Lost, callVars
<1>12. ASSUME NEW i \in DOMAIN conn, NEW now \in Time, ServeClaim(i, now) PROVE Lost(q)'
    <2>1. UNCHANGED <<callVars, resolved>> /\ claimed \subseteq claimed'
        BY <1>12 DEF ServeClaim
    <2>2. conn[i] \in Connection
        BY <1>1, Connections
    <2>3. PICK x \in Connection :
              /\ conn' = [conn EXCEPT ![i] = x] /\ x.request = conn[i].request
              /\ x.status = "201" => conn[i].status = "201"
              /\ x.state = "claimed" => conn[i].request \notin claimed
      <3>1. CASE \E status \in {"403", "409"} : Answer(i, status)
        <4>1. PICK status \in {"403", "409"} : Answer(i, status)
            BY <3>1
        <4>2. conn' = [conn EXCEPT ![i] = [@ EXCEPT !.state = "answered", !.status = status]]
            BY <4>1 DEF Answer
        <4> DEFINE y == [conn[i] EXCEPT !.state = "answered", !.status = status]
        <4>3. /\ y \in Connection /\ y.request = conn[i].request
              /\ y.status # "201" /\ y.state # "claimed"
            BY <2>2 DEF Connection
        <4> QED
            BY <4>2, <4>3
      <3>2. CASE /\ conn[i].request \notin claimed
                 /\ conn' = [conn EXCEPT ![i].state = "claimed", ![i].at = now]
        <4> DEFINE y == [conn[i] EXCEPT !.state = "claimed", !.at = now]
        <4>1. conn' = [conn EXCEPT ![i] = y]
            BY <3>2
        <4>2. /\ y \in Connection /\ y.request = conn[i].request
              /\ y.status = conn[i].status
            BY <2>2 DEF Connection
        <4> QED
            BY <3>2, <4>1, <4>2
      <3> QED
          BY <1>12, <3>1, <3>2 DEF ServeClaim, Claimable
    <2>4. /\ DOMAIN conn' = DOMAIN conn /\ conn'[i] = x
          /\ \A j \in DOMAIN conn : j # i => conn'[j] = conn[j]
        BY <1>1, <1>12, <2>3, ConnectionChanges
    <2>5. QED
        BY <1>1, <1>11, <2>1, <2>3, <2>4
<1>13. ASSUME NEW i \in DOMAIN conn, ServeSign(i) PROVE Lost(q)'
    <2>1. UNCHANGED <<callVars, resolved>> /\ claimed \subseteq claimed'
        BY <1>13 DEF ServeSign
    <2>2. conn[i] \in Connection
        BY <1>1, Connections
    <2>3. PICK status \in {"201", "500"} : Answer(i, status) /\ conn[i].state = "claimed"
        BY <1>13 DEF ServeSign
    <2> DEFINE x == [conn[i] EXCEPT !.state = "answered", !.status = status]
    <2>4. conn' = [conn EXCEPT ![i] = x]
        BY <2>3 DEF Answer
    <2>5. x \in Connection /\ x.request = conn[i].request /\ conn[i].request # q
        BY <1>1, <2>2, <2>3 DEF Connection
    <2>6. /\ DOMAIN conn' = DOMAIN conn /\ conn'[i] = x
          /\ \A j \in DOMAIN conn : j # i => conn'[j] = conn[j]
        BY <1>1, <2>4, <2>5, ConnectionChanges
    <2> HIDE DEF x
    <2>7. QED
        BY <1>1, <1>11, <2>1, <2>5, <2>6
<1>14. ASSUME AuthorityRestart PROVE Lost(q)'
    <2>1. UNCHANGED <<callVars, resolved>> /\ claimed \subseteq claimed'
        BY <1>14 DEF AuthorityRestart, authorityVars
    <2>2. conn \in [1..Len(conn) -> Connection] /\ DOMAIN conn = 1..Len(conn)
        BY <1>1, Connections
    <2>3. QED
        BY <1>1, <1>11, <1>14, <2>1, <2>2 DEF AuthorityRestart, Connection
<1>15. ASSUME ResolverRestart PROVE Lost(q)'
    BY <1>1, <1>15 DEF ResolverRestart, authorityVars, Lost
<1> QED
    BY <1>2, <1>4, <1>5, <1>6, <1>7, <1>8, <1>9, <1>10, <1>12, <1>13, <1>14, <1>15
       DEF Next, CallStep

(***************************************************************************)
(* A request whose grant got lost is never resolved, by any number of      *)
(* polls, calls and restarts.                                              *)
(***************************************************************************)
THEOREM LostRequestsStayLost == Spec => LostStaysLost
<1>1. IInv /\ [Next]_vars => [\A q \in Request : Lost(q) => Lost(q)']_vars
    BY LostStep
<1> QED
    BY <1>1, InitIInv, StepIInv, PTL DEF Spec, LostStaysLost

=============================================================================
