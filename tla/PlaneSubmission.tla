--------------------------- MODULE PlaneSubmission ---------------------------
(***************************************************************************)
(* The mutator of the submission stages: one Submit of the exact-create    *)
(* client (internal/submission/kubernetes.go) over the objects of a plane  *)
(* in projection order, and the result made of its receipt                 *)
(* (internal/execution/staged_submission.go).  How a plane is loaded, and  *)
(* so what it holds, is in SubmissionPlan.                                 *)
(*                                                                         *)
(* The API server is shared: between any two requests other clients and    *)
(* controllers create, change, delete and recreate the same objects.  A    *)
(* request takes effect at one moment; its answer may be lost, and a POST  *)
(* that the client gave up may still take effect.  Of the content of an    *)
(* object the model keeps whether it contains the projected fields.        *)
(***************************************************************************)
EXTENDS Naturals, Sequences, FiniteSets

CONSTANTS
    Attempts,       \* mismatchConfirmationAttempts
    MaxUid,         \* bound: objects that ever come into being
    Absent          \* no object at the path

ASSUME PlaneSubmissionAssumption ==
    /\ Attempts \in Nat \ {0}
    /\ MaxUid \in Nat \ {0}
    /\ Absent \notin [uid : 1..MaxUid, exact : BOOLEAN, terminating : BOOLEAN]

VARIABLES
    plane,      \* the kinds of the objects to submit, in projection order
    mode,       \* when a complete plane is a success
    objects,    \* what the API server holds, by position in the plane
    lastUid,    \* identities given out
    late,       \* positions whose POST was given up and not yet processed
    pc,         \* where Submit stands
    position,   \* the object it is at
    first,      \* firstUID of the confirmation
    attempt,    \* confirmation observations made
    results,    \* the completed prefix of the receipt
    mutation,   \* MutationState of the receipt
    outcome,    \* outcome of the stage result
    category,   \* redacted stop category
    posts,      \* POSTs sent, by position (history)
    written,    \* identities that this submission brought into being (history)
    met,        \* identity first seen by a GET, by position, 0 for none (history)
    matched     \* identities that ever contained the projected fields (history)

server == <<objects, lastUid, late, written, matched>>
client == <<pc, position, first, attempt, results, mutation, outcome, category, posts, met>>
submitVars == <<plane, mode, server, client>>

N == Len(plane)
Position == 1..N
Uid == 1..MaxUid
KubernetesObject == [uid : Uid, exact : BOOLEAN, terminating : BOOLEAN]
ObjectResult == [state : {"CREATED", "UNCHANGED"}, uid : Uid]
StopCategory == {"TRANSPORT", "HTTP_REJECTED", "TERMINATING", "RUNTIME_IDENTITY_INVALID",
                 "MISMATCH_CONVERGENCE_EXHAUSTED", "RESPONSE_INVALID", "CONFLICT_STOPPED",
                 "CREATE_RESPONSE_MISMATCH"}

(***************************************************************************)
(* Nothing is open.                                                        *)
(***************************************************************************)
SubmitInit ==
    /\ plane = <<>>
    /\ mode = "NONE"
    /\ objects = <<>>
    /\ lastUid = 0
    /\ late = {}
    /\ pc = "closed"
    /\ position = 1
    /\ first = 0
    /\ attempt = 0
    /\ results = <<>>
    /\ mutation = "NOT_ATTEMPTED"
    /\ outcome = "NONE"
    /\ category = "NONE"
    /\ posts = <<>>
    /\ written = {}
    /\ met = <<>>
    /\ matched = {}

(***************************************************************************)
(* Submit begins with a plane of its own copy, and refuses one without     *)
(* objects.  Some objects exist already: those that an earlier submission  *)
(* got to, and one of any kind.                                            *)
(***************************************************************************)
Existing(n) ==
    {f \in [1..n -> {Absent} \cup KubernetesObject] :
        /\ \A i \in 1..n : f[i] # Absent => f[i].uid = i
        /\ \E k \in 0..n, one \in 1..n : \A i \in (1..n) \ {one} :
               f[i] = IF i > k THEN Absent
                      ELSE [uid |-> i, exact |-> TRUE, terminating |-> FALSE]}

Open(p, r) ==
    /\ pc = "closed"
    /\ p \in Seq(STRING) \ {<<>>}
    /\ pc' = "get"
    /\ plane' = p
    /\ mode' = r
    /\ objects' \in Existing(Len(p))
    /\ lastUid' = Len(p)
    /\ posts' = [i \in 1..Len(p) |-> 0]
    /\ met' = [i \in 1..Len(p) |-> 0]
    /\ matched' = {objects'[i].uid : i \in {j \in 1..Len(p) : objects'[j] # Absent /\ objects'[j].exact}}
    /\ UNCHANGED <<late, position, first, attempt, results, mutation, outcome, category, written>>

(***************************************************************************)
(* An object comes into being at the API server, with or without all the   *)
(* projected fields: admission may change what was sent.                   *)
(***************************************************************************)
Comes(i, exact) ==
    /\ objects[i] = Absent
    /\ lastUid < MaxUid
    /\ lastUid' = lastUid + 1
    /\ objects' = [objects EXCEPT ![i] = [uid |-> lastUid', exact |-> exact,
                                         terminating |-> FALSE]]
    /\ matched' = IF exact THEN matched \cup {lastUid'} ELSE matched

Created(i, exact) ==
    /\ Comes(i, exact)
    /\ written' = written \cup {lastUid'}

Unwritten == UNCHANGED <<objects, lastUid, written, matched>>

-----------------------------------------------------------------------------
(***************************************************************************)
(* Submit ends, and the caller makes a result of its receipt.  A plane     *)
(* that was complete before is a success only for the stage that ensures   *)
(* durable prerequisites.  A new cluster needs an identity: without one    *)
(* Cluster in the plane there is no result.  The operation over both       *)
(* planes observes the cluster before it has one.                          *)
(***************************************************************************)
Successful(m) == m = "ATTEMPTED" \/ mode = "ensured"

NamesCluster == Cardinality({i \in Position : plane[i] = "Cluster"}) = 1

Complete(m) ==
    /\ mutation' = m
    /\ \/ /\ mode = "observed" /\ NamesCluster
          /\ pc' = "observe"
          /\ UNCHANGED outcome
       \/ /\ mode = "observed" /\ ~NamesCluster
          /\ pc' = "done"
          /\ UNCHANGED outcome
       \/ /\ mode # "observed"
          /\ pc' = "done"
          /\ outcome' = IF ~Successful(m) THEN "STOPPED"
                        ELSE IF mode = "lifecycle" /\ ~NamesCluster THEN "NONE"
                        ELSE "SUCCEEDED"
    /\ UNCHANGED category

Stop(c, m) ==
    /\ pc' = "done"
    /\ outcome' = "STOPPED"
    /\ category' = c
    /\ mutation' = m
    /\ UNCHANGED <<position, first, attempt, results>>

(***************************************************************************)
(* The object has a result, and the next one is looked at.                 *)
(***************************************************************************)
Result(state, uid, m) ==
    /\ results' = Append(results, [state |-> state, uid |-> uid])
    /\ first' = 0
    /\ attempt' = 0
    /\ IF position = N
       THEN Complete(m) /\ UNCHANGED position
       ELSE /\ position' = position + 1
            /\ pc' = "get"
            /\ mutation' = m
            /\ UNCHANGED <<outcome, category>>

Goto(l) ==
    /\ pc' = l
    /\ UNCHANGED <<position, results, mutation, outcome, category>>

(***************************************************************************)
(* The first GET of submitObject.                                          *)
(***************************************************************************)
Get ==
    LET o == objects[position] IN
    /\ pc = "get"
    /\ met' = [met EXCEPT ![position] = IF o = Absent THEN 0 ELSE o.uid]
    /\ \/ /\ o = Absent
          /\ Goto("post")
          /\ UNCHANGED <<first, attempt>>
       \/ /\ o # Absent /\ o.terminating
          /\ Stop("TERMINATING", mutation)
       \/ /\ o # Absent /\ ~o.terminating /\ o.exact
          /\ Result("UNCHANGED", o.uid, mutation)
       \/ /\ o # Absent /\ ~o.terminating /\ ~o.exact
          /\ Goto("confirm")
          /\ first' = o.uid
          /\ attempt' = 0
       \/ \E c \in {"TRANSPORT", "HTTP_REJECTED", "RESPONSE_INVALID"} : Stop(c, mutation)
    /\ UNCHANGED <<plane, mode, server, posts>>

(***************************************************************************)
(* confirmObservedMismatch: one round of the loop.  The object may become  *)
(* exact or disappear; the identity it had at first must not change.  The  *)
(* variant drops the comparison.                                           *)
(***************************************************************************)
AnyIdentity(o) == TRUE
SameIdentity(o) == o.uid = first

ObservesAgain(a) == a < Attempts

Confirm ==
    LET o == objects[position] IN
    /\ pc = "confirm"
    /\ \/ /\ o = Absent
          /\ Goto("post")
          /\ UNCHANGED <<first, attempt>>
       \/ /\ o # Absent /\ o.terminating
          /\ Stop("TERMINATING", mutation)
       \/ /\ o # Absent /\ ~o.terminating /\ o.exact /\ SameIdentity(o)
          /\ Result("UNCHANGED", o.uid, mutation)
       \/ /\ o # Absent /\ ~o.terminating /\ ~SameIdentity(o)
          /\ Stop("RUNTIME_IDENTITY_INVALID", mutation)
       \/ /\ o # Absent /\ ~o.terminating /\ ~o.exact /\ SameIdentity(o)
          /\ IF ObservesAgain(attempt + 1)
             THEN /\ attempt' = attempt + 1
                  /\ Goto("confirm")
                  /\ UNCHANGED first
             ELSE Stop("MISMATCH_CONVERGENCE_EXHAUSTED", mutation)
       \/ \E c \in {"TRANSPORT", "HTTP_REJECTED", "RESPONSE_INVALID",
                    "MISMATCH_CONVERGENCE_EXHAUSTED"} : Stop(c, mutation)
    /\ UNCHANGED <<plane, mode, server, posts, met>>

(***************************************************************************)
(* The one create.  From here on the receipt says ATTEMPTED, whatever      *)
(* comes of it.  The answer of a create that took effect may be lost or be *)
(* an error, and one that was given up may take effect later.              *)
(***************************************************************************)
Sent == posts' = [posts EXCEPT ![position] = IF @ < 2 THEN @ + 1 ELSE @]

PostCreates ==
    /\ pc = "post"
    /\ Sent
    /\ \E exact \in BOOLEAN :
          /\ Created(position, exact)
          /\ \/ exact /\ Result("CREATED", lastUid', "ATTEMPTED")
             \/ ~exact /\ Stop("CREATE_RESPONSE_MISMATCH", "ATTEMPTED")
             \/ \E c \in {"TRANSPORT", "HTTP_REJECTED", "RESPONSE_INVALID"} :
                    Stop(c, "ATTEMPTED")
    /\ UNCHANGED <<plane, mode, late, met>>

PostConflicts ==
    /\ pc = "post"
    /\ Sent
    /\ objects[position] # Absent
    /\ Stop("CONFLICT_STOPPED", "ATTEMPTED")
    /\ UNCHANGED <<plane, mode, server, met>>

PostFailsAndLooksAgain ==
    /\ pc = "post"
    /\ Sent
    /\ pc' = "get"
    /\ late' \in {late, late \cup {position}}
    /\ Unwritten
    /\ UNCHANGED <<plane, mode, position, first, attempt, results, mutation, outcome, category, met>>
PostFails ==
    /\ pc = "post"
    /\ Sent
    /\ \E c \in {"TRANSPORT", "HTTP_REJECTED"} : Stop(c, "ATTEMPTED")
    /\ late' \in {late, late \cup {position}}
    /\ Unwritten
    /\ UNCHANGED <<plane, mode, met>>

-----------------------------------------------------------------------------
(***************************************************************************)
(* A POST that was given up takes effect, or finds the path taken.         *)
(***************************************************************************)
LatePost ==
    \E i \in late :
        /\ late' = late \ {i}
        /\ \/ \E exact \in BOOLEAN : Created(i, exact)
           \/ objects[i] # Absent /\ Unwritten
        /\ UNCHANGED <<plane, mode, client>>

(***************************************************************************)
(* Other clients of the API server.                                        *)
(***************************************************************************)
OtherCreates(i, exact) ==
    /\ Comes(i, exact)
    /\ UNCHANGED <<plane, mode, client, late, written>>

OtherChanges(i) ==
    /\ objects[i] # Absent
    /\ objects' = [objects EXCEPT ![i].exact = ~@]
    /\ matched' = matched \cup {objects[i].uid}
    /\ UNCHANGED <<plane, mode, client, lastUid, late, written>>

OtherDeletes(i) ==
    /\ objects[i] # Absent
    /\ \/ objects' = [objects EXCEPT ![i].terminating = TRUE]
       \/ objects' = [objects EXCEPT ![i] = Absent]
    /\ UNCHANGED <<plane, mode, client, lastUid, late, written, matched>>

Submit == Get \/ Confirm \/ PostCreates \/ PostConflicts \/ PostFails

Others ==
    \E i \in Position :
        \/ \E exact \in BOOLEAN : OtherCreates(i, exact)
        \/ OtherChanges(i)
        \/ OtherDeletes(i)

SubmitNext == Submit \/ LatePost \/ Others

-----------------------------------------------------------------------------
(***************************************************************************)
(* The receipt is a prefix of the plane: as long as the objects before the *)
(* current one, or as the plane when Submit returned without an error; and *)
(* no more observations are made than the cap allows.                      *)
(***************************************************************************)
SubmitTypeOK ==
    /\ mode \in {"NONE", "ensured", "attempted", "lifecycle", "observed"}
    /\ objects \in [Position -> {Absent} \cup KubernetesObject]
    /\ lastUid \in N..MaxUid
    /\ late \subseteq Position
    /\ pc \in {"closed", "get", "confirm", "post", "observe", "done"}
    /\ pc # "closed" => position \in Position
    /\ first \in 0..MaxUid
    /\ attempt \in 0..(Attempts - 1)
    /\ results \in Seq(ObjectResult)
    /\ pc \in {"get", "confirm", "post"} \/ category # "NONE" => Len(results) = position - 1
    /\ pc = "observe" => Len(results) = N
    /\ mutation \in {"NOT_ATTEMPTED", "ATTEMPTED"}
    /\ outcome \in {"NONE", "SUCCEEDED", "STOPPED", "FAILED"}
    /\ category \in StopCategory \cup {"NONE"}
    /\ posts \in [Position -> 0..2]
    /\ written \subseteq Uid
    /\ met \in [Position -> 0..MaxUid]
    /\ matched \subseteq Uid

(***************************************************************************)
(* "creates missing objects in projection order.  It never ... retries a   *)
(* mutation": no object is posted twice, and one is posted only when all   *)
(* before it have a result.                                                *)
(***************************************************************************)
CreatedOnceInOrder ==
    \A i \in Position : posts[i] > 0 =>
        posts[i] = 1 /\ \A j \in 1..(i - 1) : j <= Len(results)

(***************************************************************************)
(* What the receipt says of an object was so while Submit ran: CREATED is  *)
(* of an object this submission brought into being, UNCHANGED of the very  *)
(* object that was met at first, and both had the projected fields.        *)
(***************************************************************************)
ResultsTrue ==
    \A i \in 1..Len(results) :
        /\ results[i].uid \in matched
        /\ results[i].state = "CREATED" => results[i].uid \in written
        /\ results[i].state = "UNCHANGED" => results[i].uid = met[i]
=============================================================================
