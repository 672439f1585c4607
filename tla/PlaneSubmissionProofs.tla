------------------------ MODULE PlaneSubmissionProofs ------------------------
(***************************************************************************)
(* Proofs about PlaneSubmission, as SubmissionPlan drives it: for planes   *)
(* of any length, any number of confirmations and any behaviour of the     *)
(* other clients of the API server.  And about SubmissionPlan: a plane is  *)
(* opened only as it was reviewed, for any number of changes to the files  *)
(* while it is loaded.                                                     *)
(***************************************************************************)
EXTENDS SubmissionPlan, SequenceTheorems, FiniteSetTheorems, TLAPS

(***************************************************************************)
(* The variables of a submission.  While it is under way it is at an       *)
(* object of its plane, and all before that one have a result.             *)
(***************************************************************************)
Running == {"get", "confirm", "post"}

SubmissionOK ==
    /\ plane \in Seq(STRING)
    /\ objects \in [Position -> {Absent} \cup KubernetesObject]
    /\ lastUid \in Nat
    /\ late \subseteq Position
    /\ results \in Seq(ObjectResult) /\ Len(results) <= N
    /\ posts \in [Position -> 0..2]
    /\ met \in [Position -> Nat]
    /\ pc = "closed" => plane = <<>> /\ position = 1 /\ results = <<>>
    /\ pc \in Running => position \in Position /\ Len(results) = position - 1

(***************************************************************************)
(* What has been posted.  The object the submission is at has not, and     *)
(* nor has any after it.                                                   *)
(***************************************************************************)
PostsOnce ==
    /\ \A i \in Position : posts[i] > 0 => posts[i] = 1 /\ i - 1 <= Len(results)
    /\ pc \in Running => \A i \in Position : i >= position => posts[i] = 0

(***************************************************************************)
(* An object that has the projected fields is known to have had them, and  *)
(* the identity being confirmed is the one that was met.                   *)
(***************************************************************************)
MatchedKnown ==
    \A i \in Position :
        objects[i] # Absent /\ objects[i].exact => objects[i].uid \in matched

ConfirmsTheMet == pc = "confirm" => first = met[position]

SInv == SubmissionOK /\ PostsOnce /\ MatchedKnown /\ ConfirmsTheMet /\ ResultsTrue

-----------------------------------------------------------------------------
LEMMA ObjectMarker == Absent \notin KubernetesObject
BY PlaneSubmissionAssumption DEF KubernetesObject, Uid

LEMMA InitSInv == Init => SInv
BY DEF Init, SubmitInit, SInv, SubmissionOK, PostsOnce, MatchedKnown, ConfirmsTheMet,
       ResultsTrue, Position, N, Running

(***************************************************************************)
(* The length of the plane is a number, and none changes it but Open.      *)
(***************************************************************************)
LEMMA PlaneLength ==
    ASSUME SInv
    PROVE  N \in Nat /\ Len(results) \in Nat
BY DEF SInv, SubmissionOK, N

(***************************************************************************)
(* A result is appended, and the submission moves on.                      *)
(***************************************************************************)
Moves(state, uid) ==
    /\ results' \in Seq(ObjectResult)
    /\ Len(results') = position
    /\ \A i \in 1..(position - 1) : results'[i] = results[i]
    /\ results'[position] = [state |-> state, uid |-> uid]
    /\ pc' # "closed" /\ pc' # "confirm"
    /\ pc' \in Running => position' \in Position /\ position' = position + 1

LEMMA ResultMoves ==
    ASSUME SInv, pc \in Running, NEW state \in {"CREATED", "UNCHANGED"}, NEW uid \in Uid,
           NEW m, Result(state, uid, m)
    PROVE  Moves(state, uid)
<1>1. /\ position \in Position /\ position \in Nat \ {0} /\ N \in Nat
      /\ Len(results) = position - 1 /\ results \in Seq(ObjectResult)
    BY PlaneLength DEF SInv, SubmissionOK, Position
<1>2. [state |-> state, uid |-> uid] \in ObjectResult
    BY DEF ObjectResult
<1>3. results' = Append(results, [state |-> state, uid |-> uid])
    BY DEF Result
<1>4. /\ results' \in Seq(ObjectResult) /\ Len(results') = position
      /\ \A i \in 1..(position - 1) : results'[i] = results[i]
      /\ results'[position] = [state |-> state, uid |-> uid]
    BY <1>1, <1>2, <1>3
<1>5. \/ pc' \in {"observe", "done"}
      \/ pc' = "get" /\ position # N /\ position' = position + 1
    BY DEF Result, Complete
<1> QED
    BY <1>1, <1>4, <1>5 DEF Moves, Position, Running

(***************************************************************************)
(* The client, except for Open: it appends a true result, or stays at its  *)
(* object or stops.                                                        *)
(***************************************************************************)
Stays ==
    /\ results' = results
    /\ pc' \in Running => pc \in Running /\ position' = position
    /\ pc' # "closed"

TrueResult(state, uid) ==
    /\ uid \in matched'
    /\ state = "CREATED" => uid \in written'
    /\ state = "UNCHANGED" => uid = met'[position]

LEMMA ResultsKept ==
    ASSUME SInv, UNCHANGED plane, matched \subseteq matched', written \subseteq written',
           \A i \in Position : i <= Len(results) => met'[i] = met[i],
           \/ results' = results
           \/ \E state \in {"CREATED", "UNCHANGED"}, uid \in Uid :
                 pc \in Running /\ Moves(state, uid) /\ TrueResult(state, uid)
    PROVE  ResultsTrue'
<1>1. N \in Nat /\ Len(results) \in Nat
    BY PlaneLength
<1>2. ASSUME NEW i \in 1..Len(results)
      PROVE  /\ results[i].uid \in matched'
             /\ results[i].state = "CREATED" => results[i].uid \in written'
             /\ results[i].state = "UNCHANGED" => results[i].uid = met'[i]
    BY <1>1, <1>2 DEF SInv, SubmissionOK, ResultsTrue, Position
<1>3. CASE results' = results
    BY <1>2, <1>3 DEF ResultsTrue
<1>4. ASSUME NEW state \in {"CREATED", "UNCHANGED"}, NEW uid \in Uid,
             pc \in Running, Moves(state, uid), TrueResult(state, uid)
      PROVE  ResultsTrue'
  <2>1. position \in Nat \ {0} /\ Len(results) = position - 1 /\ Len(results') = position
      BY <1>1, <1>4 DEF SInv, SubmissionOK, Position, Moves
  <2>2. ASSUME NEW i \in 1..Len(results')
        PROVE  /\ results'[i].uid \in matched'
               /\ results'[i].state = "CREATED" => results'[i].uid \in written'
               /\ results'[i].state = "UNCHANGED" => results'[i].uid = met'[i]
    <3>1. CASE i = position
        BY <1>4, <3>1 DEF Moves, TrueResult
    <3>2. CASE i \in 1..Len(results)
        BY <1>2, <1>4, <2>1, <3>2 DEF Moves
    <3> QED
        BY <2>1, <3>1, <3>2
  <2> QED
      BY <2>2 DEF ResultsTrue
<1> QED
    BY <1>3, <1>4

(***************************************************************************)
(* Where the submission stands and what it has posted, after a step of the *)
(* client that posts nothing, or the object it is at.                      *)
(***************************************************************************)
Advances == Stays \/ \E state \in {"CREATED", "UNCHANGED"}, uid \in Uid : Moves(state, uid)

Standing ==
    /\ results \in Seq(ObjectResult) /\ Len(results) <= N
    /\ posts \in [Position -> 0..2]
    /\ pc = "closed" => plane = <<>> /\ position = 1 /\ results = <<>>
    /\ pc \in Running => position \in Position /\ Len(results) = position - 1

LEMMA AdvanceKeeps ==
    ASSUME SInv, UNCHANGED plane, pc \in Running, Advances,
           posts' = posts \/ (Sent /\ (pc' \in Running => Len(results') = position))
    PROVE  Standing' /\ PostsOnce'
<1>1. /\ position \in Position /\ position \in Nat \ {0} /\ N \in Nat /\ N' = N
      /\ Position' = Position /\ Len(results) = position - 1 /\ position <= N
    BY PlaneLength DEF SInv, SubmissionOK, Position, N
<1>2. /\ results' \in Seq(ObjectResult)
      /\ \/ Len(results') = position - 1 /\ (pc' \in Running => position' = position)
         \/ Len(results') = position /\ (pc' \in Running => position' = position + 1)
      /\ pc' \in Running => position' \in Position
      /\ pc' # "closed"
    BY <1>1 DEF Advances, Stays, Moves, SInv, SubmissionOK
<1>3. posts[position] = 0 /\ \A i \in Position : i >= position => posts[i] = 0
    BY <1>1 DEF SInv, PostsOnce
<1>4. /\ posts' \in [Position -> 0..2]
      /\ \A i \in Position \ {position} : posts'[i] = posts[i]
      /\ posts'[position] \in {0, 1}
      /\ posts'[position] = 1 /\ pc' \in Running => Len(results') = position
    BY <1>1, <1>3 DEF SInv, SubmissionOK, Sent
<1>5. Standing'
    BY <1>1, <1>2, <1>4 DEF Standing
<1>6. ASSUME NEW i \in Position, posts'[i] > 0
      PROVE  posts'[i] = 1 /\ i - 1 <= Len(results')
    BY <1>1, <1>2, <1>3, <1>4, <1>6 DEF SInv, PostsOnce, Position
<1>7. ASSUME NEW i \in Position, pc' \in Running, i >= position'
      PROVE  posts'[i] = 0
    BY <1>1, <1>2, <1>3, <1>4, <1>7 DEF Position
<1> QED
    BY <1>1, <1>5, <1>6, <1>7 DEF PostsOnce

(***************************************************************************)
(* An object comes into being.                                             *)
(***************************************************************************)
LEMMA ComesKeeps ==
    ASSUME SInv, UNCHANGED plane, NEW i \in Position, NEW exact \in BOOLEAN, Comes(i, exact)
    PROVE  /\ objects' \in [Position -> {Absent} \cup KubernetesObject]
           /\ lastUid' \in Uid /\ matched \subseteq matched' /\ MatchedKnown'
           /\ exact => lastUid' \in matched'
<1>1. lastUid' \in Uid /\ lastUid' \in Nat
    BY PlaneSubmissionAssumption DEF SInv, SubmissionOK, Comes, Uid
<1>2. [uid |-> lastUid', exact |-> exact, terminating |-> FALSE] \in KubernetesObject
    BY <1>1 DEF KubernetesObject
<1>3. objects' \in [Position -> {Absent} \cup KubernetesObject]
    BY <1>2 DEF SInv, SubmissionOK, Comes
<1>4. /\ objects'[i] = [uid |-> lastUid', exact |-> exact, terminating |-> FALSE]
      /\ \A j \in Position \ {i} : objects'[j] = objects[j]
    BY DEF SInv, SubmissionOK, Comes
<1>5. matched \subseteq matched' /\ (exact => lastUid' \in matched')
    BY DEF Comes
<1> QED
    BY <1>1, <1>3, <1>4, <1>5 DEF SInv, MatchedKnown, Position, N

-----------------------------------------------------------------------------
LEMMA GetSInv == ASSUME SInv, Get PROVE SInv'
<1> DEFINE o == objects[position]
<1>1. /\ pc \in Running /\ pc = "get" /\ position \in Position /\ position \in Nat \ {0}
      /\ N \in Nat /\ Position' = Position /\ Len(results) = position - 1
    BY PlaneLength DEF SInv, SubmissionOK, Get, Running, Position, N
<1>2. o # Absent => o \in KubernetesObject /\ o.uid \in Uid /\ o.uid \in Nat
    BY <1>1 DEF SInv, SubmissionOK, KubernetesObject, Uid
<1>3. /\ UNCHANGED <<plane, mode, objects, lastUid, late, written, matched, posts>>
      /\ met' = [met EXCEPT ![position] = IF o = Absent THEN 0 ELSE o.uid]
    BY DEF Get, server
<1>4. met' \in [Position -> Nat] /\ met'[position] = (IF o = Absent THEN 0 ELSE o.uid)
      /\ \A i \in Position \ {position} : met'[i] = met[i]
    BY <1>1, <1>2, <1>3 DEF SInv, SubmissionOK
<1>5. CASE o # Absent /\ ~o.terminating /\ o.exact /\ Result("UNCHANGED", o.uid, mutation)
  <2>1. Moves("UNCHANGED", o.uid)
      BY <1>1, <1>2, <1>5, ResultMoves
  <2>2. o.uid \in matched
      BY <1>1, <1>5 DEF SInv, MatchedKnown
  <2>3. TrueResult("UNCHANGED", o.uid)
      BY <1>3, <1>4, <1>5, <2>2 DEF TrueResult
  <2>4. ResultsTrue'
      BY <1>1, <1>2, <1>3, <1>4, <1>5, <2>1, <2>3, ResultsKept DEF Position
  <2>5. Standing' /\ PostsOnce'
      BY <1>1, <1>2, <1>3, <1>5, <2>1, AdvanceKeeps DEF Advances
  <2>6. MatchedKnown' /\ ConfirmsTheMet'
      BY <1>1, <1>3, <2>1 DEF SInv, MatchedKnown, ConfirmsTheMet, Moves
  <2> QED
      BY <1>1, <1>3, <1>4, <2>4, <2>5, <2>6 DEF SInv, SubmissionOK, Standing
<1>6. CASE ~(o # Absent /\ ~o.terminating /\ o.exact /\ Result("UNCHANGED", o.uid, mutation))
  <2>1. /\ Stays /\ pc' \in {"post", "confirm", "done"}
        /\ pc' = "confirm" => o # Absent /\ first' = o.uid
      BY <1>1, <1>6 DEF Get, Stays, Stop, Goto, Running
  <2>2. ResultsTrue'
      BY <1>1, <1>3, <1>4, <2>1, ResultsKept DEF Stays, Position
  <2>3. Standing' /\ PostsOnce'
      BY <1>1, <1>3, <2>1, AdvanceKeeps DEF Advances
  <2>4. MatchedKnown' /\ ConfirmsTheMet'
      BY <1>1, <1>3, <1>4, <2>1 DEF SInv, MatchedKnown, ConfirmsTheMet, Stays, Running
  <2> QED
      BY <1>1, <1>3, <1>4, <2>2, <2>3, <2>4 DEF SInv, SubmissionOK, Standing
<1> QED
    BY <1>5, <1>6

LEMMA ConfirmSInv == ASSUME SInv, Confirm PROVE SInv'
<1> DEFINE o == objects[position]
<1>1. /\ pc \in Running /\ pc = "confirm" /\ position \in Position /\ position \in Nat \ {0}
      /\ N \in Nat /\ Position' = Position /\ Len(results) = position - 1
      /\ first = met[position]
    BY PlaneLength DEF SInv, SubmissionOK, ConfirmsTheMet, Confirm, Running, Position, N
<1>2. o # Absent => o \in KubernetesObject /\ o.uid \in Uid
    BY <1>1 DEF SInv, SubmissionOK, KubernetesObject
<1>3. UNCHANGED <<plane, mode, objects, lastUid, late, written, matched, posts, met>>
    BY DEF Confirm, server
<1>4. CASE o # Absent /\ o.exact /\ SameIdentity(o) /\ Result("UNCHANGED", o.uid, mutation)
  <2>1. Moves("UNCHANGED", o.uid)
      BY <1>1, <1>2, <1>4, ResultMoves
  <2>2. o.uid \in matched
      BY <1>1, <1>4 DEF SInv, MatchedKnown
  <2>3. TrueResult("UNCHANGED", o.uid)
      BY <1>1, <1>3, <1>4, <2>2 DEF TrueResult, SameIdentity
  <2>4. ResultsTrue'
      BY <1>1, <1>2, <1>3, <1>4, <2>1, <2>3, ResultsKept
  <2>5. Standing' /\ PostsOnce'
      BY <1>1, <1>2, <1>3, <1>4, <2>1, AdvanceKeeps DEF Advances
  <2>6. MatchedKnown' /\ ConfirmsTheMet'
      BY <1>1, <1>3, <2>1 DEF SInv, MatchedKnown, ConfirmsTheMet, Moves
  <2> QED
      BY <1>1, <1>3, <2>4, <2>5, <2>6 DEF SInv, SubmissionOK, Standing
<1>5. CASE ~(o # Absent /\ o.exact /\ SameIdentity(o) /\ Result("UNCHANGED", o.uid, mutation))
  <2>1. /\ Stays /\ pc' \in {"post", "confirm", "done"}
        /\ pc' = "confirm" => first' = first /\ position' = position
      BY <1>1, <1>5 DEF Confirm, Stays, Stop, Goto, Running
  <2>2. ResultsTrue'
      BY <1>3, <2>1, ResultsKept DEF Stays
  <2>3. Standing' /\ PostsOnce'
      BY <1>1, <1>3, <2>1, AdvanceKeeps DEF Advances
  <2>4. MatchedKnown' /\ ConfirmsTheMet'
      BY <1>1, <1>3, <2>1 DEF SInv, MatchedKnown, ConfirmsTheMet
  <2> QED
      BY <1>1, <1>3, <2>2, <2>3, <2>4 DEF SInv, SubmissionOK, Standing
<1> QED
    BY <1>4, <1>5

LEMMA PostCreatesSInv == ASSUME SInv, PostCreates PROVE SInv'
<1>1. /\ pc \in Running /\ position \in Position /\ position \in Nat \ {0}
      /\ N \in Nat /\ Position' = Position
    BY PlaneLength DEF SInv, SubmissionOK, PostCreates, Running, Position, N
<1>2. UNCHANGED <<plane, mode, late, met>> /\ Sent
    BY DEF PostCreates
<1>3. PICK exact \in BOOLEAN :
          /\ Created(position, exact)
          /\ \/ exact /\ Result("CREATED", lastUid', "ATTEMPTED")
             \/ ~exact /\ Stop("CREATE_RESPONSE_MISMATCH", "ATTEMPTED")
             \/ \E c \in {"TRANSPORT", "HTTP_REJECTED", "RESPONSE_INVALID"} :
                    Stop(c, "ATTEMPTED")
    BY DEF PostCreates
<1>4. /\ objects' \in [Position -> {Absent} \cup KubernetesObject]
      /\ lastUid' \in Uid /\ matched \subseteq matched' /\ MatchedKnown'
      /\ exact => lastUid' \in matched'
    BY <1>1, <1>2, <1>3, ComesKeeps DEF Created
<1>5. written \subseteq written' /\ lastUid' \in written' /\ lastUid' \in Nat
    BY <1>3, <1>4 DEF Created, Uid
<1>6. CASE exact /\ Result("CREATED", lastUid', "ATTEMPTED")
  <2>1. PICK uid \in Uid : uid = lastUid'
      BY <1>4
  <2>2. Moves("CREATED", uid) /\ TrueResult("CREATED", uid)
      BY <1>1, <1>4, <1>5, <1>6, <2>1, ResultMoves DEF TrueResult
  <2>3. ResultsTrue'
      BY <1>1, <1>2, <1>4, <1>5, <2>2, ResultsKept
  <2>4. Standing' /\ PostsOnce' /\ ConfirmsTheMet'
      BY <1>1, <1>2, <2>2, AdvanceKeeps DEF Advances, Moves, ConfirmsTheMet
  <2> QED
      BY <1>1, <1>2, <1>4, <1>5, <2>3, <2>4 DEF SInv, SubmissionOK, Standing
<1>7. CASE pc' = "done" /\ results' = results
  <2>1. Stays
      BY <1>7 DEF Stays, Running
  <2>2. ResultsTrue'
      BY <1>2, <1>4, <1>5, <1>7, ResultsKept
  <2>3. Standing' /\ PostsOnce' /\ ConfirmsTheMet'
      BY <1>1, <1>2, <1>7, <2>1, AdvanceKeeps DEF Advances, ConfirmsTheMet, Running
  <2> QED
      BY <1>1, <1>2, <1>4, <1>5, <2>2, <2>3 DEF SInv, SubmissionOK, Standing
<1> QED
    BY <1>3, <1>6, <1>7 DEF Stop

LEMMA PostStopsSInv == ASSUME SInv, PostConflicts \/ PostFails PROVE SInv'
<1>1. /\ pc \in Running /\ position \in Position /\ Position' = Position
      /\ UNCHANGED <<plane, mode, objects, lastUid, written, matched, met>> /\ Sent
      /\ pc' = "done" /\ results' = results /\ late' \in {late, late \cup {position}}
    BY DEF SInv, SubmissionOK, PostConflicts, PostFails, Running, Position, N, server,
           Unwritten, Stop
<1>2. Stays
    BY <1>1 DEF Stays, Running
<1>3. ResultsTrue'
    BY <1>1, ResultsKept
<1>4. Standing' /\ PostsOnce' /\ ConfirmsTheMet' /\ MatchedKnown'
    BY <1>1, <1>2, AdvanceKeeps DEF Advances, ConfirmsTheMet, Running, SInv, MatchedKnown
<1> QED
    BY <1>1, <1>3, <1>4 DEF SInv, SubmissionOK, Standing

-----------------------------------------------------------------------------
(***************************************************************************)
(* The server and its other clients change what the client has not yet     *)
(* looked at.                                                              *)
(***************************************************************************)
LEMMA ServerSInv ==
    ASSUME SInv, UNCHANGED <<plane, mode, client>>,
           objects' \in [Position -> {Absent} \cup KubernetesObject],
           lastUid' \in Nat, late' \subseteq Position,
           matched \subseteq matched', written \subseteq written', MatchedKnown'
    PROVE  SInv'
<1>1. ResultsTrue'
    BY DEF SInv, ResultsTrue, client
<1> QED
    BY <1>1 DEF SInv, SubmissionOK, PostsOnce, ConfirmsTheMet, Position, N, client, Running

LEMMA LatePostSInv == ASSUME SInv, LatePost PROVE SInv'
<1>1. PICK i \in late :
          /\ late' = late \ {i}
          /\ \/ \E exact \in BOOLEAN : Created(i, exact)
             \/ objects[i] # Absent /\ Unwritten
          /\ UNCHANGED <<plane, mode, client>>
    BY DEF LatePost
<1>2. i \in Position /\ Position' = Position /\ late' \subseteq Position
    BY <1>1 DEF SInv, SubmissionOK, Position, N
<1>3. ASSUME NEW exact \in BOOLEAN, Created(i, exact) PROVE SInv'
    BY <1>1, <1>2, <1>3, ComesKeeps, ServerSInv DEF Created, Uid
<1>4. CASE Unwritten
    BY <1>1, <1>2, <1>4, ServerSInv DEF Unwritten, SInv, SubmissionOK, MatchedKnown
<1> QED
    BY <1>1, <1>3, <1>4

LEMMA OthersSInv == ASSUME SInv, Others PROVE SInv'
<1>1. PICK i \in Position :
          \/ \E exact \in BOOLEAN : OtherCreates(i, exact)
          \/ OtherChanges(i)
          \/ OtherDeletes(i)
    BY DEF Others
<1>2. UNCHANGED <<plane, mode, client, late, written>> /\ Position' = Position
    BY <1>1 DEF OtherCreates, OtherChanges, OtherDeletes, Position, N
<1>3. ASSUME NEW exact \in BOOLEAN, OtherCreates(i, exact) PROVE SInv'
    BY <1>2, <1>3, ComesKeeps, ServerSInv DEF OtherCreates, Uid, SInv, SubmissionOK
<1>4. CASE OtherChanges(i)
  <2>1. objects[i] \in KubernetesObject
      BY <1>4 DEF SInv, SubmissionOK, OtherChanges
  <2>2. /\ objects' \in [Position -> {Absent} \cup KubernetesObject]
        /\ objects'[i].uid = objects[i].uid
        /\ \A j \in Position \ {i} : objects'[j] = objects[j]
      BY <1>4, <2>1 DEF SInv, SubmissionOK, OtherChanges, KubernetesObject
  <2>3. matched' = matched \cup {objects[i].uid} /\ lastUid' = lastUid
      BY <1>4 DEF OtherChanges
  <2>4. MatchedKnown'
      BY <1>2, <2>2, <2>3 DEF SInv, MatchedKnown
  <2> QED
      BY <1>2, <2>2, <2>3, <2>4, ServerSInv DEF SInv, SubmissionOK
<1>5. CASE OtherDeletes(i)
  <2>1. objects[i] \in KubernetesObject
      BY <1>5 DEF SInv, SubmissionOK, OtherDeletes
  <2>2. /\ objects' \in [Position -> {Absent} \cup KubernetesObject]
        /\ \/ objects'[i] = Absent
           \/ objects'[i].uid = objects[i].uid /\ objects'[i].exact = objects[i].exact
        /\ \A j \in Position \ {i} : objects'[j] = objects[j]
    <3>1. PICK o \in {Absent} \cup KubernetesObject :
              /\ objects' = [objects EXCEPT ![i] = o]
              /\ o = Absent \/ (o.uid = objects[i].uid /\ o.exact = objects[i].exact)
      <4>1. CASE objects' = [objects EXCEPT ![i] = Absent]
          BY <4>1
      <4>2. CASE objects' = [objects EXCEPT ![i].terminating = TRUE]
        <5> DEFINE o == [objects[i] EXCEPT !.terminating = TRUE]
        <5>1. o \in KubernetesObject /\ o.uid = objects[i].uid /\ o.exact = objects[i].exact
            BY <2>1 DEF KubernetesObject
        <5> QED
            BY <4>2, <5>1
      <4> QED
          BY <1>5, <4>1, <4>2 DEF OtherDeletes
    <3> QED
        BY <3>1 DEF SInv, SubmissionOK
  <2>3. UNCHANGED <<matched, lastUid>>
      BY <1>5 DEF OtherDeletes
  <2>4. MatchedKnown'
      BY <1>2, <2>1, <2>2, <2>3, ObjectMarker DEF SInv, MatchedKnown
  <2> QED
      BY <1>2, <2>2, <2>3, <2>4, ServerSInv DEF SInv, SubmissionOK
<1> QED
    BY <1>1, <1>3, <1>4, <1>5

-----------------------------------------------------------------------------
(***************************************************************************)
(* Submit begins: nothing is posted, and no object has a result.           *)
(***************************************************************************)
LEMMA OpenSInv ==
    ASSUME SInv, NEW p, NEW r, Open(p, r)
    PROVE  SInv'
<1>1. /\ p \in Seq(STRING) /\ Len(p) \in Nat \ {0} /\ plane' = p /\ pc = "closed"
      /\ N' = Len(p) /\ Position' = 1..Len(p) /\ results' = <<>> /\ pc' = "get"
      /\ late = {} /\ position = 1
    BY DEF Open, SInv, SubmissionOK, N, Position
<1>2. objects' \in [Position' -> {Absent} \cup KubernetesObject]
    BY <1>1 DEF Open, Existing
<1>3. MatchedKnown'
  <2>1. matched' = {objects'[i].uid : i \in {j \in 1..Len(p) : objects'[j] # Absent /\ objects'[j].exact}}
      BY DEF Open
  <2> QED
      BY <1>1, <2>1 DEF MatchedKnown
<1>4. /\ posts' = [i \in Position' |-> 0] /\ met' = [i \in Position' |-> 0]
      /\ lastUid' \in Nat /\ UNCHANGED <<late, position, written>>
    BY <1>1 DEF Open
<1> QED
    BY <1>1, <1>2, <1>3, <1>4
       DEF SInv, SubmissionOK, PostsOnce, ConfirmsTheMet, ResultsTrue, Running

(***************************************************************************)
(* The steps of the loaders do not touch a submission.                     *)
(***************************************************************************)
LEMMA LoadSInv == ASSUME SInv, Load \/ Refuse \/ Edit \/ Observe PROVE SInv'
<1>1. CASE UNCHANGED submitVars
    BY <1>1
       DEF SInv, SubmissionOK, PostsOnce, MatchedKnown, ConfirmsTheMet, ResultsTrue,
           Position, N, submitVars, server, client
<1>2. CASE Begins
    BY <1>2, OpenSInv DEF Begins
<1>3. CASE Observe
    BY <1>3
       DEF Observe, SInv, SubmissionOK, PostsOnce, MatchedKnown, ConfirmsTheMet,
           ResultsTrue, Position, N, server, Running
<1> QED
    BY <1>1, <1>2, <1>3
       DEF Load, Refuse, Edit, ReadManifest, VerifyArtifact, Verify, Reverify, LoadPlane,
           LoadProviderAccessPolicy, LoadArtifact, Opens, Goes

(***************************************************************************)
(* SInv is inductive.                                                      *)
(***************************************************************************)
LEMMA NextSInv == SInv /\ [Next]_vars => SInv'
<1> SUFFICES ASSUME SInv, [Next]_vars PROVE SInv'
    OBVIOUS
<1>1. CASE UNCHANGED vars
    BY <1>1
       DEF SInv, SubmissionOK, PostsOnce, MatchedKnown, ConfirmsTheMet, ResultsTrue,
           Position, N, vars, submitVars, server, client
<1>2. CASE Submits
    BY <1>2, GetSInv, ConfirmSInv, PostCreatesSInv, PostStopsSInv DEF Submits, Submit
<1>3. CASE Load \/ Refuse \/ Edit \/ Observe
    BY <1>3, LoadSInv
<1>4. CASE LatePost \/ Others
    BY <1>4, LatePostSInv, OthersSInv
<1> QED
    BY <1>1, <1>2, <1>3, <1>4 DEF Next

LEMMA SpecSInv == Spec => []SInv
BY InitSInv, NextSInv, PTL DEF Spec

(***************************************************************************)
(* The create is sent at most once for an object, and only when all before *)
(* it have a result: for planes of any length, whatever other clients do   *)
(* and whichever answers are lost.                                         *)
(***************************************************************************)
THEOREM CreatesOnceInOrder == Spec => []CreatedOnceInOrder
<1>1. SInv => CreatedOnceInOrder
  <2> SUFFICES ASSUME SInv, NEW i \in Position, posts[i] > 0,
                      NEW j \in 1..(i - 1)
               PROVE  posts[i] = 1 /\ j <= Len(results)
      BY DEF SInv, PostsOnce, CreatedOnceInOrder
  <2> QED
      BY PlaneLength DEF SInv, PostsOnce, Position
<1> QED
    BY <1>1, SpecSInv, PTL

(***************************************************************************)
(* What the receipt says of an object was so: what is CREATED came into    *)
(* being by this submission, what is UNCHANGED is the very object that was *)
(* met first, and both had the projected fields.                           *)
(***************************************************************************)
THEOREM ReceiptsAreTrue == Spec => []ResultsTrue
<1>1. SInv => ResultsTrue
    BY DEF SInv
<1> QED
    BY <1>1, SpecSInv, PTL

-----------------------------------------------------------------------------
(***************************************************************************)
(* What the loaders and other writers put into files: sequences of         *)
(* documents. A document that is changed, left out, repeated or moved      *)
(* leaves documents.                                                       *)
(***************************************************************************)
IsDocument(d) == {"kind", "ns", "name", "ref"} \subseteq DOMAIN d

Documents(docs) ==
    /\ docs \in Seq(Range(docs))
    /\ \A i \in 1..Len(docs) : IsDocument(docs[i])

LEMMA DocumentsOf ==
    ASSUME NEW S, NEW docs \in Seq(S), \A x \in S : IsDocument(x)
    PROVE  Documents(docs)
<1>1. /\ Len(docs) \in Nat /\ DOMAIN docs = 1..Len(docs)
      /\ docs = [i \in 1..Len(docs) |-> docs[i]]
      /\ \A i \in 1..Len(docs) : docs[i] \in S
    BY LenProperties
<1>2. \A i \in 1..Len(docs) : docs[i] \in Range(docs)
    BY <1>1 DEF Range
<1>3. [i \in 1..Len(docs) |-> docs[i]] \in Seq(Range(docs))
    BY <1>1, <1>2, IsASeq
<1> QED
    BY <1>1, <1>3 DEF Documents

LEMMA ElementsOf ==
    ASSUME NEW docs, Documents(docs)
    PROVE  /\ Len(docs) \in Nat /\ DOMAIN docs = 1..Len(docs)
           /\ docs \in Seq(Range(docs))
           /\ \A d \in Range(docs) : IsDocument(d)
           /\ \A i \in 1..Len(docs) : docs[i] \in Range(docs)
BY LenProperties DEF Documents, Range

(***************************************************************************)
(* How the documents of the artifacts are written down, and what others    *)
(* may do to them.                                                         *)
(***************************************************************************)
LEMMA DocIs == \A kind, ns, name : IsDocument(Doc(kind, ns, name))
BY DEF IsDocument, Doc

LEMMA RefIs == \A d, x : IsDocument(d) => IsDocument([d EXCEPT !.ref = x])
BY DEF IsDocument

LEMMA ListIs == \A d, x : IsDocument(d) => IsDocument([d EXCEPT !.list = x])
BY DEF IsDocument

LEMMA RulesIs == \A d, x : IsDocument(d) => IsDocument(WithRules(d, x))
BY DEF IsDocument, WithRules

LEMMA BindIs == \A d, x, y : IsDocument(d) => IsDocument(Bind(d, x, y))
BY DEF IsDocument, Bind

LEMMA RemoveType ==
    ASSUME NEW S, NEW s \in Seq(S), NEW i \in 1..Len(s)
    PROVE  RemoveAt(s, i) \in Seq(S)
<1>1. SubSeq(s, 1, i - 1) \in Seq(S) /\ SubSeq(s, i + 1, Len(s)) \in Seq(S)
    BY SubSeqProperties
<1> QED
    BY <1>1, ConcatProperties DEF RemoveAt

LEMMA InsertType ==
    ASSUME NEW S, NEW s \in Seq(S), NEW i \in 1..(Len(s) + 1), NEW e \in S
    PROVE  InsertAt(s, i, e) \in Seq(S)
<1>1. SubSeq(s, 1, i - 1) \in Seq(S) /\ SubSeq(s, i, Len(s)) \in Seq(S) /\ <<e>> \in Seq(S)
    BY SubSeqProperties
<1> QED
    BY <1>1, ConcatProperties DEF InsertAt

LEMMA AlteredIs ==
    ASSUME NEW d, IsDocument(d), NEW e \in Altered(d)
    PROVE  IsDocument(e)
<1>1. CASE e \in AlteredRules(d)
  <2>1. \/ \E x : e = [d EXCEPT !.subject = x] \/ e = [d EXCEPT !.list = x]
        \/ \E x : e = WithRules(d, x)
      BY <1>1, Zenon DEF AlteredRules
  <2> QED
      BY <2>1, RulesIs DEF IsDocument
<1>2. CASE e \notin AlteredRules(d)
    BY <1>2 DEF Altered, IsDocument
<1> QED
    BY <1>1, <1>2

LEMMA VariantsAre ==
    ASSUME NEW docs, Documents(docs), NEW v \in Variants(docs)
    PROVE  Documents(v)
<1> DEFINE n == Len(docs)
           S == Range(docs)
<1>1. /\ n \in Nat /\ DOMAIN docs = 1..n /\ docs \in Seq(S)
      /\ \A x \in S : IsDocument(x)
      /\ \A i \in 1..n : docs[i] \in S
    BY ElementsOf
<1>2. ASSUME NEW i \in 1..n PROVE RemoveAt(docs, i) \in Seq(S)
    BY <1>1, RemoveType
<1>3. ASSUME NEW i \in 1..n PROVE InsertAt(docs, i, docs[i]) \in Seq(S)
    BY <1>1, InsertType
<1>4. ASSUME NEW i \in 1..(n - 1)
      PROVE  [docs EXCEPT ![i] = docs[i + 1], ![i + 1] = docs[i]] \in Seq(S)
  <2>1. i \in 1..n /\ i + 1 \in 1..n
      BY <1>1
  <2>2. /\ [docs EXCEPT ![i] = docs[i + 1]] \in Seq(S)
        /\ Len([docs EXCEPT ![i] = docs[i + 1]]) = n
      BY <1>1, <2>1, ExceptSeq
  <2>3. [[docs EXCEPT ![i] = docs[i + 1]] EXCEPT ![i + 1] = docs[i]] \in Seq(S)
      BY <1>1, <2>1, <2>2, ExceptSeq
  <2> QED
      BY <2>3
<1>5. ASSUME NEW i \in 1..n, NEW d \in Altered(docs[i])
      PROVE  Documents([docs EXCEPT ![i] = d])
  <2> DEFINE T == S \cup {d}
  <2>1. docs \in Seq(T)
      BY <1>1, SeqMonotonic
  <2>2. [docs EXCEPT ![i] = d] \in Seq(T)
      BY <2>1, ExceptSeq
  <2>3. \A e \in T : IsDocument(e)
      BY <1>1, <1>5, AlteredIs
  <2> QED
      BY <2>2, <2>3, DocumentsOf
<1>6. \/ v = docs
      \/ \E i \in 1..n : v = RemoveAt(docs, i)
      \/ \E i \in 1..n : v = InsertAt(docs, i, docs[i])
      \/ \E i \in 1..(n - 1) : v = [docs EXCEPT ![i] = docs[i + 1], ![i + 1] = docs[i]]
      \/ \E i \in 1..n : \E d \in Altered(docs[i]) :
             v = [docs EXCEPT ![i] = d]
  BY Zenon DEF Variants
<1>7. v \in Seq(S) => Documents(v)
    BY <1>1, DocumentsOf
<1> HIDE DEF n, S
<1>8. CASE v = docs \/ \E i \in 1..n : v = RemoveAt(docs, i) \/ v = InsertAt(docs, i, docs[i])
    BY <1>1, <1>2, <1>3, <1>7, <1>8
<1>9. CASE \E i \in 1..(n - 1) : v = [docs EXCEPT ![i] = docs[i + 1], ![i + 1] = docs[i]]
  <2>1. PICK i \in 1..(n - 1) : v = [docs EXCEPT ![i] = docs[i + 1], ![i + 1] = docs[i]]
      BY <1>9, Zenon
  <2>2. [docs EXCEPT ![i] = docs[i + 1], ![i + 1] = docs[i]] \in Seq(S)
      BY <1>4, Zenon
  <2> QED
      BY <1>7, <2>1, <2>2, Zenon
<1>10. CASE \E i \in 1..n : \E d \in Altered(docs[i]) :
              v = [docs EXCEPT ![i] = d]
    BY <1>5, <1>10, Zenon
<1> QED
    BY <1>6, <1>8, <1>9, <1>10

(***************************************************************************)
(* A tuple of documents is a sequence of documents.                        *)
(***************************************************************************)
LEMMA OneIs ==
    ASSUME NEW a,
           IsDocument(a)
    PROVE  Documents(<<a>>)
<1> SUFFICES ASSUME NEW S, S = {a}, NEW s, s = <<a>> PROVE Documents(s)
    OBVIOUS
<1>1. s \in Seq(S)
    OBVIOUS
<1>2. \A x \in S : IsDocument(x)
    OBVIOUS
<1> QED
    BY <1>1, <1>2, DocumentsOf

LEMMA TwoAre ==
    ASSUME NEW a, NEW b,
           IsDocument(a), IsDocument(b)
    PROVE  Documents(<<a, b>>)
<1> SUFFICES ASSUME NEW S, S = {a, b}, NEW s, s = <<a, b>> PROVE Documents(s)
    OBVIOUS
<1>1. s \in Seq(S)
    OBVIOUS
<1>2. \A x \in S : IsDocument(x)
    OBVIOUS
<1> QED
    BY <1>1, <1>2, DocumentsOf

LEMMA ThreeAre ==
    ASSUME NEW a, NEW b, NEW c,
           IsDocument(a), IsDocument(b), IsDocument(c)
    PROVE  Documents(<<a, b, c>>)
<1> SUFFICES ASSUME NEW S, S = {a, b, c},
                    NEW s, s = <<a, b, c>>
             PROVE  Documents(s)
    OBVIOUS
<1>1. s \in Seq(S)
    OBVIOUS
<1>2. \A x \in S : IsDocument(x)
    OBVIOUS
<1> QED
    BY <1>1, <1>2, DocumentsOf

LEMMA ElevenAre ==
    ASSUME NEW a, NEW b, NEW c, NEW d, NEW e, NEW f, NEW g, NEW h, NEW i,
           NEW j, NEW k,
           IsDocument(a), IsDocument(b), IsDocument(c), IsDocument(d),
           IsDocument(e), IsDocument(f), IsDocument(g), IsDocument(h),
           IsDocument(i), IsDocument(j), IsDocument(k)
    PROVE  Documents(<<a, b, c, d, e, f, g, h, i, j, k>>)
<1> SUFFICES ASSUME NEW S, S = {a, b, c, d, e, f, g, h, i, j, k},
                    NEW s, s = <<a, b, c, d, e, f, g, h, i, j, k>>
             PROVE  Documents(s)
    OBVIOUS
<1>1. s \in Seq(S)
    OBVIOUS
<1>2. \A x \in S : IsDocument(x)
    OBVIOUS
<1> QED
    BY <1>1, <1>2, DocumentsOf

LEMMA PlanesAre == Documents(InfraDocs) /\ Documents(MgmtDocs)
BY OneIs, ThreeAre, RefIs, DocIs, Zenon DEF InfraDocs, MgmtDocs

LEMMA ApplicationsAre == Documents(ApplicationDocs)
<1>1. \A d : IsDocument(d) => IsDocument(Template(d))
    BY RefIs DEF Template
<1> DEFINE d(i) == Template(Doc("Application", "argocd", AppNames[i]))
           S == {d(i) : i \in 1..3}
<1>2. [i \in 1..3 |-> d(i)] \in Seq(S)
  <2>1. \A i \in 1..3 : d(i) \in S
      OBVIOUS
  <2> HIDE DEF d, S
  <2> QED
      BY <2>1, IsASeq
<1>3. ApplicationDocs \in Seq(S)
    BY <1>2 DEF ApplicationDocs
<1>4. \A e \in S : IsDocument(e)
    BY <1>1, DocIs
<1> QED
    BY <1>3, <1>4, DocumentsOf

LEMMA ArtifactIs == ASSUME NEW s PROVE Documents(ArtifactDocs(s))
<1>1. \A d : IsDocument(d) => IsDocument(Template(d))
    BY RefIs DEF Template
<1>2. Documents(EnablementDocs)
    BY OneIs, RefIs, DocIs, Zenon DEF EnablementDocs
<1>3. Documents(TargetAccessDocs)
    BY ElevenAre, DocIs, BindIs, RulesIs, Zenon DEF TargetAccessDocs
<1>4. Documents(RegistrationDocs)
    BY <1>1, TwoAre, ListIs, DocIs, Zenon DEF RegistrationDocs
<1>5. Documents(ApplicationDocs)
    BY ApplicationsAre
<1>6. \/ ArtifactDocs(s) = EnablementDocs \/ ArtifactDocs(s) = TargetAccessDocs
      \/ ArtifactDocs(s) = RegistrationDocs \/ ArtifactDocs(s) = ApplicationDocs
    BY Zenon DEF ArtifactDocs
<1> QED
    BY <1>2, <1>3, <1>4, <1>5, <1>6

-----------------------------------------------------------------------------
(***************************************************************************)
(* The provider credential: what is selected from any kubeconfig that is   *)
(* accepted is one context, and the cluster and the user it names.         *)
(***************************************************************************)
ContextsOK(k) == \A c \in Range(k.contexts) : "cluster" \in DOMAIN c /\ "user" \in DOMAIN c

LEMMA KubeconfigsAre ==
    ASSUME NEW k \in {Kubeconfig} \cup KubeconfigVariants
    PROVE  ContextsOK(k)
<1> DEFINE c == Kubeconfig.contexts
<1>1. /\ Kubeconfig.contexts = <<c[1], c[2]>> /\ "contexts" \in DOMAIN Kubeconfig
      /\ \A i \in 1..2 : {"name", "cluster", "user", "namespace"} \subseteq DOMAIN c[i]
    BY DEF Kubeconfig
<1> HIDE DEF c
<1>2. \/ k.contexts = Kubeconfig.contexts
      \/ k.contexts = [Kubeconfig.contexts EXCEPT ![2].name = "infra"]
      \/ k.contexts = [Kubeconfig.contexts EXCEPT ![1].user = "absent"]
    BY <1>1 DEF KubeconfigVariants
<1>3. /\ k.contexts = <<k.contexts[1], k.contexts[2]>>
      /\ \A i \in 1..2 : {"cluster", "user"} \subseteq DOMAIN k.contexts[i]
    BY <1>1, <1>2 DEF c
<1> QED
    BY <1>3 DEF ContextsOK, Range

LEMMA SecretHasSelected ==
    ASSUME NEW k, ContextsOK(k), ValidKubeconfig(k)
    PROVE  SecretIsSelected(MaterializeSecret(Policy, k))
<1> DEFINE c == Current(k)
           named == [c EXCEPT !.namespace = "tenant"]
           cluster == Named(k.clusters, c.cluster)
           user == Named(k.users, c.user)
           d == MaterializeSecret(Policy, k)
<1>1. \A entries, name : name \in Names(entries) =>
          Named(entries, name) \in Range(entries) /\ Named(entries, name).name = name
    BY DEF Names, Named
<1>2. /\ c \in Range(k.contexts) /\ "cluster" \in DOMAIN c /\ "user" \in DOMAIN c
      /\ cluster.name = c.cluster /\ user.name = c.user
    BY <1>1 DEF ValidKubeconfig, Current, ContextsOK
<1> HIDE DEF c, cluster, user
<1>3. /\ named.cluster = c.cluster /\ named.user = c.user
      /\ [named EXCEPT !.namespace = "tenant"] = named
    BY <1>2
<1>4. d.ns = "tenant" /\ d.data = Rewritten(k, "tenant")
    BY DEF MaterializeSecret, Policy
<1> HIDE DEF c, named, cluster, user
<1>5. Selected(k) = [contexts |-> <<c>>, clusters |-> <<cluster>>, users |-> <<user>>]
    BY DEF Selected, c, cluster, user
<1>6. Rewritten(k, "tenant") =
          [contexts |-> <<named>>, clusters |-> <<cluster>>, users |-> <<user>>]
    BY <1>5 DEF Rewritten, named
<1>7. d.data.contexts = <<named>> /\ d.data.clusters = <<cluster>> /\ d.data.users = <<user>>
    BY <1>4, <1>6
<1> HIDE DEF d
<1>8. /\ d.data.contexts[1] = named /\ d.data.clusters[1] = cluster /\ d.data.users[1] = user
      /\ Len(d.data.clusters) = 1 /\ Len(d.data.users) = 1
    BY <1>7
<1>9. SecretIsSelected(d)
    BY <1>2, <1>3, <1>4, <1>7, <1>8 DEF SecretIsSelected
<1> QED
    BY <1>9 DEF d

(***************************************************************************)
(* Inserting an element puts it where it belongs and moves nothing else:   *)
(* without it, the sequence is what it was.                                *)
(***************************************************************************)
Inserted(w, s, p, e) ==
    /\ Len(w) = Len(s) + 1
    /\ w[p] = e
    /\ \A i \in 1..(p - 1) : w[i] = s[i]
    /\ \A i \in (p + 1)..(Len(s) + 1) : w[i] = s[i - 1]
    /\ RemoveAt(w, p) = s

LEMMA InsertedAt ==
    ASSUME NEW S, NEW s \in Seq(S), NEW p \in 1..(Len(s) + 1), NEW e \in S,
           NEW w, w = InsertAt(s, p, e)
    PROVE  Inserted(w, s, p, e)
<1> DEFINE front == SubSeq(s, 1, p - 1)
           back == SubSeq(s, p, Len(s))
           one == front \o <<e>>
           n == Len(s)
<1>1. n \in Nat /\ p \in Nat /\ 1 <= p /\ p <= n + 1 /\ \A i \in 1..n : s[i] \in S
    BY ElementOfSeq
<1>2. /\ front \in Seq(S) /\ Len(front) = p - 1 /\ \A i \in 1..(p - 1) : front[i] = s[i]
      /\ back \in Seq(S) /\ Len(back) = n + 1 - p
      /\ \A i \in 1..(n + 1 - p) : back[i] = s[p + i - 1]
    BY <1>1, SubSeqProperties
<1>3. <<e>> \in Seq(S) /\ Len(<<e>>) = 1 /\ <<e>>[1] = e
    OBVIOUS
<1>4. w = one \o back
    BY DEF InsertAt
<1> HIDE DEF front, back, n
<1>5. /\ one \in Seq(S) /\ Len(one) = p /\ one[p] = e
      /\ \A i \in 1..(p - 1) : one[i] = front[i]
  <2>1. /\ front \o <<e>> \in Seq(S) /\ Len(front \o <<e>>) = Len(front) + Len(<<e>>)
        /\ \A i \in 1..(Len(front) + Len(<<e>>)) :
               (front \o <<e>>)[i] = IF i <= Len(front) THEN front[i] ELSE <<e>>[i - Len(front)]
      BY <1>2, <1>3, ConcatProperties
  <2> HIDE DEF one
  <2>2. one = front \o <<e>>
      BY DEF one
  <2>3. Len(one) = p /\ one \in Seq(S)
      BY <1>1, <1>2, <1>3, <2>1, <2>2
  <2>4. \A i \in 1..p : one[i] = IF i <= p - 1 THEN front[i] ELSE <<e>>[i - (p - 1)]
      BY <1>1, <1>2, <1>3, <2>1, <2>2
  <2>5. one[p] = <<e>>[1]
    <3>1. p - (p - 1) = 1 /\ p \in 1..p /\ ~(p <= p - 1)
        BY <1>1
    <3> QED
        BY <2>4, <3>1
  <2> QED
      BY <1>1, <1>3, <2>3, <2>4, <2>5
<1> HIDE DEF one
<1>6. /\ w \in Seq(S) /\ Len(w) = Len(one) + Len(back)
      /\ \A i \in 1..(Len(one) + Len(back)) :
             w[i] = IF i <= Len(one) THEN one[i] ELSE back[i - Len(one)]
  <2>1. /\ one \o back \in Seq(S) /\ Len(one \o back) = Len(one) + Len(back)
        /\ \A i \in 1..(Len(one) + Len(back)) :
               (one \o back)[i] = IF i <= Len(one) THEN one[i] ELSE back[i - Len(one)]
      BY <1>2, <1>5, ConcatProperties
  <2> QED
      BY <1>4, <2>1
<1>7. Len(w) = n + 1 /\ Len(one) + Len(back) = n + 1
    BY <1>1, <1>2, <1>5, <1>6
<1>8. w[p] = e
    BY <1>1, <1>5, <1>6, <1>7
<1>9. ASSUME NEW i \in 1..(p - 1) PROVE w[i] = s[i]
    BY <1>1, <1>2, <1>5, <1>6, <1>7
<1>10. ASSUME NEW i \in (p + 1)..(n + 1) PROVE w[i] = s[i - 1]
  <2>1. /\ i \in 1..(n + 1) /\ i - p \in 1..(n + 1 - p) /\ ~(i <= p)
        /\ p + (i - p) - 1 = i - 1
      BY <1>1
  <2>2. w[i] = back[i - p]
      BY <1>5, <1>6, <1>7, <2>1
  <2> QED
      BY <1>2, <2>1, <2>2
<1>11. RemoveAt(w, p) = s
  <2> DEFINE l == SubSeq(w, 1, p - 1)
             r == SubSeq(w, p + 1, n + 1)
             t == l \o r
  <2>1. \A i \in 1..(n + 1) : w[i] \in S
      BY <1>6, <1>7, ElementOfSeq
  <2>2. /\ l \in Seq(S) /\ Len(l) = p - 1 /\ \A i \in 1..(p - 1) : l[i] = w[i]
      BY <1>1, <2>1, SubSeqProperties
  <2>3. /\ r \in Seq(S)
        /\ Len(r) = IF p + 1 <= n + 1 THEN (n + 1) - (p + 1) + 1 ELSE 0
        /\ \A i \in 1..((n + 1) - (p + 1) + 1) : r[i] = w[(p + 1) + i - 1]
      BY <1>1, <2>1, SubSeqProperties
  <2>4. /\ l \in Seq(S) /\ Len(l) = p - 1 /\ \A i \in 1..(p - 1) : l[i] = w[i]
        /\ r \in Seq(S) /\ Len(r) = n + 1 - p
        /\ \A i \in 1..(n + 1 - p) : r[i] = w[p + i]
    <3> HIDE DEF l, r
    <3>1. \A i \in 1..(n + 1 - p) : (p + 1) + i - 1 = p + i
        BY <1>1
    <3>2. (n + 1) - (p + 1) + 1 = n + 1 - p
        BY <1>1
    <3>3. Len(r) = n + 1 - p
        BY <1>1, <2>3
    <3> QED
        BY <2>2, <2>3, <3>1, <3>2, <3>3
  <2>5. RemoveAt(w, p) = t
      BY <1>7 DEF RemoveAt
  <2> HIDE DEF l, r
  <2>6. /\ t \in Seq(S) /\ Len(t) = Len(l) + Len(r)
        /\ \A i \in 1..(Len(l) + Len(r)) : t[i] = IF i <= Len(l) THEN l[i] ELSE r[i - Len(l)]
      BY <2>4, ConcatProperties
  <2> HIDE DEF t
  <2>7. Len(l) + Len(r) = n /\ Len(t) = n
      BY <1>1, <2>4, <2>6
  <2>8. ASSUME NEW i \in 1..n PROVE t[i] = s[i]
    <3>1. CASE i <= p - 1
        BY <1>1, <1>9, <2>4, <2>6, <2>7, <3>1
    <3>2. CASE ~(i <= p - 1)
      <4>1. /\ i - (p - 1) \in 1..(n + 1 - p) /\ p + (i - (p - 1)) = i + 1
            /\ i + 1 \in (p + 1)..(n + 1) /\ (i + 1) - 1 = i
          BY <1>1, <3>2
      <4>2. t[i] = w[i + 1]
          BY <1>1, <2>4, <2>6, <2>7, <3>2, <4>1
      <4> QED
          BY <1>10, <4>1, <4>2
    <3> QED
        BY <3>1, <3>2
  <2> QED
      BY <2>5, <2>6, <2>7, <2>8, SeqEqual DEF n
<1> QED
    BY <1>4, <1>6, <1>7, <1>8, <1>9, <1>10, <1>11 DEF n, Inserted

-----------------------------------------------------------------------------
(***************************************************************************)
(* What SubmitsWhatWasReviewed asks of a plane, by stage.  Only provider   *)
(* access has a Secret in the namespace of the tenant.                     *)
(***************************************************************************)
Secrets(docs) == {i \in 1..Len(docs) : docs[i].kind = "Secret" /\ docs[i].ns = "tenant"}

NoSecret(docs) == \A i \in 1..Len(docs) : docs[i].kind = "Secret" => docs[i].ns # "tenant"

LEMMA WithoutSecret ==
    ASSUME NEW docs, NoSecret(docs)
    PROVE  Secrets(docs) = {} /\ Cardinality(Secrets(docs)) = 0
<1>1. Secrets(docs) = {}
    BY DEF Secrets, NoSecret
<1> QED
    BY <1>1, FS_EmptySet

LEMMA PlainAsReviewed ==
    ASSUME NEW docs, NoSecret(docs), docs = reviewed.artifact,
           stage \in {"provider-prerequisites", "cluster-lifecycle", "enablement"}
    PROVE  AsReviewed(docs)
BY WithoutSecret DEF AsReviewed, Secrets, HasPolicy

LEMMA BothAsReviewed ==
    ASSUME NEW docs, NoSecret(docs), stage = "create-cluster",
           docs = reviewed.digests["infra"] \o reviewed.digests["mgmt"]
    PROVE  AsReviewed(docs)
BY WithoutSecret DEF AsReviewed, Secrets, HasPolicy

LEMMA TemplatesAsReviewed ==
    ASSUME NEW docs, NoSecret(docs), stage \in {"target-registration", "platform-applications"},
           \A i \in 1..Len(docs) : docs[i].ref = "target",
           Bare(docs) = Bare(reviewed.artifact)
    PROVE  AsReviewed(docs)
BY WithoutSecret DEF AsReviewed, Secrets, HasPolicy

LEMMA AccessAsReviewed ==
    ASSUME NEW docs, NoSecret(docs), stage = "target-access", docs = reviewed.artifact,
           ReadersAndManager(docs)
    PROVE  AsReviewed(docs)
BY WithoutSecret DEF AsReviewed, Secrets, HasPolicy

LEMMA RoutableIsNoSecret ==
    ASSUME NEW docs, \A i \in 1..Len(docs) : Routable(docs[i])
    PROVE  \A i \in 1..Len(docs) : docs[i].kind # "Secret"
BY DEF Routable, Namespaced

(***************************************************************************)
(* The provider Secret is inserted after its Namespace, and everything     *)
(* else is the reviewed artifact.                                          *)
(***************************************************************************)
LEMMA SecretAsReviewed ==
    ASSUME NEW docs, Documents(docs), \A i \in 1..Len(docs) : docs[i].kind # "Secret",
           docs = reviewed.artifact, stage = "provider-access",
           BindsProviderAccess(docs, Policy),
           NEW k, ContextsOK(k), ValidKubeconfig(k)
    PROVE  AsReviewed(WithSecret(docs, Policy, MaterializeSecret(Policy, k)))
<1> DEFINE secret == MaterializeSecret(Policy, k)
           at == CHOOSE i \in NamespaceAt(docs, Policy) : TRUE
           w == InsertAt(docs, at + 1, secret)
           S == Range(docs) \cup {secret}
<1>1. WithSecret(docs, Policy, secret) = w
    BY DEF WithSecret
<1>2. Len(docs) \in Nat /\ docs \in Seq(S)
    BY ElementsOf, SeqMonotonic
<1>3. at \in NamespaceAt(docs, Policy)
  <2>1. NamespaceAt(docs, Policy) # {}
    <3>1. Cardinality(NamespaceAt(docs, Policy)) = 1
        BY DEF BindsProviderAccess
    <3>2. ASSUME NamespaceAt(docs, Policy) = {} PROVE FALSE
      <4>1. Cardinality({}) = 0
          BY FS_EmptySet
      <4> QED
          BY <3>1, <3>2, <4>1
    <3> QED
        BY <3>2
  <2> QED
      BY <2>1
<1>4. at \in 1..Len(docs) /\ Identity(docs[at]) = <<"Namespace", "", "tenant">>
    BY <1>3 DEF NamespaceAt, Policy
<1>5. secret.kind = "Secret" /\ secret.ns = "tenant" /\ SecretIsSelected(secret)
    BY SecretHasSelected DEF MaterializeSecret, Policy
<1> HIDE DEF at, secret, w
<1> DEFINE p == at + 1
<1>6. secret \in S
    OBVIOUS
<1>7. p \in 1..(Len(docs) + 1) /\ p > 1 /\ p - 1 = at
  <2>1. Len(docs) \in Nat /\ at \in 1..Len(docs)
      BY <1>2, <1>4
  <2> QED
      BY <2>1
<1> HIDE DEF S
<1>8. w = InsertAt(docs, p, secret)
    BY DEF w
<1> HIDE DEF p
<1>9. /\ Len(w) = Len(docs) + 1
      /\ w[p] = secret
      /\ \A i \in 1..(p - 1) : w[i] = docs[i]
      /\ \A i \in (p + 1)..(Len(docs) + 1) : w[i] = docs[i - 1]
      /\ RemoveAt(w, p) = docs
  <2>1. docs \in Seq(S)
      BY <1>2
  <2>2. p \in 1..(Len(docs) + 1)
      BY <1>7
  <2>3. Inserted(w, docs, p, secret)
      BY <1>6, <1>8, <2>1, <2>2, InsertedAt
  <2> QED
      BY <2>3 DEF Inserted
<1>10. Secrets(w) = {p}
  <2>1. ASSUME NEW i \in 1..Len(w), i # p PROVE w[i].kind # "Secret"
    <3>1. CASE i \in 1..(p - 1)
        BY <1>2, <1>7, <1>9, <3>1
    <3>2. CASE i \in (p + 1)..(Len(docs) + 1)
      <4>1. i - 1 \in 1..Len(docs)
          BY <1>2, <1>7, <3>2
      <4> QED
          BY <1>9, <3>2, <4>1
    <3> QED
        BY <1>2, <1>7, <1>9, <2>1, <3>1, <3>2
  <2>2. p \in 1..Len(w)
      BY <1>2, <1>7, <1>9
  <2> QED
      BY <1>5, <1>9, <2>1, <2>2 DEF Secrets
<1>11. Cardinality(Secrets(w)) = 1
    BY <1>10, FS_Singleton
<1>12. w[p - 1] = docs[at] /\ w[p].ns = "tenant"
  <2>1. p - 1 \in 1..(p - 1)
    <3>1. p \in Int /\ p > 1
        BY <1>2, <1>7
    <3> QED
        BY <3>1
  <2> QED
      BY <1>5, <1>7, <1>9, <2>1
<1>13. /\ RemoveAt(w, p) = reviewed.artifact
       /\ p > 1 /\ Identity(w[p - 1]) = <<"Namespace", "", w[p].ns>>
       /\ SecretIsSelected(w[p])
    BY <1>4, <1>5, <1>7, <1>9, <1>12
<1>14. AsReviewed(w)
    BY <1>10, <1>11, <1>13 DEF AsReviewed, Secrets, HasPolicy
<1> QED
    BY <1>1, <1>14 DEF secret

LEMMA JoinedHaveNoSecret ==
    ASSUME NEW a, Documents(a), \A i \in 1..Len(a) : a[i].kind # "Secret",
           NEW b, Documents(b), \A i \in 1..Len(b) : b[i].kind # "Secret"
    PROVE  NoSecret(a \o b)
<1> DEFINE S == Range(a) \cup Range(b)
<1>1. Len(a) \in Nat /\ Len(b) \in Nat /\ a \in Seq(S) /\ b \in Seq(S)
    BY ElementsOf, SeqMonotonic
<1>2. /\ Len(a \o b) = Len(a) + Len(b)
      /\ \A i \in 1..(Len(a) + Len(b)) :
             (a \o b)[i] = IF i <= Len(a) THEN a[i] ELSE b[i - Len(a)]
    BY <1>1, ConcatProperties
<1>3. ASSUME NEW i \in 1..Len(a \o b) PROVE (a \o b)[i].kind # "Secret"
  <2>1. CASE i <= Len(a)
      BY <1>1, <1>2, <2>1
  <2>2. CASE ~(i <= Len(a))
    <3>1. i - Len(a) \in 1..Len(b)
        BY <1>1, <1>2, <2>2
    <3> QED
        BY <1>2, <2>2, <3>1
  <2> QED
      BY <2>1, <2>2
<1> QED
    BY <1>3 DEF NoSecret

(***************************************************************************)
(* Documents of the same identities have the same kinds.                   *)
(***************************************************************************)
LEMMA SameIdentities ==
    ASSUME NEW docs, Len(docs) \in Nat, NEW model, Len(model) \in Nat,
           Identities(docs) = Identities(model)
    PROVE  /\ Len(docs) = Len(model)
           /\ \A i \in 1..Len(docs) :
                  /\ docs[i].kind = model[i].kind
                  /\ docs[i].ns = model[i].ns
                  /\ docs[i].name = model[i].name
<1>1. DOMAIN Identities(docs) = 1..Len(docs) /\ DOMAIN Identities(model) = 1..Len(model)
    BY DEF Identities
<1>2. Len(docs) = Len(model)
    BY <1>1
<1>3. \A i \in 1..Len(docs) : Identity(docs[i]) = Identity(model[i])
    BY <1>2 DEF Identities
<1> QED
    BY <1>2, <1>3 DEF Identity

-----------------------------------------------------------------------------
(***************************************************************************)
(* Templates: binding the identity of the target changes that one field,   *)
(* and sorting the applications by name loses and repeats none.            *)
(***************************************************************************)
LEMMA BoundIs ==
    ASSUME NEW d, IsDocument(d)
    PROVE  /\ Bound(d).ref = "target" /\ Bound(d).kind = d.kind /\ Bound(d).ns = d.ns
           /\ [Bound(d) EXCEPT !.ref = ""] = [d EXCEPT !.ref = ""]
BY DEF Bound, IsDocument

LEMMA BoundAll ==
    ASSUME NEW docs, Documents(docs), NEW s, Len(s) = Len(docs),
           s = [i \in 1..Len(docs) |-> Bound(docs[i])]
    PROVE  /\ \A i \in 1..Len(s) : s[i].ref = "target"
           /\ Bare(s) = Bare(docs)
           /\ NoSecret(docs) => NoSecret(s)
<1>1. \A i \in 1..Len(docs) :
          /\ s[i].ref = "target" /\ s[i].kind = docs[i].kind /\ s[i].ns = docs[i].ns
          /\ [s[i] EXCEPT !.ref = ""] = [docs[i] EXCEPT !.ref = ""]
    BY BoundIs DEF Documents
<1>2. Bare(s) = Bare(docs)
  <2> DEFINE f(i) == [s[i] EXCEPT !.ref = ""]
             g(i) == [docs[i] EXCEPT !.ref = ""]
             n == Len(docs)
  <2>1. Bare(s) = {f(i) : i \in 1..n} /\ Bare(docs) = {g(i) : i \in 1..n}
      BY DEF Bare
  <2>2. \A i \in 1..n : f(i) = g(i)
      BY <1>1
  <2> HIDE DEF f, g, n
  <2> QED
      BY <2>1, <2>2
<1>3. ASSUME NoSecret(docs) PROVE NoSecret(s)
  <2> SUFFICES ASSUME NEW i \in 1..Len(docs) PROVE s[i].kind = "Secret" => s[i].ns # "tenant"
      BY DEF NoSecret
  <2>1. s[i].kind = docs[i].kind /\ s[i].ns = docs[i].ns
      BY <1>1
  <2>2. docs[i].kind = "Secret" => docs[i].ns # "tenant"
      BY <1>3 DEF NoSecret
  <2> QED
      BY <2>1, <2>2
<1> QED
    BY <1>1, <1>2, <1>3

LEMMA BoundLen ==
    ASSUME NEW n \in Nat, NEW docs
    PROVE  Len([i \in 1..n |-> Bound(docs[i])]) = n
<1> DEFINE S == {Bound(docs[i]) : i \in 1..n}
           s == [i \in 1..n |-> Bound(docs[i])]
<1>1. \A i \in 1..n : Bound(docs[i]) \in S
    OBVIOUS
<1> HIDE DEF S
<1>2. s \in Seq(S)
    BY <1>1, IsASeq
<1>3. Len(s) \in Nat /\ DOMAIN s = 1..Len(s) /\ DOMAIN s = 1..n
    BY <1>2, LenProperties
<1> QED
    BY <1>3

LEMMA RegistrationAsReviewed ==
    ASSUME stage = "target-registration", Documents(reviewed.artifact),
           Accepts(reviewed.artifact)
    PROVE  AsReviewed(Projected(reviewed.artifact))
<1> DEFINE docs == reviewed.artifact
           s == Projected(docs)
<1>1. ValidRegistration(docs) /\ s = [i \in 1..Len(docs) |-> Bound(docs[i])]
    BY Zenon DEF Accepts, Projected
<1>2. Len(docs) \in Nat /\ Len(s) = Len(docs)
    BY <1>1, ElementsOf, BoundLen
<1>3. NoSecret(docs)
  <2>1. Len(RegistrationDocs) = 2
      BY DEF RegistrationDocs
  <2>2. RegistrationDocs[1].kind = "AppProject" /\ RegistrationDocs[2].ns = "argocd"
      BY DEF RegistrationDocs, Template, Doc
  <2>3. Len(docs) = 2 /\ docs[1].kind = "AppProject" /\ docs[2].ns = "argocd"
      BY <1>1, <1>2, <2>1, <2>2, SameIdentities DEF ValidRegistration
  <2> HIDE DEF docs
  <2> QED
      BY <2>3 DEF NoSecret
<1> HIDE DEF s
<1>4. /\ \A i \in 1..Len(s) : s[i].ref = "target"
      /\ Bare(s) = Bare(docs) /\ NoSecret(s)
    BY <1>1, <1>2, <1>3, BoundAll
<1> QED
    BY <1>4, TemplatesAsReviewed DEF s

LEMMA ApplicationsAsReviewed ==
    ASSUME stage = "platform-applications", Documents(reviewed.artifact),
           Accepts(reviewed.artifact)
    PROVE  AsReviewed(Projected(reviewed.artifact))
<1> DEFINE docs == reviewed.artifact
           s == Projected(docs)
           A == ApplicationDocs
           sorted == Sorted(docs)
<1>1. ValidApplications(docs) /\ s = [i \in 1..Len(docs) |-> Bound(sorted[i])]
    BY Zenon DEF Accepts, Projected
<1>2. /\ A = [i \in 1..3 |-> A[i]] /\ Len(AppNames) = 3
      /\ A[1].name = "alerts" /\ A[2].name = "logs" /\ A[3].name = "metrics"
      /\ \A i \in 1..3 : A[i].kind = "Application"
  <2>1. /\ Len(AppNames) = 3
        /\ AppNames[1] = "alerts" /\ AppNames[2] = "logs" /\ AppNames[3] = "metrics"
      BY DEF AppNames
  <2>2. \A i \in 1..3 : A[i] = Template(Doc("Application", "argocd", AppNames[i]))
      BY DEF ApplicationDocs
  <2>3. \A name : LET d == Template(Doc("Application", "argocd", name)) IN
            d.kind = "Application" /\ d.name = name
      BY DEF Template, Doc
  <2>4. A = [i \in 1..3 |-> A[i]]
      BY DEF ApplicationDocs
  <2> HIDE DEF A
  <2>5. \A i \in 1..3 : A[i].kind = "Application" /\ A[i].name = AppNames[i]
      BY <2>2, <2>3
  <2> QED
      BY <2>1, <2>4, <2>5
<1>3. Len(docs) = 3 /\ DOMAIN docs = 1..3
    BY <1>1, <1>2, ElementsOf DEF ValidApplications
<1>4. /\ \A i \in 1..3 : docs[i] \in {A[1], A[2], A[3]}
      /\ \A i, j \in 1..3 : docs[i] = docs[j] => i = j
    BY <1>1, <1>2, <1>3 DEF ValidApplications, IsInjective
<1> HIDE DEF docs, A, s, sorted
<1>5. Range(docs) = {docs[1], docs[2], docs[3]}
    BY <1>3 DEF Range
<1>6. {docs[1], docs[2], docs[3]} = {A[1], A[2], A[3]}
  <2>1. docs[1] # docs[2] /\ docs[1] # docs[3] /\ docs[2] # docs[3]
      BY <1>4
  <2>2. \A i \in 1..3 : docs[i] = A[1] \/ docs[i] = A[2] \/ docs[i] = A[3]
      BY <1>4
  <2> QED
      BY <2>1, <2>2
<1>7. \A i \in 1..3 : sorted[i] = A[i]
  <2>1. \A i \in 1..3 : sorted[i] = CHOOSE e \in Range(docs) : e.name = AppNames[i]
      BY <1>3 DEF sorted, Sorted, Named
  <2>2. AppNames[1] = "alerts" /\ AppNames[2] = "logs" /\ AppNames[3] = "metrics"
      BY DEF AppNames
  <2>3. ASSUME NEW i \in 1..3 PROVE sorted[i] = A[i]
    <3>1. A[i] \in Range(docs) /\ A[i].name = AppNames[i]
        BY <1>2, <1>5, <1>6, <2>2
    <3>2. \A e \in Range(docs) : e.name = AppNames[i] => e = A[i]
        BY <1>2, <1>5, <1>6, <2>2
    <3> QED
        BY <2>1, <3>1, <3>2
  <2> QED
      BY <2>3
<1>8. Documents(A) /\ Len(A) = 3
  <2>1. Documents(A)
      BY ApplicationsAre DEF A
  <2> QED
      BY <1>2, <2>1, ElementsOf
<1>9. s = [i \in 1..Len(A) |-> Bound(A[i])] /\ Len(s) = Len(A)
  <2>1. s = [i \in 1..Len(A) |-> Bound(A[i])]
      BY <1>1, <1>3, <1>7, <1>8
  <2> QED
      BY <1>8, <2>1, BoundLen
<1>10. NoSecret(A)
    BY <1>2, <1>8 DEF NoSecret
<1>11. /\ \A i \in 1..Len(s) : s[i].ref = "target"
       /\ Bare(s) = Bare(A) /\ NoSecret(s)
    BY <1>8, <1>9, <1>10, BoundAll
<1>12. Bare(A) = Bare(docs)
  <2>1. \A t : Len(t) = 3 => Bare(t) = {[d EXCEPT !.ref = ""] : d \in {t[1], t[2], t[3]}}
      BY DEF Bare
  <2> QED
      BY <1>3, <1>6, <1>8, <2>1
<1> QED
    BY <1>11, <1>12, TemplatesAsReviewed DEF s, docs

LEMMA EnablementAsReviewed ==
    ASSUME stage = "enablement", Documents(reviewed.artifact), Accepts(reviewed.artifact)
    PROVE  AsReviewed(Projected(reviewed.artifact))
<1> DEFINE docs == reviewed.artifact
<1>1. ValidEnablement(docs) /\ Projected(docs) = docs
    BY Zenon DEF Accepts, Projected
<1>2. EnablementDocs[1].kind = "HelmChartProxy"
    BY DEF EnablementDocs, Doc
<1>3. Len(docs) = 1 /\ docs[1].kind = "HelmChartProxy"
    BY <1>1, <1>2 DEF ValidEnablement, Identity
<1>4. NoSecret(docs)
    BY <1>3 DEF NoSecret
<1> QED
    BY <1>1, <1>4, PlainAsReviewed

(***************************************************************************)
(* Target access: the accepted documents are those of the artifact by kind *)
(* and name, in order, so that the one cluster-wide binding gives the      *)
(* manager the third document and nobody else anything.                    *)
(***************************************************************************)
Granted(docs, account, binding, role, r) ==
    \E i, j \in 1..Len(docs) :
        /\ docs[i].kind = binding /\ docs[i].subject = account
        /\ docs[j].kind = role /\ docs[j].ns = docs[i].ns /\ docs[j].name = docs[i].ref
        /\ r \in docs[j].rules

LEMMA GrantsAre ==
    ASSUME NEW docs, NEW account, NEW binding, NEW role, NEW r
    PROVE  r \in Grants(docs, account, binding, role)
               <=> Granted(docs, account, binding, role, r)
<1> DEFINE Bindings == {k \in 1..Len(docs) : docs[k].kind = binding /\ docs[k].subject = account}
           Roles(i) == {k \in 1..Len(docs) :
                           /\ docs[k].kind = role
                           /\ docs[k].ns = docs[i].ns /\ docs[k].name = docs[i].ref}
           Held(i) == UNION {docs[j].rules : j \in Roles(i)}
<1>1. Grants(docs, account, binding, role) = UNION {Held(i) : i \in Bindings}
    BY DEF Grants
<1>2. r \in Grants(docs, account, binding, role) <=> \E i \in Bindings : r \in Held(i)
  <2> HIDE DEF Held, Bindings
  <2> QED
      BY <1>1, Zenon
<1>3. \A i : r \in Held(i) <=> \E j \in Roles(i) : r \in docs[j].rules
  <2> HIDE DEF Roles
  <2> QED
      BY Zenon
<1> HIDE DEF Held
<1> QED
    BY <1>2, <1>3, Zenon DEF Granted

Is(d, kind, ns, name) == d.kind = kind /\ d.ns = ns /\ d.name = name

Made(d, kind, ns, name) ==
    \/ d = Doc(kind, ns, name)
    \/ \E x : d = WithRules(Doc(kind, ns, name), x)
    \/ \E x, y : d = Bind(Doc(kind, ns, name), x, y)

LEMMA MadeIs == \A d, kind, ns, name : Made(d, kind, ns, name) => Is(d, kind, ns, name)
<1> SUFFICES ASSUME NEW d, NEW kind, NEW ns, NEW name, Made(d, kind, ns, name)
             PROVE  Is(d, kind, ns, name)
    OBVIOUS
<1>1. CASE d = Doc(kind, ns, name)
    BY <1>1 DEF Is, Doc
<1>2. CASE \E x : d = WithRules(Doc(kind, ns, name), x)
    BY <1>2 DEF Is, Doc, WithRules
<1>3. CASE \E x, y : d = Bind(Doc(kind, ns, name), x, y)
    BY <1>3 DEF Is, Doc, Bind
<1> QED
    BY <1>1, <1>2, <1>3, Zenon DEF Made

LEMMA AccessIdentities ==
    ASSUME NEW docs, Documents(docs), Identities(docs) = Identities(TargetAccessDocs)
    PROVE  /\ Len(docs) = 11
           /\ docs[1].kind = "Namespace" /\ docs[2].kind = "ServiceAccount"
           /\ docs[3].kind = "ClusterRole" /\ docs[4].kind = "ClusterRoleBinding"
           /\ docs[5].kind = "Role" /\ docs[6].kind = "RoleBinding"
           /\ docs[7].kind = "ServiceAccount" /\ docs[8].kind = "Role"
           /\ docs[9].kind = "RoleBinding" /\ docs[10].kind = "ClusterRole"
           /\ docs[11].kind = "ClusterRole"
           /\ docs[2].name = "manager" /\ docs[7].name = "observer"
           /\ docs[3].name = "manager" /\ docs[10].name = "metrics" /\ docs[11].name = "logs"
           /\ docs[5].name = "workloads" /\ docs[8].name = "observer"
           /\ docs[3].ns = docs[4].ns /\ docs[8].ns = docs[9].ns
<1> DEFINE T == TargetAccessDocs
<1>1. Len(T) = 11
    BY DEF TargetAccessDocs
<1>2. /\ Len(docs) = 11
      /\ \A i \in 1..11 : Is(docs[i], T[i].kind, T[i].ns, T[i].name)
  <2>1. Len(docs) \in Nat /\ Len(T) \in Nat
      BY <1>1, ElementsOf
  <2>2. /\ Len(docs) = Len(T)
        /\ \A i \in 1..Len(docs) :
               docs[i].kind = T[i].kind /\ docs[i].ns = T[i].ns /\ docs[i].name = T[i].name
    <3> HIDE DEF T
    <3> QED
        BY <2>1, SameIdentities DEF T
  <2> HIDE DEF T
  <2> QED
      BY <1>1, <2>2 DEF Is
<1>3. \A i \in 1..11 : \A kind, ns, name :
          Is(T[i], kind, ns, name) => Is(docs[i], kind, ns, name)
    BY <1>2 DEF Is
<1>4. /\ 1 \in 1..11 /\ 2 \in 1..11 /\ 3 \in 1..11 /\ 4 \in 1..11 /\ 5 \in 1..11
      /\ 6 \in 1..11 /\ 7 \in 1..11 /\ 8 \in 1..11 /\ 9 \in 1..11 /\ 10 \in 1..11
      /\ 11 \in 1..11
    OBVIOUS
<1>5. /\ Made(T[1], "Namespace", "", "observability")
      /\ Made(T[2], "ServiceAccount", "observability", "manager")
      /\ Made(T[3], "ClusterRole", "", "manager")
      /\ Made(T[4], "ClusterRoleBinding", "", "manager")
      /\ Made(T[5], "Role", "observability", "workloads")
      /\ Made(T[6], "RoleBinding", "observability", "workloads")
      /\ Made(T[7], "ServiceAccount", "observability", "observer")
      /\ Made(T[8], "Role", "observability", "observer")
      /\ Made(T[9], "RoleBinding", "observability", "observer")
      /\ Made(T[10], "ClusterRole", "", "metrics")
      /\ Made(T[11], "ClusterRole", "", "logs")
  <2>1. /\ T[1] = Doc("Namespace", "", "observability")
        /\ T[2] = Doc("ServiceAccount", "observability", "manager")
        /\ \E x : T[3] = WithRules(Doc("ClusterRole", "", "manager"), x)
        /\ \E x, y : T[4] = Bind(Doc("ClusterRoleBinding", "", "manager"), x, y)
        /\ \E x : T[5] = WithRules(Doc("Role", "observability", "workloads"), x)
        /\ \E x, y : T[6] = Bind(Doc("RoleBinding", "observability", "workloads"), x, y)
        /\ T[7] = Doc("ServiceAccount", "observability", "observer")
        /\ \E x : T[8] = WithRules(Doc("Role", "observability", "observer"), x)
        /\ \E x, y : T[9] = Bind(Doc("RoleBinding", "observability", "observer"), x, y)
        /\ \E x : T[10] = WithRules(Doc("ClusterRole", "", "metrics"), x)
        /\ \E x : T[11] = WithRules(Doc("ClusterRole", "", "logs"), x)
      BY DEF TargetAccessDocs
  <2> HIDE DEF T
  <2> QED
      BY <2>1, Zenon DEF Made
<1> HIDE DEF T
<1>6. Is(docs[1], "Namespace", "", "observability")
    BY <1>3, <1>4, <1>5, MadeIs, Zenon
<1>7. Is(docs[2], "ServiceAccount", "observability", "manager")
    BY <1>3, <1>4, <1>5, MadeIs, Zenon
<1>8. Is(docs[3], "ClusterRole", "", "manager")
    BY <1>3, <1>4, <1>5, MadeIs, Zenon
<1>9. Is(docs[4], "ClusterRoleBinding", "", "manager")
    BY <1>3, <1>4, <1>5, MadeIs, Zenon
<1>10. Is(docs[5], "Role", "observability", "workloads")
    BY <1>3, <1>4, <1>5, MadeIs, Zenon
<1>11. Is(docs[6], "RoleBinding", "observability", "workloads")
    BY <1>3, <1>4, <1>5, MadeIs, Zenon
<1>12. Is(docs[7], "ServiceAccount", "observability", "observer")
    BY <1>3, <1>4, <1>5, MadeIs, Zenon
<1>13. Is(docs[8], "Role", "observability", "observer")
    BY <1>3, <1>4, <1>5, MadeIs, Zenon
<1>14. Is(docs[9], "RoleBinding", "observability", "observer")
    BY <1>3, <1>4, <1>5, MadeIs, Zenon
<1>15. Is(docs[10], "ClusterRole", "", "metrics")
    BY <1>3, <1>4, <1>5, MadeIs, Zenon
<1>16. Is(docs[11], "ClusterRole", "", "logs")
    BY <1>3, <1>4, <1>5, MadeIs, Zenon
<1> QED
    BY <1>2, <1>6, <1>7, <1>8, <1>9, <1>10, <1>11, <1>12, <1>13, <1>14, <1>15, <1>16,
       Zenon DEF Is

LEMMA ReadersAre ==
    ASSUME NEW docs, Documents(docs), ValidTargetAccess(docs)
    PROVE  ReadersAndManager(docs) /\ NoSecret(docs)
<1> DEFINE Wide(account) == Grants(docs, account, "ClusterRoleBinding", "ClusterRole")
           Narrow == Grants(docs, "observer", "RoleBinding", "Role")
<1>1. /\ Len(docs) = 11
      /\ docs[1].kind = "Namespace" /\ docs[2].kind = "ServiceAccount"
      /\ docs[3].kind = "ClusterRole" /\ docs[4].kind = "ClusterRoleBinding"
      /\ docs[5].kind = "Role" /\ docs[6].kind = "RoleBinding"
      /\ docs[7].kind = "ServiceAccount" /\ docs[8].kind = "Role"
      /\ docs[9].kind = "RoleBinding" /\ docs[10].kind = "ClusterRole"
      /\ docs[11].kind = "ClusterRole"
      /\ docs[2].name = "manager" /\ docs[7].name = "observer"
      /\ docs[3].name = "manager" /\ docs[10].name = "metrics" /\ docs[11].name = "logs"
      /\ docs[5].name = "workloads" /\ docs[8].name = "observer"
      /\ docs[3].ns = docs[4].ns /\ docs[8].ns = docs[9].ns
    BY AccessIdentities DEF ValidTargetAccess
<1>2. /\ ValidRules(docs[3]) /\ ManagerEscalation(docs[3])
      /\ docs[4].ref = docs[3].name /\ docs[4].subject = docs[2].name
      /\ docs[6].subject = docs[2].name
      /\ docs[8].rules = ObserverRules
      /\ docs[9].ref = docs[8].name /\ docs[9].subject = docs[7].name
    BY DEF ValidTargetAccess
<1>3. NoSecret(docs)
    BY <1>1 DEF NoSecret
<1> DEFINE At(kind) == {i \in 1..Len(docs) : docs[i].kind = kind}
<1>4. /\ At("ClusterRoleBinding") = {4} /\ At("ClusterRole") = {3, 10, 11}
      /\ At("RoleBinding") = {6, 9} /\ At("Role") = {5, 8}
    BY <1>1
<1>5. \A account, binding, role, r :
          Granted(docs, account, binding, role, r) <=>
              \E i \in At(binding), j \in At(role) :
                  /\ docs[i].subject = account
                  /\ docs[j].ns = docs[i].ns /\ docs[j].name = docs[i].ref
                  /\ r \in docs[j].rules
    BY DEF Granted
<1> HIDE DEF At
<1>6. \A r : r \in Wide("manager") <=> r \in docs[3].rules
  <2>1. ASSUME NEW r
        PROVE  Granted(docs, "manager", "ClusterRoleBinding", "ClusterRole", r)
                   <=> r \in docs[3].rules
      BY <1>1, <1>2, <1>4, <1>5
  <2> QED
      BY <2>1, GrantsAre
<1>7. Wide("observer") = {}
  <2>1. ASSUME NEW r
        PROVE  ~Granted(docs, "observer", "ClusterRoleBinding", "ClusterRole", r)
      BY <1>1, <1>2, <1>4, <1>5
  <2> QED
      BY <2>1, GrantsAre
<1>8. Narrow = ObserverRules
  <2>1. ASSUME NEW r
        PROVE  Granted(docs, "observer", "RoleBinding", "Role", r) <=> r \in ObserverRules
      BY <1>1, <1>2, <1>4, <1>5
  <2>2. \A r : r \in Narrow <=> r \in ObserverRules
      BY <2>1, GrantsAre
  <2> HIDE DEF Narrow
  <2> QED
      BY <2>2
<1>9. ASSUME NEW r \in docs[3].rules, Elevating(r)
      PROVE  r.names # {} /\ r.names \subseteq PlatformRoles
    BY <1>2, <1>9 DEF ValidRules, ManagerEscalation
<1>10. ASSUME NEW n \in PlatformRoles
       PROVE  \E r \in docs[3].rules : "escalate" \in r.verbs /\ n \in r.names
    BY <1>2 DEF ManagerEscalation
<1> QED
    BY <1>3, <1>6, <1>7, <1>8, <1>9, <1>10 DEF ReadersAndManager

LEMMA TargetAccessAsReviewed ==
    ASSUME stage = "target-access", Documents(reviewed.artifact), Accepts(reviewed.artifact)
    PROVE  AsReviewed(Projected(reviewed.artifact))
<1> DEFINE docs == reviewed.artifact
<1>1. ValidTargetAccess(docs) /\ Projected(docs) = docs
    BY Zenon DEF Accepts, Projected
<1> QED
    BY <1>1, ReadersAre, AccessAsReviewed

LEMMA SinglesAsReviewed ==
    ASSUME stage \in Singles, Documents(reviewed.artifact), Accepts(reviewed.artifact)
    PROVE  AsReviewed(Projected(reviewed.artifact))
BY EnablementAsReviewed, TargetAccessAsReviewed, RegistrationAsReviewed, ApplicationsAsReviewed
   DEF Singles

-----------------------------------------------------------------------------
(***************************************************************************)
(* The loading of a plane.  Until it is open the files hold documents, and *)
(* what has been decoded is what was bound: by the request for the         *)
(* operation over both planes, and otherwise by the plan of the run for    *)
(* the artifact of the stage.                                              *)
(***************************************************************************)
FileNames == Artifacts \cup {"manifest", "policy", "kubeconfig", "artifact"}

FilesOK ==
    /\ DOMAIN file = FileNames /\ file = [f \in FileNames |-> file[f]]
    /\ \A f \in {"infra", "mgmt", "artifact"} : Documents(file[f])
    /\ ContextsOK(file["kubeconfig"])

PlaneIs(docs) == Documents(docs) /\ \A i \in 1..Len(docs) : docs[i].kind # "Secret"

HeldIsReviewed ==
    /\ stage = "create-cluster" => held = reviewed.digests
    /\ stage # "create-cluster" => held[StageArtifact] = reviewed.artifact

BothLoaded == load = "policy" \/ (load = "loaded" /\ stage \in Projections)

Stands ==
    /\ load \in {"manifest", "artifacts"} => stage \in Projections \ {"create-cluster"}
    /\ load \in {"reverify", "infra", "mgmt", "policy"} => stage \in Projections
    /\ load = "artifact" => stage \in Singles
    /\ load = "loaded" => stage \in Stages

Holds ==
    /\ load \in {"reverify", "infra", "mgmt"} \/ BothLoaded => HeldIsReviewed
    /\ load \in {"reverify", "infra"} => loaded = <<>>
    /\ load = "mgmt" => loaded = <<held["infra"]>> /\ PlaneIs(held["infra"])
    /\ BothLoaded => /\ loaded = <<held["infra"], held["mgmt"]>>
                     /\ PlaneIs(held["infra"]) /\ PlaneIs(held["mgmt"])
    /\ load = "loaded" /\ stage \in Singles =>
           loaded = <<Projected(reviewed.artifact)>> /\ Accepts(reviewed.artifact)

PlanInv ==
    /\ load # "begun" => Documents(reviewed.artifact)
    /\ Loading => FilesOK
    /\ Stands
    /\ Holds
    /\ SubmitsWhatWasReviewed

(***************************************************************************)
(* The property speaks of the stage, the review and what is loaded, and of *)
(* those only in an open plane.                                            *)
(***************************************************************************)
LEMMA ReviewKept ==
    ASSUME UNCHANGED <<stage, reviewed>>, NEW docs, AsReviewed(docs), loaded' = <<docs>>
    PROVE  SubmitsWhatWasReviewed'
BY Zenon DEF SubmitsWhatWasReviewed, AsReviewed, HasPolicy

LEMMA StillReviewed ==
    ASSUME SubmitsWhatWasReviewed, UNCHANGED <<stage, reviewed, loaded>>, load' = load
    PROVE  SubmitsWhatWasReviewed'
BY Zenon DEF SubmitsWhatWasReviewed, AsReviewed, HasPolicy

LEMMA NotOpen == ASSUME load' # "open" PROVE SubmitsWhatWasReviewed'
BY DEF SubmitsWhatWasReviewed

LEMMA InitPlanInv == Init => PlanInv
<1> SUFFICES ASSUME Init PROVE PlanInv
    OBVIOUS
<1> DEFINE Bindable == CASE stage = "provider-prerequisites" -> Variants(InfraDocs)
                        [] stage \in Singles -> Variants(ArtifactDocs(stage))
                        [] OTHER -> Variants(MgmtDocs)
           I(docs) == IF stage = "provider-prerequisites" THEN docs ELSE InfraDocs
           M(docs) == IF stage \in Projections \ {"provider-prerequisites"}
                      THEN docs ELSE MgmtDocs
           H(docs) == [a \in Artifacts |->
                           CASE a = "infra" -> I(docs) [] a = "mgmt" -> M(docs)
                             [] OTHER -> AuthorityMap(I(docs), M(docs))]
           F(docs) == [f \in Artifacts \cup {"manifest", "policy", "kubeconfig", "artifact"} |->
                          CASE f \in Artifacts -> H(docs)[f]
                            [] f = "manifest"   -> Manifest(H(docs))
                            [] f = "policy"     -> Policy
                            [] f = "kubeconfig" -> Kubeconfig
                            [] OTHER            -> docs]
<1>1. PICK docs \in Bindable :
          /\ reviewed = [artifact |-> docs, policy |-> Policy, digests |-> H(docs)]
          /\ file = F(docs)
    BY Zenon DEF Init
<1>2. Documents(docs)
  <2>1. docs \in Variants(InfraDocs) \/ docs \in Variants(ArtifactDocs(stage))
        \/ docs \in Variants(MgmtDocs)
      BY Zenon
  <2> QED
      BY <2>1, VariantsAre, PlanesAre, ArtifactIs
<1>3. Documents(I(docs)) /\ Documents(M(docs))
    BY <1>2, PlanesAre
<1> HIDE DEF I, M
<1>4. H(docs)["infra"] = I(docs) /\ H(docs)["mgmt"] = M(docs)
    BY Zenon DEF Artifacts
<1> HIDE DEF H
<1>5. /\ DOMAIN F(docs) = FileNames
      /\ F(docs)["infra"] = I(docs) /\ F(docs)["mgmt"] = M(docs)
      /\ F(docs)["artifact"] = docs /\ F(docs)["kubeconfig"] = Kubeconfig
      /\ F(docs) = [f \in FileNames |-> F(docs)[f]]
    BY <1>4 DEF FileNames, Artifacts
<1> HIDE DEF F
<1>6. FilesOK
    BY <1>1, <1>2, <1>3, <1>5, KubeconfigsAre DEF FilesOK
<1>7. reviewed.artifact = docs /\ reviewed.digests = H(docs)
    BY <1>1
<1>8. /\ stage \in Stages
      /\ load = IF stage \in Singles THEN "artifact"
                ELSE IF stage = "create-cluster" THEN "reverify" ELSE "manifest"
      /\ held = IF stage = "create-cluster" THEN reviewed.digests ELSE Forgotten
      /\ loaded = <<>>
    BY DEF Init
<1>9. Stands /\ Holds
    BY <1>8 DEF Stands, Holds, HeldIsReviewed, BothLoaded, Stages, Projections, Singles
<1>10. load # "open"
    BY <1>8
<1> QED
    BY <1>2, <1>6, <1>7, <1>9, <1>10 DEF PlanInv, SubmitsWhatWasReviewed

LEMMA AppendedIs ==
    ASSUME NEW docs, Documents(docs), NEW d, IsDocument(d)
    PROVE  Documents(Append(docs, d))
<1> DEFINE S == Range(docs) \cup {d}
<1>1. docs \in Seq(S) /\ d \in S /\ \A e \in S : IsDocument(e)
    BY ElementsOf
<1>2. Append(docs, d) \in Seq(S)
    BY <1>1, AppendProperties
<1> QED
    BY <1>1, <1>2, DocumentsOf

(***************************************************************************)
(* One lemma for each step of loading.                                     *)
(***************************************************************************)
LEMMA FilesKept ==
    ASSUME FilesOK, UNCHANGED file
    PROVE  FilesOK'
BY DEF FilesOK, FileNames, Artifacts, Documents, IsDocument, ContextsOK

LEMMA FilesChanged ==
    ASSUME FilesOK, NEW f \in FileNames, NEW c, file' = [file EXCEPT ![f] = c],
           f \in {"infra", "mgmt", "artifact"} => Documents(c),
           f = "kubeconfig" => ContextsOK(c)
    PROVE  FilesOK'
<1>1. /\ DOMAIN file' = FileNames /\ file' = [g \in FileNames |-> file'[g]]
      /\ file'[f] = c /\ \A g \in FileNames \ {f} : file'[g] = file[g]
    BY DEF FilesOK
<1>2. {"infra", "mgmt", "artifact", "kubeconfig"} \subseteq FileNames
    BY DEF FileNames, Artifacts
<1>3. ASSUME NEW g \in {"infra", "mgmt", "artifact"} PROVE Documents(file'[g])
    BY <1>1, <1>2, <1>3 DEF FilesOK
<1>4. ContextsOK(file'["kubeconfig"])
    BY <1>1, <1>2 DEF FilesOK
<1> QED
    BY <1>1, <1>3, <1>4 DEF FilesOK

LEMMA EditKeeps == PlanInv /\ Edit => PlanInv'
<1> SUFFICES ASSUME PlanInv, Edit PROVE PlanInv'
    OBVIOUS
<1>1. FilesOK /\ UNCHANGED <<stage, reviewed, load, pending, held, loaded>> /\ load # "open"
    BY DEF PlanInv, Edit, Loading
<1>2. FilesOK'
  <2>1. CASE \E f \in Edited : \E c \in Contents(f) : file' = [file EXCEPT ![f] = c]
    <3>1. PICK f \in Edited : \E c \in Contents(f) : file' = [file EXCEPT ![f] = c]
        BY <2>1
    <3>2. PICK c \in Contents(f) : file' = [file EXCEPT ![f] = c]
        BY <3>1
    <3>3. f \in {"infra", "mgmt", "authority-map", "manifest", "policy", "kubeconfig"}
        BY DEF Edited
    <3>4. f = "infra" => c \in Variants(InfraDocs)
        BY Zenon DEF Contents
    <3>5. f = "mgmt" => c \in Variants(MgmtDocs)
        BY Zenon DEF Contents
    <3>6. f = "kubeconfig" => c \in KubeconfigVariants
        BY Zenon DEF Contents
    <3>7. f \in {"infra", "mgmt", "artifact"} => Documents(c)
        BY <3>3, <3>4, <3>5, VariantsAre, PlanesAre
    <3>8. f = "kubeconfig" => ContextsOK(c)
        BY <3>6, KubeconfigsAre
    <3>9. f \in FileNames
        BY <3>3 DEF FileNames, Artifacts
    <3> QED
        BY <1>1, <3>2, <3>7, <3>8, <3>9, FilesChanged
  <2>2. CASE file' = [file EXCEPT !["artifact"] = Append(@, Doc("Namespace", "", "other"))]
    <3> DEFINE more == Append(file["artifact"], Doc("Namespace", "", "other"))
    <3>2. Documents(more)
        BY <1>1, DocIs, AppendedIs DEF FilesOK
    <3>3. "artifact" \in FileNames /\ file' = [file EXCEPT !["artifact"] = more]
        BY <2>2 DEF FileNames
    <3> QED
        BY <1>1, <3>2, <3>3, FilesChanged
  <2> QED
      BY <2>1, <2>2 DEF Edit
<1>3. SubmitsWhatWasReviewed'
    BY <1>1, NotOpen
<1> QED
    BY <1>1, <1>2, <1>3 DEF PlanInv, Loading, Stands, Holds, HeldIsReviewed, BothLoaded, PlaneIs,
                            StageArtifact, Accepts, Projected

LEMMA AppendOne ==
    ASSUME NEW T, NEW s \in Seq(T), Len(s) = 1, NEW b \in T
    PROVE  /\ Append(s, b) \in Seq(T) /\ Len(Append(s, b)) = 2
           /\ Append(s, b)[1] = s[1] /\ Append(s, b)[2] = b
<1>1. /\ Append(s, b) \in Seq(T) /\ Len(Append(s, b)) = Len(s) + 1
      /\ \A i \in 1..Len(s) : Append(s, b)[i] = s[i]
      /\ Append(s, b)[Len(s) + 1] = b
    BY AppendProperties
<1> QED
    BY <1>1

LEMMA AppendTwo ==
    ASSUME NEW a, NEW b
    PROVE  Append(<<a>>, b) = <<a, b>>
<1> DEFINE S == {a, b}
<1>1. /\ <<a>> \in Seq(S) /\ Len(<<a>>) = 1 /\ <<a>>[1] = a
      /\ <<a, b>> \in Seq(S) /\ Len(<<a, b>>) = 2 /\ b \in S
    OBVIOUS
<1>2. \A i \in 1..2 : <<a, b>>[i] = IF i = 1 THEN a ELSE b
    OBVIOUS
<1> SUFFICES ASSUME NEW T, NEW s \in Seq(T), Len(s) = 1, s[1] = a,
                    NEW t \in Seq(T), Len(t) = 2,
                    \A i \in 1..2 : t[i] = IF i = 1 THEN a ELSE b,
                    b \in T
             PROVE  Append(s, b) = t
    BY <1>1, <1>2
<1> HIDE DEF S
<1>3. /\ Append(s, b) \in Seq(T) /\ Len(Append(s, b)) = 2
      /\ Append(s, b)[1] = a /\ Append(s, b)[2] = b
    BY AppendOne
<1> QED
    BY <1>3, SeqEqual

LEMMA RefuseKeeps == PlanInv /\ Refuse => PlanInv'
<1> SUFFICES ASSUME PlanInv, Refuse PROVE PlanInv'
    OBVIOUS
<1>1. UNCHANGED <<stage, reviewed>> /\ load' = "refused" /\ load # "begun"
    BY DEF Refuse, Loading
<1>2. SubmitsWhatWasReviewed'
    BY <1>1, NotOpen
<1> QED
    BY <1>1, <1>2 DEF PlanInv, Loading, Stands, Holds, BothLoaded

LEMMA GoesOn ==
    ASSUME PlanInv, NEW l, Goes(l), Loading, l \notin {"open", "begun"}, Stands', Holds'
    PROVE  PlanInv'
<1>1. UNCHANGED <<stage, reviewed, file>> /\ load' = l
    BY DEF Goes
<1>2. FilesOK' /\ SubmitsWhatWasReviewed'
    BY <1>1, FilesKept, NotOpen DEF PlanInv
<1> QED
    BY <1>1, <1>2 DEF PlanInv, Loading

LEMMA ReadManifestKeeps == PlanInv /\ ReadManifest => PlanInv'
<1> SUFFICES ASSUME PlanInv, ReadManifest PROVE PlanInv'
    OBVIOUS
<1>1. load = "manifest" /\ Goes("artifacts")
    BY DEF ReadManifest
<1>2. Stands' /\ Holds'
    BY <1>1 DEF PlanInv, Stands, Holds, BothLoaded, Goes
<1> QED
    BY <1>1, <1>2, GoesOn DEF Loading

LEMMA VerifyArtifactKeeps == PlanInv /\ VerifyArtifact => PlanInv'
<1> SUFFICES ASSUME PlanInv, VerifyArtifact PROVE PlanInv'
    OBVIOUS
<1>1. load = "artifacts" /\ Goes("artifacts")
    BY DEF VerifyArtifact
<1>2. Stands' /\ Holds'
    BY <1>1 DEF PlanInv, Stands, Holds, BothLoaded, Goes
<1> QED
    BY <1>1, <1>2, GoesOn DEF Loading

LEMMA VerifyKeeps == PlanInv /\ Verify => PlanInv'
<1> SUFFICES ASSUME PlanInv, Verify PROVE PlanInv'
    OBVIOUS
<1>1. /\ load = "artifacts" /\ Goes("reverify")
      /\ held[StageArtifact] = reviewed.artifact
      /\ held' = held /\ loaded' = <<>>
    BY DEF Verify
<1>2. stage \in Projections \ {"create-cluster"} /\ UNCHANGED <<stage, reviewed>>
    BY <1>1 DEF PlanInv, Stands, Goes
<1>3. HeldIsReviewed'
    BY <1>1, <1>2 DEF HeldIsReviewed, StageArtifact
<1>4. Stands' /\ Holds'
    BY <1>1, <1>2, <1>3 DEF Stands, Holds, BothLoaded, Goes
<1> QED
    BY <1>1, <1>4, GoesOn DEF Loading

LEMMA ReverifyKeeps == PlanInv /\ Reverify => PlanInv'
<1> SUFFICES ASSUME PlanInv, Reverify PROVE PlanInv'
    OBVIOUS
<1>1. PICK l \in {"infra", "reverify"} : Goes(l)
    BY DEF Reverify
<1>2. load = "reverify" /\ UNCHANGED <<stage, reviewed, held, loaded>> /\ load' = l
    BY <1>1 DEF Reverify, Goes
<1>3. HeldIsReviewed /\ HeldIsReviewed' /\ loaded = <<>> /\ stage \in Projections
    BY <1>2 DEF PlanInv, Stands, Holds, HeldIsReviewed, StageArtifact
<1>4. Stands' /\ Holds'
    BY <1>2, <1>3 DEF Stands, Holds, BothLoaded
<1> QED
    BY <1>1, <1>2, <1>4, GoesOn DEF Loading

LEMMA LoadInfraKeeps == PlanInv /\ LoadPlane("infra") => PlanInv'
<1> SUFFICES ASSUME PlanInv, LoadPlane("infra") PROVE PlanInv'
    OBVIOUS
<1>1. /\ load = "infra" /\ Goes("mgmt") /\ held' = held
      /\ loaded' = Append(loaded, file["infra"]) /\ file["infra"] = held["infra"]
      /\ \A i \in 1..Len(file["infra"]) : Routable(file["infra"][i])
    BY DEF LoadPlane, AsBound, Decodes
<1>2. /\ HeldIsReviewed /\ loaded = <<>> /\ stage \in Projections /\ FilesOK
      /\ load' = "mgmt" /\ UNCHANGED <<stage, reviewed>>
    BY <1>1 DEF PlanInv, Stands, Holds, Loading, Goes
<1>3. PlaneIs(held["infra"])
    BY <1>1, <1>2, RoutableIsNoSecret DEF PlaneIs, FilesOK
<1>4. loaded' = <<held["infra"]>>
    BY <1>1, <1>2
<1>5. HeldIsReviewed' /\ held'["infra"] = held["infra"]
    BY <1>1, <1>2 DEF HeldIsReviewed, StageArtifact
<1>6. PlaneIs(held["infra"])'
    BY <1>1, <1>3 DEF PlaneIs, Documents, IsDocument
<1>7. Stands' /\ Holds'
    BY <1>2, <1>4, <1>5, <1>6 DEF Stands, Holds, BothLoaded
<1> QED
    BY <1>1, <1>7, GoesOn DEF Loading

LEMMA LoadMgmtKeeps == PlanInv /\ LoadPlane("mgmt") => PlanInv'
<1> SUFFICES ASSUME PlanInv, LoadPlane("mgmt") PROVE PlanInv'
    OBVIOUS
<1>1. PICK l \in {"policy", "loaded"} : Goes(l)
    BY Zenon DEF LoadPlane
<1>2. /\ load = "mgmt" /\ held' = held
      /\ loaded' = Append(loaded, file["mgmt"]) /\ file["mgmt"] = held["mgmt"]
      /\ \A i \in 1..Len(file["mgmt"]) : Routable(file["mgmt"][i])
    BY DEF LoadPlane, AsBound, Decodes
<1>3. /\ HeldIsReviewed /\ loaded = <<held["infra"]>> /\ PlaneIs(held["infra"])
      /\ stage \in Projections /\ FilesOK /\ load' = l /\ UNCHANGED <<stage, reviewed>>
    BY <1>1, <1>2 DEF PlanInv, Stands, Holds, Loading, Goes
<1>4. PlaneIs(held["mgmt"])
    BY <1>2, <1>3, RoutableIsNoSecret DEF PlaneIs, FilesOK
<1>5. loaded' = <<held["infra"], held["mgmt"]>>
    BY <1>2, <1>3, AppendTwo, Zenon
<1>6. HeldIsReviewed'
    BY <1>2, <1>3 DEF HeldIsReviewed, StageArtifact
<1>7. PlaneIs(held["infra"])' /\ PlaneIs(held["mgmt"])'
    BY <1>2, <1>3, <1>4 DEF PlaneIs, Documents, IsDocument
<1>8. stage \notin Singles /\ stage \in Stages
    BY <1>3 DEF Projections, Singles, Stages
<1>9. Stands' /\ Holds'
    BY <1>2, <1>3, <1>5, <1>6, <1>7, <1>8 DEF Stands, Holds, BothLoaded
<1> QED
    BY <1>1, <1>2, <1>9, GoesOn DEF Loading

LEMMA LoadPolicyKeeps == PlanInv /\ LoadProviderAccessPolicy => PlanInv'
<1> SUFFICES ASSUME PlanInv, LoadProviderAccessPolicy PROVE PlanInv'
    OBVIOUS
<1>1. load = "policy" /\ Goes("loaded") /\ UNCHANGED <<held, loaded>>
    BY DEF LoadProviderAccessPolicy
<1>2. /\ HeldIsReviewed /\ loaded = <<held["infra"], held["mgmt"]>>
      /\ PlaneIs(held["infra"]) /\ PlaneIs(held["mgmt"])
      /\ stage \in Projections /\ load' = "loaded" /\ UNCHANGED <<stage, reviewed>>
    BY <1>1 DEF PlanInv, Stands, Holds, BothLoaded, Goes
<1>3. /\ HeldIsReviewed' /\ loaded' = <<held'["infra"], held'["mgmt"]>>
      /\ PlaneIs(held["infra"])' /\ PlaneIs(held["mgmt"])'
    BY <1>1, <1>2 DEF HeldIsReviewed, StageArtifact, PlaneIs, Documents, IsDocument
<1>4. stage \notin Singles /\ stage \in Stages
    BY <1>2 DEF Projections, Singles, Stages
<1>5. Stands' /\ Holds'
    BY <1>2, <1>3, <1>4 DEF Stands, Holds, BothLoaded
<1> QED
    BY <1>1, <1>5, GoesOn DEF Loading

LEMMA LoadArtifactKeeps == PlanInv /\ LoadArtifact => PlanInv'
<1> SUFFICES ASSUME PlanInv, LoadArtifact PROVE PlanInv'
    OBVIOUS
<1>1. /\ load = "artifact" /\ Goes("loaded")
      /\ loaded' = <<Projected(reviewed.artifact)>> /\ Accepts(reviewed.artifact)
    BY DEF LoadArtifact
<1>2. stage \in Singles /\ load' = "loaded" /\ UNCHANGED <<stage, reviewed>>
    BY <1>1 DEF PlanInv, Stands, Goes
<1>3. Accepts(reviewed.artifact)'
    BY Zenon, <1>1, <1>2 DEF Accepts
<1>4. (loaded = <<Projected(reviewed.artifact)>>)'
    BY Zenon, <1>1, <1>2 DEF Projected
<1>5. stage \notin Projections /\ stage \in Stages
    BY <1>2 DEF Projections, Singles, Stages
<1>6. Stands' /\ Holds'
    BY <1>2, <1>3, <1>4, <1>5 DEF Stands, Holds, BothLoaded
<1> QED
    BY <1>1, <1>6, GoesOn DEF Loading

LEMMA Twice == \A a, b : <<a, b>>[1] = a /\ <<a, b>>[2] = b
OBVIOUS

(***************************************************************************)
(* The plane that is opened is the reviewed one, in each of the stages.    *)
(***************************************************************************)
LEMMA StagePlaneAsReviewed ==
    ASSUME PlanInv, load = "loaded",
           HasPolicy => /\ ValidKubeconfig(file["kubeconfig"])
                        /\ BindsProviderAccess(loaded[2], Policy)
    PROVE  AsReviewed(StagePlane)
<1>1. FilesOK /\ stage \in Stages
    BY DEF PlanInv, Stands, Loading
<1>2. ASSUME stage \in Projections
      PROVE  /\ HeldIsReviewed /\ loaded[1] = held["infra"] /\ loaded[2] = held["mgmt"]
             /\ PlaneIs(held["infra"]) /\ PlaneIs(held["mgmt"])
  <2>1. /\ HeldIsReviewed /\ loaded = <<held["infra"], held["mgmt"]>>
        /\ PlaneIs(held["infra"]) /\ PlaneIs(held["mgmt"])
      BY <1>2 DEF PlanInv, Holds, BothLoaded
  <2> QED
      BY <2>1, Twice, Zenon
<1>3. CASE stage = "provider-prerequisites"
  <2>1. StagePlane = loaded[1]
      BY <1>3, Zenon DEF StagePlane
  <2>2. loaded[1] = reviewed.artifact /\ NoSecret(loaded[1])
      BY <1>2, <1>3 DEF HeldIsReviewed, StageArtifact, PlaneIs, NoSecret, Projections
  <2> QED
      BY <1>3, <2>1, <2>2, PlainAsReviewed
<1>4. CASE stage = "cluster-lifecycle"
  <2>1. StagePlane = loaded[2]
      BY <1>4 DEF StagePlane
  <2>2. loaded[2] = reviewed.artifact /\ NoSecret(loaded[2])
      BY <1>2, <1>4 DEF HeldIsReviewed, StageArtifact, PlaneIs, NoSecret, Projections, Singles
  <2> QED
      BY <1>4, <2>1, <2>2, PlainAsReviewed
<1>5. CASE stage = "provider-access"
  <2>1. StagePlane = WithSecret(loaded[2], Policy, MaterializeSecret(Policy, file["kubeconfig"]))
      BY <1>5 DEF StagePlane
  <2>2. loaded[2] = reviewed.artifact /\ PlaneIs(loaded[2])
      BY <1>2, <1>5 DEF HeldIsReviewed, StageArtifact, Projections, Singles
  <2>3. ContextsOK(file["kubeconfig"]) /\ ValidKubeconfig(file["kubeconfig"])
      BY <1>1, <1>5 DEF FilesOK, HasPolicy
  <2>4. BindsProviderAccess(loaded[2], Policy)
      BY <1>5 DEF HasPolicy
  <2> QED
      BY <1>5, <2>1, <2>2, <2>3, <2>4, SecretAsReviewed DEF PlaneIs
<1>6. CASE stage = "create-cluster"
  <2>1. StagePlane = loaded[1] \o loaded[2]
      BY <1>6 DEF StagePlane
  <2>2. /\ loaded[1] = reviewed.digests["infra"] /\ PlaneIs(loaded[1])
        /\ loaded[2] = reviewed.digests["mgmt"] /\ PlaneIs(loaded[2])
      BY <1>2, <1>6 DEF HeldIsReviewed, Projections
  <2>3. NoSecret(loaded[1] \o loaded[2])
      BY <2>2, JoinedHaveNoSecret DEF PlaneIs
  <2> QED
      BY <1>6, <2>1, <2>2, <2>3, BothAsReviewed, Zenon
<1>7. CASE stage \in Singles
  <2>1. StagePlane = loaded[1]
      BY <1>7, Zenon DEF StagePlane, Singles
  <2>2. /\ loaded = <<Projected(reviewed.artifact)>> /\ Accepts(reviewed.artifact)
        /\ Documents(reviewed.artifact)
      BY <1>7 DEF PlanInv, Holds
  <2>3. loaded[1] = Projected(reviewed.artifact)
    <3>1. \A a : <<a>>[1] = a
        OBVIOUS
    <3> QED
        BY <2>2, <3>1, Zenon
  <2> QED
      BY <1>7, <2>1, <2>2, <2>3, SinglesAsReviewed
<1> QED
    BY <1>1, <1>3, <1>4, <1>5, <1>6, <1>7 DEF Stages, Projections

LEMMA OpensKeeps == PlanInv /\ Opens => PlanInv'
<1> SUFFICES ASSUME PlanInv, Opens PROVE PlanInv'
    OBVIOUS
<1>1. load = "loaded" /\ load' = "open" /\ UNCHANGED <<stage, reviewed>>
    BY DEF Opens
<1>2. AsReviewed(StagePlane) /\ loaded' = <<StagePlane>>
    BY <1>1, StagePlaneAsReviewed DEF Opens
<1>3. SubmitsWhatWasReviewed'
    BY <1>1, <1>2, ReviewKept
<1>4. Stands' /\ Holds' /\ ~Loading'
    BY <1>1 DEF Stands, Holds, BothLoaded, Loading
<1>5. Documents(reviewed.artifact)'
    BY <1>1 DEF PlanInv, Documents, IsDocument
<1> QED
    BY <1>3, <1>4, <1>5 DEF PlanInv

LEMMA BeginsKeeps == PlanInv /\ Begins => PlanInv'
<1> SUFFICES ASSUME PlanInv, Begins PROVE PlanInv'
    OBVIOUS
<1>1. load' = "begun"
    BY DEF Begins
<1> QED
    BY <1>1, NotOpen DEF PlanInv, Stands, Holds, BothLoaded, Loading

LEMMA OthersKeep == PlanInv /\ UNCHANGED loadVars => PlanInv'
<1> SUFFICES ASSUME PlanInv, UNCHANGED loadVars PROVE PlanInv'
    OBVIOUS
<1>1. UNCHANGED <<stage, reviewed, file, load, held, loaded>>
    BY DEF loadVars
<1>2. SubmitsWhatWasReviewed'
    BY <1>1, StillReviewed DEF PlanInv
<1>3. Loading => FilesOK'
    BY <1>1, FilesKept DEF PlanInv
<1>4. load # "begun" => Documents(reviewed.artifact)'
    BY <1>1 DEF PlanInv, Documents, IsDocument
<1>5. Stands' /\ Loading' = Loading
    BY <1>1 DEF PlanInv, Stands, Loading
<1>6. Accepts(reviewed.artifact)' = Accepts(reviewed.artifact)
    BY <1>1, Zenon DEF Accepts
<1>7. Projected(reviewed.artifact)' = Projected(reviewed.artifact)
    BY <1>1, Zenon DEF Projected
<1>8. HeldIsReviewed' = HeldIsReviewed /\ BothLoaded' = BothLoaded
    BY <1>1 DEF HeldIsReviewed, BothLoaded, StageArtifact
<1>9. /\ PlaneIs(held["infra"])' = PlaneIs(held["infra"])
      /\ PlaneIs(held["mgmt"])' = PlaneIs(held["mgmt"])
    BY <1>1 DEF PlaneIs, Documents, IsDocument
<1>10. Holds'
    BY <1>1, <1>6, <1>7, <1>8, <1>9 DEF PlanInv, Holds
<1> QED
    BY <1>1, <1>2, <1>3, <1>4, <1>5, <1>10 DEF PlanInv

LEMMA NextPlanInv == PlanInv /\ [Next]_vars => PlanInv'
<1> SUFFICES ASSUME PlanInv, [Next]_vars PROVE PlanInv'
    OBVIOUS
<1>1. CASE Load
    BY <1>1, ReadManifestKeeps, VerifyArtifactKeeps, VerifyKeeps, ReverifyKeeps, LoadInfraKeeps,
       LoadMgmtKeeps, LoadPolicyKeeps, LoadArtifactKeeps, OpensKeeps, BeginsKeeps DEF Load
<1>2. CASE Refuse
    BY <1>2, RefuseKeeps
<1>3. CASE Edit
    BY <1>3, EditKeeps
<1>4. CASE Observe \/ Submits \/ ((LatePost \/ Others) /\ UNCHANGED loadVars) \/ UNCHANGED vars
  <2>1. UNCHANGED loadVars
      BY <1>4 DEF Observe, Submits, vars
  <2> QED
      BY <2>1, OthersKeep
<1> QED
    BY <1>1, <1>2, <1>3, <1>4 DEF Next

(***************************************************************************)
(* What is submitted is what was reviewed, in its order, whatever other    *)
(* processes wrote to the files while they were read: for any number of    *)
(* changes.  Only the provider Secret is added, once, directly after its   *)
(* Namespace and with the selected identity; and the observer of the       *)
(* target gets no right cluster-wide.                                      *)
(***************************************************************************)
THEOREM WhatWasReviewedIsSubmitted == Spec => []SubmitsWhatWasReviewed
<1>1. PlanInv => SubmitsWhatWasReviewed
    BY DEF PlanInv
<1> QED
    BY <1>1, InitPlanInv, NextPlanInv, PTL DEF Spec
=============================================================================
