------------------------- MODULE RuntimeBindingProofs -------------------------
(* Proofs about ReadOnlyStage and RuntimeBinding, for any number of         *)
(* processes, predecessors, paths and StorageClasses, and for both stores.  *)
(* A step of the record store is looked at once; the binding stage takes    *)
(* the same steps, and what it adds to the state is looked at beside it.    *)
EXTENDS RuntimeBinding, TLAPS

-----------------------------------------------------------------------------
(* The record store.                                                        *)
Storing == {"create", "write", "readBack"}

(* A run has a predecessor, and has returned nothing; one that stores has a *)
(* receipt of it, and a slot for it.                                        *)
RunKnows(p) ==
    /\ pc[p] # "idle" => cursor[p] \in Predecessor /\ reply[p].state = "NONE"
    /\ pc[p] \in Storing =>
          /\ receipt[p] \in StageReceipt
          /\ receipt[p].predecessor = cursor[p]
          /\ key[p] \in {Slot, receipt[p]}
    /\ pc[p] \notin Storing => key[p] = Slot
    /\ pc[p] \in {"loadSlot", "loadAttempt"} => retryOf[p] # Absent

(* A file that has been created and not yet written has one writer.         *)
WriterAlone ==
    \A p \in Process : pc[p] = "write" =>
        /\ fileBacked
        /\ record[key[p]] = Torn
        /\ \A q \in Process : pc[q] = "write" /\ key[q] = key[p] => q = p

(* What a run found when it began is still there when it looks.             *)
StillThere ==
    \A p \in Process :
        pc[p] = "inspect" /\ Recorded(found[p]) => record[Slot] = found[p]

(* What CompletedIsDurable and RetryRestsOnTerminal say of one process.     *)
Durable(p) ==
    /\ reply[p].state = "COMPLETED" =>
          /\ reply[p].receipt \in StageReceipt
          /\ reply[p].receipt \in {record[Slot], record[reply[p].receipt]}
    /\ retryOf[p] = Absent /\ Recorded(found[p]) =>
          /\ pc[p] \in {"idle", "inspect"}
          /\ reply[p].state = "COMPLETED" => reply[p].receipt = found[p]

Resting(p) ==
    retryOf[p] # Absent /\ pc[p] \in {"observe", "create", "write", "readBack"} =>
        /\ retryOf[p] \in {record[Slot], record[retryOf[p]]}
        /\ retryOf[p].predecessor = cursor[p]
        /\ retryOf[p].result.outcome # "SUCCEEDED"

StoreInv ==
    /\ TypeOK /\ WriterAlone /\ StillThere
    /\ \A p \in Process : RunKnows(p) /\ Durable(p) /\ Resting(p)

-----------------------------------------------------------------------------
(* The binding stage.                                                       *)
BindingTyped ==
    /\ kind \in {"other", "secret", "file"}
    /\ kind # "other" => ~fileBacked
    /\ storage \in 0..MaxUid
    /\ secret \in Materials \cup {Absent, Foreign}
    /\ late \subseteq Materials
    /\ output \in [Outputs -> Materials \cup {Absent, Torn}]
    /\ handed \in [Outputs -> Materials \cup {Absent, Torn}]
    /\ path \in [Process -> Outputs \cup {Absent}]
    /\ bind \in [Process -> [at : {"poll", "build", "persist", "get", "write", "done"},
                             uid : 0..MaxUid]]

(* A binder beyond its poll has an identity, and one that was begun for a   *)
(* file has a path.                                                         *)
BinderKnows(p) ==
    /\ bind[p].at \in {"build", "persist", "get", "write"} => bind[p].uid \in 1..MaxUid
    /\ kind = "file" /\ (pc[p] # "idle" \/ bind[p].at = "done") => path[p] \in Outputs
    /\ pc[p] \in {"inspect", "loadSlot", "loadAttempt"} => bind[p].at = "poll"

(* A file of a binder that is still to be written is its alone.             *)
FileAlone ==
    \A p \in Process : Binding(p, "write") =>
        /\ kind = "file" /\ output[path[p]] = Torn
        /\ \A q \in Process : Binding(q, "write") /\ path[q] = path[p] => q = p

(* The material a success is evidence of is in the Secret.                  *)
Backed(r) ==
    kind = "secret" /\ r.result.outcome = "SUCCEEDED" =>
        secret = MaterialOf(r) /\ secret \in Materials

(* The receipt a binder made is of the identity it keeps.                   *)
OwnEvidence(p, r) ==
    kind # "other" /\ bind[p].at = "done" /\ r.result.outcome = "SUCCEEDED" =>
        bind[p].uid \in 1..MaxUid /\ r.result.evidence[1] = bind[p].uid

ReceiptsBacked ==
    /\ \A r \in OnRecord : Backed(r)
    /\ \A p \in Process : pc[p] \in Storing => Backed(receipt[p]) /\ OwnEvidence(p, receipt[p])
    /\ \A p \in Process : reply[p].state = "COMPLETED" => OwnEvidence(p, reply[p].receipt)

(* What was handed on is the file, and its success is on record.            *)
HandedBacked ==
    \A o \in Outputs : handed[o] \in Materials =>
        /\ output[o] = handed[o]
        /\ \E r \in OnRecord : r.result.outcome = "SUCCEEDED" /\ MaterialOf(r) = handed[o]

BindingInv ==
    /\ StoreInv /\ BindingTyped /\ FileAlone /\ ReceiptsBacked /\ HandedBacked
    /\ \A p \in Process : BinderKnows(p)

-----------------------------------------------------------------------------
LEMMA InitStore == Init => StoreInv
<1> SUFFICES ASSUME Init PROVE StoreInv
    OBVIOUS
<1>1. TypeOK
    BY DEF Init, TypeOK, Step, NoReply, Key
<1>2. \A p \in Process :
         pc[p] = "idle" /\ key[p] = Slot /\ retryOf[p] = Absent /\ found[p] = Absent
            /\ reply[p].state = "NONE"
    BY DEF Init, NoReply
<1>3. \A p \in Process : ~Recorded(found[p])
    BY <1>2, ReadOnlyStageAssumption DEF Recorded
<1> QED
    BY <1>1, <1>2, <1>3
       DEF StoreInv, WriterAlone, StillThere, RunKnows, Storing, Durable, Resting

(* A step of one run leaves the others alone.  It creates a record only     *)
(* where there is none, and completes only what it has created.             *)
RecordGrows(p) ==
    \A k \in Key :
        \/ record'[k] = record[k]
        \/ record[k] = Absent /\ record'[k] # Absent
        \/ /\ record[k] = Torn /\ pc[p] = "write" /\ k = key[p]
           /\ record'[k] \in StageReceipt

OwnStep(p) ==
    /\ fileBacked' = fileBacked
    /\ RecordGrows(p)
    /\ \A q \in Process \ {p} :
          /\ pc'[q] = pc[q] /\ cursor'[q] = cursor[q] /\ retryOf'[q] = retryOf[q]
          /\ receipt'[q] = receipt[q] /\ key'[q] = key[q]
          /\ reply'[q] = reply[q] /\ found'[q] = found[q]
    /\ pc'[p] = "write" =>
          fileBacked /\ record[key'[p]] = Absent /\ record'[key'[p]] = Torn
    /\ pc'[p] = "inspect" => found'[p] = record'[Slot]

LEMMA Kept ==
    ASSUME StoreInv, NEW p \in Process, RecordGrows(p)
    PROVE  /\ \A k \in Key : Recorded(record[k]) => record'[k] = record[k]
           /\ \A k \in Key : record[k] # Absent => record'[k] # Absent
           /\ \A r \in StageReceipt :
                 r \in {record[Slot], record[r]} => r \in {record'[Slot], record'[r]}
<1>1. Absent # Torn /\ Absent \notin StageReceipt /\ Torn \notin StageReceipt
    BY ReadOnlyStageAssumption
<1>2. \A k \in Key : Recorded(record[k]) => record'[k] = record[k]
    BY <1>1 DEF RecordGrows, Recorded
<1>3. \A k \in Key : record[k] # Absent => record'[k] # Absent
    BY <1>1 DEF RecordGrows
<1>4. Slot \in Key /\ StageReceipt \subseteq Key
    BY DEF Key
<1> QED
    BY <1>2, <1>3, <1>4 DEF Recorded

LEMMA StoreFrame ==
    ASSUME StoreInv, NEW p \in Process, OwnStep(p), TypeOK',
           RunKnows(p)', Durable(p)', Resting(p)'
    PROVE  StoreInv'
<1>1. RecordGrows(p) /\ TypeOK
    BY DEF OwnStep, StoreInv
<1>2. Slot \in Key /\ StageReceipt \subseteq Key
    BY DEF Key
<1>3. WriterAlone'
  <2> SUFFICES ASSUME NEW q \in Process, pc'[q] = "write"
               PROVE  /\ fileBacked' /\ record'[key'[q]] = Torn
                      /\ \A r \in Process : pc'[r] = "write" /\ key'[r] = key'[q] => r = q
      BY DEF WriterAlone
  <2>1. Torn # Absent /\ Torn \notin StageReceipt
      BY ReadOnlyStageAssumption
  <2>2. CASE q = p
    <3>1. fileBacked' /\ record[key'[p]] = Absent /\ record'[key'[p]] = Torn
        BY <2>2 DEF OwnStep
    <3>2. ASSUME NEW r \in Process, pc'[r] = "write", key'[r] = key'[p], r # p PROVE FALSE
      <4>1. pc[r] = "write" /\ key[r] = key'[p]
          BY <3>2 DEF OwnStep
      <4>2. record[key[r]] = Torn
          BY <4>1 DEF StoreInv, WriterAlone
      <4> QED
          BY <2>1, <3>1, <4>1, <4>2
    <3> QED
        BY <2>2, <3>1, <3>2
  <2>3. CASE q # p
    <3>1. pc[q] = "write" /\ key'[q] = key[q]
        BY <2>3 DEF OwnStep
    <3>2. /\ fileBacked /\ record[key[q]] = Torn /\ key[q] \in Key
          /\ \A r \in Process : pc[r] = "write" /\ key[r] = key[q] => r = q
        BY <1>1, <3>1 DEF StoreInv, WriterAlone, TypeOK
    <3>3. record'[key[q]] = Torn
        BY <1>1, <2>1, <2>3, <3>2 DEF RecordGrows
    <3>4. ASSUME NEW r \in Process, pc'[r] = "write", key'[r] = key[q] PROVE r = q
      <4>1. CASE r = p
          BY <2>1, <3>2, <3>4, <4>1 DEF OwnStep
      <4>2. CASE r # p
          BY <3>2, <3>4, <4>2 DEF OwnStep
      <4> QED
          BY <4>1, <4>2
    <3> QED
        BY <3>1, <3>2, <3>3, <3>4 DEF OwnStep
  <2> QED
      BY <2>2, <2>3
<1>4. StillThere'
  <2> SUFFICES ASSUME NEW q \in Process, pc'[q] = "inspect", Recorded(found'[q])
               PROVE  record'[Slot] = found'[q]
      BY DEF StillThere, Recorded
  <2>1. CASE q = p
      BY <2>1 DEF OwnStep
  <2>2. CASE q # p
    <3>1. pc[q] = "inspect" /\ found'[q] = found[q]
        BY <2>2 DEF OwnStep
    <3>2. record[Slot] = found[q]
        BY <3>1 DEF StoreInv, StillThere
    <3> QED
        BY <1>1, <1>2, <3>1, <3>2, Kept
  <2> QED
      BY <2>1, <2>2
<1>5. ASSUME NEW q \in Process, q # p
      PROVE  RunKnows(q)' /\ Durable(q)' /\ Resting(q)'
  <2>1. /\ pc'[q] = pc[q] /\ cursor'[q] = cursor[q] /\ retryOf'[q] = retryOf[q]
        /\ receipt'[q] = receipt[q] /\ key'[q] = key[q]
        /\ reply'[q] = reply[q] /\ found'[q] = found[q]
      BY <1>5 DEF OwnStep
  <2>2. RunKnows(q) /\ Durable(q) /\ Resting(q)
      BY DEF StoreInv
  <2>3. \A r \in StageReceipt :
           r \in {record[Slot], record[r]} => r \in {record'[Slot], record'[r]}
      BY <1>1, Kept
  <2>4. retryOf[q] # Absent => retryOf[q] \in StageReceipt
      BY <1>1 DEF TypeOK
  <2>5. RunKnows(q)'
      BY <2>1, <2>2 DEF RunKnows
  <2>6. Durable(q)'
      BY <2>1, <2>2, <2>3 DEF Durable, Recorded
  <2>7. Resting(q)'
      BY <2>1, <2>2, <2>3, <2>4 DEF Resting
  <2> QED
      BY <2>5, <2>6, <2>7
<1> QED
    BY <1>3, <1>4, <1>5 DEF StoreInv

(* A run returns: with nothing, or with a receipt that is on record.        *)
LEMMA Returns ==
    ASSUME StoreInv, NEW p \in Process, NEW state, NEW r, Return(p, state, r),
           fileBacked' = fileBacked, RecordGrows(p),
           record' \in [Key -> StageReceipt \cup {Absent, Torn}],
           \/ state \in {"NONE", "PRE"} /\ r = Absent
           \/ /\ state = "COMPLETED" /\ r \in StageReceipt
              /\ r \in {record'[Slot], record'[r]}
              /\ retryOf[p] = Absent /\ Recorded(found[p]) => r = found[p]
    PROVE  StoreInv'
<1>1. TypeOK
    BY DEF StoreInv
<1>2. /\ pc' = [pc EXCEPT ![p] = "idle"]
      /\ reply' = [reply EXCEPT ![p] = [state |-> state, receipt |-> r]]
      /\ cursor' = [cursor EXCEPT ![p] = Absent]
      /\ receipt' = [receipt EXCEPT ![p] = Absent]
      /\ key' = [key EXCEPT ![p] = Slot]
      /\ UNCHANGED <<retryOf, found>>
    BY DEF Return, Goto
<1>3. TypeOK'
    BY <1>1, <1>2 DEF TypeOK, Step, Key
<1>4. /\ pc'[p] = "idle" /\ key'[p] = Slot
      /\ reply'[p].state = state /\ reply'[p].receipt = r
    BY <1>1, <1>2 DEF TypeOK
<1>5. OwnStep(p)
    BY <1>1, <1>2, <1>4 DEF OwnStep, TypeOK
<1>6. RunKnows(p)' /\ Resting(p)'
    BY <1>4 DEF RunKnows, Resting, Storing
<1>7. Durable(p)'
    BY <1>2, <1>4 DEF Durable, Recorded
<1> QED
    BY <1>3, <1>5, <1>6, <1>7, StoreFrame

(* A run goes on with what it has.                                          *)
LEMMA Moves ==
    ASSUME StoreInv, NEW p \in Process, NEW l, Continue(p, l),
           l \in Step \ {"idle", "inspect"}, pc[p] # "idle",
           fileBacked' = fileBacked, RecordGrows(p),
           record' \in [Key -> StageReceipt \cup {Absent, Torn}],
           l \in Storing <=> pc[p] \in Storing,
           l \in {"loadSlot", "loadAttempt"} => retryOf[p] # Absent,
           l = "write" => fileBacked /\ record[key[p]] = Absent /\ record'[key[p]] = Torn,
           ~(retryOf[p] = Absent /\ Recorded(found[p])),
           \/ retryOf[p] = Absent
           \/ l \in {"loadSlot", "loadAttempt"}
           \/ pc[p] \in {"observe", "create", "write", "readBack"}
           \/ /\ retryOf[p] \in {record[Slot], record[retryOf[p]]}
              /\ retryOf[p].predecessor = cursor[p]
              /\ retryOf[p].result.outcome # "SUCCEEDED"
    PROVE  StoreInv'
<1>1. TypeOK /\ RunKnows(p) /\ Durable(p) /\ Resting(p)
    BY DEF StoreInv
<1>2. /\ pc' = [pc EXCEPT ![p] = l]
      /\ UNCHANGED <<cursor, retryOf, receipt, key, reply, found>>
    BY DEF Continue, Goto
<1>3. TypeOK'
    BY <1>1, <1>2 DEF TypeOK
<1>4. pc'[p] = l
    BY <1>1, <1>2 DEF TypeOK
<1>5. OwnStep(p)
    BY <1>1, <1>2, <1>4 DEF OwnStep, TypeOK
<1>6. \A r \in StageReceipt :
         r \in {record[Slot], record[r]} => r \in {record'[Slot], record'[r]}
    BY Kept
<1>7. RunKnows(p)'
    BY <1>1, <1>2, <1>4 DEF RunKnows
<1>8. Durable(p)'
    BY <1>1, <1>2, <1>6 DEF Durable, Recorded
<1>9. retryOf[p] # Absent => retryOf[p] \in StageReceipt
    BY <1>1 DEF TypeOK
<1>10. Resting(p)'
    BY <1>1, <1>2, <1>4, <1>6, <1>9 DEF Resting
<1> QED
    BY <1>3, <1>5, <1>7, <1>8, <1>10, StoreFrame

LEMMA FailKeeps ==
    ASSUME StoreInv, NEW p \in Process, NEW state \in {"NONE", "PRE"},
           Return(p, state, Absent), UNCHANGED <<fileBacked, record>>
    PROVE  StoreInv'
BY Returns DEF RecordGrows, StoreInv, TypeOK

LEMMA StartKeeps ==
    ASSUME StoreInv, NEW p \in Process, NEW pred \in Predecessor,
           NEW r \in StageReceipt \cup {Absent}, Start(p, pred, r)
    PROVE  StoreInv'
<1>1. TypeOK /\ RunKnows(p) /\ pc[p] = "idle"
    BY DEF StoreInv, Start
<1>2. /\ pc' = [pc EXCEPT ![p] = "inspect"]
      /\ cursor' = [cursor EXCEPT ![p] = pred]
      /\ retryOf' = [retryOf EXCEPT ![p] = r]
      /\ reply' = [reply EXCEPT ![p] = NoReply]
      /\ found' = [found EXCEPT ![p] = record[Slot]]
      /\ UNCHANGED <<fileBacked, record, receipt, key>>
    BY DEF Start, Goto
<1>3. TypeOK'
    BY <1>1, <1>2 DEF TypeOK, Step, NoReply, Key
<1>4. /\ pc'[p] = "inspect" /\ cursor'[p] = pred /\ reply'[p].state = "NONE"
      /\ found'[p] = record[Slot] /\ key'[p] = Slot
    BY <1>1, <1>2 DEF TypeOK, NoReply, RunKnows, Storing
<1>5. OwnStep(p)
    BY <1>1, <1>2, <1>4 DEF OwnStep, RecordGrows, TypeOK
<1>6. RunKnows(p)' /\ Durable(p)' /\ Resting(p)'
    BY <1>4 DEF RunKnows, Durable, Resting, Storing
<1> QED
    BY <1>3, <1>5, <1>6, StoreFrame

LEMMA InspectKeeps ==
    ASSUME StoreInv, NEW p \in Process, InspectStageReceipt(p)
    PROVE  StoreInv'
<1>1. /\ TypeOK /\ pc[p] = "inspect" /\ UNCHANGED <<fileBacked, record>> /\ RecordGrows(p)
      /\ record' \in [Key -> StageReceipt \cup {Absent, Torn}]
    BY DEF StoreInv, InspectStageReceipt, RecordGrows, TypeOK
<1>2. Recorded(found[p]) => record[Slot] = found[p]
    BY <1>1 DEF StoreInv, StillThere
<1>3. Absent \notin StageReceipt
    BY ReadOnlyStageAssumption
<1>4. CASE NotFound(record[Slot]) /\ retryOf[p] = Absent /\ Continue(p, "observe")
    BY <1>1, <1>2, <1>3, <1>4, Moves DEF NotFound, Recorded, Step, Storing
<1>5. CASE BoundTo(record[Slot], cursor[p]) /\ retryOf[p] = Absent /\ Completed(p, record[Slot])
    BY <1>1, <1>2, <1>5, Returns DEF BoundTo, Recorded, Completed
<1>6. CASE BoundTo(record[Slot], cursor[p]) /\ retryOf[p] # Absent /\ Continue(p, "loadSlot")
    BY <1>1, <1>6, Moves DEF Step, Storing
<1>7. CASE Fail(p)
    BY <1>1, <1>7, FailKeeps DEF Fail
<1> QED
    BY <1>4, <1>5, <1>6, <1>7 DEF InspectStageReceipt

LEMMA LoadKeeps ==
    ASSUME StoreInv, NEW p \in Process, LoadFromSlot(p) \/ LoadFromAttempt(p)
    PROVE  StoreInv'
<1>1. /\ TypeOK /\ pc[p] \in {"loadSlot", "loadAttempt"}
      /\ UNCHANGED <<fileBacked, record>> /\ RecordGrows(p)
      /\ record' \in [Key -> StageReceipt \cup {Absent, Torn}]
    BY DEF StoreInv, LoadFromSlot, LoadFromAttempt, RecordGrows, TypeOK
<1>2. retryOf[p] # Absent
    BY <1>1 DEF StoreInv, RunKnows
<1>3. CASE \E r : /\ r = retryOf[p] /\ r \in {record[Slot], record[r]} /\ MayRetry(p, r)
                  /\ Continue(p, "observe")
  <2>1. /\ retryOf[p] \in {record[Slot], record[retryOf[p]]}
        /\ retryOf[p].predecessor = cursor[p]
        /\ retryOf[p].result.outcome # "SUCCEEDED"
      BY <1>3, ReadOnlyStageAssumption DEF MayRetry, BoundTo
  <2> QED
      BY <1>1, <1>2, <1>3, <2>1, Moves DEF Step, Storing
<1>4. CASE Continue(p, "loadAttempt")
    BY <1>1, <1>2, <1>4, Moves DEF Step, Storing
<1>5. CASE Fail(p)
    BY <1>1, <1>5, FailKeeps DEF Fail
<1> QED
    BY <1>3, <1>4, <1>5 DEF LoadFromSlot, LoadFromAttempt

LEMMA ObserveKeeps ==
    ASSUME StoreInv, NEW p \in Process, NEW res \in Result, Observe(p, res)
    PROVE  StoreInv'
<1>1. /\ TypeOK /\ pc[p] = "observe" /\ UNCHANGED <<fileBacked, record>>
      /\ RunKnows(p) /\ Durable(p) /\ Resting(p)
    BY DEF StoreInv, Observe
<1>2. CASE Fail(p)
    BY <1>1, <1>2, FailKeeps DEF Fail
<1>3. CASE /\ receipt' = [receipt EXCEPT ![p] = [predecessor |-> cursor[p], result |-> res]]
           /\ pc' = [pc EXCEPT ![p] = "create"]
           /\ UNCHANGED <<cursor, retryOf, key, reply, found>>
  <2>1. cursor[p] \in Predecessor /\ key[p] = Slot /\ reply[p].state = "NONE"
      BY <1>1 DEF RunKnows, Storing
  <2>2. [predecessor |-> cursor[p], result |-> res] \in StageReceipt
      BY <2>1 DEF StageReceipt
  <2>3. TypeOK'
      BY <1>1, <1>3, <2>2 DEF TypeOK, Step
  <2>4. /\ pc'[p] = "create" /\ receipt'[p] = [predecessor |-> cursor[p], result |-> res]
        /\ receipt'[p].predecessor = cursor[p]
      BY <1>1, <1>3 DEF TypeOK
  <2>5. OwnStep(p)
      BY <1>1, <1>3, <2>4 DEF OwnStep, RecordGrows, TypeOK
  <2>6. RunKnows(p)'
      BY <1>3, <2>1, <2>2, <2>4 DEF RunKnows, Storing
  <2>7. Durable(p)' /\ Resting(p)'
      BY <1>1, <1>3, <2>4 DEF Durable, Resting
  <2> QED
      BY <2>3, <2>5, <2>6, <2>7, StoreFrame
<1> QED
    BY <1>2, <1>3 DEF Observe, Goto

LEMMA CreateKeeps ==
    ASSUME StoreInv, NEW p \in Process, Create(p)
    PROVE  StoreInv'
<1> DEFINE k == key[p]
<1>1. /\ TypeOK /\ pc[p] = "create" /\ fileBacked' = fileBacked
      /\ ~(retryOf[p] = Absent /\ Recorded(found[p]))
    BY DEF StoreInv, Create, Durable
<1>2. receipt[p] \in StageReceipt /\ k \in {Slot, receipt[p]} /\ k \in Key /\ Slot \in Key
    BY <1>1 DEF StoreInv, RunKnows, Storing, Key
<1>3. Absent # Torn /\ Absent # receipt[p]
    BY <1>2, ReadOnlyStageAssumption
<1>4. CASE /\ record[k] = Absent /\ fileBacked /\ record' = [record EXCEPT ![k] = Torn]
           /\ Continue(p, "write")
  <2>1. /\ record' \in [Key -> StageReceipt \cup {Absent, Torn}] /\ record'[k] = Torn
        /\ RecordGrows(p)
      BY <1>1, <1>2, <1>3, <1>4 DEF TypeOK, RecordGrows
  <2> QED
      BY <1>1, <1>4, <2>1, Moves DEF Step, Storing
<1>5. CASE /\ record[k] = Absent /\ record' = [record EXCEPT ![k] = receipt[p]]
           /\ Completed(p, receipt[p]) \/ Fail(p)
  <2>1. /\ record' \in [Key -> StageReceipt \cup {Absent, Torn}] /\ record'[k] = receipt[p]
        /\ RecordGrows(p)
      BY <1>1, <1>2, <1>3, <1>5 DEF TypeOK, RecordGrows
  <2>2. receipt[p] \in {record'[Slot], record'[receipt[p]]}
      BY <1>2, <2>1
  <2> QED
      BY <1>1, <1>2, <1>5, <2>1, <2>2, Returns DEF Completed, Fail
<1>6. CASE UNCHANGED record /\ (Continue(p, "readBack") \/ Fail(p))
  <2>1. record' \in [Key -> StageReceipt \cup {Absent, Torn}] /\ RecordGrows(p)
      BY <1>1, <1>6 DEF TypeOK, RecordGrows
  <2>2. CASE Continue(p, "readBack")
      BY <1>1, <2>1, <2>2, Moves DEF Step, Storing
  <2>3. CASE Fail(p)
      BY <1>1, <1>6, <2>3, FailKeeps DEF Fail
  <2> QED
      BY <1>6, <2>2, <2>3
<1> QED
    BY <1>4, <1>5, <1>6 DEF Create, Creatable

LEMMA WriteKeeps ==
    ASSUME StoreInv, NEW p \in Process, Write(p)
    PROVE  StoreInv'
<1> DEFINE k == key[p]
<1>1. /\ TypeOK /\ pc[p] = "write" /\ fileBacked' = fileBacked
      /\ ~(retryOf[p] = Absent /\ Recorded(found[p]))
    BY DEF StoreInv, Write, Durable
<1>2. receipt[p] \in StageReceipt /\ k \in {Slot, receipt[p]} /\ k \in Key /\ Slot \in Key
    BY <1>1 DEF StoreInv, RunKnows, Storing, Key
<1>3. record[k] = Torn
    BY <1>1 DEF StoreInv, WriterAlone
<1>4. CASE record' = [record EXCEPT ![k] = receipt[p]] /\ (Completed(p, receipt[p]) \/ Fail(p))
  <2>1. /\ record' \in [Key -> StageReceipt \cup {Absent, Torn}] /\ record'[k] = receipt[p]
        /\ RecordGrows(p)
      BY <1>1, <1>2, <1>3, <1>4 DEF TypeOK, RecordGrows
  <2>2. receipt[p] \in {record'[Slot], record'[receipt[p]]}
      BY <1>2, <2>1
  <2> QED
      BY <1>1, <1>2, <1>4, <2>1, <2>2, Returns DEF Completed, Fail
<1>5. CASE UNCHANGED record /\ Fail(p)
    BY <1>1, <1>5, FailKeeps DEF Fail
<1> QED
    BY <1>4, <1>5 DEF Write

LEMMA ReadBackKeeps ==
    ASSUME StoreInv, NEW p \in Process, ReadBack(p)
    PROVE  StoreInv'
<1>1. /\ TypeOK /\ pc[p] = "readBack" /\ UNCHANGED <<fileBacked, record>>
      /\ RunKnows(p) /\ Durable(p) /\ Resting(p)
      /\ ~(retryOf[p] = Absent /\ Recorded(found[p]))
    BY DEF StoreInv, ReadBack, Durable
<1>2. receipt[p] \in StageReceipt /\ key[p] \in {Slot, receipt[p]}
    BY <1>1 DEF RunKnows, Storing
<1>3. /\ record' \in [Key -> StageReceipt \cup {Absent, Torn}] /\ RecordGrows(p)
    BY <1>1 DEF TypeOK, RecordGrows
<1>4. CASE record[key[p]] = receipt[p] /\ Completed(p, receipt[p])
    BY <1>1, <1>2, <1>3, <1>4, Returns DEF Completed
<1>5. CASE Fail(p)
    BY <1>1, <1>5, FailKeeps DEF Fail
<1>6. CASE /\ key' = [key EXCEPT ![p] = receipt[p]] /\ pc' = [pc EXCEPT ![p] = "create"]
           /\ UNCHANGED <<cursor, retryOf, receipt, reply, found>>
  <2>1. TypeOK'
      BY <1>1, <1>2, <1>6 DEF TypeOK, Step, Key
  <2>2. pc'[p] = "create" /\ key'[p] = receipt[p]
      BY <1>1, <1>6 DEF TypeOK
  <2>3. OwnStep(p)
      BY <1>1, <1>3, <1>6, <2>2 DEF OwnStep, TypeOK
  <2>4. RunKnows(p)' /\ Durable(p)' /\ Resting(p)'
      BY <1>1, <1>6, <2>2 DEF RunKnows, Storing, Durable, Resting
  <2> QED
      BY <2>1, <2>3, <2>4, StoreFrame
<1> QED
    BY <1>4, <1>5, <1>6 DEF ReadBack, ExactReplay, Goto

LEMMA CrashKeeps ==
    ASSUME StoreInv, NEW p \in Process, Crash(p)
    PROVE  StoreInv'
BY FailKeeps DEF Crash

LEMMA RecordsKeep ==
    ASSUME StoreInv, NEW p \in Process, Records(p)
    PROVE  StoreInv'
BY InspectKeeps, LoadKeeps, CreateKeeps, WriteKeeps, ReadBackKeeps DEF Records

LEMMA StutterKeeps ==
    ASSUME StoreInv, UNCHANGED vars
    PROVE  StoreInv'
BY DEF StoreInv, TypeOK, WriterAlone, StillThere, RunKnows, Durable, Resting, vars, local

LEMMA NextStore == StoreInv /\ [Next]_vars => StoreInv'
<1> SUFFICES ASSUME StoreInv, [Next]_vars PROVE StoreInv'
    OBVIOUS
<1>1. ASSUME NEW p \in Process, NEW pred \in Predecessor, Run(p, pred) PROVE StoreInv'
    BY <1>1, StartKeeps DEF Run
<1>2. ASSUME NEW p \in Process, NEW pred \in Predecessor, NEW r \in StageReceipt,
             Retry(p, pred, r)
      PROVE  StoreInv'
    BY <1>2, StartKeeps DEF Retry
<1>3. ASSUME NEW p \in Process, Records(p) \/ Crash(p) PROVE StoreInv'
    BY <1>3, RecordsKeep, CrashKeeps
<1>4. ASSUME NEW p \in Process, NEW res \in Result, Observe(p, res) PROVE StoreInv'
    BY <1>4, ObserveKeeps
<1> QED
    BY <1>1, <1>2, <1>3, <1>4, StutterKeeps DEF Next, Records

-----------------------------------------------------------------------------
(* The binding stage.  A receipt that is backed stays backed, since the     *)
(* Secret is never replaced.                                                *)
LEMMA RecordedOnly ==
    ASSUME TypeOK
    PROVE  /\ OnRecord \subseteq StageReceipt
           /\ \A r \in StageReceipt : r \in OnRecord <=> \E k \in Key : record[k] = r
BY ReadOnlyStageAssumption DEF TypeOK, OnRecord

LEMMA OnRecordGrows ==
    ASSUME StoreInv, StoreInv', NEW p \in Process, RecordGrows(p)
    PROVE  OnRecord \subseteq OnRecord'
<1>1. TypeOK /\ TypeOK'
    BY DEF StoreInv
<1>2. ASSUME NEW r \in OnRecord PROVE r \in OnRecord'
  <2>1. r \in StageReceipt /\ \E k \in Key : record[k] = r
      BY <1>1, RecordedOnly
  <2>2. \E k \in Key : record'[k] = r
      BY <2>1, Kept DEF Recorded
  <2>3. r # Absent /\ r # Torn
      BY <2>1, ReadOnlyStageAssumption
  <2> QED
      BY <2>2, <2>3 DEF OnRecord
<1> QED
    BY <1>2

LEMMA BindingFrame ==
    ASSUME BindingInv, NEW p \in Process, StoreInv', BindingTyped', UNCHANGED kind,
           \A q \in Process \ {p} :
              /\ pc'[q] = pc[q] /\ cursor'[q] = cursor[q] /\ receipt'[q] = receipt[q]
              /\ reply'[q] = reply[q] /\ bind'[q] = bind[q] /\ path'[q] = path[q],
           secret' = secret \/ secret = Absent,
           \A o \in Outputs :
              \/ output'[o] = output[o]
              \/ output[o] = Absent
              \/ Binding(p, "write") /\ o = path[p],
           OnRecord \subseteq OnRecord',
           \A r \in OnRecord' : r \in OnRecord \/ (pc[p] \in Storing /\ r = receipt[p]),
           BinderKnows(p)',
           pc'[p] \in Storing => Backed(receipt[p])' /\ OwnEvidence(p, receipt[p])',
           reply'[p].state = "COMPLETED" => OwnEvidence(p, reply[p].receipt)',
           Binding(p, "write")' =>
              kind = "file" /\ output[path'[p]] = Absent /\ output'[path'[p]] = Torn,
           \A o \in Outputs : handed'[o] \in Materials =>
              \/ handed'[o] = handed[o]
              \/ /\ output'[o] = handed'[o]
                 /\ \E r \in OnRecord' :
                       r.result.outcome = "SUCCEEDED" /\ MaterialOf(r) = handed'[o]
    PROVE  BindingInv'
<1>1. Absent \notin Materials /\ Torn \notin Materials /\ Absent # Torn
    BY ReadOnlyStageAssumption, RuntimeBindingAssumption
<1>2. BindingTyped /\ FileAlone /\ ReceiptsBacked /\ HandedBacked
    BY DEF BindingInv
<1>3. \A r : Backed(r) => Backed(r)'
    BY <1>1 DEF Backed
<1>4. ASSUME NEW q \in Process, q # p
      PROVE  /\ BinderKnows(q)'
             /\ Binding(q, "write")' <=> Binding(q, "write")
             /\ \A r : OwnEvidence(q, r)' <=> OwnEvidence(q, r)
  <2>1. /\ pc'[q] = pc[q] /\ bind'[q] = bind[q] /\ path'[q] = path[q] /\ kind' = kind
      BY <1>4
  <2> QED
      BY <2>1 DEF BindingInv, BinderKnows, Binding, OwnEvidence
<1>5. FileAlone'
  <2> SUFFICES ASSUME NEW q \in Process, Binding(q, "write")'
               PROVE  /\ kind = "file" /\ output'[path'[q]] = Torn
                      /\ \A r \in Process :
                            Binding(r, "write")' /\ path'[r] = path'[q] => r = q
      BY DEF FileAlone
  <2>1. \A r \in Process \ {p} : Binding(r, "write")' =>
           output[path'[r]] = Torn /\ Binding(r, "write") /\ path'[r] = path[r]
      BY <1>2, <1>4 DEF FileAlone
  <2>2. CASE q = p
      BY <1>1, <2>1, <2>2
  <2>3. CASE q # p
    <3>1. Binding(q, "write") /\ path'[q] = path[q] /\ output[path[q]] = Torn
        BY <2>1, <2>3
    <3>2. /\ kind = "file" /\ path[q] \in Outputs
          /\ \A r \in Process : Binding(r, "write") /\ path[r] = path[q] => r = q
        BY <1>2, <3>1 DEF FileAlone, BindingInv, BinderKnows, Binding
    <3>3. output'[path[q]] = Torn
        BY <1>1, <2>3, <3>1, <3>2
    <3> QED
        BY <1>1, <2>1, <3>1, <3>2, <3>3
  <2> QED
      BY <2>2, <2>3
<1>6. ReceiptsBacked'
  <2>1. \A r \in OnRecord' : Backed(r)'
      BY <1>2, <1>3 DEF ReceiptsBacked
  <2>2. ASSUME NEW q \in Process
        PROVE  /\ pc'[q] \in Storing => Backed(receipt[q])' /\ OwnEvidence(q, receipt[q])'
               /\ reply'[q].state = "COMPLETED" => OwnEvidence(q, reply[q].receipt)'
    <3>1. CASE q = p
        BY <3>1
    <3>2. CASE q # p
      <4>1. /\ pc'[q] = pc[q] /\ receipt'[q] = receipt[q] /\ reply'[q] = reply[q]
            /\ bind'[q] = bind[q]
          BY <3>2
      <4>2. /\ pc[q] \in Storing => Backed(receipt[q]) /\ OwnEvidence(q, receipt[q])
            /\ reply[q].state = "COMPLETED" => OwnEvidence(q, reply[q].receipt)
          BY <1>2 DEF ReceiptsBacked
      <4>3. Backed(receipt[q]) => Backed(receipt[q])'
          BY <1>1, <4>1 DEF Backed
      <4> QED
          BY <4>1, <4>2, <4>3 DEF OwnEvidence
    <3> QED
        BY <3>1, <3>2
  <2> QED
      BY <2>1, <2>2 DEF ReceiptsBacked
<1>7. HandedBacked'
  <2> SUFFICES ASSUME NEW o \in Outputs, handed'[o] \in Materials
               PROVE  /\ output'[o] = handed'[o]
                      /\ \E r \in OnRecord' :
                            r.result.outcome = "SUCCEEDED" /\ MaterialOf(r) = handed'[o]
      BY DEF HandedBacked, Materials
  <2>1. CASE handed'[o] = handed[o]
    <3>1. output[o] = handed[o] /\ output[o] # Absent /\ output[o] # Torn
        BY <1>1, <1>2, <2>1 DEF HandedBacked
    <3>2. Binding(p, "write") => o # path[p]
        BY <1>2, <3>1 DEF FileAlone
    <3>3. \E r \in OnRecord : r.result.outcome = "SUCCEEDED" /\ MaterialOf(r) = handed[o]
        BY <1>2, <2>1 DEF HandedBacked
    <3> QED
        BY <2>1, <3>1, <3>2, <3>3
  <2> QED
      BY <2>1
<1>8. \A q \in Process : BinderKnows(q)'
    BY <1>4
<1> QED
    BY <1>5, <1>6, <1>7, <1>8 DEF BindingInv

(* What a call of the record store does to the run that makes it.           *)
Reading == {"inspect", "loadSlot", "loadAttempt"}

RecordsStep(p) ==
    /\ \A q \in Process \ {p} :
          /\ pc'[q] = pc[q] /\ cursor'[q] = cursor[q] /\ receipt'[q] = receipt[q]
          /\ reply'[q] = reply[q]
    /\ pc[p] \in Reading \cup Storing
    /\ pc'[p] \in Storing => pc[p] \in Storing /\ receipt'[p] = receipt[p]
    /\ pc'[p] \in Reading => pc[p] \in Reading
    /\ pc'[p] = "observe" => pc[p] \in Reading
    /\ reply'[p].state = "COMPLETED" =>
          \/ reply'[p] = reply[p]
          \/ pc[p] \in Reading
          \/ pc[p] \in Storing /\ reply'[p].receipt = receipt[p]
    /\ \A k \in Key :
          \/ record'[k] = record[k]
          \/ record'[k] = Torn
          \/ pc[p] \in Storing /\ record'[k] = receipt[p]

LEMMA ReturnShape ==
    ASSUME TypeOK, NEW p \in Process, NEW state, NEW r, Return(p, state, r)
    PROVE  /\ \A q \in Process \ {p} :
                 /\ pc'[q] = pc[q] /\ cursor'[q] = cursor[q] /\ receipt'[q] = receipt[q]
                 /\ reply'[q] = reply[q]
           /\ pc'[p] = "idle" /\ reply'[p].state = state /\ reply'[p].receipt = r
BY DEF Return, Goto, TypeOK

LEMMA ContinueShape ==
    ASSUME TypeOK, NEW p \in Process, NEW l, Continue(p, l)
    PROVE  /\ \A q \in Process \ {p} :
                 /\ pc'[q] = pc[q] /\ cursor'[q] = cursor[q] /\ receipt'[q] = receipt[q]
                 /\ reply'[q] = reply[q]
           /\ pc'[p] = l /\ reply'[p] = reply[p] /\ receipt'[p] = receipt[p]
BY DEF Continue, Goto, TypeOK

LEMMA RecordsShape ==
    ASSUME StoreInv, NEW p \in Process, Records(p)
    PROVE  RecordGrows(p) /\ RecordsStep(p)
<1>1. TypeOK /\ RunKnows(p)
    BY DEF StoreInv
<1>2. Absent # Torn /\ Absent \notin StageReceipt /\ Torn \notin StageReceipt
    BY ReadOnlyStageAssumption
<1>3. CASE InspectStageReceipt(p)
  <2>1. pc[p] = "inspect" /\ record' = record
      BY <1>3 DEF InspectStageReceipt
  <2>2. CASE Continue(p, "observe") \/ Continue(p, "loadSlot")
      BY <1>1, <2>1, <2>2, ContinueShape
         DEF RecordsStep, RecordGrows, Reading, Storing
  <2>3. CASE Completed(p, record[Slot]) \/ Fail(p)
      BY <1>1, <2>1, <2>3, ReturnShape
         DEF RecordsStep, RecordGrows, Reading, Storing, Completed, Fail
  <2> QED
      BY <1>3, <2>2, <2>3 DEF InspectStageReceipt
<1>4. CASE LoadFromSlot(p) \/ LoadFromAttempt(p)
  <2>1. pc[p] \in Reading /\ record' = record
      BY <1>4 DEF LoadFromSlot, LoadFromAttempt, Reading
  <2>2. CASE Continue(p, "observe") \/ Continue(p, "loadAttempt")
      BY <1>1, <2>1, <2>2, ContinueShape
         DEF RecordsStep, RecordGrows, Reading, Storing
  <2>3. CASE Fail(p)
      BY <1>1, <2>1, <2>3, ReturnShape
         DEF RecordsStep, RecordGrows, Reading, Storing, Fail
  <2> QED
      BY <1>4, <2>2, <2>3 DEF LoadFromSlot, LoadFromAttempt
<1>5. CASE Create(p)
  <2>1. pc[p] = "create" /\ receipt[p] \in StageReceipt /\ key[p] \in Key
      BY <1>1, <1>5 DEF Create, RunKnows, Storing, TypeOK
  <2>2. \/ record' = record
        \/ /\ record[key[p]] = Absent
           /\ \/ record' = [record EXCEPT ![key[p]] = Torn]
              \/ record' = [record EXCEPT ![key[p]] = receipt[p]]
      BY <1>5 DEF Create, Creatable
  <2>3. RecordGrows(p)
      BY <1>1, <1>2, <2>1, <2>2 DEF TypeOK, RecordGrows
  <2>4. \A k \in Key :
           \/ record'[k] = record[k]
           \/ record'[k] = Torn
           \/ record'[k] = receipt[p]
      BY <1>1, <1>5 DEF Create, TypeOK
  <2>5. CASE Continue(p, "write") \/ Continue(p, "readBack")
      BY <1>1, <2>1, <2>3, <2>4, <2>5, ContinueShape DEF RecordsStep, Reading, Storing
  <2>6. CASE Completed(p, receipt[p]) \/ Fail(p)
      BY <1>1, <2>1, <2>3, <2>4, <2>6, ReturnShape
         DEF RecordsStep, Reading, Storing, Completed, Fail
  <2> QED
      BY <1>5, <2>5, <2>6 DEF Create
<1>6. CASE Write(p)
  <2>1. pc[p] = "write" /\ receipt[p] \in StageReceipt /\ key[p] \in Key
      BY <1>1, <1>6 DEF Write, RunKnows, Storing, TypeOK
  <2>2. record[key[p]] = Torn
      BY <2>1 DEF StoreInv, WriterAlone
  <2>3. record' = record \/ record' = [record EXCEPT ![key[p]] = receipt[p]]
      BY <1>6 DEF Write
  <2>4. RecordGrows(p)
      BY <1>1, <2>1, <2>2, <2>3 DEF RecordGrows, TypeOK
  <2>5. \A k \in Key : record'[k] = record[k] \/ record'[k] = receipt[p]
      BY <1>1, <2>1, <2>3 DEF TypeOK
  <2>6. CASE Completed(p, receipt[p]) \/ Fail(p)
      BY <1>1, <2>1, <2>4, <2>5, <2>6, ReturnShape
         DEF RecordsStep, Reading, Storing, Completed, Fail
  <2> QED
      BY <1>6, <2>6 DEF Write
<1>7. CASE ReadBack(p)
  <2>1. pc[p] = "readBack" /\ record' = record
      BY <1>7 DEF ReadBack
  <2>2. CASE Completed(p, receipt[p]) \/ Fail(p)
      BY <1>1, <2>1, <2>2, ReturnShape
         DEF RecordsStep, RecordGrows, Reading, Storing, Completed, Fail
  <2>3. CASE /\ pc' = [pc EXCEPT ![p] = "create"]
             /\ UNCHANGED <<cursor, retryOf, receipt, reply, found>>
      BY <1>1, <2>1, <2>3 DEF RecordsStep, RecordGrows, Reading, Storing, TypeOK
  <2> QED
      BY <1>7, <2>2, <2>3 DEF ReadBack, Goto
<1> QED
    BY <1>3, <1>4, <1>5, <1>6, <1>7 DEF Records

LEMMA InitBinding == BindingInit => BindingInv
<1> SUFFICES ASSUME BindingInit PROVE BindingInv
    OBVIOUS
<1>1. StoreInv
    BY InitStore DEF BindingInit
<1>2. BindingTyped
    BY RuntimeBindingAssumption DEF BindingInit, BindingTyped, NewBinder
<1>3. /\ \A p \in Process : pc[p] = "idle" /\ reply[p].state = "NONE" /\ bind[p].at = "poll"
      /\ \A o \in Outputs : handed[o] = Absent
    BY DEF BindingInit, Init, NoReply, NewBinder
<1>4. OnRecord = {}
    BY DEF BindingInit, Init, OnRecord
<1>5. Absent \notin Materials
    BY RuntimeBindingAssumption
<1>6. FileAlone /\ \A p \in Process : BinderKnows(p)
    BY <1>3 DEF FileAlone, Binding, BinderKnows
<1>7. ReceiptsBacked /\ HandedBacked
    BY <1>3, <1>4, <1>5 DEF ReceiptsBacked, HandedBacked, Storing
<1> QED
    BY <1>1, <1>2, <1>6, <1>7 DEF BindingInv

LEMMA RecordsBinding ==
    ASSUME BindingInv, NEW p \in Process, Records(p), UNCHANGED bindingVars
    PROVE  BindingInv'
<1>1. /\ StoreInv /\ StoreInv' /\ BindingTyped /\ ReceiptsBacked /\ BinderKnows(p)
      /\ RecordGrows(p) /\ RecordsStep(p)
    BY RecordsKeep, RecordsShape DEF BindingInv
<1>2. UNCHANGED <<kind, storage, secret, late, output, handed, path, bind>>
    BY DEF bindingVars, persisted
<1>3. BindingTyped'
    BY <1>1, <1>2 DEF BindingTyped, StoreInv, RecordGrows, Records, InspectStageReceipt,
       LoadFromSlot, LoadFromAttempt, Create, Write, ReadBack
<1>4. OnRecord \subseteq OnRecord'
    BY <1>1, OnRecordGrows
<1>5. \A r \in OnRecord' : r \in OnRecord \/ (pc[p] \in Storing /\ r = receipt[p])
    BY <1>1 DEF OnRecord, RecordsStep
<1>6. BinderKnows(p)'
    BY <1>1, <1>2 DEF BinderKnows, RecordsStep, Reading, Storing
<1>7. ~Binding(p, "write")'
    BY <1>1, <1>2 DEF BinderKnows, RecordsStep, Reading, Binding
<1>8. pc'[p] \in Storing => Backed(receipt[p])' /\ OwnEvidence(p, receipt[p])'
    BY <1>1, <1>2 DEF ReceiptsBacked, RecordsStep, Backed, OwnEvidence, MaterialOf, Material
<1>9. reply'[p].state = "COMPLETED" => OwnEvidence(p, reply[p].receipt)'
    BY <1>1, <1>2 DEF ReceiptsBacked, RecordsStep, OwnEvidence, BinderKnows, Reading
<1> QED
    BY <1>1, <1>2, <1>3, <1>4, <1>5, <1>6, <1>7, <1>8, <1>9, BindingFrame DEF RecordsStep

(* The steps at the ends of a run: records and materials stay as they are.  *)
LEMMA SameRecords ==
    ASSUME BindingInv, NEW p \in Process, StoreInv', BindingTyped',
           UNCHANGED <<kind, record, secret, output, handed>>,
           \A q \in Process \ {p} :
              /\ pc'[q] = pc[q] /\ cursor'[q] = cursor[q] /\ receipt'[q] = receipt[q]
              /\ reply'[q] = reply[q] /\ bind'[q] = bind[q] /\ path'[q] = path[q],
           BinderKnows(p)', ~Binding(p, "write")',
           pc'[p] \in Storing => Backed(receipt[p])' /\ OwnEvidence(p, receipt[p])',
           reply'[p].state = "COMPLETED" => OwnEvidence(p, reply[p].receipt)'
    PROVE  BindingInv'
<1>1. OnRecord' = OnRecord
    BY DEF OnRecord
<1> QED
    BY <1>1, BindingFrame

LEMMA BeginKeeps ==
    ASSUME BindingInv, NEW p \in Process, Begin(p)
    PROVE  BindingInv'
<1>1. StoreInv /\ TypeOK /\ BindingTyped
    BY DEF BindingInv, StoreInv
<1>2. PICK pred \in Predecessor :
         Start(p, pred, Absent) \/ \E r \in Named : Start(p, pred, r)
    BY DEF Begin, Run, Retry
<1>3. Named \subseteq StageReceipt
    BY <1>1, RecordedOnly DEF Named
<1>4. PICK r \in StageReceipt \cup {Absent} : Start(p, pred, r)
    BY <1>2, <1>3
<1>5. StoreInv'
    BY <1>1, <1>4, StartKeeps
<1>6. /\ UNCHANGED <<fileBacked, record>>
      /\ \A q \in Process \ {p} :
            /\ pc'[q] = pc[q] /\ cursor'[q] = cursor[q] /\ receipt'[q] = receipt[q]
            /\ reply'[q] = reply[q]
      /\ pc'[p] = "inspect" /\ reply'[p].state = "NONE"
    BY <1>1, <1>4 DEF Start, Goto, TypeOK, NoReply
<1>7. PICK o \in IF kind = "file" THEN Outputs ELSE {Absent} : Open(p, o)
    BY DEF Begin
<1>8. o \in Outputs \cup {Absent} /\ (kind = "file" => o \in Outputs)
    BY <1>7
<1>9. /\ path' = [path EXCEPT ![p] = o]
      /\ bind' = [bind EXCEPT ![p] = [at |-> "poll", uid |-> 0]]
      /\ UNCHANGED <<kind, storage, secret, late, output, handed>>
    BY <1>7 DEF Open, NewBinder, persisted
<1>10. BindingTyped'
    BY <1>1, <1>6, <1>8, <1>9, RuntimeBindingAssumption DEF BindingTyped
<1>11. /\ path'[p] = o /\ bind'[p].at = "poll"
       /\ \A q \in Process \ {p} : bind'[q] = bind[q] /\ path'[q] = path[q]
    BY <1>1, <1>9 DEF BindingTyped
<1>12. BinderKnows(p)' /\ ~Binding(p, "write")'
    BY <1>6, <1>8, <1>9, <1>11 DEF BinderKnows, Binding
<1> QED
    BY <1>5, <1>6, <1>9, <1>10, <1>11, <1>12, SameRecords DEF Storing

LEMMA OpenFailsKeeps ==
    ASSUME BindingInv, NEW p \in Process, OpenFails(p)
    PROVE  BindingInv'
<1>1. StoreInv /\ TypeOK /\ BindingTyped /\ BinderKnows(p)
      /\ RunKnows(p) /\ Durable(p) /\ Resting(p)
    BY DEF BindingInv, StoreInv
<1>2. /\ pc[p] = "idle"
      /\ reply' = [reply EXCEPT ![p] = [state |-> "PRE", receipt |-> Absent]]
      /\ bind' = [bind EXCEPT ![p] = [at |-> "poll", uid |-> 0]]
      /\ UNCHANGED <<fileBacked, record, pc, cursor, retryOf, receipt, key, found>>
      /\ UNCHANGED <<kind, storage, secret, late, output, handed, path>>
    BY DEF OpenFails, NewBinder, persisted
<1>3. /\ reply'[p].state = "PRE" /\ bind'[p].at = "poll"
      /\ \A q \in Process \ {p} : reply'[q] = reply[q] /\ bind'[q] = bind[q]
    BY <1>1, <1>2 DEF TypeOK, BindingTyped
<1>4. StoreInv'
  <2>1. TypeOK'
      BY <1>1, <1>2 DEF TypeOK
  <2>2. OwnStep(p)
      BY <1>2, <1>3 DEF OwnStep, RecordGrows
  <2>3. RunKnows(p)' /\ Durable(p)' /\ Resting(p)'
      BY <1>1, <1>2, <1>3 DEF RunKnows, Durable, Resting, Storing
  <2> QED
      BY <1>1, <2>1, <2>2, <2>3, StoreFrame
<1>5. BindingTyped'
    BY <1>1, <1>2, RuntimeBindingAssumption DEF BindingTyped
<1>6. BinderKnows(p)' /\ ~Binding(p, "write")'
    BY <1>1, <1>2, <1>3 DEF BinderKnows, Binding
<1> QED
    BY <1>2, <1>3, <1>4, <1>5, <1>6, SameRecords DEF Storing

LEMMA DieKeeps ==
    ASSUME BindingInv, NEW p \in Process, Die(p)
    PROVE  BindingInv'
<1>1. StoreInv /\ TypeOK /\ BindingTyped /\ BinderKnows(p)
    BY DEF BindingInv, StoreInv
<1>2. /\ Crash(p) /\ UNCHANGED <<fileBacked, record>>
      /\ Return(p, "NONE", Absent)
      /\ bind' = [bind EXCEPT ![p] = [at |-> "poll", uid |-> 0]]
      /\ UNCHANGED <<kind, storage, secret, late, output, handed, path>>
    BY DEF Die, Crash, NewBinder, persisted
<1>3. StoreInv'
    BY <1>1, <1>2, CrashKeeps
<1>4. /\ pc'[p] = "idle" /\ reply'[p].state = "NONE" /\ bind'[p].at = "poll"
      /\ \A q \in Process \ {p} :
            /\ pc'[q] = pc[q] /\ cursor'[q] = cursor[q] /\ receipt'[q] = receipt[q]
            /\ reply'[q] = reply[q] /\ bind'[q] = bind[q]
    BY <1>1, <1>2, ReturnShape DEF BindingTyped
<1>5. BindingTyped'
    BY <1>1, <1>2, RuntimeBindingAssumption DEF BindingTyped
<1>6. BinderKnows(p)' /\ ~Binding(p, "write")'
    BY <1>1, <1>2, <1>4 DEF BinderKnows, Binding
<1> QED
    BY <1>2, <1>3, <1>4, <1>5, <1>6, SameRecords DEF Storing

LEMMA ObserveShape ==
    ASSUME TypeOK, NEW p \in Process, NEW res, Observe(p, res)
    PROVE  /\ pc[p] = "observe" /\ UNCHANGED <<fileBacked, record>>
           /\ \A q \in Process \ {p} :
                 /\ pc'[q] = pc[q] /\ cursor'[q] = cursor[q] /\ receipt'[q] = receipt[q]
                 /\ reply'[q] = reply[q]
           /\ \/ /\ pc'[p] = "create" /\ reply'[p] = reply[p]
                 /\ receipt'[p] = [predecessor |-> cursor[p], result |-> res]
              \/ pc'[p] = "idle" /\ reply'[p].state = "PRE"
<1>1. CASE Fail(p)
    BY <1>1, ReturnShape DEF Observe, Fail
<1>2. CASE ~Fail(p)
    BY <1>2 DEF Observe, Goto, TypeOK
<1> QED
    BY <1>1, <1>2

LEMMA ObserveOtherKeeps ==
    ASSUME BindingInv, NEW p \in Process, ObserveOther(p)
    PROVE  BindingInv'
<1>1. StoreInv /\ TypeOK /\ BindingTyped /\ BinderKnows(p)
    BY DEF BindingInv, StoreInv
<1>2. /\ kind = "other"
      /\ UNCHANGED <<kind, storage, secret, late, output, handed, path, bind>>
    BY DEF ObserveOther, bindingVars, persisted
<1>3. PICK res \in Result : Observe(p, res)
    BY DEF ObserveOther
<1>4. StoreInv'
    BY <1>1, <1>3, ObserveKeeps
<1>5. /\ pc'[p] \in {"create", "idle"} /\ UNCHANGED <<fileBacked, record>>
      /\ \A q \in Process \ {p} :
            /\ pc'[q] = pc[q] /\ cursor'[q] = cursor[q] /\ receipt'[q] = receipt[q]
            /\ reply'[q] = reply[q]
    BY <1>1, <1>3, ObserveShape
<1>6. BindingTyped'
    BY <1>1, <1>2, <1>5 DEF BindingTyped
<1>7. BinderKnows(p)' /\ ~Binding(p, "write")'
    BY <1>1, <1>2, <1>5 DEF BinderKnows, Binding
<1>8. \A r : Backed(r)' /\ OwnEvidence(p, r)'
    BY <1>2 DEF Backed, OwnEvidence
<1> QED
    BY <1>2, <1>4, <1>5, <1>6, <1>7, <1>8, SameRecords

(* The binder goes on, and a file it is going to write it has created.      *)
LEMMA GoesOn ==
    ASSUME BindingInv, NEW p \in Process, pc[p] = "observe", kind # "other",
           NEW at \in {"build", "persist", "get", "write"}, NEW uid \in 1..MaxUid,
           bind' = [bind EXCEPT ![p] = [at |-> at, uid |-> uid]],
           UNCHANGED <<vars, kind, storage, path, secret, late, handed>>,
           \/ UNCHANGED output /\ at # "write"
           \/ /\ kind = "file" /\ output[path[p]] = Absent
              /\ output' = [output EXCEPT ![path[p]] = Torn]
    PROVE  BindingInv'
<1>1. StoreInv /\ TypeOK /\ BindingTyped /\ BinderKnows(p) /\ RunKnows(p) /\ HandedBacked
    BY DEF BindingInv, StoreInv
<1>2. UNCHANGED <<fileBacked, record, pc, cursor, receipt, reply>>
    BY DEF vars, local
<1>3. StoreInv' /\ OnRecord' = OnRecord
    BY <1>1, <1>2, StutterKeeps DEF OnRecord
<1>4. /\ bind'[p].at = at /\ bind'[p].uid = uid
      /\ \A q \in Process \ {p} : bind'[q] = bind[q]
    BY <1>1 DEF BindingTyped
<1>5. kind = "file" => path[p] \in Outputs
    BY <1>1 DEF BinderKnows
<1>6. /\ output' \in [Outputs -> Materials \cup {Absent, Torn}]
      /\ \A o \in Outputs : output'[o] = output[o] \/ output[o] = Absent
      /\ at = "write" =>
            kind = "file" /\ output[path[p]] = Absent /\ output'[path[p]] = Torn
    BY <1>1, <1>5 DEF BindingTyped
<1>7. uid \in 0..MaxUid
    BY RuntimeBindingAssumption
<1>8. BindingTyped'
    BY <1>1, <1>2, <1>6, <1>7 DEF BindingTyped
<1>9. BinderKnows(p)'
    BY <1>2, <1>4, <1>5 DEF BinderKnows
<1>10. Binding(p, "write")' =>
          kind = "file" /\ output[path'[p]] = Absent /\ output'[path'[p]] = Torn
    BY <1>4, <1>6 DEF Binding
<1>11. pc'[p] \notin Storing /\ reply'[p].state # "COMPLETED"
    BY <1>1, <1>2 DEF RunKnows, Storing
<1> QED
    BY <1>2, <1>3, <1>4, <1>6, <1>8, <1>9, <1>10, <1>11, BindingFrame

(* The binder is done: a success rests on the identity it keeps, and the    *)
(* material made of it is in the Secret where that is what was promised.    *)
LEMMA IsDone ==
    ASSUME BindingInv, NEW p \in Process, NEW result \in BindingResult,
           Conclude(p, result), kind # "other", handed' = handed,
           secret' \in {secret} \cup Materials \cup {Foreign},
           secret' = secret \/ secret = Absent,
           late' \subseteq Materials,
           output' \in [Outputs -> Materials \cup {Absent, Torn}],
           \A o \in Outputs :
              output'[o] = output[o] \/ (Binding(p, "write") /\ o = path[p]),
           result.outcome = "SUCCEEDED" =>
              /\ bind[p].uid \in 1..MaxUid /\ result.evidence[1] = bind[p].uid
              /\ kind = "secret" => secret' = Mine(p)
    PROVE  BindingInv'
<1>1. StoreInv /\ TypeOK /\ BindingTyped /\ BinderKnows(p) /\ RunKnows(p)
    BY DEF BindingInv, StoreInv
<1>2. /\ Observe(p, result) /\ UNCHANGED <<kind, storage, path>>
      /\ bind' = [bind EXCEPT ![p].at = "done"]
      /\ pc[p] = "observe"
    BY DEF Conclude, Observe
<1>3. StoreInv'
    BY <1>1, <1>2, RuntimeBindingAssumption, ObserveKeeps
<1>4. /\ UNCHANGED <<fileBacked, record>>
      /\ \A q \in Process \ {p} :
            /\ pc'[q] = pc[q] /\ cursor'[q] = cursor[q] /\ receipt'[q] = receipt[q]
            /\ reply'[q] = reply[q]
    BY <1>1, <1>2, ObserveShape
<1>5. \/ /\ pc'[p] = "create" /\ reply'[p] = reply[p]
         /\ receipt'[p] = [predecessor |-> cursor[p], result |-> result]
      \/ pc'[p] = "idle" /\ reply'[p].state = "PRE"
    BY <1>1, <1>2, ObserveShape
<1>6. /\ bind'[p].at = "done" /\ bind'[p].uid = bind[p].uid
      /\ \A q \in Process \ {p} : bind'[q] = bind[q]
    BY <1>1, <1>2 DEF BindingTyped
<1>7. cursor[p] \in Predecessor /\ reply[p].state = "NONE"
    BY <1>1, <1>2 DEF RunKnows
<1>8. BindingTyped'
    BY <1>1, <1>2, <1>4 DEF BindingTyped
<1>9. BinderKnows(p)' /\ ~Binding(p, "write")'
    BY <1>1, <1>2, <1>5, <1>6 DEF BinderKnows, Binding
<1>10. ASSUME pc'[p] \in Storing PROVE Backed(receipt[p])' /\ OwnEvidence(p, receipt[p])'
  <2>1. receipt'[p].predecessor = cursor[p] /\ receipt'[p].result = result
      BY <1>5, <1>10 DEF Storing
  <2>2. OwnEvidence(p, receipt[p])'
      BY <1>2, <1>6, <2>1 DEF OwnEvidence
  <2>3. result.outcome = "SUCCEEDED" => Mine(p) \in Materials
      BY <1>7 DEF Mine, Material, Materials
  <2>4. Backed(receipt[p])'
      BY <1>2, <2>1, <2>3 DEF Backed, MaterialOf, Mine, Material, Materials
  <2> QED
      BY <2>2, <2>4
<1>11. reply'[p].state # "COMPLETED"
    BY <1>5, <1>7
<1>12. OnRecord' = OnRecord
    BY <1>4 DEF OnRecord
<1>13. \A o \in Outputs : handed'[o] \in Materials => handed'[o] = handed[o]
    OBVIOUS
<1> QED
    BY <1>2, <1>3, <1>4, <1>6, <1>8, <1>9, <1>10, <1>11, <1>12, <1>13, BindingFrame

(* What the actions of the binder share.                                    *)
LEMMA BinderBasics ==
    ASSUME BindingInv, NEW p \in Process, NEW at, Binding(p, at)
    PROVE  /\ StoreInv /\ TypeOK /\ BindingTyped /\ BinderKnows(p) /\ RunKnows(p)
           /\ pc[p] = "observe" /\ kind # "other" /\ bind[p].at = at
           /\ cursor[p] \in Predecessor
           /\ bind[p] = [at |-> bind[p].at, uid |-> bind[p].uid]
           /\ Stopped("unbound") \in BindingResult /\ Stopped("unpersisted") \in BindingResult
<1>1. StoreInv /\ TypeOK /\ BindingTyped /\ BinderKnows(p) /\ RunKnows(p)
    BY DEF BindingInv, StoreInv
<1> QED
    BY <1>1 DEF Binding, RunKnows, BindingTyped, BindingResult, Stops

LEMMA AdvanceShape ==
    ASSUME BindingTyped, NEW p \in Process, NEW at, Advance(p, at)
    PROVE  /\ bind' = [bind EXCEPT ![p] = [at |-> at, uid |-> bind[p].uid]]
           /\ UNCHANGED <<vars, kind, storage, path>>
<1>1. bind[p] = [at |-> bind[p].at, uid |-> bind[p].uid]
    BY DEF BindingTyped
<1>2. [bind[p] EXCEPT !.at = at] = [at |-> at, uid |-> bind[p].uid]
    BY <1>1
<1> QED
    BY <1>2 DEF Advance

LEMMA StopKeeps ==
    ASSUME BindingInv, NEW p \in Process, NEW category \in Stops, Stop(p, category),
           kind # "other", handed' = handed,
           secret' \in {secret} \cup Materials \cup {Foreign},
           secret' = secret \/ secret = Absent,
           late' \subseteq Materials,
           output' \in [Outputs -> Materials \cup {Absent, Torn}],
           \A o \in Outputs :
              output'[o] = output[o] \/ (Binding(p, "write") /\ o = path[p])
    PROVE  BindingInv'
<1>1. Stopped(category) \in BindingResult /\ Stopped(category).outcome # "SUCCEEDED"
    BY DEF BindingResult, Stopped
<1> QED
    BY <1>1, IsDone DEF Stop

LEMMA SucceedKeeps ==
    ASSUME BindingInv, NEW p \in Process, NEW how \in Persisted,
           Conclude(p, Succeeded(bind[p].uid, how)),
           kind # "other", handed' = handed, bind[p].uid \in 1..MaxUid,
           secret' \in {secret} \cup Materials \cup {Foreign},
           secret' = secret \/ secret = Absent,
           late' \subseteq Materials,
           output' \in [Outputs -> Materials \cup {Absent, Torn}],
           \A o \in Outputs :
              output'[o] = output[o] \/ (Binding(p, "write") /\ o = path[p]),
           kind = "secret" => secret' = Mine(p)
    PROVE  BindingInv'
<1> DEFINE result == Succeeded(bind[p].uid, how)
<1>1. result \in BindingResult
    BY DEF BindingResult
<1>2. result.evidence[1] = bind[p].uid
    BY DEF Succeeded
<1> HIDE DEF result
<1> QED
    BY <1>1, <1>2, IsDone DEF result

LEMMA BindKeeps ==
    ASSUME BindingInv, NEW p \in Process, Bind(p)
    PROVE  BindingInv'
<1>1. CASE Poll(p)
  <2>1. /\ Binding(p, "poll") /\ UNCHANGED <<secret, late, output, handed>>
        /\ BindingTyped /\ pc[p] = "observe" /\ kind # "other"
      BY <1>1, BinderBasics DEF Poll, persisted
  <2>2. CASE /\ Identified
             /\ bind' = [bind EXCEPT ![p] = [at |-> "build", uid |-> storage]]
             /\ UNCHANGED <<vars, kind, storage, path, runs>>
    <3>1. storage \in 1..MaxUid
        BY <2>1, <2>2, RuntimeBindingAssumption DEF Identified, BindingTyped
    <3> QED
        BY <2>1, <2>2, <3>1, GoesOn
  <2>3. CASE Stop(p, "unbound")
      BY <2>1, <2>3, StopKeeps DEF Stops, BindingTyped
  <2> QED
      BY <1>1, <2>2, <2>3 DEF Poll
<1>2. CASE BuildMaterial(p)
  <2>1. /\ Binding(p, "build") /\ UNCHANGED <<secret, late, output, handed>>
        /\ BindingTyped /\ pc[p] = "observe" /\ kind # "other"
        /\ bind[p].at = "build" /\ BinderKnows(p)
      BY <1>2, BinderBasics DEF BuildMaterial, persisted
  <2>2. bind[p].uid \in 1..MaxUid
      BY <2>1 DEF BinderKnows
  <2>3. CASE Advance(p, "persist")
      BY <2>1, <2>2, <2>3, AdvanceShape, GoesOn
  <2>4. CASE Stop(p, "unbound")
      BY <2>1, <2>4, StopKeeps DEF Stops, BindingTyped
  <2> QED
      BY <1>2, <2>3, <2>4 DEF BuildMaterial
<1>3. CASE CreateSecret(p)
  <2>1. /\ Binding(p, "persist") /\ UNCHANGED <<output, handed>>
        /\ BindingTyped /\ pc[p] = "observe" /\ kind = "secret"
        /\ bind[p].at = "persist" /\ BinderKnows(p) /\ cursor[p] \in Predecessor
      BY <1>3, BinderBasics DEF CreateSecret
  <2>2. bind[p].uid \in 1..MaxUid /\ Mine(p) \in Materials
      BY <2>1 DEF BinderKnows, Mine, Material, Materials
  <2>3. CASE /\ secret = Absent /\ secret' = Mine(p)
             /\ Conclude(p, Succeeded(bind[p].uid, "created")) /\ UNCHANGED late
      BY <2>1, <2>2, <2>3, SucceedKeeps DEF Persisted, BindingTyped
  <2>4. CASE /\ secret = Absent /\ secret' = Foreign
             /\ Stop(p, "unpersisted") /\ UNCHANGED late
      BY <2>1, <2>4, StopKeeps DEF Stops, BindingTyped
  <2>5. CASE secret # Absent /\ Advance(p, "get") /\ UNCHANGED <<secret, late>>
      BY <2>1, <2>2, <2>5, AdvanceShape, GoesOn
  <2>6. CASE Stop(p, "unpersisted") /\ UNCHANGED <<secret, late>>
      BY <2>1, <2>6, StopKeeps DEF Stops, BindingTyped
  <2>7. CASE late' = late \cup {Mine(p)} /\ Stop(p, "unpersisted") /\ UNCHANGED secret
      BY <2>1, <2>2, <2>7, StopKeeps DEF Stops, BindingTyped
  <2> QED
      BY <1>3, <2>3, <2>4, <2>5, <2>6, <2>7 DEF CreateSecret
<1>4. CASE VerifyExistingSecret(p)
  <2>1. /\ Binding(p, "get") /\ UNCHANGED <<secret, late, output, handed>>
        /\ BindingTyped /\ pc[p] = "observe" /\ kind # "other"
        /\ bind[p].at = "get" /\ BinderKnows(p)
      BY <1>4, BinderBasics DEF VerifyExistingSecret, persisted
  <2>2. bind[p].uid \in 1..MaxUid
      BY <2>1 DEF BinderKnows
  <2>3. CASE SameSecret(p) /\ Conclude(p, Succeeded(bind[p].uid, "existing"))
      BY <2>1, <2>2, <2>3, SucceedKeeps DEF Persisted, BindingTyped, SameSecret
  <2>4. CASE Stop(p, "unpersisted")
      BY <2>1, <2>4, StopKeeps DEF Stops, BindingTyped
  <2> QED
      BY <1>4, <2>3, <2>4 DEF VerifyExistingSecret
<1>5. CASE OpenWriter(p)
  <2>1. /\ Binding(p, "persist") /\ UNCHANGED <<secret, late, handed>>
        /\ BindingTyped /\ pc[p] = "observe" /\ kind = "file"
        /\ bind[p].at = "persist" /\ BinderKnows(p)
      BY <1>5, BinderBasics DEF OpenWriter
  <2>2. bind[p].uid \in 1..MaxUid
      BY <2>1 DEF BinderKnows
  <2>3. CASE /\ output[path[p]] = Absent /\ Advance(p, "write")
             /\ output' = [output EXCEPT ![path[p]] = Torn]
      BY <2>1, <2>2, <2>3, AdvanceShape, GoesOn
  <2>4. CASE Stop(p, "unpersisted") /\ UNCHANGED output
      BY <2>1, <2>4, StopKeeps DEF Stops, BindingTyped
  <2> QED
      BY <1>5, <2>3, <2>4 DEF OpenWriter
<1>6. CASE WriteMaterial(p)
  <2>1. /\ Binding(p, "write") /\ UNCHANGED <<secret, late, handed>>
        /\ BindingTyped /\ pc[p] = "observe" /\ kind # "other"
        /\ bind[p].at = "write" /\ BinderKnows(p) /\ cursor[p] \in Predecessor
      BY <1>6, BinderBasics DEF WriteMaterial
  <2>2. bind[p].uid \in 1..MaxUid /\ Mine(p) \in Materials
      BY <2>1 DEF BinderKnows, Mine, Material, Materials
  <2>3. kind = "file" /\ path[p] \in Outputs
      BY <2>1 DEF BindingInv, FileAlone, BinderKnows
  <2>4. output' \in {output, [output EXCEPT ![path[p]] = Mine(p)]}
      BY <1>6 DEF WriteMaterial
  <2>5. /\ output' \in [Outputs -> Materials \cup {Absent, Torn}]
        /\ \A o \in Outputs : output'[o] = output[o] \/ o = path[p]
      BY <2>1, <2>2, <2>3, <2>4 DEF BindingTyped
  <2>6. CASE Conclude(p, Succeeded(bind[p].uid, "written"))
      BY <2>1, <2>2, <2>3, <2>5, <2>6, SucceedKeeps DEF Persisted, BindingTyped
  <2>7. CASE Stop(p, "unpersisted")
      BY <2>1, <2>5, <2>7, StopKeeps DEF Stops, BindingTyped
  <2> QED
      BY <1>6, <2>6, <2>7 DEF WriteMaterial
<1> QED
    BY <1>1, <1>2, <1>3, <1>4, <1>5, <1>6 DEF Bind

LEMMA HandOffKeeps ==
    ASSUME BindingInv, NEW p \in Process, HandOff(p)
    PROVE  BindingInv'
<1>1. StoreInv /\ TypeOK /\ BindingTyped /\ BinderKnows(p) /\ Durable(p) /\ ReceiptsBacked
    BY DEF BindingInv, StoreInv
<1>2. /\ UNCHANGED <<vars, kind, storage, secret, late, output, path, bind>>
      /\ kind = "file" /\ pc[p] = "idle" /\ reply[p].state = "COMPLETED"
      /\ reply[p].receipt.result.outcome = "SUCCEEDED"
      /\ bind[p].at = "done"
      /\ Evidence(p) = Material(reply[p].receipt.predecessor, bind[p].uid)
      /\ output[path[p]] = Evidence(p)
    BY DEF HandOff, Evidence
<1>3. PICK f \in {Evidence(p), Torn} : handed' = [handed EXCEPT ![path[p]] = f]
    BY DEF HandOff
<1>4. UNCHANGED <<fileBacked, record, pc, cursor, receipt, reply>>
    BY <1>2 DEF vars, local
<1>5. StoreInv' /\ OnRecord' = OnRecord
    BY <1>1, <1>2, <1>4, StutterKeeps DEF OnRecord
<1>6. path[p] \in Outputs
    BY <1>1, <1>2 DEF BinderKnows
<1>7. /\ reply[p].receipt \in StageReceipt /\ OwnEvidence(p, reply[p].receipt)
      /\ reply[p].receipt \in {record[Slot], record[reply[p].receipt]}
    BY <1>1, <1>2 DEF Durable, ReceiptsBacked
<1>8. reply[p].receipt \in OnRecord
  <2>1. \E k \in Key : record[k] = reply[p].receipt
      BY <1>7 DEF Key
  <2> QED
      BY <1>1, <1>7, <2>1, RecordedOnly
<1>9. /\ bind[p].uid \in 1..MaxUid
      /\ MaterialOf(reply[p].receipt) = Evidence(p)
    BY <1>2, <1>7 DEF OwnEvidence, MaterialOf
<1>10. Evidence(p) \in Materials
    BY <1>2, <1>7, <1>9 DEF StageReceipt, Material, Materials
<1>11. BindingTyped'
    BY <1>1, <1>2, <1>3, <1>4, <1>10 DEF BindingTyped
<1>12. Torn \notin Materials
    BY RuntimeBindingAssumption
<1>13. \A o \in Outputs : handed'[o] \in Materials =>
          \/ handed'[o] = handed[o]
          \/ /\ output'[o] = handed'[o]
             /\ \E r \in OnRecord' : r.result.outcome = "SUCCEEDED" /\ MaterialOf(r) = handed'[o]
  <2> SUFFICES ASSUME NEW o \in Outputs, handed'[o] \in Materials, handed'[o] # handed[o]
               PROVE  /\ output'[o] = handed'[o]
                      /\ \E r \in OnRecord' :
                            r.result.outcome = "SUCCEEDED" /\ MaterialOf(r) = handed'[o]
      OBVIOUS
  <2>1. o = path[p] /\ handed'[o] = Evidence(p)
      BY <1>1, <1>3, <1>6, <1>12 DEF BindingTyped
  <2> QED
      BY <1>2, <1>5, <1>8, <1>9, <2>1
<1>14. /\ BinderKnows(p)' /\ ~Binding(p, "write")'
       /\ OwnEvidence(p, reply[p].receipt)' /\ pc'[p] \notin Storing
    BY <1>1, <1>2, <1>4, <1>7 DEF BinderKnows, Binding, OwnEvidence, Storing
<1> QED
    BY <1>2, <1>4, <1>5, <1>11, <1>13, <1>14, BindingFrame

(* The Secret of an earlier create, or a new StorageClass: no receipt is    *)
(* a success of this stage before there is a Secret.                        *)
LEMMA ClusterKeeps ==
    ASSUME BindingInv, ServeLate \/ CreateStorage
    PROVE  BindingInv'
<1>1. /\ UNCHANGED <<vars, kind, late, output, handed, path, bind>>
      /\ secret' = secret \/ (secret = Absent /\ secret' \in late)
      /\ storage' \in 0..MaxUid
    BY RuntimeBindingAssumption
       DEF ServeLate, CreateStorage, persisted, BindingInv, BindingTyped
<1>2. UNCHANGED <<fileBacked, record, pc, cursor, receipt, reply>>
    BY <1>1 DEF vars, local
<1>3. StoreInv' /\ OnRecord' = OnRecord
    BY <1>1, <1>2, StutterKeeps DEF OnRecord, BindingInv
<1>4. BindingTyped'
    BY <1>1, <1>2 DEF BindingInv, BindingTyped
<1>5. Absent \notin Materials
    BY RuntimeBindingAssumption
<1>6. \A r : Backed(r) => Backed(r)'
    BY <1>1, <1>5 DEF Backed
<1>7. \A p \in Process : \A r : OwnEvidence(p, r)' <=> OwnEvidence(p, r)
    BY <1>1 DEF OwnEvidence
<1>8. \A p \in Process : Backed(receipt[p]) => Backed(receipt[p])'
    BY <1>1, <1>2, <1>5 DEF Backed
<1>9. ReceiptsBacked'
    BY <1>2, <1>3, <1>6, <1>7, <1>8 DEF BindingInv, ReceiptsBacked, OwnEvidence
<1>10. FileAlone'
    BY <1>1, <1>2 DEF BindingInv, FileAlone, Binding
<1>11. HandedBacked'
    BY <1>1, <1>3 DEF BindingInv, HandedBacked, Materials
<1>12. \A p \in Process : BinderKnows(p)'
    BY <1>1, <1>2 DEF BindingInv, BinderKnows
<1> QED
    BY <1>3, <1>4, <1>9, <1>10, <1>11, <1>12 DEF BindingInv

LEMMA BindingStutter ==
    ASSUME BindingInv, UNCHANGED allVars
    PROVE  BindingInv'
<1>1. UNCHANGED <<vars, kind, storage, secret, late, output, handed, path, bind>>
    BY DEF allVars, bindingVars, persisted
<1>2. UNCHANGED <<fileBacked, record, pc, cursor, receipt, reply>>
    BY <1>1 DEF vars, local
<1>3. StoreInv' /\ OnRecord' = OnRecord
    BY <1>1, <1>2, StutterKeeps DEF BindingInv, OnRecord
<1>4. BindingTyped' /\ FileAlone'
    BY <1>1, <1>2 DEF BindingInv, BindingTyped, FileAlone, Binding
<1>5. ReceiptsBacked'
    BY <1>1, <1>2, <1>3
       DEF BindingInv, ReceiptsBacked, Backed, OwnEvidence, MaterialOf, Material, Materials
<1>6. HandedBacked' /\ \A p \in Process : BinderKnows(p)'
    BY <1>1, <1>2, <1>3 DEF BindingInv, HandedBacked, Materials, BinderKnows
<1> QED
    BY <1>3, <1>4, <1>5, <1>6 DEF BindingInv

LEMMA NextBinding == BindingInv /\ [BindingNext]_allVars => BindingInv'
<1> SUFFICES ASSUME BindingInv, [BindingNext]_allVars PROVE BindingInv'
    OBVIOUS
<1>1. ASSUME NEW p \in Process,
             \/ Begin(p) \/ OpenFails(p) \/ ObserveOther(p) \/ Die(p)
             \/ Records(p) /\ UNCHANGED bindingVars
             \/ Bind(p) \/ HandOff(p)
      PROVE  BindingInv'
    BY <1>1, BeginKeeps, OpenFailsKeeps, ObserveOtherKeeps, DieKeeps, RecordsBinding,
       BindKeeps, HandOffKeeps
<1> QED
    BY <1>1, ClusterKeeps, BindingStutter DEF BindingNext

-----------------------------------------------------------------------------
(* The operation alone and the operation around the binder.                 *)
LEMMA StoreInductive == Spec => []StoreInv
BY InitStore, NextStore, PTL DEF Spec

LEMMA BindingInductive == BindingSpec => []BindingInv
BY InitBinding, NextBinding, PTL DEF BindingSpec

LEMMA StoreSays == StoreInv => CompletedIsDurable /\ RetryRestsOnTerminal
BY DEF StoreInv, Durable, Resting, CompletedIsDurable, RetryRestsOnTerminal

(* Records are kept by every step of a run, and a closed stage stays so.    *)
Keeping ==
    /\ \A k \in Key :
          /\ Recorded(record[k]) => record'[k] = record[k]
          /\ record[k] # Absent => record'[k] # Absent
    /\ Closed => Closed' /\ UNCHANGED record

LEMMA StepKeeps ==
    ASSUME StoreInv, NEW p \in Process,
           \/ Records(p) \/ Crash(p) \/ \E res : Observe(p, res)
           \/ \E pred, r : Start(p, pred, r)
           \/ UNCHANGED <<record, pc>>
    PROVE  Keeping
<1>1. TypeOK
    BY DEF StoreInv
<1>2. CASE Records(p)
  <2>1. RecordGrows(p) /\ RecordsStep(p)
      BY <1>2, RecordsShape
  <2>2. ASSUME Closed PROVE Closed' /\ UNCHANGED record
    <3>1. pc[p] \in {"idle", "inspect"} /\ record[Slot] = Torn
        BY <2>2 DEF Closed
    <3>2. InspectStageReceipt(p)
      <4>1. ~(LoadFromSlot(p) \/ LoadFromAttempt(p))
          BY <3>1 DEF LoadFromSlot, LoadFromAttempt
      <4>2. ~(Create(p) \/ Write(p) \/ ReadBack(p))
          BY <3>1 DEF Create, Write, ReadBack
      <4> QED
          BY <1>2, <4>1, <4>2 DEF Records
    <3>3. Fail(p) /\ UNCHANGED record
        BY <3>1, <3>2, ReadOnlyStageAssumption
           DEF InspectStageReceipt, NotFound, BoundTo, Recorded
    <3> QED
        BY <1>1, <2>2, <3>3, ReturnShape DEF Closed, Fail
  <2> QED
      BY <2>1, <2>2, Kept DEF Keeping
<1>3. CASE Crash(p)
  <2>1. UNCHANGED record /\ pc' = [pc EXCEPT ![p] = "idle"]
      BY <1>3 DEF Crash, Return, Goto
  <2> QED
      BY <1>1, <2>1 DEF Keeping, Closed, TypeOK
<1>4. CASE \E res : Observe(p, res)
  <2>1. UNCHANGED record /\ ~Closed
      BY <1>4 DEF Observe, Closed
  <2> QED
      BY <2>1 DEF Keeping
<1>5. CASE \E pred, r : Start(p, pred, r)
  <2>1. UNCHANGED record /\ pc' = [pc EXCEPT ![p] = "inspect"]
      BY <1>5 DEF Start, Goto
  <2> QED
      BY <1>1, <2>1 DEF Keeping, Closed, TypeOK
<1>6. CASE UNCHANGED <<record, pc>>
    BY <1>6 DEF Keeping, Closed
<1> QED
    BY <1>2, <1>3, <1>4, <1>5, <1>6

LEMMA NextKeepsRecords == StoreInv /\ [Next]_vars => [Keeping]_vars
<1> SUFFICES ASSUME StoreInv, Next PROVE Keeping
    OBVIOUS
<1>1. PICK p \in Process :
         \/ Records(p) \/ Crash(p) \/ \E res : Observe(p, res)
         \/ \E pred, r : Start(p, pred, r)
    BY DEF Next, Records, Run, Retry
<1> QED
    BY <1>1, StepKeeps

LEMMA BindingKeepsRecords == StoreInv /\ [BindingNext]_allVars => [Keeping]_vars
<1> SUFFICES ASSUME StoreInv, BindingNext, ~UNCHANGED vars PROVE Keeping
    BY DEF allVars
<1>1. ASSUME NEW p \in Process, Begin(p) PROVE Keeping
  <2>1. \E pred, r : Start(p, pred, r)
      BY <1>1 DEF Begin, Run, Retry
  <2> QED
      BY <2>1, StepKeeps
<1>2. ASSUME NEW p \in Process, OpenFails(p) PROVE Keeping
    BY <1>2, StepKeeps DEF OpenFails
<1>3. ASSUME NEW p \in Process, ObserveOther(p) \/ Die(p) \/ Records(p) PROVE Keeping
    BY <1>3, StepKeeps DEF ObserveOther, Die
<1>4. ASSUME NEW p \in Process, Bind(p) PROVE Keeping
  <2>1. \E res : Observe(p, res)
      BY <1>4 DEF Bind, Poll, BuildMaterial, CreateSecret, VerifyExistingSecret, OpenWriter,
         WriteMaterial, Advance, Stop, Conclude
  <2> QED
      BY <2>1, StepKeeps
<1>5. ASSUME NEW p \in Process, HandOff(p) PROVE FALSE
    BY <1>5 DEF HandOff
<1>6. ~ServeLate /\ ~CreateStorage
    BY DEF ServeLate, CreateStorage
<1> QED
    BY <1>1, <1>2, <1>3, <1>4, <1>5, <1>6 DEF BindingNext

-----------------------------------------------------------------------------
(* A receipt returned as COMPLETED_x is where LoadStageReceipt finds it,    *)
(* and a Run that began at a stored receipt returns that one or none.       *)
THEOREM CompletionIsDurable == BindingSpec => []CompletedIsDurable
<1>1. BindingInv => CompletedIsDurable
    BY StoreSays DEF BindingInv
<1> QED
    BY <1>1, BindingInductive, PTL

(* A Retry observes and stores only after a terminal receipt of the same    *)
(* predecessor that is on record.                                           *)
THEOREM RetriesFollowTerminal == BindingSpec => []RetryRestsOnTerminal
<1>1. BindingInv => RetryRestsOnTerminal
    BY StoreSays DEF BindingInv
<1> QED
    BY <1>1, BindingInductive, PTL

(* A complete receipt is never replaced, an existing record never goes, and *)
(* a torn deterministic slot closes the stage.                              *)
THEOREM RecordsStay == BindingSpec => ReceiptsKept
<1>1. BindingInv /\ [BindingNext]_allVars => [Keeping]_vars
    BY BindingKeepsRecords DEF BindingInv
<1> QED
    BY <1>1, BindingInductive, PTL DEF BindingSpec, ReceiptsKept, Keeping

(* The same of the operation whose observer is left open: what is proved of *)
(* the store does not rest on what a binding stage observes.                *)
THEOREM OperationAlone ==
    Spec => [](CompletedIsDurable /\ RetryRestsOnTerminal) /\ ReceiptsKept
<1>1. [](StoreInv => CompletedIsDurable /\ RetryRestsOnTerminal)
    BY StoreSays, PTL
<1>2. StoreInv /\ [Next]_vars => [Keeping]_vars
    BY NextKeepsRecords
<1> QED
    BY <1>1, <1>2, StoreInductive, PTL DEF Spec, ReceiptsKept, Keeping

(* Every success on record is loaded with the material it is evidence of,   *)
(* and what a full run handed on is the file beside it.                     *)
THEOREM SuccessesAreBacked == BindingSpec => []BindingBacked
<1>1. ASSUME BindingInv PROVE BindingBacked
  <2>1. TypeOK /\ ReceiptsBacked /\ HandedBacked
      BY <1>1 DEF BindingInv, StoreInv
  <2>2. OnRecord \subseteq StageReceipt
      BY <2>1, RecordedOnly
  <2>3. ASSUME NEW r \in Successes, kind = "secret"
        PROVE  Loads(r, secret, secret) /\ secret = MaterialOf(r)
    <3>1. r \in OnRecord /\ r.result.outcome = "SUCCEEDED"
        BY <2>3 DEF Successes
    <3>2. secret = MaterialOf(r) /\ secret \in Materials
        BY <2>1, <2>3, <3>1 DEF ReceiptsBacked, Backed
    <3> QED
        BY <2>2, <3>1, <3>2 DEF Loads, Recorded, MaterialOf, Material
  <2>4. ASSUME NEW o \in Outputs, handed[o] \in Materials
        PROVE  /\ output[o] = handed[o]
               /\ \E r \in Successes :
                     Loads(r, output[o], handed[o]) /\ MaterialOf(r) = handed[o]
    <3>1. /\ output[o] = handed[o]
          /\ \E r \in OnRecord : r.result.outcome = "SUCCEEDED" /\ MaterialOf(r) = handed[o]
        BY <2>1, <2>4 DEF HandedBacked
    <3>2. PICK r \in OnRecord : r.result.outcome = "SUCCEEDED" /\ MaterialOf(r) = handed[o]
        BY <3>1
    <3>3. Loads(r, output[o], handed[o]) /\ r \in Successes
        BY <2>2, <2>4, <3>1, <3>2 DEF Loads, Recorded, MaterialOf, Material, Successes
    <3> QED
        BY <3>1, <3>2, <3>3
  <2> QED
      BY <2>3, <2>4 DEF BindingBacked
<1> QED
    BY <1>1, BindingInductive, PTL
=============================================================================
