---------------------------- MODULE ReadOnlyStage ----------------------------
(***************************************************************************)
(* The stages that change nothing in a cluster: observation, binding and   *)
(* evaluation (internal/execution/staged_observation.go, staged_binding.go *)
(* and staged_evaluation.go).  The three operations share one shape.  Run  *)
(* returns the receipt in the stage's deterministic slot if there is one,  *)
(* and otherwise observes and stores a receipt.  Retry observes again, but *)
(* only for a caller that names a terminal receipt that is on record.      *)
(*                                                                         *)
(* No grant protects these stages, so any number of processes may run one  *)
(* at the same time.  One action is one call of the record store or of the *)
(* observer.  A create that is served after its run gave it up, or died, is *)
(* here the create of a run that is only slow: nothing below asks whether  *)
(* the run that stored a receipt still stands.                             *)
(***************************************************************************)
CONSTANTS
    Process,        \* concurrently running executors
    Predecessor,    \* verified receipts of the predecessor stage
    Result,         \* what the observer may report
    Retryable,      \* the outcomes Retry may follow
    Slot,           \* key of the deterministic slot
    Absent,         \* no record under the key
    Torn            \* a record that exists and cannot be decoded

Outcome == {"SUCCEEDED", "FAILED", "STOPPED"}

(***************************************************************************)
(* A receipt names its predecessor and what was observed.  The digest of a *)
(* receipt, which names its attempt slot, stands for the receipt itself.   *)
(***************************************************************************)
StageReceipt == [predecessor : Predecessor, result : Result]
Key == {Slot} \cup StageReceipt

ASSUME ReadOnlyStageAssumption ==
    /\ \A r \in Result : r.outcome \in Outcome
    /\ Retryable \subseteq Outcome \ {"SUCCEEDED"}
    /\ Absent # Torn
    /\ {Absent, Torn, Slot} \cap (StageReceipt \cup Predecessor) = {}

VARIABLES
    fileBacked, \* TRUE: file store;  FALSE: Kubernetes store
    record,     \* category "stage-receipts" of the ledger, by key
    pc,         \* where a run stands
    cursor,     \* the predecessor its cursor was evaluated with
    retryOf,    \* failedReceiptDigest of the run, Absent for Run
    receipt,    \* the receipt it is about to store
    key,        \* the slot it is storing to
    reply,      \* what the last finished run of the process returned
    found       \* content of the deterministic slot when Run began (history)

local == <<pc, cursor, retryOf, receipt, key, reply, found>>
vars == <<fileBacked, record, local>>

Step == {"idle", "inspect", "loadSlot", "loadAttempt", "observe", "create",
         "write", "readBack"}

NoReply == [state |-> "NONE", receipt |-> Absent]

Init ==
    /\ fileBacked \in BOOLEAN
    /\ record = [k \in Key |-> Absent]
    /\ pc = [p \in Process |-> "idle"]
    /\ cursor = [p \in Process |-> Absent]
    /\ retryOf = [p \in Process |-> Absent]
    /\ receipt = [p \in Process |-> Absent]
    /\ key = [p \in Process |-> Slot]
    /\ reply = [p \in Process |-> NoReply]
    /\ found = [p \in Process |-> Absent]

Recorded(r) == r \in StageReceipt

Goto(p, l) == pc' = [pc EXCEPT ![p] = l]

(***************************************************************************)
(* A run that stays in the operation keeps its arguments and its reply.    *)
(***************************************************************************)
Continue(p, l) ==
    /\ Goto(p, l)
    /\ UNCHANGED <<cursor, retryOf, receipt, key, reply, found>>

Return(p, state, r) ==
    /\ Goto(p, "idle")
    /\ reply' = [reply EXCEPT ![p] = [state |-> state, receipt |-> r]]
    /\ cursor' = [cursor EXCEPT ![p] = Absent]
    /\ receipt' = [receipt EXCEPT ![p] = Absent]
    /\ key' = [key EXCEPT ![p] = Slot]
    /\ UNCHANGED <<retryOf, found>>

Fail(p) == Return(p, "PRE", Absent)
Completed(p, r) == Return(p, "COMPLETED", r)

Start(p, pred, r) ==
    /\ pc[p] = "idle"
    /\ Goto(p, "inspect")
    /\ cursor' = [cursor EXCEPT ![p] = pred]
    /\ retryOf' = [retryOf EXCEPT ![p] = r]
    /\ reply' = [reply EXCEPT ![p] = NoReply]
    /\ found' = [found EXCEPT ![p] = record[Slot]]
    /\ UNCHANGED <<fileBacked, record, receipt, key>>

Run(p, pred) == Start(p, pred, Absent)

(***************************************************************************)
(* The caller may present any digest, on record or not.                    *)
(***************************************************************************)
Retry(p, pred, r) == Start(p, pred, r)

(***************************************************************************)
(* Verify binds a receipt to the predecessors the caller presents.         *)
(***************************************************************************)
BoundTo(r, pred) == Recorded(r) /\ r.predecessor = pred

(***************************************************************************)
(* ErrRecordNotFound, the only answer after which Run observes.  The       *)
(* variant takes anything but a success for a stage that has not run.      *)
(***************************************************************************)
NotSucceeded(r) == ~(Recorded(r) /\ r.result.outcome = "SUCCEEDED")
NotFound(r) == r = Absent

(***************************************************************************)
(* InspectStageReceipt and the branches on what it found.                  *)
(***************************************************************************)
InspectStageReceipt(p) ==
    LET r == record[Slot] IN
    /\ pc[p] = "inspect"
    /\ \/ NotFound(r) /\ retryOf[p] = Absent /\ Continue(p, "observe")
       \/ BoundTo(r, cursor[p]) /\ retryOf[p] = Absent /\ Completed(p, r)
       \/ BoundTo(r, cursor[p]) /\ retryOf[p] # Absent /\ Continue(p, "loadSlot")
       \/ Fail(p)
    /\ UNCHANGED <<fileBacked, record>>

(***************************************************************************)
(* LoadStageReceipt and the check of the loaded state: the digest must     *)
(* name a terminal receipt in the deterministic slot or in its own slot.   *)
(* The variant lets Retry follow any receipt.                              *)
(***************************************************************************)
MayRetryAny(p, r) == BoundTo(r, cursor[p])
MayRetry(p, r) == BoundTo(r, cursor[p]) /\ r.result.outcome \in Retryable

LoadFromSlot(p) ==
    /\ pc[p] = "loadSlot"
    /\ \/ /\ record[Slot] = retryOf[p]
          /\ MayRetry(p, record[Slot])
          /\ Continue(p, "observe")
       \/ record[Slot] # retryOf[p] /\ Continue(p, "loadAttempt")
       \/ Fail(p)
    /\ UNCHANGED <<fileBacked, record>>

LoadFromAttempt(p) ==
    /\ pc[p] = "loadAttempt"
    /\ \/ /\ record[retryOf[p]] = retryOf[p]
          /\ MayRetry(p, record[retryOf[p]])
          /\ Continue(p, "observe")
       \/ Fail(p)
    /\ UNCHANGED <<fileBacked, record>>

(***************************************************************************)
(* Observe, Bind or Evaluate, and the receipt made of its result.          *)
(***************************************************************************)
Observe(p, res) ==
    /\ pc[p] = "observe"
    /\ \/ /\ receipt' = [receipt EXCEPT ![p] = [predecessor |-> cursor[p], result |-> res]]
          /\ Goto(p, "create")
          /\ UNCHANGED <<cursor, retryOf, key, reply, found>>
       \/ Fail(p)
    /\ UNCHANGED <<fileBacked, record>>

(***************************************************************************)
(* StoreStageReceipt tries the deterministic slot and then the slot named  *)
(* after the receipt.  A create succeeds only where nothing exists.  The   *)
(* variant overwrites whatever is there.                                   *)
(***************************************************************************)
CreatableAlways(r) == TRUE
Creatable(r) == r = Absent

Create(p) ==
    LET k == key[p] IN
    /\ pc[p] = "create"
    /\ \/ /\ Creatable(record[k])
          /\ IF fileBacked
             THEN /\ record' = [record EXCEPT ![k] = Torn]
                  /\ Continue(p, "write")
             ELSE /\ record' = [record EXCEPT ![k] = receipt[p]]
                  /\ Completed(p, receipt[p]) \/ Fail(p)
       \/ /\ ~Creatable(record[k])
          /\ Continue(p, "readBack")
          /\ UNCHANGED record
       \/ /\ Fail(p)
          /\ UNCHANGED record
    /\ UNCHANGED fileBacked

Write(p) ==
    LET written == [record EXCEPT ![key[p]] = receipt[p]] IN
    /\ pc[p] = "write"
    /\ \/ record' = written /\ Completed(p, receipt[p])
       \/ record' \in {record, written} /\ Fail(p)
    /\ UNCHANGED fileBacked

(***************************************************************************)
(* The slot is taken: the same bytes are an exact replay, a different      *)
(* record sends the receipt from the deterministic slot to its own one.    *)
(* The variant takes whatever is there for a replay.                       *)
(***************************************************************************)
ReplayOfAnything(r, p) == r # Absent
ExactReplay(r, p) == r = receipt[p]

ReadBack(p) ==
    LET r == record[key[p]] IN
    /\ pc[p] = "readBack"
    /\ \/ ExactReplay(r, p) /\ Completed(p, receipt[p])
       \/ /\ key[p] = Slot
          /\ ~ExactReplay(r, p)
          /\ key' = [key EXCEPT ![p] = receipt[p]]
          /\ Goto(p, "create")
          /\ UNCHANGED <<cursor, retryOf, receipt, reply, found>>
       \/ Fail(p)
    /\ UNCHANGED <<fileBacked, record>>

Crash(p) ==
    /\ pc[p] # "idle"
    /\ Return(p, "NONE", Absent)
    /\ UNCHANGED <<fileBacked, record>>

Next ==
    \E p \in Process :
        \/ \E pred \in Predecessor : Run(p, pred)
        \/ \E pred \in Predecessor, r \in StageReceipt : Retry(p, pred, r)
        \/ InspectStageReceipt(p)
        \/ LoadFromSlot(p)
        \/ LoadFromAttempt(p)
        \/ \E res \in Result : Observe(p, res)
        \/ Create(p)
        \/ Write(p)
        \/ ReadBack(p)
        \/ Crash(p)

Spec == Init /\ [][Next]_vars

-----------------------------------------------------------------------------
TypeOK ==
    /\ fileBacked \in BOOLEAN
    /\ record \in [Key -> StageReceipt \cup {Absent, Torn}]
    /\ pc \in [Process -> Step]
    /\ cursor \in [Process -> Predecessor \cup {Absent}]
    /\ retryOf \in [Process -> StageReceipt \cup {Absent}]
    /\ receipt \in [Process -> StageReceipt \cup {Absent}]
    /\ key \in [Process -> Key]
    /\ reply \in [Process -> [state : {"NONE", "PRE", "COMPLETED"},
                              receipt : StageReceipt \cup {Absent}]]
    /\ found \in [Process -> StageReceipt \cup {Absent, Torn}]

(***************************************************************************)
(* A receipt that was returned as COMPLETED_x is durable under a key where *)
(* LoadStageReceipt finds it, whichever other runs raced for the slot; and *)
(* "an already persisted receipt is returned without observing again": a   *)
(* Run that begins when the slot holds a receipt returns that receipt or   *)
(* none, in spite of runs and retries that store other ones meanwhile.     *)
(***************************************************************************)
CompletedIsDurable ==
    \A p \in Process :
        /\ reply[p].state = "COMPLETED" =>
              reply[p].receipt \in {record[Slot], record[reply[p].receipt]}
        /\ retryOf[p] = Absent /\ Recorded(found[p]) =>
              /\ pc[p] \in {"idle", "inspect"}
              /\ reply[p].state = "COMPLETED" => reply[p].receipt = found[p]

(***************************************************************************)
(* "A missing, successful, foreign or malformed receipt stops before       *)
(* source access": a Retry that gets as far as observing, and everything   *)
(* it stores, rests on a terminal receipt of the same predecessor that is  *)
(* on record.                                                              *)
(***************************************************************************)
RetryRestsOnTerminal ==
    \A p \in Process :
        retryOf[p] # Absent /\ pc[p] \in {"observe", "create", "write", "readBack"} =>
            /\ retryOf[p] \in {record[Slot], record[retryOf[p]]}
            /\ retryOf[p].predecessor = cursor[p]
            /\ retryOf[p].result.outcome # "SUCCEEDED"

Closed ==
    /\ record[Slot] = Torn
    /\ \A p \in Process : pc[p] \in {"idle", "inspect"}

(***************************************************************************)
(* "The original deterministic receipt is never replaced", and neither is  *)
(* any attempt: a complete record stays, an existing one never goes, and a *)
(* torn deterministic slot closes the stage: no later run stores beside    *)
(* it.                                                                     *)
(***************************************************************************)
ReceiptsKept ==
    [][/\ \A k \in Key :
             /\ Recorded(record[k]) => record'[k] = record[k]
             /\ record[k] # Absent => record'[k] # Absent
       /\ Closed => Closed' /\ UNCHANGED record]_vars

=============================================================================
