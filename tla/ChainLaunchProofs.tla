-------------------------- MODULE ChainLaunchProofs --------------------------
(* Proofs about StageChain, for any plan documents, any length of a plan    *)
(* and any number of receipts and recoveries; and about StageLaunch, for    *)
(* any number of launches, any orderly families of objects, any source      *)
(* files and credentials.  The two specifications share no variable.        *)
EXTENDS StageChain, StageLaunch, SequenceTheorems, FiniteSetTheorems,
        WellFoundedInduction, TLAPS

-----------------------------------------------------------------------------
(* What a cursor is made of.                                                *)
Bindings ==
    [source : Plans, successor : Plans, receipts : [1..Inherited -> receipts],
     stop : stops, target : {"uid"}, former : Releases]

Items ==
    [receipt : receipts, recovery : Plans \cup {None}, binding : Bindings \cup {None},
     origin : Plans \cup {None}]

CursorTyped ==
    /\ cursor \in [state : {"none", "LOADING", "NEXT", "COMPLETED", "STOPPED"},
                   plan : Plans \cup {None}, prefix : Seq(Items), next : Nat]
    /\ cursor.state # "none" => cursor.plan \in Plans

(* No plan of a recovery is ever executed, so no receipt is of one.         *)
ReceiptKnown(receipt) ==
    /\ receipt.plan \in Plans /\ ~IsRecovery(receipt.plan)
    /\ receipt.order \in Nat /\ receipt.at \in Nat
    /\ HasItsHistory(receipt)

(* Only a recovery reads receipts as the successor's.                       *)
OwnReceipts ==
    cursor.state # "none" /\ ~IsRecovery(cursor.plan) =>
        \A i \in DOMAIN cursor.prefix : cursor.prefix[i].recovery = None

(* What a recovery loads begins with what its binding inherits.             *)
InheritsFrom(binding, plan, prefix) ==
    /\ RecoveryVerified(binding, plan)
    /\ Len(prefix) >= Inherited
    /\ \A i \in 1..Inherited : prefix[i].receipt = binding.receipts[i]

RecoveryInherits ==
    cursor.state # "none" /\ IsRecovery(cursor.plan) =>
        \/ cursor.prefix = <<>>
        \/ \E binding \in Bindings : InheritsFrom(binding, cursor.plan, cursor.prefix)

Admitted ==
    /\ Decided => CursorAdmits(cursor.plan, cursor.prefix)
    /\ cursor.state = "NEXT" => cursor.next = Len(cursor.prefix) + 1

ChainInv ==
    /\ CursorTyped /\ OwnReceipts /\ RecoveryInherits /\ Admitted
    /\ \A receipt \in receipts : ReceiptKnown(receipt)

-----------------------------------------------------------------------------
(* What verification of a receipt says of the receipts it links.            *)
LEMMA Linked ==
    ASSUME NEW receipt, NEW plan, NEW item, ReceiptVerified(receipt, plan, <<item>>)
    PROVE  /\ receipt.links = <<item.receipt>>
           /\ receipt.plan = plan
           /\ item.receipt.plan = plan \/ item.recovery = plan
           /\ item.receipt.order = receipt.order - 1
           /\ item.receipt.state = "SUCCEEDED"
           /\ receipt.at >= item.receipt.at
<1>1. Len(<<item>>) = 1 /\ <<item>>[1] = item /\ 1 \in DOMAIN <<item>>
    OBVIOUS
<1>2. Links(<<item>>) = <<item.receipt>>
    BY DEF Links
<1>3. LinksVerified(plan, receipt.order, <<item>>, receipt.at)
    BY DEF ReceiptVerified
<1> QED
    BY <1>1, <1>2, <1>3 DEF ReceiptVerified, LinksVerified

LEMMA First ==
    ASSUME NEW receipt, NEW plan, ReceiptVerified(receipt, plan, <<>>)
    PROVE  receipt.links = <<>> /\ receipt.order = 1 /\ receipt.plan = plan
<1>1. Len(<<>>) = 0
    OBVIOUS
<1>2. Links(<<>>) = <<>>
    BY DEF Links
<1>3. LinksVerified(plan, receipt.order, <<>>, receipt.at)
    BY DEF ReceiptVerified
<1> QED
    BY <1>1, <1>2, <1>3 DEF ReceiptVerified, LinksVerified

-----------------------------------------------------------------------------
LEMMA InitChain == ChainInit => ChainInv
<1> SUFFICES ASSUME ChainInit PROVE ChainInv
    OBVIOUS
<1>1. cursor.state = "none" /\ cursor.plan = None /\ cursor.prefix = <<>> /\ cursor.next = 0
    BY DEF ChainInit, NoCursor
<1>2. CursorTyped
    BY DEF ChainInit, NoCursor, CursorTyped
<1> QED
    BY <1>1, <1>2 DEF ChainInit, ChainInv, OwnReceipts, RecoveryInherits, Admitted, Decided

(* A run that ends leaves no cursor behind, and no receipt is lost.         *)
LEMMA Ending ==
    ASSUME ChainInv, cursor' = NoCursor,
           receipts \subseteq receipts',
           \A receipt \in receipts' \ receipts :
              /\ receipt.plan \in Plans /\ ~IsRecovery(receipt.plan)
              /\ receipt.order \in Nat /\ receipt.at \in Nat
              /\ HasItsHistory(receipt)
    PROVE  ChainInv'
<1>1. cursor'.state = "none" /\ cursor'.prefix = <<>>
    BY DEF NoCursor
<1>2. CursorTyped'
    BY DEF NoCursor, CursorTyped
<1>3. ASSUME NEW receipt \in receipts' PROVE ReceiptKnown(receipt)'
  <2>1. /\ receipt.plan \in Plans /\ ~IsRecovery(receipt.plan)
        /\ receipt.order \in Nat /\ receipt.at \in Nat
        /\ HasItsHistory(receipt)
      BY DEF ChainInv, ReceiptKnown
  <2>2. HasItsHistory(receipt)'
      BY <2>1 DEF HasItsHistory
  <2> QED
      BY <2>1, <2>2 DEF ReceiptKnown, IsRecovery
<1> QED
    BY <1>1, <1>2, <1>3 DEF ChainInv, OwnReceipts, RecoveryInherits, Admitted, Decided

(* Everything else changes the cursor only.                                 *)
LEMMA Reading ==
    ASSUME ChainInv, UNCHANGED <<receipts, stops>>,
           CursorTyped', OwnReceipts', RecoveryInherits', Admitted'
    PROVE  ChainInv'
BY DEF ChainInv, ReceiptKnown, HasItsHistory, IsRecovery

LEMMA ResumeKeeps ==
    ASSUME ChainInv, NEW plan \in Plans, NEW expected, Resume(plan, expected)
    PROVE  ChainInv'
<1>1. cursor' = Loading(plan, <<>>) /\ UNCHANGED <<receipts, stops>>
    BY DEF Resume
<1>2. cursor'.state = "LOADING" /\ cursor'.plan = plan /\ cursor'.prefix = <<>>
    BY <1>1 DEF Loading
<1>3. CursorTyped'
    BY <1>1 DEF Loading, CursorTyped
<1> QED
    BY <1>1, <1>2, <1>3, Reading DEF OwnReceipts, RecoveryInherits, Admitted, Decided

LEMMA RecoverKeeps ==
    ASSUME ChainInv, NEW plan \in Plans, NEW source \in Plans, NEW expected,
           Recover(plan, source, expected)
    PROVE  ChainInv'
<1>1. PICK stop \in stops, chain \in [1..Inherited -> receipts], former \in Releases :
         LET binding == [source |-> source, successor |-> plan, receipts |-> chain,
                         stop |-> stop, target |-> "uid", former |-> former]
         IN  RecoveryVerified(binding, plan) /\ cursor' = Loading(plan, InheritedPrefix(binding))
    BY DEF Recover
<1>2. PICK binding : binding = [source |-> source, successor |-> plan, receipts |-> chain,
                               stop |-> stop, target |-> "uid", former |-> former]
    OBVIOUS
<1>3. /\ binding \in Bindings /\ RecoveryVerified(binding, plan)
      /\ cursor' = Loading(plan, InheritedPrefix(binding))
    BY <1>1, <1>2 DEF Bindings
<1>4. /\ binding.source = source /\ binding.successor = plan /\ binding.receipts = chain
      /\ DOMAIN chain = 1..Inherited /\ Inherited \in Nat
    BY <1>2, ChainAssumption
<1>5. UNCHANGED <<receipts, stops>>
    BY DEF Recover
<1>6. IsRecovery(plan)
  <2>1. Document[plan].source = source
      BY <1>3, <1>4 DEF RecoveryVerified, Inheritable
  <2> QED
      BY <2>1, ChainAssumption DEF IsRecovery
<1>7. PICK prefix : prefix = InheritedPrefix(binding)
    OBVIOUS
<1>8. /\ prefix \in Seq(Items) /\ Len(prefix) = Inherited
      /\ \A i \in 1..Inherited : prefix[i].receipt = chain[i]
  <2>1. prefix = [i \in 1..Inherited |->
                    [receipt |-> chain[i], recovery |-> plan, binding |-> binding,
                     origin |-> source]]
      BY <1>4, <1>7 DEF InheritedPrefix
  <2>2. prefix \in [1..Inherited -> Items]
      BY <1>3, <1>4, <2>1 DEF Items
  <2> QED
      BY <1>4, <2>1, <2>2
<1>9. cursor' = [state |-> "LOADING", plan |-> plan, prefix |-> prefix, next |-> 0]
    BY <1>3, <1>7 DEF Loading
<1>10. CursorTyped'
  <2>1. Items' = Items
      BY <1>5 DEF Items, Bindings
  <2> QED
      BY <1>8, <1>9, <2>1 DEF CursorTyped
<1>11. RecoveryInherits'
  <2>1. InheritsFrom(binding, plan, prefix)
      BY <1>3, <1>4, <1>8 DEF InheritsFrom
  <2>2. \E b \in Bindings : InheritsFrom(b, plan, prefix)
      BY <1>3, <2>1
  <2>3. Bindings' = Bindings
      BY <1>5 DEF Bindings
  <2> QED
      BY <1>9, <2>2, <2>3 DEF RecoveryInherits
<1>12. OwnReceipts' /\ Admitted'
    BY <1>6, <1>9 DEF OwnReceipts, Admitted, Decided
<1> QED
    BY <1>5, <1>10, <1>11, <1>12, Reading

(* The loop: a plan that is no recovery adds receipts of its own, and a     *)
(* recovery finds none after those it inherits, since none is ever written. *)
LEMMA LoadReceiptKeeps ==
    ASSUME ChainInv, NEW receipt \in receipts, LoadReceipt(receipt)
    PROVE  ChainInv'
<1> DEFINE n == Len(cursor.prefix)
           item == Verified(receipt, cursor.plan)
<1>1. /\ cursor.state = "LOADING" /\ UNCHANGED <<receipts, stops>>
      /\ cursor' = Loading(cursor.plan, Append(cursor.prefix, item))
      /\ ReceiptVerified(receipt, cursor.plan,
             IF n = 0 THEN <<>> ELSE <<cursor.prefix[n]>>)
    BY DEF LoadReceipt
<1>2. /\ cursor.plan \in Plans /\ cursor.prefix \in Seq(Items) /\ n \in Nat
    BY <1>1 DEF ChainInv, CursorTyped
<1>3. receipt.plan = cursor.plan
    BY <1>1 DEF ReceiptVerified
<1>4. ~IsRecovery(cursor.plan)
    BY <1>3 DEF ChainInv, ReceiptKnown
<1>5. item = [receipt |-> receipt, recovery |-> None, binding |-> None, origin |-> None]
    BY <1>4 DEF Verified, Plain
<1>6. item \in Items
    BY <1>5 DEF Items
<1>7. PICK prefix : prefix = Append(cursor.prefix, item)
    OBVIOUS
<1>8. /\ prefix \in Seq(Items) /\ DOMAIN prefix = 1..(n + 1)
      /\ \A i \in 1..n : prefix[i] = cursor.prefix[i]
      /\ prefix[n + 1] = item
    BY <1>2, <1>6, <1>7
<1>9. cursor' = [state |-> "LOADING", plan |-> cursor.plan, prefix |-> prefix, next |-> 0]
    BY <1>1, <1>7 DEF Loading
<1>10. CursorTyped'
  <2>1. Items' = Items
      BY <1>1 DEF Items, Bindings
  <2> QED
      BY <1>2, <1>8, <1>9, <2>1 DEF CursorTyped
<1>11. OwnReceipts'
  <2>1. \A i \in DOMAIN cursor.prefix : cursor.prefix[i].recovery = None
      BY <1>1, <1>4 DEF ChainInv, OwnReceipts
  <2>2. ASSUME NEW i \in DOMAIN prefix PROVE prefix[i].recovery = None
    <3>1. CASE i \in 1..n
        BY <1>2, <1>8, <2>1, <3>1
    <3>2. CASE i = n + 1
        BY <1>5, <1>8, <3>2
    <3> QED
        BY <1>2, <1>8, <3>1, <3>2
  <2> QED
      BY <1>9, <2>2 DEF OwnReceipts
<1>12. RecoveryInherits' /\ Admitted'
    BY <1>4, <1>9 DEF RecoveryInherits, Admitted, Decided, IsRecovery
<1> QED
    BY <1>1, <1>10, <1>11, <1>12, Reading

LEMMA EvaluateKeeps ==
    ASSUME ChainInv, Evaluate
    PROVE  ChainInv'
<1>1. /\ cursor.state = "LOADING" /\ CursorAdmits(cursor.plan, cursor.prefix)
      /\ UNCHANGED <<receipts, stops>>
      /\ cursor' = [state |-> CursorState(cursor.plan, cursor.prefix), plan |-> cursor.plan,
                    prefix |-> cursor.prefix,
                    next |-> IF CursorState(cursor.plan, cursor.prefix) = "NEXT"
                             THEN Len(cursor.prefix) + 1 ELSE 0]
    BY DEF Evaluate, Cursor
<1>2. CursorState(cursor.plan, cursor.prefix) \in {"STOPPED", "COMPLETED", "NEXT"}
    BY DEF CursorState
<1>3. cursor.plan \in Plans /\ cursor.prefix \in Seq(Items) /\ Len(cursor.prefix) \in Nat
    BY <1>1 DEF ChainInv, CursorTyped
<1>4. Items' = Items /\ Bindings' = Bindings
    BY <1>1 DEF Items, Bindings
<1>5. cursor'.plan = cursor.plan /\ cursor'.prefix = cursor.prefix
    BY <1>1
<1>6. CursorTyped'
    BY <1>1, <1>2, <1>3, <1>4 DEF CursorTyped
<1>7. OwnReceipts' /\ RecoveryInherits'
    BY <1>1, <1>4, <1>5 DEF ChainInv, OwnReceipts, RecoveryInherits
<1>8. Admitted'
    BY <1>1, <1>2, <1>5 DEF Admitted
<1> QED
    BY <1>1, <1>6, <1>7, <1>8, Reading

(* A receipt is added after those its cursor rests on.                      *)
LEMMA RecordStageKeeps ==
    ASSUME ChainInv, NEW state, NEW mutation, NEW target, NEW at \in 0..MaxCompletedAt,
           RecordStage(state, mutation, target, at)
    PROVE  ChainInv'
<1> DEFINE plan == cursor.plan
           order == cursor.next
           predecessors == Before(cursor.prefix, order)
<1>1. PICK receipt :
         /\ receipt = [plan |-> plan, order |-> order, links |-> Links(predecessors),
                       state |-> state, mutation |-> mutation, target |-> target,
                       at |-> at, binding |-> BindingOf(plan, predecessors)]
         /\ ReceiptVerified(receipt, plan, predecessors)
         /\ receipts' = receipts \cup {receipt} /\ cursor' = NoCursor
    BY DEF RecordStage
<1>2. /\ cursor.state = "NEXT" /\ ~IsRecovery(plan)
      /\ plan \in Plans /\ cursor.prefix \in Seq(Items)
      /\ order = Len(cursor.prefix) + 1 /\ order \in Nat
    BY DEF RecordStage, ExecutionEnabled, ChainInv, CursorTyped, Admitted
<1>3. receipt.plan = plan /\ receipt.order = order /\ receipt.at = at /\ at \in Nat
    BY <1>1, ChainAssumption
<1>4. HasItsHistory(receipt)
  <2>1. CASE order = 1
      BY <1>1, <2>1, First DEF Before, HasItsHistory
  <2>2. CASE order # 1
    <3>1. PICK i \in DOMAIN cursor.prefix : i = order - 1
        BY <1>2, <2>2
    <3>2. PICK item : item = cursor.prefix[i]
        OBVIOUS
    <3>3. item \in Items /\ item.receipt \in receipts /\ item.recovery = None
      <4>1. item \in Items
          BY <1>2, <3>1, <3>2
      <4>2. item.receipt \in receipts
          BY <4>1 DEF Items
      <4>3. item.recovery = None
          BY <1>2, <3>1, <3>2 DEF ChainInv, OwnReceipts
      <4> QED
          BY <4>1, <4>2, <4>3
    <3>4. ReceiptVerified(receipt, plan, <<item>>)
        BY <1>1, <2>2, <3>1, <3>2 DEF Before
    <3>5. item.receipt.plan = plan
        BY <1>2, <3>3, <3>4, Linked, ChainAssumption
    <3>6. item.receipt.at \in Nat
        BY <3>3 DEF ChainInv, ReceiptKnown
    <3>7. item.receipt.at <= receipt.at
        BY <1>3, <3>4, <3>6, Linked
    <3> QED
        BY <1>3, <3>3, <3>4, <3>5, <3>7, Linked DEF HasItsHistory
  <2> QED
      BY <2>1, <2>2
<1>5. receipts \subseteq receipts' /\ receipts' \ receipts \subseteq {receipt}
    BY <1>1
<1> QED
    BY <1>1, <1>2, <1>3, <1>4, <1>5, Ending

LEMMA NextChain == ChainInv /\ [ChainNext]_chainVars => ChainInv'
<1> SUFFICES ASSUME ChainInv, [ChainNext]_chainVars PROVE ChainInv'
    OBVIOUS
<1>1. CASE Return \/ \E category \in {"OBSERVATION_SOURCE_ERROR", "OTHER"} : StopRun(category)
    BY <1>1, Ending DEF Return, StopRun
<1>2. CASE UNCHANGED chainVars
  <2>1. CursorTyped' /\ OwnReceipts' /\ RecoveryInherits' /\ Admitted'
      BY <1>2 DEF chainVars, ChainInv, CursorTyped, OwnReceipts, RecoveryInherits, Admitted,
                  Decided, Items, Bindings, IsRecovery
  <2> QED
      BY <1>2, <2>1, Reading DEF chainVars
<1> QED
    BY <1>1, <1>2, ResumeKeeps, RecoverKeeps, LoadReceiptKeeps, EvaluateKeeps, RecordStageKeeps
       DEF ChainNext

LEMMA ChainInductive == ChainSpec => []ChainInv
BY InitChain, NextChain, PTL DEF ChainSpec

-----------------------------------------------------------------------------
(* Whatever the operator hands over, and whichever runs stop, resume or     *)
(* recover, a persisted receipt links one persisted, successful receipt of  *)
(* the stage before it, or is of the first stage.                           *)
THEOREM HistoriesAreWhole == ChainSpec => []EveryReceiptHasItsHistory
<1>1. ChainInv => EveryReceiptHasItsHistory
    BY DEF ChainInv, ReceiptKnown, EveryReceiptHasItsHistory
<1> QED
    BY <1>1, ChainInductive, PTL

(* A decision of the cursor, to run a next stage, to stop or that all is    *)
(* done, rests on one chain of persisted receipts; that of a recovery also  *)
(* on the recorded stop of its source plan (stagecursor.Evaluate and        *)
(* VerifyNetworkRecovery).                                                  *)
THEOREM DecisionsRestOnOneHistory == ChainSpec => []DecisionRestsOnOneHistory
<1>1. ASSUME ChainInv, Decided PROVE DecisionRestsOnOneHistory
  <2> DEFINE plan == cursor.plan
             prefix == cursor.prefix
             chain == [i \in DOMAIN prefix |-> prefix[i].receipt]
             Owner(i) == IF IsRecovery(plan) /\ i <= Inherited
                         THEN Document[plan].source ELSE plan
  <2>1. /\ plan \in Plans /\ prefix \in Seq(Items) /\ Len(prefix) \in Nat
        /\ DOMAIN prefix = 1..Len(prefix) /\ CursorAdmits(plan, prefix)
        /\ Inherited \in Nat /\ Lifecycle \in 1..Inherited
      BY <1>1, ChainAssumption DEF ChainInv, CursorTyped, Admitted, Decided
  <2>2. ASSUME NEW i \in DOMAIN prefix
        PROVE  /\ chain[i] \in receipts
               /\ chain[i].plan = Owner(i)
               /\ chain[i].order = i
               /\ i > 1 => /\ chain[i].links = <<chain[i - 1]>>
                           /\ chain[i].at >= chain[i - 1].at
                           /\ chain[i - 1].state = "SUCCEEDED"
    <3> DEFINE item == prefix[i]
    <3>1. /\ item \in Items /\ item.receipt \in receipts /\ chain[i] = item.receipt
          /\ item.receipt.order = i
          /\ Reverified(item, plan, Before(prefix, i))
      <4>1. item \in Items /\ chain[i] = item.receipt
          BY <2>1
      <4>2. item.receipt \in receipts
          BY <4>1 DEF Items
      <4>3. item.receipt.order = i /\ Reverified(item, plan, Before(prefix, i))
          BY <2>1 DEF CursorAdmits
      <4> QED
          BY <4>1, <4>2, <4>3
    <3>2. IsRecovery(plan) /\ i <= Inherited =>
             item.origin = Document[plan].source /\ item.origin # None
        BY <2>1 DEF CursorAdmits, InheritedFor
    <3>3. item.origin # None => item.origin = Document[plan].source /\ i <= Inherited
        BY <3>1 DEF Reverified
    <3>4. PICK owner : owner = IF item.origin = None THEN plan ELSE item.origin
        OBVIOUS
    <3>5. owner = Owner(i)
        BY <3>2, <3>3, <3>4 DEF IsRecovery
    <3>6. CASE i = 1
      <4>1. Before(prefix, i) = <<>>
          BY <3>6 DEF Before
      <4>2. \/ ReceiptVerified(item.receipt, owner, <<>>)
            \/ ReceiptVerified(item.receipt, owner,
                  [j \in DOMAIN <<>> |-> Plain(Before(prefix, i)[j].receipt)])
          BY <3>1, <3>4, <4>1 DEF Reverified
      <4>3. item.receipt.plan = owner
          BY <4>2 DEF ReceiptVerified
      <4> QED
          BY <3>1, <3>5, <3>6, <4>3
    <3>7. CASE i # 1
      <4>1. i - 1 \in DOMAIN prefix /\ chain[i - 1] = prefix[i - 1].receipt
          BY <2>1, <3>7
      <4>2. PICK previous : previous = prefix[i - 1]
          OBVIOUS
      <4>3. Before(prefix, i) = <<previous>>
          BY <3>7, <4>2 DEF Before
      <4>4. [j \in DOMAIN <<previous>> |-> Plain(<<previous>>[j].receipt)]
               = <<Plain(previous.receipt)>>
          OBVIOUS
      <4>5. Plain(previous.receipt).receipt = previous.receipt
          BY DEF Plain
      <4>6. PICK before : /\ before.receipt = previous.receipt
                          /\ ReceiptVerified(item.receipt, owner, <<before>>)
        <5>1. CASE item.origin = None
            BY <3>1, <3>4, <4>3, <5>1 DEF Reverified
        <5>2. CASE item.origin # None
            BY <3>1, <3>4, <4>3, <4>4, <4>5, <5>2 DEF Reverified
        <5> QED
            BY <5>1, <5>2
      <4> QED
          BY <3>1, <3>5, <4>1, <4>2, <4>6, Linked
    <3> QED
        BY <3>6, <3>7
  <2>3. ASSUME IsRecovery(plan) PROVE RestsOnStop(Document[plan], chain)
    <3>1. Len(prefix) >= Inherited
        BY <2>1, <2>3 DEF CursorAdmits
    <3>2. prefix # <<>>
        BY <2>1, <3>1
    <3>3. PICK binding \in Bindings : InheritsFrom(binding, plan, prefix)
        BY <1>1, <2>3, <3>2 DEF ChainInv, RecoveryInherits, Decided
    <3>4. /\ binding.stop \in stops /\ binding.receipts \in [1..Inherited -> receipts]
          /\ RecoveryVerified(binding, plan)
        BY <3>3 DEF Bindings, InheritsFrom
    <3>5. SubSeq(chain, 1, Inherited) = binding.receipts
      <4>1. chain \in Seq(receipts) /\ Len(chain) = Len(prefix)
        <5>1. \A i \in 1..Len(prefix) : prefix[i].receipt \in receipts
          <6>1. \A i \in 1..Len(prefix) : prefix[i] \in Items
              BY <2>1
          <6>2. \A item \in Items : item.receipt \in receipts
              BY DEF Items
          <6> QED
              BY <6>1, <6>2
        <5>2. chain = [i \in 1..Len(prefix) |-> prefix[i].receipt]
            BY <2>1
        <5>3. chain \in [1..Len(prefix) -> receipts]
            BY <5>1, <5>2
        <5> QED
            BY <2>1, <5>2, <5>3
      <4>2. binding.receipts \in Seq(receipts) /\ Len(binding.receipts) = Inherited
          BY <2>1, <3>4
      <4>3. \A i \in 1..Inherited : chain[i] = binding.receipts[i]
          BY <2>1, <3>1, <3>3 DEF InheritsFrom
      <4>4. /\ SubSeq(chain, 1, Inherited) \in Seq(receipts)
            /\ Len(SubSeq(chain, 1, Inherited)) = Inherited
            /\ \A i \in 1..Inherited : SubSeq(chain, 1, Inherited)[i] = chain[i]
          BY <2>1, <3>1, <4>1
      <4> QED
          BY <4>2, <4>3, <4>4, SeqEqual
    <3>6. chain[Lifecycle] = binding.receipts[Lifecycle]
        BY <2>1, <3>1, <3>3 DEF InheritsFrom
    <3>7. Document[plan].source = binding.source
        BY <3>4 DEF RecoveryVerified, Inheritable
    <3>8. /\ binding.stop.plan = binding.source
          /\ binding.stop.order = Inherited + 1
          /\ binding.stop.category = "OBSERVATION_SOURCE_ERROR"
          /\ binding.stop.checkpoints = binding.receipts
        BY <3>4 DEF RecoveryVerified, StopBinds
    <3>9. /\ binding.receipts[Lifecycle].target # None
          /\ Document[plan].intent = Document[binding.source].intent
          /\ Document[plan].profile.requires = Document[binding.source].profile.requires
          /\ Document[plan].profile.release = Document[plan].intent
        BY <3>4 DEF RecoveryVerified, Inheritable, ProfileCorrected
    <3> QED
        BY <3>4, <3>5, <3>6, <3>7, <3>8, <3>9 DEF RestsOnStop
  <2> QED
      BY <2>2, <2>3 DEF DecisionRestsOnOneHistory
<1>2. ChainInv => DecisionRestsOnOneHistory
    BY <1>1 DEF DecisionRestsOnOneHistory
<1> QED
    BY <1>2, ChainInductive, PTL

-----------------------------------------------------------------------------
(* StageLaunch.  What is known of one process, of the record s it keeps and *)
(* the request w it has sent, when f is the family, c the cluster, r the    *)
(* reviewed candidates and t the time.                                      *)
Candidates == [input : SUBSET Editable, token : Tokens]
Positions(f) == 1..Len(f.objects)
Object(f, i, candidate) ==
    IF f.objects[i] = "input" THEN candidate.input
    ELSE IF f.objects[i] \in CredentialRoles \cup {"private", "registration"}
    THEN {candidate.token}
    ELSE {}
Allowed(f, r) == IF f.reviewed THEN r ELSE Candidates

Reports(f) ==
    [state : {"STOPPED_ZERO_WRITE", "STOPPED_PARTIAL_OR_UNKNOWN",
              f.done, f.complete},
     mutation : {"NOT_ATTEMPTED", "ATTEMPTED", f.unknown, f.refused},
     results : SUBSET Positions(f), created : SUBSET Positions(f)]

Records(f) ==
    {Idle}
    \cup [pc : {"capturing"}, token : Tokens,
          left : SUBSET (f.files \cap Editable),
          input : SUBSET (f.files \cap Editable), deadline : Nat]
    \cup [pc : {"built", "opened"}, candidate : Candidates, deadline : Nat]
    \cup [pc : {"preflight"}, candidate : Candidates, deadline : Nat,
          at : Nat \ {0}, existing : SUBSET Positions(f)]
    \cup [pc : {"creating", "waiting"}, candidate : Candidates,
          deadline : Nat, results : SUBSET Positions(f),
          created : SUBSET Positions(f)]
    \cup [pc : {"done"}, candidate : Candidates, receipt : Reports(f)]

Requests(f) ==
    [at : 0..Len(f.objects),
     reply : {"none", "exact", "error", "altered", "conflict"}]

(* A process that has opened its launcher.                                  *)
Launching == {"opened", "preflight", "creating", "waiting", "done"}

(* Who has a request, and who is answered.                                  *)
Shaped(f, s, w) ==
    /\ s \in Records(f) /\ w \in Requests(f)
    /\ s.pc \notin {"waiting", "done"} => w = NoRequest
    /\ s.pc = "waiting" => w.at # 0
    /\ w.reply # "none" => s.pc = "waiting"

(* The candidate holds files of the family, and is one that was reviewed.   *)
Sourced(f, s, r) ==
    /\ s.pc \in Launching \cup {"built"} => s.candidate.input \subseteq f.files
    /\ s.pc \in Launching => s.candidate \in Allowed(f, r)

(* The deadline against the clock and the first expiry.                     *)
Timely(f, s, t) ==
    /\ s.pc \in {"capturing", "built", "opened"} =>
           s.deadline <= t + LaunchTimeout
    /\ s.pc \in {"preflight", "creating", "waiting"} /\ "remaining" \in f.checks =>
           s.deadline + MinRemaining <= Expiry[s.candidate.token] + LaunchTimeout

(* What a process believes exists, and what it believes it created.         *)
Believed(s) ==
    IF s.pc = "preflight" THEN s.existing
    ELSE IF s.pc \in {"creating", "waiting"} THEN s.results
    ELSE IF s.pc = "done" THEN s.receipt.results
    ELSE {}
Made(s) ==
    IF s.pc \in {"creating", "waiting"} THEN s.created
    ELSE IF s.pc = "done" THEN s.receipt.created
    ELSE {}
Claimed(s, w) == Made(s) \cup (IF w.reply = "exact" THEN {w.at} ELSE {})

(* All of it is exact, and what precedes a sent object is.                  *)
Exact(f, s, w, c) ==
    /\ \A i \in Believed(s) : c[i] = Object(f, i, s.candidate)
    /\ Made(s) \subseteq Believed(s)
    /\ \A i \in 1..(w.at - 1) : c[i] = Object(f, i, s.candidate)
    /\ w.reply = "exact" => c[w.at] = Object(f, w.at, s.candidate)

(* What a receipt says of its own launch.                                   *)
Reported(f, s, w) ==
    s.pc = "done" =>
        /\ s.receipt.mutation = "NOT_ATTEMPTED" =>
               w = NoRequest /\ s.receipt.created = {}
        /\ s.receipt.state \in {f.done, f.complete} =>
               s.receipt.results = Positions(f)

Launched(f, s, w, c, r, t) ==
    /\ Shaped(f, s, w) /\ Sourced(f, s, r) /\ Timely(f, s, t)
    /\ Exact(f, s, w, c) /\ Reported(f, s, w)

(* No two processes claim the same object.                                  *)
Disjoint(p, q) ==
    \A l, k \in Launchers : l # k =>
        Claimed(p[l], q[l]) \cap Claimed(p[k], q[k]) = {}

(* The object that starts the work is only there when everything else is    *)
(* exact, for one candidate that was reviewed.                              *)
Grounded(f, c, r) ==
    f.objects[Len(f.objects)] \in Workloads /\ c[Len(f.objects)] = {} =>
        \E candidate \in Allowed(f, r) :
            /\ candidate \in Candidates /\ candidate.input \subseteq f.files
            /\ \A i \in Positions(f) : c[i] = Object(f, i, candidate)

(* What the work has verified of its input.                                 *)
Held(f, c) == UNION {c[i] : i \in {j \in Positions(f) : f.objects[j] = "input"}}

WorkVerified(f, c, w) ==
    /\ w \in [state : {"none", "loading", "opening", "running", "refused"},
              opened : SUBSET {f.job.opens[i] : i \in 1..Len(f.job.opens)},
              at : Nat \ {0}]
    /\ w.state \in {"none", "loading"} => w.at = 1
    /\ w.state \in {"loading", "opening", "running"} =>
           f.objects[Len(f.objects)] \in Workloads /\ c[Len(f.objects)] = {}
    /\ w.state \in {"opening", "running"} =>
           /\ Held(f, c) \cap f.job.loads = {}
           /\ w.at <= Len(f.job.opens) + 1
           /\ \A i \in 1..(w.at - 1) : f.job.opens[i] \notin Held(f, c)
    /\ w.opened # {} =>
           /\ w.state \in {"opening", "running"}
           /\ \A o \in w.opened : \E i \in 1..(w.at - 1) : o = f.job.opens[i]
    /\ w.state = "running" => w.at = Len(f.job.opens) + 1

World ==
    /\ family \in Families /\ now \in Nat
    /\ edited \subseteq Editable /\ reviewed \subseteq Candidates
    /\ DOMAIN cluster = Positions(family)
    /\ launch = [l \in Launchers |-> launch[l]]
    /\ wire = [l \in Launchers |-> wire[l]]

Everyone ==
    \A l \in Launchers :
        Launched(family, launch[l], wire[l], cluster, reviewed, now)

LaunchInv ==
    /\ World /\ Everyone
    /\ Disjoint(launch, wire)
    /\ Grounded(family, cluster, reviewed)
    /\ WorkVerified(family, cluster, workload)

-----------------------------------------------------------------------------
LEMMA ContentIs ==
    ASSUME NEW i, NEW candidate
    PROVE  Content(i, candidate) = Object(family, i, candidate)
BY DEF Content, Object

LEMMA ObjectPresent ==
    ASSUME NEW f, NEW i, NEW candidate \in Candidates
    PROVE  Object(f, i, candidate) \notin {Absent, Foreign}
<1>1. /\ candidate.input \subseteq Editable /\ candidate.token \in Tokens
      /\ "absent" \notin Editable \cup Tokens
      /\ "foreign" \notin Editable \cup Tokens
  BY LaunchAssumption DEF Candidates
<1>2. /\ candidate.input # {"absent"} /\ candidate.input # {"foreign"}
      /\ {candidate.token} # {"absent"} /\ {candidate.token} # {"foreign"}
      /\ {} # {"absent"} /\ {} # {"foreign"}
  BY <1>1
<1> QED BY <1>2 DEF Object, Absent, Foreign

(* What a process believes it believes of positions of its family.          *)
LEMMA InPositions ==
    ASSUME NEW f, NEW s, NEW w, f \in Families, Shaped(f, s, w)
    PROVE  /\ Believed(s) \subseteq Positions(f) /\ Made(s) \subseteq Positions(f)
           /\ 1..(w.at - 1) \subseteq Positions(f)
           /\ w.reply = "exact" => w.at \in Positions(f)
           /\ s.pc \in Launching \cup {"built"} => s.candidate \in Candidates
<1>1. s \in Records(f) /\ w \in Requests(f) BY DEF Shaped
<1>2. Believed(s) \subseteq Positions(f) /\ Made(s) \subseteq Positions(f)
  BY <1>1 DEF Records, Idle, Believed, Made, Reports
<1>3. Len(f.objects) \in Nat BY FamilyAssumption DEF Orderly
<1>4. w.at \in 0..Len(f.objects) BY <1>1 DEF Requests
<1>5. 1..(w.at - 1) \subseteq Positions(f) BY <1>3, <1>4 DEF Positions
<1>6. w.reply = "exact" => w.at \in Positions(f)
  <2> SUFFICES ASSUME w.reply = "exact" PROVE w.at \in Positions(f) OBVIOUS
  <2>1. s.pc = "waiting" BY DEF Shaped
  <2>2. w.at # 0 BY <2>1 DEF Shaped
  <2> QED BY <2>2, <1>3, <1>4 DEF Positions
<1>7. s.pc \in Launching \cup {"built"} => s.candidate \in Candidates
  BY <1>1 DEF Records, Idle, Launching
<1> QED BY <1>2, <1>5, <1>6, <1>7

(* What exists stays, reviews stay, time passes.                            *)
LEMMA Kept ==
    ASSUME NEW f \in Families, NEW s, NEW w, NEW c, NEW d, NEW r, NEW q,
           NEW t \in Nat, NEW u \in Nat,
           Launched(f, s, w, c, r, t), r \subseteq q, t <= u,
           \A i \in Positions(f) : c[i] # Absent => d[i] = c[i]
    PROVE  Launched(f, s, w, d, q, u)
<1>1. Shaped(f, s, w) /\ Reported(f, s, w) BY DEF Launched
<1>2. Sourced(f, s, q) BY DEF Launched, Sourced, Allowed
<1>3. Timely(f, s, u)
  <2>1. Timely(f, s, t) /\ Shaped(f, s, w) BY DEF Launched
  <2>2. s.pc \in {"capturing", "built", "opened"} => s.deadline \in Nat
    BY <2>1 DEF Shaped, Records, Idle
  <2>3. LaunchTimeout \in Nat BY LaunchAssumption
  <2> QED BY <2>1, <2>2, <2>3 DEF Timely
<1>4. Exact(f, s, w, d)
  <2>1. Exact(f, s, w, c) BY DEF Launched
  <2>2. s.pc \notin Launching \cup {"built"} =>
            Believed(s) = {} /\ w = NoRequest
    BY <1>1 DEF Shaped, Launching, Believed
  <2>3. CASE s.pc \notin Launching \cup {"built"}
    <3>1. 1..(w.at - 1) = {} /\ w.reply = "none"
      BY <2>2, <2>3 DEF NoRequest
    <3> QED BY <2>1, <2>2, <2>3, <3>1 DEF Exact
  <2>4. CASE s.pc \in Launching \cup {"built"}
    <3>1. s.candidate \in Candidates BY <2>4, <1>1, InPositions
    <3>2. \A i : Object(f, i, s.candidate) # Absent
      BY <3>1, ObjectPresent
    <3>3. \A i \in Positions(f) : c[i] = Object(f, i, s.candidate) =>
              d[i] = Object(f, i, s.candidate)
      BY <3>2
    <3> QED BY <2>1, <3>3, <1>1, InPositions DEF Exact
  <2> QED BY <2>3, <2>4
<1> QED BY <1>1, <1>2, <1>3, <1>4 DEF Launched

(* A process moves on, and claims no more than it did.                      *)
LEMMA OwnStep ==
    ASSUME LaunchInv, NEW l \in Launchers, NEW s, NEW w,
           launch' = [launch EXCEPT ![l] = s],
           wire' = [wire EXCEPT ![l] = w],
           UNCHANGED <<family, now, edited, cluster, workload>>,
           reviewed \subseteq reviewed', reviewed' \subseteq Candidates,
           Launched(family, s, w, cluster, reviewed', now),
           Claimed(s, w) \subseteq Claimed(launch[l], wire[l])
    PROVE  LaunchInv'
<1>1. World' BY DEF LaunchInv, World
<1>2. /\ launch'[l] = s /\ wire'[l] = w
      /\ \A k \in Launchers \ {l} : launch'[k] = launch[k] /\ wire'[k] = wire[k]
  BY DEF LaunchInv, World
<1>3. ASSUME NEW k \in Launchers
      PROVE  Launched(family, launch'[k], wire'[k], cluster, reviewed', now)
  <2>1. CASE k = l BY <2>1, <1>2
  <2>2. CASE k # l
    <3>1. Launched(family, launch[k], wire[k], cluster, reviewed, now)
      BY DEF LaunchInv, Everyone
    <3>2. family \in Families /\ now \in Nat BY DEF LaunchInv, World
    <3>3. Launched(family, launch[k], wire[k], cluster, reviewed', now)
      BY <3>1, <3>2, Kept
    <3> QED BY <3>3, <2>2, <1>2
  <2> QED BY <2>1, <2>2
<1>4. Everyone' BY <1>3 DEF Everyone
<1>5. Disjoint(launch', wire')
  <2>1. Disjoint(launch, wire) BY DEF LaunchInv
  <2>2. \A k \in Launchers :
            Claimed(launch'[k], wire'[k]) \subseteq Claimed(launch[k], wire[k])
    BY <1>2
  <2> QED BY <2>1, <2>2 DEF Disjoint
<1>6. Grounded(family, cluster, reviewed')
  BY DEF LaunchInv, Grounded, Allowed
<1> QED BY <1>1, <1>4, <1>5, <1>6 DEF LaunchInv

(* What is known of one process before it moves.                            *)
LEMMA Own ==
    ASSUME LaunchInv, NEW l \in Launchers
    PROVE  /\ Launched(family, launch[l], wire[l], cluster, reviewed, now)
           /\ Shaped(family, launch[l], wire[l])
           /\ Sourced(family, launch[l], reviewed)
           /\ Timely(family, launch[l], now)
           /\ Exact(family, launch[l], wire[l], cluster)
           /\ Reported(family, launch[l], wire[l])
           /\ family \in Families /\ now \in Nat /\ Len(family.objects) \in Nat
           /\ Len(family.objects) > 0 /\ reviewed \subseteq Candidates
           /\ launch[l] \in Records(family) /\ wire[l] \in Requests(family)
           /\ wire = [wire EXCEPT ![l] = wire[l]]
           /\ launch = [launch EXCEPT ![l] = launch[l]]
<1>1. Launched(family, launch[l], wire[l], cluster, reviewed, now)
  BY DEF LaunchInv, Everyone
<1>2. family \in Families /\ now \in Nat BY DEF LaunchInv, World
<1>3. Len(family.objects) \in Nat /\ Len(family.objects) > 0
  <2>1. family.objects \in Seq(STRING) /\ family.objects # <<>>
    BY <1>2, FamilyAssumption DEF Orderly
  <2> QED BY <2>1
<1>4. reviewed \subseteq Candidates BY DEF LaunchInv, World
<1>5. /\ wire = [wire EXCEPT ![l] = wire[l]]
      /\ launch = [launch EXCEPT ![l] = launch[l]]
  BY DEF LaunchInv, World
<1> QED BY <1>1, <1>2, <1>3, <1>4, <1>5 DEF Launched, Shaped

(* A process without a request that is idle or still deriving.              *)
LEMMA Unsent ==
    ASSUME NEW f, NEW s, NEW c,
           s.pc \in {"idle", "capturing", "built", "opened"}
    PROVE  /\ Exact(f, s, NoRequest, c) /\ Reported(f, s, NoRequest)
           /\ Claimed(s, NoRequest) = {}
BY DEF Exact, Reported, Claimed, Made, Believed, NoRequest

LEMMA NoRequestIsOne ==
    ASSUME NEW f \in Families PROVE NoRequest \in Requests(f)
BY FamilyAssumption DEF NoRequest, Requests, Orderly

LEMMA ToIdle ==
    ASSUME LaunchInv, NEW l \in Launchers, launch[l].pc \in {"capturing", "built"},
           launch' = [launch EXCEPT ![l] = Idle],
           UNCHANGED <<family, now, edited, cluster, wire, workload>>,
           reviewed \subseteq reviewed', reviewed' \subseteq Candidates
    PROVE  LaunchInv'
<1>1. wire[l] = NoRequest BY Own DEF Shaped
<1>2. Shaped(family, Idle, NoRequest)
  BY Own, NoRequestIsOne DEF Shaped, Records, Idle, NoRequest
<1>3. Sourced(family, Idle, reviewed') /\ Timely(family, Idle, now)
  BY DEF Sourced, Timely, Idle, Launching
<1>4. Launched(family, Idle, NoRequest, cluster, reviewed', now)
  BY <1>2, <1>3, Unsent DEF Launched, Idle
<1>5. Claimed(Idle, NoRequest) = {} BY Unsent DEF Idle
<1>6. wire' = [wire EXCEPT ![l] = NoRequest] BY <1>1, Own
<1> QED BY <1>4, <1>5, <1>6, OwnStep

LEMMA BuildKeeps ==
    ASSUME LaunchInv, NEW l \in Launchers, Build(l)
    PROVE  LaunchInv'
<1>1. PICK token \in Tokens :
          launch' = [launch EXCEPT ![l] =
              [pc |-> "capturing", token |-> token,
               left |-> family.files \cap Editable, input |-> {},
               deadline |-> now + LaunchTimeout]]
  BY DEF Build
<1> DEFINE s == [pc |-> "capturing", token |-> token,
                 left |-> family.files \cap Editable, input |-> {},
                 deadline |-> now + LaunchTimeout]
<1>2. wire[l] = NoRequest BY Own DEF Shaped, Build
<1>3. s \in Records(family)
  <2>1. now + LaunchTimeout \in Nat BY Own, LaunchAssumption
  <2> QED BY <2>1 DEF Records
<1>4. Shaped(family, s, NoRequest)
  BY <1>3, Own, NoRequestIsOne DEF Shaped, NoRequest
<1>5. Sourced(family, s, reviewed) BY DEF Sourced, Launching
<1>6. Timely(family, s, now) BY Own, LaunchAssumption DEF Timely
<1>7. Launched(family, s, NoRequest, cluster, reviewed, now)
  BY <1>4, <1>5, <1>6, Unsent DEF Launched
<1>8. Claimed(s, NoRequest) = {} BY Unsent
<1>9. wire' = [wire EXCEPT ![l] = NoRequest] BY <1>2, Own DEF Build, world
<1>10. UNCHANGED <<family, now, edited, cluster, workload, reviewed>>
  BY DEF Build, world
<1> HIDE DEF s
<1> QED BY <1>1, <1>7, <1>8, <1>9, <1>10, Own, OwnStep DEF s

LEMMA CapturingRecord ==
    ASSUME LaunchInv, NEW l \in Launchers, launch[l].pc = "capturing"
    PROVE  /\ wire[l] = NoRequest
           /\ launch[l] \in [pc : {"capturing"}, token : Tokens,
                  left : SUBSET (family.files \cap Editable),
                  input : SUBSET (family.files \cap Editable), deadline : Nat]
<1>1. launch[l] \in Records(family) /\ wire[l] = NoRequest BY Own DEF Shaped
<1> QED BY <1>1 DEF Records, Idle

LEMMA CaptureKeeps ==
    ASSUME LaunchInv, NEW l \in Launchers, Capture(l)
    PROVE  LaunchInv'
<1>1. PICK file \in launch[l].left :
          launch' = [launch EXCEPT ![l].left = @ \ {file},
                                   ![l].input = @ \cup ({file} \cap edited)]
  BY DEF Capture
<1> DEFINE s == [launch[l] EXCEPT !.left = @ \ {file},
                                  !.input = @ \cup ({file} \cap edited)]
<1>2. launch[l].pc = "capturing" BY DEF Capture
<1>3. launch' = [launch EXCEPT ![l] = s] BY <1>1, Own
<1>4. s \in [pc : {"capturing"}, token : Tokens,
             left : SUBSET (family.files \cap Editable),
             input : SUBSET (family.files \cap Editable), deadline : Nat]
  BY <1>2, CapturingRecord
<1>5. s.pc = "capturing" /\ s.deadline = launch[l].deadline
  BY <1>2, CapturingRecord
<1> HIDE DEF s
<1>6. s \in Records(family) BY <1>4 DEF Records
<1>7. Shaped(family, s, NoRequest)
  BY <1>5, <1>6, Own, NoRequestIsOne DEF Shaped, NoRequest
<1>8. Sourced(family, s, reviewed) BY <1>5 DEF Sourced, Launching
<1>9. Timely(family, s, now) BY <1>2, <1>5, Own DEF Timely
<1>10. Launched(family, s, NoRequest, cluster, reviewed, now)
  BY <1>5, <1>7, <1>8, <1>9, Unsent DEF Launched
<1>11. Claimed(s, NoRequest) = {} BY <1>5, Unsent
<1>12. wire' = [wire EXCEPT ![l] = NoRequest]
  BY <1>2, CapturingRecord, Own DEF Capture, world
<1>13. UNCHANGED <<family, now, edited, cluster, workload, reviewed>>
  BY DEF Capture, world
<1> QED BY <1>3, <1>10, <1>11, <1>12, <1>13, Own, OwnStep

LEMMA ReloadKeeps ==
    ASSUME LaunchInv, NEW l \in Launchers, Reload(l)
    PROVE  LaunchInv'
<1>1. launch[l].pc = "capturing" BY DEF Reload
<1>2. CASE launch' = [launch EXCEPT ![l] = Idle]
  <2>1. UNCHANGED <<family, now, edited, cluster, wire, workload, reviewed>>
    BY DEF Reload, world
  <2> QED BY <1>1, <1>2, <2>1, Own, ToIdle
<1>3. CASE launch' = [launch EXCEPT ![l] =
               [pc |-> "built", candidate |-> CandidateOf(l),
                deadline |-> launch[l].deadline]]
  <2> DEFINE s == [pc |-> "built", candidate |-> CandidateOf(l),
                   deadline |-> launch[l].deadline]
  <2>1. /\ CandidateOf(l) \in Candidates
        /\ CandidateOf(l).input \subseteq family.files
        /\ launch[l].deadline \in Nat
    BY <1>1, CapturingRecord DEF CandidateOf, Candidates
  <2>2. s \in Records(family) BY <2>1 DEF Records
  <2>3. Shaped(family, s, NoRequest)
    BY <2>2, Own, NoRequestIsOne DEF Shaped, NoRequest
  <2>4. Sourced(family, s, reviewed) BY <2>1 DEF Sourced, Launching
  <2>5. Timely(family, s, now) BY <1>1, Own DEF Timely
  <2>6. Launched(family, s, NoRequest, cluster, reviewed, now)
    BY <2>3, <2>4, <2>5, Unsent DEF Launched
  <2>7. Claimed(s, NoRequest) = {} BY Unsent
  <2>8. wire' = [wire EXCEPT ![l] = NoRequest]
    BY <1>1, CapturingRecord, Own DEF Reload, world
  <2>9. UNCHANGED <<family, now, edited, cluster, workload, reviewed>>
    BY DEF Reload, world
  <2>10. launch' = [launch EXCEPT ![l] = s] BY <1>3
  <2> HIDE DEF s
  <2> QED BY <2>6, <2>7, <2>8, <2>9, <2>10, Own, OwnStep
<1> QED BY <1>2, <1>3 DEF Reload

LEMMA BuiltRecord ==
    ASSUME LaunchInv, NEW l \in Launchers, launch[l].pc \in {"built", "opened"}
    PROVE  /\ wire[l] = NoRequest
           /\ launch[l].candidate \in Candidates /\ launch[l].deadline \in Nat
           /\ launch[l].candidate.input \subseteq family.files
           /\ launch[l].deadline <= now + LaunchTimeout
<1>1. launch[l] \in Records(family) /\ wire[l] = NoRequest BY Own DEF Shaped
<1>2. launch[l].candidate \in Candidates /\ launch[l].deadline \in Nat
  BY <1>1 DEF Records, Idle
<1>3. launch[l].candidate.input \subseteq family.files
  BY Own DEF Sourced, Launching
<1>4. launch[l].deadline <= now + LaunchTimeout BY Own DEF Timely
<1> QED BY <1>1, <1>2, <1>3, <1>4

LEMMA ReviewKeeps ==
    ASSUME LaunchInv, NEW l \in Launchers, Review(l)
    PROVE  LaunchInv'
<1>1. launch[l].pc \in {"built", "opened"} /\ launch[l].pc \in {"capturing", "built"}
  BY DEF Review
<1>2. launch[l].candidate \in Candidates BY <1>1, BuiltRecord
<1>3. /\ launch' = [launch EXCEPT ![l] = Idle]
      /\ UNCHANGED <<family, now, edited, cluster, wire, workload>>
      /\ reviewed' = reviewed \cup {launch[l].candidate}
  BY DEF Review
<1>4. reviewed \subseteq Candidates BY Own
<1>5. reviewed \subseteq reviewed' /\ reviewed' \subseteq Candidates
  BY <1>2, <1>3, <1>4
<1> QED BY <1>1, <1>3, <1>5, ToIdle

LEMMA RefuseKeeps ==
    ASSUME LaunchInv, NEW l \in Launchers, Refuse(l)
    PROVE  LaunchInv'
<1>1. launch[l].pc \in {"capturing", "built"} BY DEF Refuse
<1>2. /\ launch' = [launch EXCEPT ![l] = Idle]
      /\ UNCHANGED <<family, now, edited, cluster, wire, workload, reviewed>>
  BY DEF Refuse, world
<1> QED BY <1>1, <1>2, Own, ToIdle

(* A digest that covers both parts stands for one candidate.                *)
LEMMA MatchingIsSame ==
    ASSUME LaunchInv, NEW candidate \in Candidates, NEW expected \in Candidates,
           Matches(candidate, expected)
    PROVE  candidate = expected
<1>1. {"input", "token"} \subseteq family.binds
  BY FamilyAssumption DEF LaunchInv, World, Orderly, CandidateParts
<1>2. /\ Digest(candidate)["input"] = Digest(expected)["input"]
      /\ Digest(candidate)["token"] = Digest(expected)["token"]
  BY DEF Matches
<1>3. /\ candidate.input = expected.input
      /\ candidate.token = expected.token
  BY <1>1, <1>2 DEF Digest
<1> QED BY <1>3 DEF Candidates

LEMMA OpenKeeps ==
    ASSUME LaunchInv, NEW l \in Launchers, Open(l)
    PROVE  LaunchInv'
<1> DEFINE s == [pc |-> "opened", candidate |-> launch[l].candidate,
                 deadline |-> launch[l].deadline]
<1>1. launch[l].pc \in {"built", "opened"} BY DEF Open
<1>2. s \in Records(family) BY <1>1, BuiltRecord DEF Records
<1>3. Shaped(family, s, NoRequest)
  BY <1>2, Own, NoRequestIsOne DEF Shaped, NoRequest
<1>4. Sourced(family, s, reviewed)
  <2>1. launch[l].candidate \in Candidates BY <1>1, BuiltRecord
  <2>2. ASSUME family.reviewed PROVE launch[l].candidate \in reviewed
    <3>1. PICK expected \in reviewed : Matches(launch[l].candidate, expected)
      BY <2>2 DEF Open
    <3>2. expected \in Candidates BY Own
    <3> QED BY <2>1, <3>1, <3>2, MatchingIsSame
  <2> QED BY <1>1, <2>1, <2>2, BuiltRecord DEF Sourced, Allowed
<1>5. Timely(family, s, now) BY <1>1, BuiltRecord DEF Timely
<1>6. Launched(family, s, NoRequest, cluster, reviewed, now)
  BY <1>3, <1>4, <1>5, Unsent DEF Launched
<1>7. Claimed(s, NoRequest) = {} BY Unsent
<1>8. wire' = [wire EXCEPT ![l] = NoRequest]
  BY <1>1, BuiltRecord, Own DEF Open, world
<1>9. UNCHANGED <<family, now, edited, cluster, workload, reviewed>>
  BY DEF Open, world
<1>10. launch' = [launch EXCEPT ![l] = s] BY DEF Open
<1> HIDE DEF s
<1> QED BY <1>6, <1>7, <1>8, <1>9, <1>10, Own, OwnStep

(* A launch stops with a receipt of what it believes.                       *)
LEMMA Stops ==
    ASSUME LaunchInv, NEW l \in Launchers, launch[l].pc \in Launching \ {"done"},
           NEW receipt, NEW w, w \in {NoRequest, wire[l]}, w.reply = "none",
           receipt \in Reports(family),
           receipt.results \subseteq Believed(launch[l]),
           receipt.created \subseteq Made(launch[l]),
           receipt.created \subseteq receipt.results,
           receipt.mutation = "NOT_ATTEMPTED" =>
               w = NoRequest /\ receipt.created = {},
           receipt.state \in {family.done, family.complete} =>
               receipt.results = Positions(family),
           launch' = [launch EXCEPT ![l] =
               [pc |-> "done", candidate |-> launch[l].candidate,
                receipt |-> receipt]],
           wire' = [wire EXCEPT ![l] = w],
           UNCHANGED <<family, now, edited, cluster, workload, reviewed>>
    PROVE  LaunchInv'
<1> DEFINE s == [pc |-> "done", candidate |-> launch[l].candidate,
                 receipt |-> receipt]
<1>1. launch[l].candidate \in Candidates
  BY Own DEF Records, Idle, Launching
<1>2. s \in Records(family) BY <1>1 DEF Records
<1>3. w \in Requests(family) BY Own, NoRequestIsOne
<1>4. Shaped(family, s, w) BY <1>2, <1>3 DEF Shaped
<1>5. Sourced(family, s, reviewed)
  BY Own DEF Sourced, Launching
<1>6. Timely(family, s, now) BY DEF Timely
<1>7. Exact(family, s, w, cluster)
  <2>1. Exact(family, launch[l], wire[l], cluster) BY Own
  <2>2. Believed(s) = receipt.results /\ Made(s) = receipt.created
    BY DEF Believed, Made
  <2>3. \A i \in 1..(w.at - 1) :
            cluster[i] = Object(family, i, launch[l].candidate)
    <3>1. 1..(NoRequest.at - 1) = {} BY DEF NoRequest
    <3> QED BY <2>1, <3>1 DEF Exact
  <2> QED BY <2>1, <2>2, <2>3 DEF Exact
<1>8. Reported(family, s, w) BY DEF Reported
<1>9. Launched(family, s, w, cluster, reviewed, now)
  BY <1>4, <1>5, <1>6, <1>7, <1>8 DEF Launched
<1>10. Claimed(s, w) \subseteq Claimed(launch[l], wire[l])
  BY DEF Claimed, Made
<1>11. launch' = [launch EXCEPT ![l] = s] OBVIOUS
<1> HIDE DEF s
<1> QED BY <1>9, <1>10, <1>11, Own, OwnStep

LEMMA ZeroWriteReport ==
    ASSUME NEW f \in Families
    PROVE  /\ ZeroWrite \in Reports(f)
           /\ ZeroWrite.results = {} /\ ZeroWrite.created = {}
           /\ ZeroWrite.state \notin {f.done, f.complete}
<1>1. "STOPPED_ZERO_WRITE" \notin {f.done, f.complete}
  BY FamilyAssumption DEF Orderly
<1>2. ZeroWrite = [state |-> "STOPPED_ZERO_WRITE", mutation |-> "NOT_ATTEMPTED",
                   results |-> {}, created |-> {}]
  BY DEF ZeroWrite, Receipt
<1>3. ZeroWrite \in Reports(f) BY <1>2 DEF Reports
<1> QED BY <1>1, <1>2, <1>3

LEMMA StopsZeroWrite ==
    ASSUME LaunchInv, NEW l \in Launchers,
           launch[l].pc \in {"opened", "preflight"},
           Stop(l, ZeroWrite), UNCHANGED world
    PROVE  LaunchInv'
<1>1. wire[l] = NoRequest /\ NoRequest.reply = "none"
  BY Own DEF Shaped, NoRequest
<1>2. wire' = [wire EXCEPT ![l] = NoRequest] BY <1>1, Own DEF world
<1>3. UNCHANGED <<family, now, edited, cluster, workload, reviewed>>
  BY DEF world
<1>4. family \in Families BY Own
<1> HIDE DEF ZeroWrite
<1> QED BY <1>1, <1>2, <1>3, <1>4, ZeroWriteReport, Stops DEF Stop, Launching

LEMMA CheckClockKeeps ==
    ASSUME LaunchInv, NEW l \in Launchers, CheckClock(l)
    PROVE  LaunchInv'
<1>1. launch[l].pc \in {"built", "opened"} /\ launch[l].pc = "opened"
  BY DEF CheckClock
<1>2. CASE Stop(l, ZeroWrite)
  BY <1>1, <1>2, StopsZeroWrite DEF CheckClock
<1>3. CASE ~Stop(l, ZeroWrite)
  <2> DEFINE s == [pc |-> "preflight", candidate |-> launch[l].candidate,
                   deadline |-> launch[l].deadline, at |-> 1, existing |-> {}]
  <2>1. ClockAdmits(launch[l].candidate) /\ launch' = [launch EXCEPT ![l] = s]
    BY <1>3 DEF CheckClock
  <2>2. s \in Records(family) BY <1>1, BuiltRecord DEF Records
  <2>3. Shaped(family, s, NoRequest)
    BY <2>2, Own, NoRequestIsOne DEF Shaped, NoRequest
  <2>4. Sourced(family, s, reviewed)
    BY <1>1, Own DEF Sourced, Launching
  <2>5. Timely(family, s, now)
    <3> SUFFICES ASSUME "remaining" \in family.checks
                 PROVE  launch[l].deadline + MinRemaining <=
                            Expiry[launch[l].candidate.token] + LaunchTimeout
      BY DEF Timely
    <3>1. now + MinRemaining <= Expiry[launch[l].candidate.token]
      BY <2>1 DEF ClockAdmits
    <3>2. /\ launch[l].deadline \in Nat
          /\ launch[l].deadline <= now + LaunchTimeout
          /\ launch[l].candidate \in Candidates
      BY <1>1, BuiltRecord
    <3>3. Expiry[launch[l].candidate.token] \in Nat
      BY <3>2, LaunchAssumption DEF Candidates
    <3>4. now \in Nat /\ MinRemaining \in Nat /\ LaunchTimeout \in Nat
      BY Own, LaunchAssumption
    <3> QED BY <3>1, <3>2, <3>3, <3>4
  <2>6. Exact(family, s, NoRequest, cluster) /\ Reported(family, s, NoRequest)
    BY DEF Exact, Reported, Believed, Made, NoRequest
  <2>7. Launched(family, s, NoRequest, cluster, reviewed, now)
    BY <2>3, <2>4, <2>5, <2>6 DEF Launched
  <2>8. Claimed(s, NoRequest) = {} BY DEF Claimed, Made, NoRequest
  <2>9. wire' = [wire EXCEPT ![l] = NoRequest]
    BY <1>1, BuiltRecord, Own DEF CheckClock, world
  <2>10. UNCHANGED <<family, now, edited, cluster, workload, reviewed>>
    BY DEF CheckClock, world
  <2> HIDE DEF s
  <2> QED BY <2>1, <2>7, <2>8, <2>9, <2>10, Own, OwnStep
<1> QED BY <1>2, <1>3

LEMMA PreflightRecord ==
    ASSUME LaunchInv, NEW l \in Launchers, launch[l].pc = "preflight"
    PROVE  /\ wire[l] = NoRequest
           /\ launch[l] \in [pc : {"preflight"}, candidate : Candidates,
                  deadline : Nat, at : Nat \ {0},
                  existing : SUBSET Positions(family)]
<1>1. launch[l] \in Records(family) /\ wire[l] = NoRequest BY Own DEF Shaped
<1> QED BY <1>1 DEF Records, Idle

LEMMA GetKeeps ==
    ASSUME LaunchInv, NEW l \in Launchers, Get(l)
    PROVE  LaunchInv'
<1> DEFINE position == launch[l].at
           found == IF cluster[position] = Absent THEN {} ELSE {position}
           s == [launch[l] EXCEPT !.at = @ + 1, !.existing = @ \cup found]
<1>1. launch[l].pc = "preflight" /\ position <= Len(family.objects)
  BY DEF Get, Size
<1>2. CASE Stop(l, ZeroWrite)
  BY <1>1, <1>2, StopsZeroWrite DEF Get
<1>3. CASE ~Stop(l, ZeroWrite)
  <2>1. /\ cluster[position] # Absent => VerifyExisting(l, position)
        /\ launch' = [launch EXCEPT
               ![l].at = @ + 1,
               ![l].existing =
                   IF cluster[position] = Absent THEN @ ELSE @ \cup {position}]
    BY <1>3 DEF Get
  <2>2. position \in Positions(family)
    BY <1>1, PreflightRecord, Own DEF Positions
  <2>3. launch' = [launch EXCEPT ![l] = s] BY <2>1, Own
  <2>4. /\ s \in [pc : {"preflight"}, candidate : Candidates, deadline : Nat,
                  at : Nat \ {0}, existing : SUBSET Positions(family)]
        /\ s.candidate = launch[l].candidate /\ s.deadline = launch[l].deadline
        /\ s.existing = launch[l].existing \cup found
    <3>1. launch[l] \in [pc : {"preflight"}, candidate : Candidates,
              deadline : Nat, at : Nat \ {0},
              existing : SUBSET Positions(family)]
      BY <1>1, PreflightRecord
    <3>2. s = [pc |-> "preflight", candidate |-> launch[l].candidate,
               deadline |-> launch[l].deadline, at |-> launch[l].at + 1,
               existing |-> launch[l].existing \cup found]
      <4> DEFINE q == [launch[l] EXCEPT !.at = @ + 1]
      <4>1. q = [pc |-> "preflight", candidate |-> launch[l].candidate,
                 deadline |-> launch[l].deadline, at |-> launch[l].at + 1,
                 existing |-> launch[l].existing]
        BY <3>1
      <4>2. s = [q EXCEPT !.existing = launch[l].existing \cup found] OBVIOUS
      <4> HIDE DEF found, q, s
      <4> QED BY <4>1, <4>2
    <3>3. launch[l].existing \cup found \subseteq Positions(family)
      BY <2>2, <3>1
    <3> HIDE DEF s, found
    <3> QED BY <3>1, <3>2, <3>3
  <2>5. \A i \in found : cluster[i] = Object(family, i, launch[l].candidate)
    BY <2>1, ContentIs DEF VerifyExisting
  <2> HIDE DEF s, found
  <2>6. s \in Records(family) /\ s.pc = "preflight" BY <2>4 DEF Records
  <2>7. Shaped(family, s, NoRequest)
    BY <2>6, Own, NoRequestIsOne DEF Shaped, NoRequest
  <2>8. Sourced(family, s, reviewed)
    BY <1>1, <2>4, Own DEF Sourced, Launching
  <2>9. Timely(family, s, now)
    BY <1>1, <2>4, <2>6, Own DEF Timely
  <2>10. Exact(family, s, NoRequest, cluster)
    <3>1. Exact(family, launch[l], wire[l], cluster) BY Own
    <3>2. \A i \in launch[l].existing :
              cluster[i] = Object(family, i, launch[l].candidate)
      BY <1>1, <3>1 DEF Exact, Believed
    <3>3. Believed(s) = launch[l].existing \cup found /\ Made(s) = {}
      BY <2>4, <2>6 DEF Believed, Made
    <3>4. 1..(NoRequest.at - 1) = {} /\ NoRequest.reply = "none"
      BY DEF NoRequest
    <3> QED BY <2>4, <2>5, <3>2, <3>3, <3>4 DEF Exact
  <2>11. Reported(family, s, NoRequest) BY <2>6 DEF Reported
  <2>12. Launched(family, s, NoRequest, cluster, reviewed, now)
    BY <2>7, <2>8, <2>9, <2>10, <2>11 DEF Launched
  <2>13. Claimed(s, NoRequest) = {} BY <2>6 DEF Claimed, Made, NoRequest
  <2>14. wire' = [wire EXCEPT ![l] = NoRequest]
    BY <1>1, PreflightRecord, Own DEF Get, world
  <2>15. UNCHANGED <<family, now, edited, cluster, workload, reviewed>>
    BY DEF Get, world
  <2> QED BY <2>3, <2>12, <2>13, <2>14, <2>15, Own, OwnStep
<1> QED BY <1>2, <1>3

LEMMA GetFailsKeeps ==
    ASSUME LaunchInv, NEW l \in Launchers, GetFails(l)
    PROVE  LaunchInv'
BY StopsZeroWrite DEF GetFails

LEMMA SizeIs == LaunchInv => Size = Len(family.objects) /\ 1..Size = Positions(family)
BY DEF Size, Positions

LEMMA DecideKeeps ==
    ASSUME LaunchInv, NEW l \in Launchers, Decide(l)
    PROVE  LaunchInv'
<1> DEFINE existing == launch[l].existing
           receipt == Receipt(family.complete, "NOT_ATTEMPTED", existing, {})
           s == [pc |-> "creating", candidate |-> launch[l].candidate,
                 deadline |-> launch[l].deadline, results |-> existing,
                 created |-> {}]
<1>1. launch[l].pc = "preflight" /\ UNCHANGED world BY DEF Decide
<1>2. UNCHANGED <<family, now, edited, cluster, workload, reviewed>>
  BY <1>1 DEF world
<1>3. wire' = [wire EXCEPT ![l] = NoRequest]
  BY <1>1, PreflightRecord, Own DEF world
<1>4. CASE existing = 1..Size /\ Stop(l, receipt)
  <2>1. existing = Positions(family) BY <1>4, SizeIs
  <2>2. receipt = [state |-> family.complete, mutation |-> "NOT_ATTEMPTED",
                   results |-> existing, created |-> {}]
    BY DEF Receipt
  <2>3. receipt \in Reports(family)
    <3>1. existing \subseteq Positions(family) BY <2>1
    <3> HIDE DEF existing, receipt
    <3> QED BY <2>2, <3>1 DEF Reports
  <2>4. /\ receipt.results = existing /\ receipt.created = {}
        /\ receipt.results = Positions(family)
    BY <2>1, <2>2
  <2>5. Believed(launch[l]) = existing BY <1>1 DEF Believed
  <2>6. launch' = [launch EXCEPT ![l] =
            [pc |-> "done", candidate |-> launch[l].candidate,
             receipt |-> receipt]]
    BY <1>4 DEF Stop
  <2>7. NoRequest.reply = "none" BY DEF NoRequest
  <2> HIDE DEF receipt, existing
  <2> QED BY <1>1, <1>2, <1>3, <2>3, <2>4, <2>5, <2>6, <2>7, Stops DEF Launching
<1>5. CASE launch' = [launch EXCEPT ![l] = s]
  <2>1. s \in Records(family) BY <1>1, PreflightRecord DEF Records
  <2>2. Shaped(family, s, NoRequest)
    BY <2>1, Own, NoRequestIsOne DEF Shaped, NoRequest
  <2>3. Sourced(family, s, reviewed) BY <1>1, Own DEF Sourced, Launching
  <2>4. Timely(family, s, now) BY <1>1, Own DEF Timely
  <2>5. Exact(family, s, NoRequest, cluster)
    <3>1. \A i \in existing :
              cluster[i] = Object(family, i, launch[l].candidate)
      BY <1>1, Own DEF Exact, Believed
    <3>2. 1..(NoRequest.at - 1) = {} /\ NoRequest.reply = "none"
      BY DEF NoRequest
    <3> QED BY <3>1, <3>2 DEF Exact, Believed, Made
  <2>6. Reported(family, s, NoRequest) BY DEF Reported
  <2>7. Launched(family, s, NoRequest, cluster, reviewed, now)
    BY <2>2, <2>3, <2>4, <2>5, <2>6 DEF Launched
  <2>8. Claimed(s, NoRequest) = {} BY DEF Claimed, Made, NoRequest
  <2> HIDE DEF s
  <2> QED BY <1>2, <1>3, <1>5, <2>7, <2>8, Own, OwnStep
<1>6. CASE Stop(l, ZeroWrite) BY <1>1, <1>6, StopsZeroWrite
<1> QED BY <1>4, <1>5, <1>6 DEF Decide

LEMMA CreatingRecord ==
    ASSUME LaunchInv, NEW l \in Launchers, launch[l].pc \in {"creating", "waiting"}
    PROVE  /\ launch[l] = [pc |-> launch[l].pc, candidate |-> launch[l].candidate,
                  deadline |-> launch[l].deadline, results |-> launch[l].results,
                  created |-> launch[l].created]
           /\ launch[l].candidate \in Candidates /\ launch[l].deadline \in Nat
           /\ launch[l].results \subseteq Positions(family)
           /\ launch[l].created \subseteq launch[l].results
           /\ Believed(launch[l]) = launch[l].results
           /\ Made(launch[l]) = launch[l].created
           /\ launch[l].pc = "creating" => wire[l] = NoRequest
           /\ wire[l].at \in 0..Len(family.objects)
           /\ launch[l].pc = "waiting" => wire[l].at \in Positions(family)
<1>1. launch[l] \in Records(family) /\ wire[l] \in Requests(family) BY Own
<1>2. launch[l] \in [pc : {"creating", "waiting"}, candidate : Candidates,
          deadline : Nat, results : SUBSET Positions(family),
          created : SUBSET Positions(family)]
  BY <1>1 DEF Records, Idle
<1>3. Believed(launch[l]) = launch[l].results /\ Made(launch[l]) = launch[l].created
  BY DEF Believed, Made
<1>4. launch[l].created \subseteq launch[l].results BY <1>3, Own DEF Exact
<1>5. launch[l].pc = "creating" => wire[l] = NoRequest BY Own DEF Shaped
<1>6. wire[l].at \in 0..Len(family.objects) BY <1>1 DEF Requests
<1>7. launch[l].pc = "waiting" => wire[l].at \in Positions(family)
  BY <1>6, Own DEF Shaped, Positions
<1> QED BY <1>2, <1>3, <1>4, <1>5, <1>6, <1>7

LEMMA LeastMember ==
    ASSUME NEW n \in Nat, NEW S, S \subseteq 1..n, S # {}
    PROVE  \E m \in S : \A i \in S : m <= i
<1> DEFINE T == {1..i : i \in S}
           R == StrictSubsetOrdering(1..n)
<1>1. IsFiniteSet(1..n) BY FS_Interval
<1>2. IsWellFoundedOn(R, FiniteSubsetsOf(1..n))
  BY FS_StrictSubsetOrderingWellFounded
<1>3. FiniteSubsetsOf(1..n) = SUBSET (1..n) BY <1>1, FS_FiniteSubsetsOfFinite
<1>4. T \subseteq SUBSET (1..n) /\ T # {}
  <2>1. \A i \in S : 1..i \subseteq 1..n OBVIOUS
  <2>2. PICK i \in S : TRUE OBVIOUS
  <2>3. 1..i \in T OBVIOUS
  <2> QED BY <2>1, <2>3
<1>5. PICK x \in T : \A y \in T : <<y, x>> \notin R
  <2> HIDE DEF T, R
  <2>1. IsWellFoundedOn(R, SUBSET (1..n)) BY <1>2, <1>3
  <2>2. ASSUME NEW P, IsWellFoundedOn(R, P), T \subseteq P
        PROVE  \E x \in T : \A y \in T : <<y, x>> \notin R
    BY <1>4, <2>2, WFMin
  <2> QED BY <1>4, <2>1, <2>2, Zenon
<1>6. PICK m \in S : x = 1..m OBVIOUS
<1>7. ASSUME NEW i \in S, i < m PROVE FALSE
  <2>1. 1..i \subseteq 1..m /\ 1..i # 1..m /\ m \in 1..n
    BY <1>7
  <2>2. 1..i \in T OBVIOUS
  <2>3. <<1..i, x>> \in R
    BY <1>4, <1>6, <2>1, <2>2 DEF StrictSubsetOrdering
  <2> QED BY <1>5, <2>2, <2>3
<1> QED BY <1>7

(* The first position that is missing comes after what is believed.         *)
LEMMA NextIsFirst ==
    ASSUME LaunchInv, NEW l \in Launchers, launch[l].pc = "creating", ~Whole(l)
    PROVE  /\ NextPosition(l) \in Positions(family)
           /\ 1..(NextPosition(l) - 1) \subseteq launch[l].results
<1> DEFINE n == Len(family.objects)
           missing == Positions(family) \ launch[l].results
<1>1. missing \subseteq 1..n /\ missing # {} /\ n \in Nat
  BY CreatingRecord, SizeIs, Own DEF Whole, Positions
<1>2. PICK m \in missing : \A i \in missing : m <= i
  <2> HIDE DEF missing, n
  <2> QED BY <1>1, LeastMember
<1>3. m \in 1..Size /\ m \notin launch[l].results BY <1>2, SizeIs
<1>4. 1..(m - 1) \subseteq launch[l].results
  <2> SUFFICES ASSUME NEW i \in 1..(m - 1), i \notin launch[l].results
               PROVE  FALSE
    OBVIOUS
  <2>1. m \in Nat /\ i < m /\ i \in 1..n BY <1>1, <1>2
  <2>2. i \in missing BY <2>1 DEF Positions
  <2> QED BY <1>2, <2>1, <2>2
<1> QED BY <1>3, <1>4, SizeIs DEF NextPosition

(* A launch that creates goes on: to send, or after an answer.              *)
LEMMA PostKeeps ==
    ASSUME LaunchInv, NEW l \in Launchers, Post(l)
    PROVE  LaunchInv'
<1> DEFINE s == [launch[l] EXCEPT !.pc = "waiting"]
           w == [at |-> NextPosition(l), reply |-> "none"]
<1>1. launch[l].pc = "creating" /\ ~Whole(l) BY DEF Post
<1>2. /\ s = [pc |-> "waiting", candidate |-> launch[l].candidate,
              deadline |-> launch[l].deadline, results |-> launch[l].results,
              created |-> launch[l].created]
  <2> DEFINE r == launch[l]
  <2>1. r = [pc |-> r.pc, candidate |-> r.candidate, deadline |-> r.deadline,
             results |-> r.results, created |-> r.created]
    BY <1>1, CreatingRecord
  <2>2. s = [r EXCEPT !.pc = "waiting"] OBVIOUS
  <2>3. s = [pc |-> "waiting", candidate |-> r.candidate,
             deadline |-> r.deadline, results |-> r.results,
             created |-> r.created]
    <3> HIDE DEF s, r
    <3> QED BY <2>1, <2>2
  <2> QED BY <2>3
<1>3. launch' = [launch EXCEPT ![l] = s] /\ wire' = [wire EXCEPT ![l] = w]
  BY DEF Post
<1> HIDE DEF s
<1>4. /\ NextPosition(l) \in Positions(family)
      /\ 1..(NextPosition(l) - 1) \subseteq launch[l].results
  BY <1>1, NextIsFirst
<1>5. s \in Records(family) BY <1>1, <1>2, CreatingRecord DEF Records
<1>6. w \in Requests(family) /\ w.at # 0
  BY <1>4, Own DEF Requests, Positions
<1>7. Shaped(family, s, w) BY <1>2, <1>5, <1>6 DEF Shaped
<1>8. Sourced(family, s, reviewed) BY <1>1, <1>2, Own DEF Sourced, Launching
<1>9. Timely(family, s, now) BY <1>1, <1>2, Own DEF Timely
<1>10. Exact(family, s, w, cluster)
  <2>1. \A i \in launch[l].results :
            cluster[i] = Object(family, i, launch[l].candidate)
    <3>1. Exact(family, launch[l], wire[l], cluster) BY Own
    <3>2. Believed(launch[l]) = launch[l].results BY <1>1, CreatingRecord
    <3> QED BY <3>1, <3>2 DEF Exact
  <2>2. Believed(s) = launch[l].results /\ Made(s) = launch[l].created
    BY <1>2 DEF Believed, Made
  <2> QED BY <1>1, <1>2, <1>4, <2>1, <2>2, CreatingRecord DEF Exact
<1>11. Reported(family, s, w) BY <1>2 DEF Reported
<1>12. Launched(family, s, w, cluster, reviewed, now)
  BY <1>7, <1>8, <1>9, <1>10, <1>11 DEF Launched
<1>13. Claimed(s, w) \subseteq Claimed(launch[l], wire[l])
  BY <1>1, <1>2 DEF Claimed, Made
<1>14. UNCHANGED <<family, now, edited, cluster, workload, reviewed>>
  BY DEF Post
<1> HIDE DEF w
<1> QED BY <1>3, <1>12, <1>13, <1>14, Own, OwnStep

LEMMA AnswerKeeps ==
    ASSUME LaunchInv, NEW l \in Launchers, Answer(l)
    PROVE  LaunchInv'
<1> DEFINE p == wire[l].at
           s == [pc |-> "creating", candidate |-> launch[l].candidate,
                 deadline |-> launch[l].deadline,
                 results |-> launch[l].results \cup {p},
                 created |-> launch[l].created \cup {p}]
<1>1. launch[l].pc = "waiting" /\ wire[l].reply = "exact" BY DEF Answer
<1>2. launch' = [launch EXCEPT ![l] = s]
  <2> DEFINE r == launch[l]
             a == [r EXCEPT !.pc = "creating"]
             b == [a EXCEPT !.results = r.results \cup {p}]
             d == [b EXCEPT !.created = r.created \cup {p}]
  <2>1. r = [pc |-> r.pc, candidate |-> r.candidate, deadline |-> r.deadline,
             results |-> r.results, created |-> r.created]
    BY <1>1, CreatingRecord
  <2>2. a = [pc |-> "creating", candidate |-> r.candidate,
             deadline |-> r.deadline, results |-> r.results,
             created |-> r.created]
    <3> HIDE DEF r
    <3> QED BY <2>1
  <2>3. b = [pc |-> "creating", candidate |-> r.candidate,
             deadline |-> r.deadline, results |-> r.results \cup {p},
             created |-> r.created]
    <3> HIDE DEF r, a, p
    <3> QED BY <2>2
  <2>4. d = s
    <3>1. d = [pc |-> "creating", candidate |-> r.candidate,
             deadline |-> r.deadline, results |-> r.results \cup {p},
             created |-> r.created \cup {p}]
      <4> HIDE DEF r, b, p
      <4> QED BY <2>3
    <3> QED BY <3>1
  <2>5. launch' = [launch EXCEPT ![l] = d]
    BY Own DEF Answer
  <2> QED BY <2>4, <2>5
<1>3. wire' = [wire EXCEPT ![l] = NoRequest] BY DEF Answer
<1>4. p \in Positions(family) BY <1>1, CreatingRecord
<1>5. s \in Records(family) BY <1>1, <1>4, CreatingRecord DEF Records
<1>6. Shaped(family, s, NoRequest)
  BY <1>5, Own, NoRequestIsOne DEF Shaped, NoRequest
<1>7. Sourced(family, s, reviewed) BY <1>1, Own DEF Sourced, Launching
<1>8. Timely(family, s, now) BY <1>1, Own DEF Timely
<1>9. Exact(family, s, NoRequest, cluster)
  <2>1. /\ \A i \in launch[l].results :
               cluster[i] = Object(family, i, launch[l].candidate)
        /\ cluster[p] = Object(family, p, launch[l].candidate)
    <3>1. Exact(family, launch[l], wire[l], cluster) BY Own
    <3>2. Believed(launch[l]) = launch[l].results BY <1>1, CreatingRecord
    <3> QED BY <1>1, <3>1, <3>2 DEF Exact
  <2>2. /\ Believed(s) = launch[l].results \cup {p}
        /\ Made(s) = launch[l].created \cup {p}
    BY DEF Believed, Made
  <2>3. 1..(NoRequest.at - 1) = {} /\ NoRequest.reply = "none"
    BY DEF NoRequest
  <2> QED BY <1>1, <2>1, <2>2, <2>3, CreatingRecord DEF Exact
<1>10. Reported(family, s, NoRequest) BY DEF Reported
<1>11. Launched(family, s, NoRequest, cluster, reviewed, now)
  BY <1>6, <1>7, <1>8, <1>9, <1>10 DEF Launched
<1>12. Claimed(s, NoRequest) \subseteq Claimed(launch[l], wire[l])
  BY <1>1 DEF Claimed, Made, NoRequest
<1>13. UNCHANGED <<family, now, edited, cluster, workload, reviewed>>
  BY DEF Answer
<1> HIDE DEF s
<1> QED BY <1>2, <1>3, <1>11, <1>12, <1>13, Own, OwnStep

(* The receipt of a launch that stopped in its creates.                     *)
LEMMA PartialReport ==
    ASSUME LaunchInv, NEW l \in Launchers,
           launch[l].pc \in {"creating", "waiting"},
           NEW mutation \in {family.unknown, family.refused}
    PROVE  /\ Partial(l, mutation) \in Reports(family)
           /\ Partial(l, mutation).results = Believed(launch[l])
           /\ Partial(l, mutation).created = Made(launch[l])
           /\ Partial(l, mutation).created \subseteq Partial(l, mutation).results
           /\ Partial(l, mutation).mutation # "NOT_ATTEMPTED"
           /\ Partial(l, mutation).state \notin {family.done, family.complete}
<1>1. Partial(l, mutation) =
          [state |-> "STOPPED_PARTIAL_OR_UNKNOWN", mutation |-> mutation,
           results |-> launch[l].results, created |-> launch[l].created]
  BY DEF Partial, Receipt
<1>2. /\ mutation # "NOT_ATTEMPTED"
      /\ "STOPPED_PARTIAL_OR_UNKNOWN" \notin {family.done, family.complete}
  BY Own, FamilyAssumption DEF Orderly
<1>3. /\ launch[l].results \subseteq Positions(family)
      /\ launch[l].created \subseteq launch[l].results
      /\ Believed(launch[l]) = launch[l].results
      /\ Made(launch[l]) = launch[l].created
  BY CreatingRecord
<1>4. Partial(l, mutation) \in Reports(family) BY <1>1, <1>3 DEF Reports
<1> QED BY <1>1, <1>2, <1>3, <1>4

LEMMA StopsPartial ==
    ASSUME LaunchInv, NEW l \in Launchers,
           launch[l].pc \in {"creating", "waiting"},
           NEW mutation \in {family.unknown, family.refused},
           Stop(l, Partial(l, mutation)),
           NEW w, w \in {NoRequest, wire[l]}, w.reply = "none",
           wire' = [wire EXCEPT ![l] = w],
           UNCHANGED <<family, now, edited, cluster, workload, reviewed>>
    PROVE  LaunchInv'
<1> HIDE DEF Partial
<1> QED BY PartialReport, Stops DEF Stop, Launching

LEMMA RefusedKeeps ==
    ASSUME LaunchInv, NEW l \in Launchers, Refused(l)
    PROVE  LaunchInv'
<1>1. PICK mutation \in {family.unknown, family.refused} :
          Stop(l, Partial(l, mutation))
  BY DEF Refused
<1>2. /\ launch[l].pc \in {"creating", "waiting"}
      /\ wire' = [wire EXCEPT ![l] = NoRequest] /\ NoRequest.reply = "none"
      /\ UNCHANGED <<family, now, edited, cluster, workload, reviewed>>
  BY DEF Refused, NoRequest
<1> QED BY <1>1, <1>2, StopsPartial

LEMMA LoseKeeps ==
    ASSUME LaunchInv, NEW l \in Launchers, Lose(l)
    PROVE  LaunchInv'
<1> DEFINE w == IF wire[l].reply = "none" THEN wire[l] ELSE NoRequest
<1>1. /\ launch[l].pc \in {"creating", "waiting"}
      /\ Stop(l, Partial(l, family.unknown))
      /\ UNCHANGED <<family, now, edited, cluster, workload, reviewed>>
  BY DEF Lose
<1>2. wire' = [wire EXCEPT ![l] = w] BY Own DEF Lose
<1>3. w \in {NoRequest, wire[l]} /\ w.reply = "none" BY DEF NoRequest
<1> HIDE DEF w
<1> QED BY <1>1, <1>2, <1>3, StopsPartial

LEMMA PostFailsKeeps ==
    ASSUME LaunchInv, NEW l \in Launchers, PostFails(l)
    PROVE  LaunchInv'
<1>1. /\ launch[l].pc \in {"creating", "waiting"} /\ launch[l].pc = "creating"
      /\ Stop(l, Partial(l, family.unknown))
      /\ UNCHANGED <<family, now, edited, cluster, workload, reviewed, wire>>
  BY DEF PostFails, world
<1>2. wire[l] = NoRequest BY <1>1, CreatingRecord
<1>3. wire' = [wire EXCEPT ![l] = NoRequest] /\ NoRequest.reply = "none"
  BY <1>1, <1>2, Own DEF NoRequest
<1> QED BY <1>1, <1>3, StopsPartial

LEMMA FinishKeeps ==
    ASSUME LaunchInv, NEW l \in Launchers, Finish(l)
    PROVE  LaunchInv'
<1> DEFINE receipt == Receipt(family.done, "ATTEMPTED", launch[l].results,
                              launch[l].created)
<1>1. /\ launch[l].pc = "creating" /\ launch[l].results = Positions(family)
      /\ Stop(l, receipt)
      /\ UNCHANGED <<family, now, edited, cluster, workload, reviewed, wire>>
  BY SizeIs DEF Finish, world, Whole
<1>2. receipt = [state |-> family.done, mutation |-> "ATTEMPTED",
                 results |-> launch[l].results, created |-> launch[l].created]
  BY DEF Receipt
<1>3. /\ launch[l].created \subseteq launch[l].results
      /\ Believed(launch[l]) = launch[l].results
      /\ Made(launch[l]) = launch[l].created
      /\ wire[l] = NoRequest
  BY <1>1, CreatingRecord
<1>4. receipt \in Reports(family) BY <1>1, <1>2, <1>3 DEF Reports
<1>5. wire' = [wire EXCEPT ![l] = NoRequest] /\ NoRequest.reply = "none"
  BY <1>1, <1>3, Own DEF NoRequest
<1>6. /\ receipt.results = Positions(family)
      /\ receipt.results = launch[l].results
      /\ receipt.created = launch[l].created
      /\ receipt.mutation # "NOT_ATTEMPTED"
  BY <1>1, <1>2
<1>7. launch' = [launch EXCEPT ![l] =
          [pc |-> "done", candidate |-> launch[l].candidate,
           receipt |-> receipt]]
  BY <1>1 DEF Stop
<1> HIDE DEF receipt
<1> QED BY <1>1, <1>3, <1>4, <1>5, <1>6, <1>7, Stops DEF Launching

-----------------------------------------------------------------------------
(* The API server and everybody else.                                       *)

(* Once the object that starts the work is there, nothing is missing.       *)
LEMMA GroundedWhole ==
    ASSUME NEW f, NEW c, NEW r, Grounded(f, c, r),
           f.objects[Len(f.objects)] \in Workloads, c[Len(f.objects)] = {}
    PROVE  \A i \in Positions(f) : c[i] # Absent
<1>1. PICK candidate \in Allowed(f, r) :
          /\ candidate \in Candidates
          /\ \A i \in Positions(f) : c[i] = Object(f, i, candidate)
  BY DEF Grounded
<1> QED BY <1>1, ObjectPresent

LEMMA VerifiedKept ==
    ASSUME NEW f, NEW c, NEW d, NEW r, NEW w,
           f.objects # <<>>, f.objects \in Seq(STRING),
           Grounded(f, c, r), WorkVerified(f, c, w),
           \A i \in Positions(f) : c[i] # Absent => d[i] = c[i]
    PROVE  WorkVerified(f, d, w)
<1>1. CASE w.state \notin {"loading", "opening", "running"}
  BY <1>1 DEF WorkVerified
<1>2. CASE w.state \in {"loading", "opening", "running"}
  <2>1. \A i \in Positions(f) : c[i] # Absent
    BY <1>2, GroundedWhole DEF WorkVerified
  <2>2. \A i \in Positions(f) : d[i] = c[i] BY <2>1
  <2>3. Held(f, d) = Held(f, c) BY <2>2 DEF Held
  <2>4. Len(f.objects) \in Positions(f) BY DEF Positions
  <2>5. d[Len(f.objects)] = c[Len(f.objects)] BY <2>2, <2>4
  <2> QED BY <2>3, <2>5 DEF WorkVerified
<1> QED BY <1>1, <1>2

(* What is claimed exists.                                                  *)
LEMMA ClaimedExists ==
    ASSUME LaunchInv, NEW k \in Launchers, NEW i \in Claimed(launch[k], wire[k])
    PROVE  cluster[i] # Absent
<1>1. Exact(family, launch[k], wire[k], cluster) /\ Shaped(family, launch[k], wire[k])
  BY Own
<1>2. cluster[i] = Object(family, i, launch[k].candidate)
  BY <1>1 DEF Exact, Claimed
<1>3. launch[k].pc \in Launching \cup {"built"}
  BY <1>1 DEF Claimed, Made, Shaped, Launching
<1>4. launch[k].candidate \in Candidates BY <1>1, <1>3, Own, InPositions
<1> QED BY <1>2, <1>4, ObjectPresent

(* An object comes to exist under a free name.                              *)
LEMMA ObjectComes ==
    ASSUME LaunchInv, NEW p \in Positions(family), cluster[p] = Absent, NEW o,
           cluster' = [cluster EXCEPT ![p] = o],
           UNCHANGED <<family, now, edited, reviewed, workload, launch>>,
           wire' = [k \in Launchers |-> wire'[k]],
           \A k \in Launchers :
               Launched(family, launch[k], wire'[k], cluster', reviewed, now),
           NEW l,
           \A k \in Launchers :
               Claimed(launch[k], wire'[k]) \subseteq
                   Claimed(launch[k], wire[k]) \cup (IF k = l THEN {p} ELSE {}),
           Grounded(family, cluster', reviewed)
    PROVE  LaunchInv'
<1>1. World' BY DEF LaunchInv, World
<1>2. Everyone' BY DEF Everyone
<1>3. Disjoint(launch, wire')
  <2>1. Disjoint(launch, wire) BY DEF LaunchInv
  <2>2. \A k \in Launchers : p \notin Claimed(launch[k], wire[k])
    BY ClaimedExists
  <2> QED BY <2>1, <2>2 DEF Disjoint
<1>4. WorkVerified(family, cluster', workload)
  <2>1. \A i \in Positions(family) : cluster[i] # Absent => cluster'[i] = cluster[i]
    BY DEF LaunchInv, World
  <2>2. Grounded(family, cluster, reviewed) /\ WorkVerified(family, cluster, workload)
    BY DEF LaunchInv
  <2>3. family.objects # <<>> /\ family.objects \in Seq(STRING)
    BY FamilyAssumption DEF LaunchInv, World, Orderly
  <2> QED BY <2>1, <2>2, <2>3, VerifiedKept
<1> QED BY <1>1, <1>2, <1>3, <1>4 DEF LaunchInv

(* Whatever comes, an object that is not the plan's starts no work.         *)
LEMMA GroundedUnlessLast ==
    ASSUME LaunchInv, NEW p \in Positions(family), cluster[p] = Absent, NEW o,
           NEW c, c = [cluster EXCEPT ![p] = o],
           p = Len(family.objects) => o # {}
    PROVE  Grounded(family, c, reviewed)
<1> DEFINE n == Len(family.objects)
<1> SUFFICES ASSUME family.objects[n] \in Workloads, c[n] = {}
             PROVE  FALSE
  BY DEF Grounded
<1>1. DOMAIN cluster = Positions(family) /\ n \in Positions(family)
  BY Own DEF LaunchInv, World, Positions
<1>2. p # n BY <1>1
<1>3. cluster[n] = {} BY <1>1, <1>2
<1>4. \A i \in Positions(family) : cluster[i] # Absent
  BY <1>3, GroundedWhole DEF LaunchInv
<1> QED BY <1>4

LEMMA PendingRecord ==
    ASSUME LaunchInv, NEW l \in Launchers, Pending(l)
    PROVE  /\ wire[l].at \in Positions(family)
           /\ launch[l].pc \in {"waiting", "done"}
           /\ launch[l].candidate \in Candidates
           /\ wire[l].reply = "none"
           /\ Claimed(launch[l], wire[l]) = Made(launch[l])
<1>1. wire[l].reply = "none" /\ wire[l].at > 0 BY DEF Pending
<1>2. wire[l] \in Requests(family) BY Own
<1>3. wire[l].at \in Positions(family)
  BY <1>1, <1>2, Own DEF Requests, Positions
<1>4. launch[l].pc \in {"waiting", "done"}
  BY <1>1, Own DEF Shaped, NoRequest
<1>5. launch[l].candidate \in Candidates
  BY <1>4, Own, InPositions DEF Launching
<1> QED BY <1>1, <1>3, <1>4, <1>5 DEF Claimed

(* An answer that says nothing of what exists.                              *)
LEMMA Answered ==
    ASSUME LaunchInv, NEW l \in Launchers, Pending(l), NEW c,
           \A i \in Positions(family) : cluster[i] # Absent => c[i] = cluster[i],
           NEW w, NEW reply \in {"exact", "error", "altered", "conflict"},
           w = IF launch[l].pc = "waiting"
               THEN [at |-> wire[l].at, reply |-> reply] ELSE NoRequest,
           reply = "exact" =>
               c[wire[l].at] = Object(family, wire[l].at, launch[l].candidate)
    PROVE  /\ Launched(family, launch[l], w, c, reviewed, now)
           /\ w.reply # "none" => w.at = wire[l].at
<1>1. Launched(family, launch[l], wire[l], c, reviewed, now) BY Own, Kept
<1>2. w \in Requests(family)
  BY Own, NoRequestIsOne DEF Requests
<1>3. Shaped(family, launch[l], w)
  BY <1>1, <1>2, PendingRecord DEF Launched, Shaped, NoRequest, Positions
<1>4. Exact(family, launch[l], w, c)
  <2>1. Exact(family, launch[l], wire[l], c) BY <1>1 DEF Launched
  <2>2. 1..(NoRequest.at - 1) = {} /\ NoRequest.reply = "none"
    BY DEF NoRequest
  <2>3. \A i \in 1..(w.at - 1) : c[i] = Object(family, i, launch[l].candidate)
    BY <2>1, <2>2 DEF Exact
  <2>4. w.reply = "exact" =>
            c[w.at] = Object(family, w.at, launch[l].candidate)
    BY <2>2
  <2> QED BY <2>1, <2>3, <2>4 DEF Exact
<1>5. Reported(family, launch[l], w)
  BY <1>1, PendingRecord DEF Launched, Reported
<1> QED BY <1>1, <1>3, <1>4, <1>5 DEF Launched, NoRequest

LEMMA ReplyIs ==
    ASSUME LaunchInv, NEW l \in Launchers, Pending(l), NEW reply, Reply(l, reply)
    PROVE  /\ wire' = [wire EXCEPT ![l] =
                  IF launch[l].pc = "waiting"
                  THEN [at |-> wire[l].at, reply |-> reply] ELSE NoRequest]
           /\ wire' = [k \in Launchers |-> wire'[k]]
<1>1. wire[l] = [at |-> wire[l].at, reply |-> wire[l].reply]
  BY Own DEF Requests
<1> DEFINE q == wire[l]
           e == [q EXCEPT !.reply = reply]
<1>2. e = [at |-> wire[l].at, reply |-> reply]
  <2>1. q = [at |-> q.at, reply |-> q.reply] BY <1>1
  <2>2. e = [at |-> q.at, reply |-> reply]
    <3> HIDE DEF q
    <3> QED BY <2>1
  <2> QED BY <2>2
<1>3. wire' = [wire EXCEPT ![l] =
                  IF launch[l].pc = "waiting" THEN e ELSE NoRequest]
  BY Own DEF Reply
<1>4. wire' = [wire EXCEPT ![l] =
                  IF launch[l].pc = "waiting"
                  THEN [at |-> wire[l].at, reply |-> reply] ELSE NoRequest]
  <2> HIDE DEF e
  <2> QED BY <1>2, <1>3
<1> QED BY <1>4 DEF LaunchInv, World

(* The others are not disturbed.                                            *)
LEMMA OthersKept ==
    ASSUME LaunchInv, NEW k \in Launchers, NEW c,
           \A i \in Positions(family) : cluster[i] # Absent => c[i] = cluster[i]
    PROVE  Launched(family, launch[k], wire[k], c, reviewed, now)
BY Own, Kept

LEMMA ServeCreateKeeps ==
    ASSUME LaunchInv, NEW l \in Launchers, ServeCreate(l)
    PROVE  LaunchInv'
<1> DEFINE p == wire[l].at
           o == Object(family, p, launch[l].candidate)
           n == Len(family.objects)
<1>1. /\ Pending(l) /\ cluster[p] = Absent /\ p \in Positions(family)
      /\ launch[l].candidate \in Candidates
  BY PendingRecord DEF ServeCreate
<1>2. cluster' = [cluster EXCEPT ![p] = o]
  BY ContentIs DEF ServeCreate
<1>3. PICK reply \in {"exact", "error"} : Reply(l, reply) BY DEF ServeCreate
<1> DEFINE w == IF launch[l].pc = "waiting"
                THEN [at |-> wire[l].at, reply |-> reply] ELSE NoRequest
<1>4. wire' = [wire EXCEPT ![l] = w] /\ wire' = [k \in Launchers |-> wire'[k]]
  BY <1>1, <1>3, ReplyIs
<1>5. DOMAIN cluster = Positions(family) BY DEF LaunchInv, World
<1>6. /\ \A i \in Positions(family) :
             cluster[i] # Absent => cluster'[i] = cluster[i]
      /\ cluster'[p] = o
  BY <1>1, <1>2, <1>5
<1>7. /\ Launched(family, launch[l], w, cluster', reviewed, now)
      /\ w.reply # "none" => w.at = p
  BY <1>1, <1>6, Answered
<1>8. /\ wire'[l] = w
      /\ \A k \in Launchers \ {l} : wire'[k] = wire[k]
  BY <1>4, Own DEF LaunchInv, World
<1> HIDE DEF w
<1>9. \A k \in Launchers :
          Launched(family, launch[k], wire'[k], cluster', reviewed, now)
  BY <1>6, <1>7, <1>8, OthersKept
<1>10. \A k \in Launchers :
           Claimed(launch[k], wire'[k]) \subseteq
               Claimed(launch[k], wire[k]) \cup (IF k = l THEN {p} ELSE {})
  <2>1. Claimed(launch[l], w) \subseteq Claimed(launch[l], wire[l]) \cup {p}
    BY <1>7 DEF Claimed
  <2> QED BY <2>1, <1>8
<1>11. Grounded(family, cluster', reviewed)
  <2>1. CASE p # n BY <2>1, <1>1, <1>2, GroundedUnlessLast
  <2>2. CASE p = n
    <3>1. \A i \in 1..(p - 1) :
              cluster'[i] = Object(family, i, launch[l].candidate)
      <4>1. Launched(family, launch[l], wire[l], cluster', reviewed, now)
        BY <1>6, OthersKept
      <4> QED BY <4>1 DEF Launched, Exact
    <3>2. \A i \in Positions(family) :
              cluster'[i] = Object(family, i, launch[l].candidate)
      BY <3>1, <2>2, <1>6, Own DEF Positions
    <3>3. /\ launch[l].candidate \in Allowed(family, reviewed)
          /\ launch[l].candidate.input \subseteq family.files
      BY <1>1, PendingRecord, Own DEF Sourced, Launching
    <3> QED BY <3>2, <3>3, <1>1 DEF Grounded
  <2> QED BY <2>1, <2>2
<1>12. UNCHANGED <<family, now, edited, reviewed, workload, launch>>
  BY DEF ServeCreate
<1> HIDE DEF p, o
<1> QED BY <1>1, <1>2, <1>4, <1>9, <1>10, <1>11, <1>12, ObjectComes

LEMMA ServeAlteredKeeps ==
    ASSUME LaunchInv, NEW l \in Launchers, ServeAltered(l)
    PROVE  LaunchInv'
<1> DEFINE p == wire[l].at
           w == IF launch[l].pc = "waiting"
                THEN [at |-> wire[l].at, reply |-> "altered"] ELSE NoRequest
<1>1. /\ Pending(l) /\ cluster[p] = Absent /\ p \in Positions(family)
      /\ cluster' = [cluster EXCEPT ![p] = Foreign]
  BY PendingRecord DEF ServeAltered
<1>2. wire' = [wire EXCEPT ![l] = w] /\ wire' = [k \in Launchers |-> wire'[k]]
  BY <1>1, ReplyIs DEF ServeAltered
<1>3. \A i \in Positions(family) : cluster[i] # Absent => cluster'[i] = cluster[i]
  BY <1>1 DEF LaunchInv, World
<1>4. Launched(family, launch[l], w, cluster', reviewed, now)
  BY <1>1, <1>3, Answered
<1>5. /\ wire'[l] = w
      /\ \A k \in Launchers \ {l} : wire'[k] = wire[k]
  BY <1>2, Own DEF LaunchInv, World
<1>6. Claimed(launch[l], w) \subseteq Claimed(launch[l], wire[l])
  BY DEF Claimed, NoRequest
<1> HIDE DEF w
<1>7. \A k \in Launchers :
          Launched(family, launch[k], wire'[k], cluster', reviewed, now)
  BY <1>3, <1>4, <1>5, OthersKept
<1>8. \A k \in Launchers :
          Claimed(launch[k], wire'[k]) \subseteq
              Claimed(launch[k], wire[k]) \cup (IF k = l THEN {p} ELSE {})
  BY <1>5, <1>6
<1>9. Grounded(family, cluster', reviewed)
  BY <1>1, GroundedUnlessLast DEF Foreign
<1>10. UNCHANGED <<family, now, edited, reviewed, workload, launch>>
  BY DEF ServeAltered
<1> HIDE DEF p
<1> QED BY <1>1, <1>2, <1>7, <1>8, <1>9, <1>10, ObjectComes

LEMMA ServeRefuseKeeps ==
    ASSUME LaunchInv, NEW l \in Launchers, ServeRefuse(l)
    PROVE  LaunchInv'
<1>1. PICK reply \in {"error", "conflict"} : Reply(l, reply)
  BY DEF ServeRefuse
<1> DEFINE w == IF launch[l].pc = "waiting"
                THEN [at |-> wire[l].at, reply |-> reply] ELSE NoRequest
<1>2. Pending(l) /\ UNCHANGED <<family, now, edited, reviewed, cluster, workload, launch>>
  BY DEF ServeRefuse
<1>3. wire' = [wire EXCEPT ![l] = w] BY <1>1, <1>2, ReplyIs
<1>4. Launched(family, launch[l], w, cluster, reviewed, now)
  BY <1>2, Answered
<1>5. Claimed(launch[l], w) \subseteq Claimed(launch[l], wire[l])
  BY DEF Claimed, NoRequest
<1>6. launch' = [launch EXCEPT ![l] = launch[l]] BY <1>2, Own
<1> HIDE DEF w
<1> QED BY <1>2, <1>3, <1>4, <1>5, <1>6, Own, OwnStep

LEMMA CreateForeignKeeps ==
    ASSUME LaunchInv, CreateForeign
    PROVE  LaunchInv'
<1>1. PICK p \in Positions(family) :
          /\ cluster[p] = Absent
          /\ cluster' = [cluster EXCEPT ![p] = Foreign]
  BY SizeIs DEF CreateForeign
<1>2. UNCHANGED <<family, now, edited, reviewed, wire, workload, launch>>
  BY DEF CreateForeign
<1>3. \A i \in Positions(family) : cluster[i] # Absent => cluster'[i] = cluster[i]
  BY <1>1 DEF LaunchInv, World
<1>4. \A k \in Launchers :
          Launched(family, launch[k], wire'[k], cluster', reviewed, now)
  BY <1>2, <1>3, OthersKept
<1>5. wire' = [k \in Launchers |-> wire'[k]]
  BY <1>2 DEF LaunchInv, World
<1>6. Grounded(family, cluster', reviewed)
  BY <1>1, GroundedUnlessLast DEF Foreign
<1>7. \A k \in Launchers :
          Claimed(launch[k], wire'[k]) \subseteq
              Claimed(launch[k], wire[k]) \cup (IF k = "nobody" THEN {p} ELSE {})
  BY <1>2
<1> QED BY <1>1, <1>2, <1>4, <1>5, <1>6, <1>7, ObjectComes

LEMMA EditOrTickKeeps ==
    ASSUME LaunchInv, Edit \/ Tick
    PROVE  LaunchInv'
<1>1. /\ UNCHANGED <<family, reviewed, cluster, wire, workload, launch>>
      /\ edited' \subseteq Editable
      /\ now' \in Nat /\ now <= now'
  <2>1. CASE Edit BY <2>1 DEF Edit, LaunchInv, World
  <2>2. CASE Tick BY <2>2 DEF Tick, LaunchInv, World
  <2> QED BY <2>1, <2>2
<1>2. World' BY <1>1 DEF LaunchInv, World
<1>3. \A k \in Launchers :
          Launched(family, launch[k], wire[k], cluster, reviewed, now')
  BY <1>1, Own, Kept
<1>4. Everyone' BY <1>1, <1>3 DEF Everyone
<1> QED BY <1>1, <1>2, <1>4 DEF LaunchInv

-----------------------------------------------------------------------------
(* The work.                                                                *)
LEMMA WorkKeeps ==
    ASSUME LaunchInv, OnlyWork, WorkVerified(family, cluster, workload')
    PROVE  LaunchInv'
<1>1. World' BY DEF LaunchInv, World, OnlyWork
<1>2. Everyone' BY DEF LaunchInv, Everyone, OnlyWork
<1> QED BY <1>1, <1>2 DEF LaunchInv, OnlyWork

LEMMA WorkRecord ==
    ASSUME LaunchInv
    PROVE  /\ WorkVerified(family, cluster, workload)
           /\ workload = [state |-> workload.state, opened |-> workload.opened,
                          at |-> workload.at]
           /\ workload.at \in Nat \ {0}
           /\ workload.opened \subseteq
                  {family.job.opens[i] : i \in 1..Len(family.job.opens)}
           /\ workload.opened # {} => workload.state \in {"opening", "running"}
           /\ Len(family.job.opens) \in Nat
<1>1. WorkVerified(family, cluster, workload) BY DEF LaunchInv
<1>2. Len(family.job.opens) \in Nat
  BY FamilyAssumption DEF LaunchInv, World, Orderly
<1> QED BY <1>1, <1>2 DEF WorkVerified

LEMMA WorkIs ==
    ASSUME LaunchInv, NEW state, Work(state)
    PROVE  workload' = [state |-> state, opened |-> workload.opened,
                        at |-> workload.at]
BY WorkRecord DEF Work

LEMMA RefuseWorkKeeps ==
    ASSUME LaunchInv, OnlyWork, RefuseWork
    PROVE  LaunchInv'
<1>1. workload' = [state |-> "refused", opened |-> {}, at |-> 1]
  BY DEF RefuseWork, NoWork
<1>2. WorkVerified(family, cluster, workload') BY <1>1 DEF WorkVerified
<1> QED BY <1>2, WorkKeeps

LEMMA StartWorkloadKeeps ==
    ASSUME LaunchInv, StartWorkload
    PROVE  LaunchInv'
<1>1. workload' = [state |-> "loading", opened |-> workload.opened,
                   at |-> workload.at]
  BY WorkIs DEF StartWorkload
<1>2. workload.opened = {} /\ workload.at = 1
  BY WorkRecord DEF StartWorkload, WorkVerified
<1>3. /\ family.objects[Len(family.objects)] \in Workloads
      /\ cluster[Len(family.objects)] = {}
  BY DEF StartWorkload, Size
<1>4. WorkVerified(family, cluster, workload') BY <1>1, <1>2, <1>3 DEF WorkVerified
<1> QED BY <1>4, WorkKeeps DEF StartWorkload

LEMMA ChangedIsHeld == Changed = Held(family, cluster)
BY DEF Changed, Held, InputAt, Positions, Size

LEMMA LoadBundleKeeps ==
    ASSUME LaunchInv, LoadBundle
    PROVE  LaunchInv'
<1>1. CASE RefuseWork BY <1>1, RefuseWorkKeeps DEF LoadBundle
<1>2. CASE Changed \cap family.job.loads = {} /\ Work("opening")
  <2>1. workload' = [state |-> "opening", opened |-> workload.opened,
                     at |-> workload.at]
    BY <1>2, WorkIs
  <2>2. workload.opened = {} /\ workload.at = 1
    BY WorkRecord DEF LoadBundle, WorkVerified
  <2>3. /\ family.objects[Len(family.objects)] \in Workloads
        /\ cluster[Len(family.objects)] = {}
    BY WorkRecord DEF LoadBundle, WorkVerified
  <2>4. Held(family, cluster) \cap family.job.loads = {}
    BY <1>2, ChangedIsHeld
  <2>5. 1 <= Len(family.job.opens) + 1 /\ 1..(1 - 1) = {} BY WorkRecord
  <2>6. WorkVerified(family, cluster, workload')
    BY <2>1, <2>2, <2>3, <2>4, <2>5 DEF WorkVerified
  <2> QED BY <2>6, WorkKeeps DEF LoadBundle
<1> QED BY <1>1, <1>2 DEF LoadBundle

LEMMA OpenNextKeeps ==
    ASSUME LaunchInv, OpenNext
    PROVE  LaunchInv'
<1> DEFINE n == workload.at
           step == family.job.opens[n]
           o == workload.opened \cup ({step} \ family.files)
<1>1. CASE RefuseWork BY <1>1, RefuseWorkKeeps DEF OpenNext
<1>2. CASE ~RefuseWork
  <2>1. /\ step \notin Held(family, cluster)
        /\ workload' = [workload EXCEPT !.at = @ + 1,
                            !.opened = @ \cup ({step} \ family.files)]
        /\ n <= Len(family.job.opens)
        /\ workload.state = "opening"
    BY <1>2, ChangedIsHeld DEF OpenNext, Opens
  <2>2. workload' = [state |-> workload.state, opened |-> o, at |-> n + 1]
    <3> DEFINE q == [workload EXCEPT !.at = workload.at + 1]
    <3>1. q = [state |-> workload.state, opened |-> workload.opened,
               at |-> n + 1]
      BY WorkRecord
    <3>2. workload' = [q EXCEPT !.opened = o] BY <2>1
    <3> HIDE DEF q, o
    <3> QED BY <3>1, <3>2
  <2>3. /\ Held(family, cluster) \cap family.job.loads = {}
        /\ \A i \in 1..(n - 1) :
               family.job.opens[i] \notin Held(family, cluster)
        /\ \A x \in workload.opened :
               \E i \in 1..(n - 1) : x = family.job.opens[i]
        /\ family.objects[Len(family.objects)] \in Workloads
        /\ cluster[Len(family.objects)] = {}
    BY <2>1, WorkRecord DEF WorkVerified
  <2>4. /\ n \in 1..Len(family.job.opens) /\ n + 1 \in Nat \ {0}
        /\ 1..((n + 1) - 1) = 1..(n - 1) \cup {n}
        /\ n + 1 <= Len(family.job.opens) + 1
    BY <2>1, WorkRecord
  <2>5. o \subseteq {family.job.opens[i] : i \in 1..Len(family.job.opens)}
    BY <2>4, WorkRecord
  <2>6. \A x \in o : \E i \in 1..((n + 1) - 1) : x = family.job.opens[i]
    BY <2>3, <2>4
  <2>7. \A i \in 1..((n + 1) - 1) :
            family.job.opens[i] \notin Held(family, cluster)
    BY <2>1, <2>3, <2>4
  <2> DEFINE Os == {family.job.opens[i] : i \in 1..Len(family.job.opens)}
  <2>8. /\ workload' \in [state : {"opening"}, opened : SUBSET Os,
                         at : Nat \ {0}]
        /\ workload'.at = n + 1 /\ workload'.opened = o
        /\ workload'.state = "opening"
    <3>1. workload' = [state |-> "opening", opened |-> o, at |-> n + 1]
      BY <2>1, <2>2
    <3>2. o \subseteq Os /\ n + 1 \in Nat \ {0} BY <2>4, <2>5
    <3> HIDE DEF n, o, step, Os
    <3> QED BY <3>1, <3>2
  <2> HIDE DEF n, o, step
  <2>9. WorkVerified(family, cluster, workload')
    BY <2>3, <2>4, <2>6, <2>7, <2>8 DEF WorkVerified
  <2> QED BY <2>9, WorkKeeps DEF OpenNext
<1> QED BY <1>1, <1>2

LEMMA RunsKeeps ==
    ASSUME LaunchInv, RunStage
    PROVE  LaunchInv'
<1>1. workload' = [state |-> "running", opened |-> workload.opened,
                   at |-> workload.at]
  BY WorkIs DEF RunStage
<1>2. workload.state = "opening" /\ workload.at > Len(family.job.opens)
  BY DEF RunStage, Opens
<1>3. workload.at = Len(family.job.opens) + 1
  BY <1>2, WorkRecord DEF WorkVerified
<1>4. WorkVerified(family, cluster, workload')
  BY <1>1, <1>2, <1>3, WorkRecord DEF WorkVerified
<1> QED BY <1>4, WorkKeeps DEF RunStage

-----------------------------------------------------------------------------
(* The initial states, and every step.                                      *)
LEMMA InitLaunch == Init => LaunchInv
<1> SUFFICES ASSUME Init PROVE LaunchInv OBVIOUS
<1> DEFINE n == Len(family.objects)
<1>1. family \in Families /\ Orderly(family)
  BY FamilyAssumption DEF Init
<1>2. n \in Nat /\ n > 0 /\ n \notin family.elsewhere
  BY <1>1 DEF Orderly
<1>3. DOMAIN cluster = Positions(family) BY DEF Init, Positions, Size
<1>4. World BY <1>1, <1>3 DEF Init, World
<1>5. Everyone
  <2> SUFFICES ASSUME NEW l \in Launchers
               PROVE  Launched(family, launch[l], wire[l], cluster, reviewed, now)
    BY DEF Everyone
  <2>1. launch[l] = Idle /\ wire[l] = NoRequest BY DEF Init
  <2>2. Shaped(family, Idle, NoRequest)
    BY <1>1, NoRequestIsOne DEF Shaped, Records, Idle, NoRequest
  <2>3. Sourced(family, Idle, reviewed) /\ Timely(family, Idle, now)
    BY DEF Sourced, Timely, Idle, Launching
  <2> QED BY <2>1, <2>2, <2>3, Unsent DEF Launched, Idle
<1>6. Disjoint(launch, wire)
  <2>1. Claimed(Idle, NoRequest) = {} BY Unsent DEF Idle
  <2> QED BY <2>1 DEF Disjoint, Init
<1>7. Grounded(family, cluster, reviewed)
  <2>1. cluster[n] = Absent
    <3>1. PICK present \in SUBSET family.elsewhere, other \in Tokens :
              cluster = [i \in 1..Size |->
                  IF i \in present
                  THEN Content(i, [input |-> {}, token |-> other]) ELSE Absent]
      BY DEF Init
    <3>2. n \in 1..Size /\ n \notin present BY <1>2 DEF Size
    <3> QED BY <3>1, <3>2
  <2>2. cluster[n] # {} BY <2>1 DEF Absent
  <2> QED BY <2>2 DEF Grounded
<1>8. WorkVerified(family, cluster, workload)
  BY DEF Init, NoWork, WorkVerified
<1> QED BY <1>4, <1>5, <1>6, <1>7, <1>8 DEF LaunchInv

LEMMA NextLaunch == LaunchInv /\ [Next]_vars => LaunchInv'
<1> SUFFICES ASSUME LaunchInv, [Next]_vars PROVE LaunchInv' OBVIOUS
<1>1. ASSUME NEW l \in Launchers, Build(l) PROVE LaunchInv'
  BY <1>1, BuildKeeps
<1>2. ASSUME NEW l \in Launchers, Step(l) PROVE LaunchInv'
  BY <1>2, CaptureKeeps, ReloadKeeps, ReviewKeeps, OpenKeeps, RefuseKeeps,
     CheckClockKeeps, GetKeeps, GetFailsKeeps, DecideKeeps, PostKeeps,
     AnswerKeeps, RefusedKeeps, LoseKeeps, PostFailsKeeps, FinishKeeps
  DEF Step
<1>3. ASSUME NEW l \in Launchers, Serve(l) PROVE LaunchInv'
  BY <1>3, ServeCreateKeeps, ServeAlteredKeeps, ServeRefuseKeeps DEF Serve
<1>4. CASE CreateForeign BY <1>4, CreateForeignKeeps
<1>5. CASE Edit \/ Tick BY <1>5, EditOrTickKeeps
<1>6. CASE StartWorkload \/ LoadBundle \/ OpenNext \/ RunStage
  BY <1>6, StartWorkloadKeeps, LoadBundleKeeps, OpenNextKeeps, RunsKeeps
<1>7. CASE UNCHANGED vars
  BY <1>7 DEF vars, LaunchInv, World, Everyone
<1> QED BY <1>1, <1>2, <1>3, <1>4, <1>5, <1>6, <1>7 DEF Next

(* The inductive invariant of StageLaunch: types, what each process knows   *)
(* of its deadline, its candidate and the cluster, and what the work has    *)
(* verified, whatever the launches, the server and everybody else do.       *)
THEOREM LaunchInductive == Spec => []LaunchInv
BY InitLaunch, NextLaunch, PTL DEF Spec

-----------------------------------------------------------------------------
LEMMA ReceiptFollows == LaunchInv => ReceiptTrue
<1> SUFFICES ASSUME LaunchInv, NEW l \in Launchers, launch[l].pc = "done"
             PROVE
        /\ \A i \in launch[l].receipt.results :
               cluster[i] = Content(i, launch[l].candidate)
        /\ \A k \in Done \ {l} :
               launch[l].receipt.created \cap launch[k].receipt.created = {}
        /\ launch[l].receipt.mutation = "NOT_ATTEMPTED" =>
               wire[l] = NoRequest /\ launch[l].receipt.created = {}
        /\ launch[l].receipt.state \in {family.done, family.complete} =>
               launch[l].receipt.results = 1..Size
  BY DEF ReceiptTrue, Done
<1>1. \A i \in launch[l].receipt.results :
          cluster[i] = Content(i, launch[l].candidate)
  BY Own, ContentIs DEF Exact, Believed
<1>2. ASSUME NEW k \in Done \ {l}
      PROVE  launch[l].receipt.created \cap launch[k].receipt.created = {}
  <2>1. k \in Launchers /\ k # l /\ launch[k].pc = "done" BY DEF Done
  <2>2. /\ launch[l].receipt.created \subseteq Claimed(launch[l], wire[l])
        /\ launch[k].receipt.created \subseteq Claimed(launch[k], wire[k])
    BY <2>1 DEF Claimed, Made
  <2> QED BY <2>1, <2>2 DEF LaunchInv, Disjoint
<1>3. Reported(family, launch[l], wire[l]) BY Own
<1> QED BY <1>1, <1>2, <1>3 DEF Reported, Positions, Size

(* What a receipt says of the cluster is so: what it lists exists as its    *)
(* candidate has it, what it says it created no other receipt says, and it  *)
(* says nothing was attempted only when nothing is on its way.              *)
THEOREM ReceiptsAreTrue == Spec => []ReceiptTrue
BY LaunchInductive, ReceiptFollows, PTL

LEMMA RestsFollows == LaunchInv => WorkloadRestsOnReview
<1> SUFFICES ASSUME LaunchInv,
                    workload.opened # {} \/ workload.state = "running"
             PROVE  \E candidate \in Allowed(family, reviewed) :
                /\ candidate.input \cap family.job.loads = {}
                /\ \A i \in 1..Size : cluster[i] = Content(i, candidate)
                /\ \/ workload.opened \cap LedgerRoles # {}
                   \/ workload.state = "running"
                   => candidate.input = {}
  BY DEF WorkloadRestsOnReview, Allowed, Candidates
<1> DEFINE opens == family.job.opens
           n == workload.at
<1>1. /\ workload.state \in {"opening", "running"}
      /\ WorkVerified(family, cluster, workload)
      /\ n \in Nat \ {0} /\ Len(opens) \in Nat
  BY WorkRecord
<1>2. /\ Held(family, cluster) \cap family.job.loads = {}
      /\ n <= Len(opens) + 1
      /\ \A i \in 1..(n - 1) : opens[i] \notin Held(family, cluster)
      /\ \A o \in workload.opened : \E i \in 1..(n - 1) : o = opens[i]
      /\ workload.state = "running" => n = Len(opens) + 1
      /\ family.objects[Len(family.objects)] \in Workloads
      /\ cluster[Len(family.objects)] = {}
  BY <1>1 DEF WorkVerified
<1>3. PICK candidate \in Allowed(family, reviewed) :
          /\ candidate \in Candidates /\ candidate.input \subseteq family.files
          /\ \A i \in Positions(family) :
                 cluster[i] = Object(family, i, candidate)
  BY <1>2 DEF LaunchInv, Grounded
<1>4. Orderly(family) BY FamilyAssumption DEF LaunchInv, World
<1>5. candidate.input \subseteq Held(family, cluster)
  <2>1. CASE family.files = {} BY <2>1, <1>3
  <2>2. CASE family.files # {}
    <3>1. PICK j \in Positions(family) : family.objects[j] = "input"
      BY <2>2, <1>4 DEF Orderly, Positions
    <3>2. cluster[j] = candidate.input BY <3>1, <1>3 DEF Object
    <3> QED BY <3>1, <3>2 DEF Held
  <2> QED BY <2>1, <2>2
<1>6. ASSUME NEW m \in 1..n,
             \/ m = Len(opens) + 1
             \/ m \in 1..Len(opens) /\ opens[m] \in LedgerRoles
      PROVE  candidate.input = {}
  <2>1. m \in 1..(Len(opens) + 1) BY <1>1, <1>2
  <2>2. family.files \subseteq
            family.job.loads \cup {opens[i] : i \in 1..(m - 1)}
    BY <1>4, <1>6, <2>1 DEF Orderly
  <2>3. \A i \in 1..(m - 1) : i \in 1..(n - 1) BY <1>1
  <2>4. \A file \in candidate.input : FALSE
    BY <1>2, <1>3, <1>5, <2>2, <2>3
  <2> QED BY <2>4
<1>7. CASE workload.opened \cap LedgerRoles # {}
  <2>1. PICK i \in 1..(n - 1) : opens[i] \in LedgerRoles BY <1>2, <1>7
  <2>2. i \in 1..n /\ i \in 1..Len(opens) BY <1>1, <1>2
  <2>3. candidate.input = {} BY <2>1, <2>2, <1>6
  <2> QED BY <2>3, <1>3, ContentIs DEF Positions, Size
<1>8. CASE workload.state = "running"
  <2>1. n \in 1..n /\ n = Len(opens) + 1 BY <1>1, <1>2, <1>8
  <2>2. candidate.input = {} BY <2>1, <1>6
  <2> QED BY <2>2, <1>3, ContentIs DEF Positions, Size
<1>9. candidate.input \cap family.job.loads = {} BY <1>2, <1>5
<1>10. \A i \in 1..Size : cluster[i] = Content(i, candidate)
  BY <1>3, ContentIs DEF Positions, Size
<1> QED BY <1>3, <1>7, <1>8, <1>9, <1>10

(* A workload that opened a credential was started from the objects of one  *)
(* candidate, a reviewed one where the launcher is pinned to a digest, and  *)
(* verified its input before it opened the ledger or ran.                   *)
THEOREM WorkRestsOnReview == Spec => []WorkloadRestsOnReview
BY LaunchInductive, RestsFollows, PTL

LEMMA OnlyPostSends ==
    ASSUME LaunchInv, [Next]_vars, NEW l \in Launchers,
           wire[l].at # Size, wire'[l].at = Size
    PROVE  Post(l)
<1>1. Size > 0 /\ NoRequest.at = 0 BY Own DEF Size, NoRequest
<1>2. wire'[l].at \notin {0, wire[l].at} BY <1>1
<1>3. ASSUME NEW k \in Launchers, NEW w, w.at \in {0, wire[k].at},
             wire' = [wire EXCEPT ![k] = w]
      PROVE  FALSE
  <2>1. wire'[l] = IF l = k THEN w ELSE wire[l]
    BY <1>3 DEF LaunchInv, World
  <2> QED BY <1>2, <1>3, <2>1
<1>4. ASSUME wire' = wire PROVE FALSE BY <1>2, <1>4
<1>5. ASSUME NEW k \in Launchers, wire' = [wire EXCEPT ![k] = NoRequest]
      PROVE  FALSE
  BY <1>1, <1>3, <1>5
<1>6. ASSUME NEW k \in Launchers, NEW reply, Pending(k), Reply(k, reply)
      PROVE  FALSE
  <2> DEFINE w == IF launch[k].pc = "waiting"
                  THEN [at |-> wire[k].at, reply |-> reply] ELSE NoRequest
  <2>1. wire' = [wire EXCEPT ![k] = w] BY <1>6, ReplyIs
  <2>2. w.at \in {0, wire[k].at} BY <1>1
  <2>3. wire'[l] = IF l = k THEN w ELSE wire[l]
    BY <1>6, <2>1 DEF LaunchInv, World
  <2> HIDE DEF w
  <2> QED BY <1>2, <2>2, <2>3
<1>7. ASSUME NEW k \in Launchers, Serve(k) PROVE FALSE
  <2>1. Pending(k) /\ \E reply : Reply(k, reply)
    BY <1>7 DEF Serve, ServeCreate, ServeAltered, ServeRefuse
  <2> QED BY <1>6, <2>1
<1>8. ASSUME NEW k \in Launchers, Post(k), k # l PROVE FALSE
  <2>1. wire'[l] = wire[l] BY <1>8 DEF Post, LaunchInv, World
  <2> QED BY <1>2, <2>1
<1>9. ASSUME NEW k \in Launchers, Build(k) \/ Step(k), ~Post(k) PROVE FALSE
  <2>1. wire' = wire \/ wire' = [wire EXCEPT ![k] = NoRequest]
    BY <1>9 DEF Build, Step, Capture, Reload, Review, Open, Refuse, CheckClock,
       Get, GetFails, Decide, Answer, Refused, Lose, PostFails, Finish, world
  <2> QED BY <1>4, <1>5, <2>1
<1>10. CASE \/ CreateForeign \/ Edit \/ Tick \/ UNCHANGED vars
            \/ StartWorkload \/ LoadBundle \/ OpenNext \/ RunStage
  BY <1>4, <1>10 DEF CreateForeign, Edit, Tick, vars, StartWorkload, LoadBundle,
     OpenNext, RunStage, OnlyWork
<1> QED BY <1>7, <1>8, <1>9, <1>10 DEF Next

LEMMA SendsInTime ==
    ASSUME LaunchInv, NEW l \in Launchers, Post(l), "remaining" \in family.checks
    PROVE  now + MinRemaining <= Expiry[launch[l].candidate.token] + LaunchTimeout
<1>1. launch[l].pc = "creating" /\ now <= launch[l].deadline BY DEF Post
<1>2. launch[l].deadline + MinRemaining <=
          Expiry[launch[l].candidate.token] + LaunchTimeout
  BY <1>1, Own DEF Timely
<1>3. launch[l].deadline \in Nat /\ launch[l].candidate \in Candidates
  BY <1>1, Own DEF Records, Idle
<1>4. Expiry[launch[l].candidate.token] \in Nat
  BY <1>3, LaunchAssumption DEF Candidates
<1>5. now \in Nat /\ MinRemaining \in Nat /\ LaunchTimeout \in Nat
  BY Own, LaunchAssumption
<1> QED BY <1>1, <1>2, <1>3, <1>4, <1>5

(* The object that starts the work is sent only while every credential sent *)
(* with it is good for the minimum lifetime less the time of a launch.      *)
THEOREM CredentialsOutlive == Spec => CredentialsOutliveLaunch
<1>1. LaunchInv /\ [Next]_vars =>
          [\A l \in Launchers :
              /\ wire[l].at # Size /\ wire'[l].at = Size
              /\ "remaining" \in family.checks
              => now + MinRemaining <=
                     Expiry[launch[l].candidate.token] + LaunchTimeout]_vars
  BY OnlyPostSends, SendsInTime
<1> QED BY <1>1, LaunchInductive, PTL DEF Spec, CredentialsOutliveLaunch

==============================================================================
