----------------------- MODULE TargetCredentialsProofs -----------------------
(* Proofs about TargetCredentials, for any number of executions and grants  *)
(* of either stage, any clock and any lifetimes of tokens.                  *)
EXTENDS TargetCredentials, TLAPS

-----------------------------------------------------------------------------
(* Types.                                                                   *)
Results == {Success, Stopped("UNKNOWN"), Stopped("ATTEMPTED"), Stopped("NOT_ATTEMPTED")}

(* The steps before an execution writes, and after it may have.             *)
Issuing == {"issue", "issuing", "record"}
HasCredential == {"handoff", "register", "write", "writing", "complete", "receipt"}
Holding9 == {"write", "writing", "complete"}
Steps == {"credential", "finalize"} \cup Issuing \cup HasCredential

Active ==
    [pc : Steps, kind : Kinds, materialized : Nat, issued : Nat, expires : Nat,
     g8 : Grants8 \cup {None}, g9 : Grants9 \cup {None}, result : Results]

Outcomes == {Completed(p, r) : p \in Procs, r \in Results}
LedgerStates == {Available} \cup {Claimed(p) : p \in Procs} \cup Outcomes

Writes ==
    [kind : {"project", "secret", "refresh"}, reply : {"pending", "done", "refused"},
     seen : [version : Nat, credential : Procs \cup {None}]]
Tokens ==
    [kind : {"token"}, reply : {"pending", "refused"}, seen : {None}]
    \cup [reply : {"done"}, expires : Nat]

Typed ==
    /\ now \in Nat
    /\ ledger \in [Grants -> LedgerStates]
    /\ slot \in [Stages -> {None} \cup Outcomes]
    /\ project \in BOOLEAN
    /\ secret \in Seq(Procs)
    /\ wire \in [Procs -> {NoRequest} \cup Writes \cup Tokens]
    /\ run \in [Procs -> {Idle, Over} \cup Active]
    /\ spent \in [Grants -> Nat]

-----------------------------------------------------------------------------
(* Which grants an execution holds, and what it has recorded under them.    *)
HoldsGrants(p) ==
    LET r == run[p] IN
    /\ r.pc \in Issuing => r.g8 \in Grants8 /\ ledger[r.g8] = Claimed(p)
    /\ r.pc = "finalize" => r.g8 \in Grants8 /\ ledger[r.g8] = Completed(p, r.result)
    /\ r.pc \in HasCredential =>
          /\ \E g \in Grants8 : ledger[g] = Completed(p, Success)
          /\ Succeeded(8)
    /\ r.pc \in Holding9 => r.g9 \in Grants9 /\ ledger[r.g9] = Claimed(p)
    /\ r.pc = "receipt" => r.g9 \in Grants9 /\ ledger[r.g9] = Completed(p, r.result)
    /\ r.pc \in Steps /\ r.kind \in Recovering => Succeeded(8)
    /\ r.pc \in Steps /\ r.kind = "registration" => Succeeded(9)

(* It has paid with a grant only when it has sent what the grant is for.    *)
HasNotPaid(p) ==
    /\ run[p].pc = "issue" => spent[run[p].g8] = 0
    /\ run[p].pc = "write" => spent[run[p].g9] = 0
    /\ run[p].pc = "writing" /\ wire[p].kind = "project" => spent[run[p].g9] = 0

(* Whoever owns a grant of stage 9 is writing, or has stopped writing.      *)
OwnsOne(p) ==
    \A g \in Grants9 : Owns(p, g) =>
        /\ run[p].pc \in Holding9 \cup {"receipt", "over"}
        /\ run[p].pc # "over" => g = run[p].g9
        /\ Succeeded(8)

(* An execution that has not come to its writes has none on the wire, and   *)
(* the registration does not have its credential.                           *)
Wrote(p) == Registered(p) \/ Writing(p)
WroteInTurn(p) ==
    Wrote(p) =>
        /\ run[p].pc \in {"writing", "complete", "receipt", "over"}
        /\ \E g \in Grants8 : ledger[g] = Completed(p, Success)
        /\ \E g \in Grants9 : Owns(p, g)

(* What its request rests on, and what the answer tells.                    *)
First(p) == Present /\ secret[1] = p
RequestKnows(p) ==
    /\ run[p].pc = "issuing" => wire[p] \in Tokens
    /\ run[p].pc = "writing" =>
          /\ wire[p] \in Writes
          /\ wire[p].kind = "refresh" => run[p].kind = "registration"
          /\ wire[p].reply = "done" /\ wire[p].kind = "secret" => First(p)
          /\ wire[p].reply = "done" /\ wire[p].kind = "refresh" => Registered(p)
    /\ Writing(p) /\ wire[p].kind = "refresh" =>
          /\ wire[p].seen.version \in 1..Len(secret)
          /\ wire[p].seen.credential = secret[wire[p].seen.version]

(* A result of a registration is true when it is recorded and afterwards.   *)
Truthful(p, result) ==
    /\ result = Success => Registered(p) /\ (First(p) \/ Succeeded(9))
    /\ result = Stopped("NOT_ATTEMPTED") => ~Wrote(p)

ResultsTruthful(p) ==
    /\ run[p].pc = "complete" => Truthful(p, run[p].result)
    /\ \A g \in Grants9, result \in Results :
          ledger[g] = Completed(p, result) => Truthful(p, result)

ExecutionOK(p) ==
    /\ HoldsGrants(p) /\ HasNotPaid(p) /\ OwnsOne(p)
    /\ WroteInTurn(p) /\ RequestKnows(p) /\ ResultsTruthful(p)

(* A grant nobody has claimed has paid for nothing.                         *)
PaidOnce == \A g \in Grants : spent[g] <= 1 /\ (ledger[g] = Available => spent[g] = 0)

(* The receipt of stage 9 names the first credential.                       *)
FirstNamed == Succeeded(9) => Present /\ secret[1] = slot[9].by /\ Succeeded(8)

CInv == Typed /\ PaidOnce /\ FirstNamed /\ \A p \in Procs : ExecutionOK(p)

-----------------------------------------------------------------------------
(* The states of a grant are told apart, and say whose they are.            *)
LEMMA LedgerRecords ==
    /\ Available.state = "AVAILABLE"
    /\ \A p : Claimed(p) # Available /\ Claimed(p).by = p /\ Claimed(p).state = "CLAIMED"
    /\ \A p, q : Claimed(p) = Claimed(q) => p = q
    /\ \A p : \A r : /\ Completed(p, r) # Available
                     /\ Completed(p, r).by = p /\ Completed(p, r).state = "COMPLETED"
    /\ \A p, q : \A r : Completed(p, r) # Claimed(q)
BY DEF Claimed, Completed, Available

(* A record of an outcome says whose it is and which result it has; only    *)
(* the one of a success says SUCCEEDED; and none is missing.                *)
LEMMA OutcomeRecords ==
    /\ \A p, q : \A r, s \in Results : Completed(p, r) = Completed(q, s) => p = q /\ r = s
    /\ \A p : \A r \in Results : Completed(p, r).outcome = "SUCCEEDED" <=> r = Success
    /\ \A p \in Procs : \A r \in Results : Completed(p, r) # None
<1>1. ASSUME NEW p, NEW q, NEW r \in Results, NEW s \in Results,
             Completed(p, r) = Completed(q, s)
      PROVE  p = q /\ r = s
  <2>1. /\ Completed(p, r).by = p /\ Completed(q, s).by = q
        /\ Completed(p, r).outcome = r.outcome /\ Completed(q, s).outcome = s.outcome
        /\ Completed(p, r).mutation = r.mutation /\ Completed(q, s).mutation = s.mutation
      BY DEF Completed
  <2>2. p = q /\ r.outcome = s.outcome /\ r.mutation = s.mutation
      BY <1>1, <2>1
  <2> QED
      BY <2>2 DEF Results, Success, Stopped, Result
<1>2. \A p : \A r \in Results : Completed(p, r).outcome = "SUCCEEDED" <=> r = Success
    BY DEF Completed, Results, Success, Stopped, Result
<1>3. \A p \in Procs : \A r \in Results : Completed(p, r) # None
    BY NoneAssumption DEF Results, Success, Stopped
<1> QED
    BY <1>1, <1>2, <1>3

LEMMA RunRecords ==
    ASSUME Typed, NEW p \in Procs
    PROVE  /\ run[p].pc \in Steps \cup {"idle", "over"}
           /\ run[p].pc \in Steps => run[p] \in Active
           /\ run[p].pc = "idle" => run[p] = Idle
           /\ run[p].pc = "over" => run[p] = Over
BY DEF Typed, Active, Idle, Over, Steps, Issuing, HasCredential

LEMMA InitCInv == Init => CInv
<1> SUFFICES ASSUME Init PROVE CInv
    OBVIOUS
<1>1. Typed
  <2>1. ledger \in [Grants -> LedgerStates]
      BY DEF Init, LedgerStates
  <2>2. slot \in [Stages -> {None} \cup Outcomes]
      BY DEF Init
  <2>3. wire \in [Procs -> {NoRequest} \cup Writes \cup Tokens]
      BY DEF Init
  <2>4. run \in [Procs -> {Idle, Over} \cup Active]
      BY DEF Init
  <2>5. spent \in [Grants -> Nat]
      BY DEF Init
  <2>6. now \in Nat /\ project \in BOOLEAN
      BY DEF Init
  <2>7. secret \in Seq(Procs)
      BY SMT DEF Init
  <2> QED
      BY <2>1, <2>2, <2>3, <2>4, <2>5, <2>6, <2>7 DEF Typed
<1>2. \A p \in Procs : run[p].pc = "idle" /\ wire[p].reply = "none"
    BY DEF Init, Idle, NoRequest
<1>3. ~Present /\ \A p \in Procs : ~Wrote(p)
    BY <1>2 DEF Init, Present, Wrote, Registered, Writing
<1>4. \A g \in Grants : ledger[g] = Available /\ spent[g] = 0
    BY DEF Init
<1>5. ASSUME NEW p \in Procs PROVE ExecutionOK(p)
    BY <1>2, <1>3, <1>4, LedgerRecords
       DEF ExecutionOK, HoldsGrants, HasNotPaid, OwnsOne, WroteInTurn, RequestKnows,
           ResultsTruthful, Wrote, Owns, Steps, Issuing, HasCredential, Holding9, Grants
<1> QED
    BY <1>1, <1>4, <1>5 DEF Init, CInv, PaidOnce, FirstNamed, Succeeded, Stages

-----------------------------------------------------------------------------
(* A step of an execution leaves the others and the servers alone.  In the  *)
(* ledger it claims what is available, or completes what it has claimed;    *)
(* a receipt it creates is the completed record of a grant; and it pays     *)
(* with a grant it has claimed and not paid with before.                    *)
LedgerGrows(p) ==
    \A g \in Grants :
        \/ ledger'[g] = ledger[g]
        \/ ledger[g] = Available /\ ledger'[g] = Claimed(p)
        \/ ledger[g] = Claimed(p) /\ \E r \in Results : ledger'[g] = Completed(p, r)

SlotGrows(s, grants) ==
    \/ slot'[s] = slot[s]
    \/ slot[s] = None /\ \E g \in grants : slot'[s] = ledger[g] /\ ledger[g] \in Outcomes

Pays(p) ==
    \A g \in Grants :
        \/ spent'[g] = spent[g]
        \/ ledger[g] = Claimed(p) /\ spent[g] = 0 /\ spent'[g] = 1

OwnStep(p) ==
    /\ UNCHANGED secret
    /\ \A q \in Procs \ {p} : run'[q] = run[q] /\ wire'[q] = wire[q]
    /\ LedgerGrows(p) /\ SlotGrows(8, Grants8) /\ SlotGrows(9, Grants9) /\ Pays(p)

(* What no execution takes back.                                            *)
LEMMA Monotone ==
    ASSUME CInv, NEW p \in Procs, OwnStep(p)
    PROVE  /\ \A q \in Procs, g \in Grants, r \in Results :
                 ledger[g] = Completed(q, r) => ledger'[g] = Completed(q, r)
           /\ \A q \in Procs, g \in Grants : Owns(q, g) => Owns(q, g)'
           /\ \A s \in Stages : Succeeded(s) => Succeeded(s)'
           /\ \A q \in Procs : Registered(q)' <=> Registered(q)
           /\ \A q \in Procs : First(q)' <=> First(q)
           /\ Present' <=> Present
<1>1. ASSUME NEW q \in Procs, NEW g \in Grants, NEW r \in Results,
             ledger[g] = Completed(q, r)
      PROVE  ledger'[g] = Completed(q, r)
  <2>1. ledger[g] # Available /\ ledger[g] # Claimed(p)
      BY <1>1, LedgerRecords
  <2> QED
      BY <1>1, <2>1 DEF OwnStep, LedgerGrows
<1>2. ASSUME NEW q \in Procs, NEW g \in Grants, Owns(q, g)
      PROVE  Owns(q, g)'
  <2>1. CASE ledger'[g] = ledger[g]
      BY <1>2, <2>1 DEF Owns
  <2>2. ASSUME ledger[g] = Claimed(p), NEW r \in Results, ledger'[g] = Completed(p, r)
        PROVE  Owns(q, g)'
      BY <1>2, <2>2, LedgerRecords DEF Owns
  <2> QED
      BY <1>2, <2>1, <2>2 DEF OwnStep, LedgerGrows, Owns
<1>3. \A s \in Stages : slot[s] # None => slot'[s] = slot[s]
    BY DEF OwnStep, SlotGrows, Stages
<1> QED
    BY <1>1, <1>2, <1>3 DEF Succeeded, Registered, First, Present, OwnStep

(* What a step of an execution cannot break: it is left to show that the    *)
(* state is typed and that the execution itself is as it should be.         *)
LEMMA Frame ==
    ASSUME CInv, NEW p \in Procs, OwnStep(p), Typed', ExecutionOK(p)'
    PROVE  CInv'
<1> USE LedgerRecords
<1>1. PaidOnce'
  <2> SUFFICES ASSUME NEW g \in Grants
               PROVE  spent'[g] <= 1 /\ (ledger'[g] = Available => spent'[g] = 0)
      BY DEF PaidOnce
  <2>1. spent[g] <= 1 /\ (ledger[g] = Available => spent[g] = 0)
      BY DEF CInv, PaidOnce
  <2>2. ledger'[g] = Available => ledger[g] = Available
      BY DEF OwnStep, LedgerGrows
  <2> QED
      BY <2>1, <2>2 DEF OwnStep, Pays
<1>2. FirstNamed'
  <2> SUFFICES ASSUME Succeeded(9)'
               PROVE  Present' /\ secret'[1] = slot'[9].by /\ Succeeded(8)'
      BY DEF FirstNamed
  <2>1. CASE slot'[9] = slot[9]
      BY <2>1, Monotone DEF CInv, FirstNamed, Succeeded, Present, OwnStep, Stages
  <2>2. ASSUME slot[9] = None, NEW g \in Grants9, slot'[9] = ledger[g], ledger[g] \in Outcomes
        PROVE  Present' /\ secret'[1] = slot'[9].by /\ Succeeded(8)'
    <3>1. PICK q \in Procs, r \in Results : ledger[g] = Completed(q, r)
        BY <2>2 DEF Outcomes
    <3>2. r = Success
        BY <2>2, <3>1, OutcomeRecords DEF Succeeded
    <3>3. ~Succeeded(9)
        BY <2>2 DEF Succeeded
    <3>4. First(q) /\ Succeeded(8)
      <4>1. ExecutionOK(q) /\ Owns(q, g) /\ g \in Grants
          BY <3>1 DEF CInv, Owns, Grants
      <4>2. Truthful(q, r)
          BY <3>1, <4>1 DEF ExecutionOK, ResultsTruthful
      <4> QED
          BY <3>2, <3>3, <4>1, <4>2 DEF Truthful, ExecutionOK, OwnsOne
    <3> QED
        BY <2>2, <3>1, <3>4, Monotone DEF First, Present, OwnStep, Stages
  <2> QED
      BY <2>1, <2>2 DEF OwnStep, SlotGrows
<1>3. ASSUME NEW q \in Procs \ {p} PROVE ExecutionOK(q)'
  <2>1. run'[q] = run[q] /\ wire'[q] = wire[q] /\ secret' = secret
      BY DEF OwnStep
  <2>2. ExecutionOK(q)
      BY DEF CInv
  <2>3. \A g \in Grants : ledger[g] = Claimed(q) => ledger'[g] = ledger[g] /\ spent'[g] = spent[g]
      BY DEF OwnStep, LedgerGrows, Pays
  <2>4. \A g \in Grants : Owns(q, g)' <=> Owns(q, g)
      BY Monotone DEF OwnStep, LedgerGrows, Owns
  <2>5. ASSUME NEW g \in Grants, NEW r \in Results, ledger'[g] = Completed(q, r)
        PROVE  ledger[g] = Completed(q, r)
      BY <2>5 DEF OwnStep, LedgerGrows
  <2>6. Grants8 \subseteq Grants /\ Grants9 \subseteq Grants /\ {8, 9} = Stages /\ Success \in Results
      BY DEF Grants, Stages, Results
  <2>7. /\ \A g \in Grants, r \in Results :
              ledger[g] = Completed(q, r) => ledger'[g] = Completed(q, r)
        /\ Succeeded(8) => Succeeded(8)'
        /\ Succeeded(9) => Succeeded(9)'
        /\ Registered(q)' <=> Registered(q)
        /\ First(q)' <=> First(q)
      BY <2>6, Monotone
  <2>8. Wrote(q)' <=> Wrote(q)
      BY <2>1, <2>7 DEF Wrote, Writing
  <2>9. run[q].pc \in Steps => run[q].result \in Results
      BY RunRecords DEF CInv, Active
  <2>10. HoldsGrants(q)'
      BY <2>1, <2>2, <2>3, <2>6, <2>7, <2>9
         DEF ExecutionOK, HoldsGrants, Steps, Issuing, HasCredential, Holding9
  <2>11. HasNotPaid(q)'
      BY <2>1, <2>2, <2>3, <2>6
         DEF ExecutionOK, HasNotPaid, HoldsGrants, Issuing, Holding9
  <2>12. OwnsOne(q)'
      BY <2>1, <2>2, <2>4, <2>6, <2>7 DEF ExecutionOK, OwnsOne
  <2>13. WroteInTurn(q)'
      BY <2>1, <2>2, <2>4, <2>6, <2>7, <2>8 DEF ExecutionOK, WroteInTurn
  <2>14. RequestKnows(q)'
      BY <2>1, <2>2, <2>7 DEF ExecutionOK, RequestKnows, Writing
  <2>15. ResultsTruthful(q)'
      BY <2>1, <2>2, <2>5, <2>6, <2>7, <2>8 DEF ExecutionOK, ResultsTruthful, Truthful
  <2> QED
      BY <2>10, <2>11, <2>12, <2>13, <2>14, <2>15 DEF ExecutionOK
<1> QED
    BY <1>1, <1>2, <1>3 DEF CInv

(* Before its registration begins an execution owns no grant of stage 9 and *)
(* has written nothing, so such a step has only its grants to look after.   *)
Early == {"idle", "credential", "finalize", "handoff", "register"} \cup Issuing

LEMMA EarlySteps ==
    ASSUME CInv, NEW p \in Procs, OwnStep(p), run[p].pc \in Early,
           \A g \in Grants9 : ledger'[g] = ledger[g],
           ~Writing(p)', run'[p].pc \notin {"writing", "complete"},
           run'[p].pc = "issuing" => wire'[p] \in Tokens
    PROVE  OwnsOne(p)' /\ WroteInTurn(p)' /\ RequestKnows(p)' /\ ResultsTruthful(p)'
<1>1. ExecutionOK(p)
    BY DEF CInv
<1>2. \A g \in Grants9 : ~Owns(p, g)
    BY <1>1 DEF ExecutionOK, OwnsOne, Early, Issuing, Holding9
<1>3. ~Wrote(p)
    BY <1>1 DEF ExecutionOK, WroteInTurn, Early, Issuing
<1>4. \A g \in Grants9 : ~Owns(p, g)'
    BY <1>2 DEF Owns
<1>5. ~Wrote(p)'
    BY <1>3, Monotone DEF Wrote
<1>6. ASSUME NEW g \in Grants9, NEW r \in Results PROVE ledger'[g] # Completed(p, r)
    BY <1>4, LedgerRecords DEF Owns
<1> QED
    BY <1>4, <1>5, <1>6 DEF OwnsOne, WroteInTurn, RequestKnows, ResultsTruthful

-----------------------------------------------------------------------------
(* Stage 8.                                                                 *)
LEMMA StartKeeps ==
    ASSUME CInv, NEW p \in Procs, Start(p)
    PROVE  CInv'
<1>1. PICK kind \in Kinds, materialized \in Materializations \cup {now} :
         /\ kind \in Recovering => Succeeded(8)
         /\ kind = "registration" => Succeeded(9)
         /\ run' = [run EXCEPT ![p] =
                [pc |-> "credential", kind |-> kind,
                 materialized |-> materialized, issued |-> 0, expires |-> 0,
                 g8 |-> None, g9 |-> None, result |-> Stopped("UNKNOWN")]]
    BY DEF Start
<1>2. run[p].pc = "idle" /\ UNCHANGED <<now, servers, stores, wire, spent>> /\ ExecutionOK(p)
    BY DEF Start, CInv
<1>3. Typed'
  <2>1. materialized \in Nat
      BY CredentialAssumption DEF CInv, Typed
  <2>2. run'[p] \in Active
      BY <1>1, <2>1 DEF CInv, Typed, Active, Steps, Results
  <2> QED
      BY <1>1, <1>2, <2>2 DEF CInv, Typed, servers, stores
<1>4. run'[p].pc = "credential" /\ run'[p].kind = kind
    BY <1>1 DEF CInv, Typed
<1>5. OwnStep(p)
    BY <1>1, <1>2 DEF CInv, Typed, OwnStep, LedgerGrows, SlotGrows, Pays, servers, stores
<1>6. HoldsGrants(p)' /\ HasNotPaid(p)'
    BY <1>1, <1>2, <1>4
       DEF HoldsGrants, HasNotPaid, Issuing, HasCredential, Holding9, Succeeded, stores
<1>7. ~Writing(p)
    BY <1>2 DEF ExecutionOK, WroteInTurn, Wrote
<1>8. OwnsOne(p)' /\ WroteInTurn(p)' /\ RequestKnows(p)' /\ ResultsTruthful(p)'
    BY <1>2, <1>4, <1>5, <1>7, EarlySteps DEF Early, Writing, stores
<1> QED
    BY <1>3, <1>5, <1>6, <1>8, Frame DEF ExecutionOK

LEMMA ClaimCredentialKeeps ==
    ASSUME CInv, NEW p \in Procs, NEW g \in Grants8, ClaimCredential(p, g)
    PROVE  CInv'
<1> USE LedgerRecords
<1>1. /\ run[p].pc = "credential" /\ UNCHANGED <<now, servers, wire, spent>>
      /\ ExecutionOK(p) /\ Typed /\ run[p] \in Active
    BY RunRecords DEF ClaimCredential, CInv, Steps
<1>2. g \in Grants /\ g \notin Grants9 /\ {8, 9} = Stages
    BY CredentialAssumption DEF Grants, Stages
<1>3. ~Writing(p)'
    BY <1>1 DEF ExecutionOK, WroteInTurn, Wrote, Writing
<1>4. CASE Claimable(g)
  <2>1. /\ ledger[g] = Available /\ ledger' = [ledger EXCEPT ![g] = Claimed(p)]
        /\ run' = [run EXCEPT ![p].pc = "issue", ![p].g8 = g] /\ slot' = slot
      BY <1>4 DEF ClaimCredential, Claimable, Claim
  <2>2. run'[p] \in Active /\ run'[p] = [run[p] EXCEPT !.pc = "issue", !.g8 = g]
      BY <1>1, <2>1 DEF Typed, Active, Steps, Issuing
  <2>3. run'[p].pc = "issue" /\ run'[p].g8 = g /\ run'[p].kind = run[p].kind
      BY <1>1, <2>2 DEF Active
  <2>4. Typed'
      BY <1>1, <1>2, <2>1, <2>2 DEF Typed, LedgerStates, servers
  <2>5. OwnStep(p)
      BY <1>1, <1>2, <2>1 DEF Typed, OwnStep, LedgerGrows, SlotGrows, Pays, servers
  <2>6. HoldsGrants(p)'
      BY <1>1, <1>2, <2>1, <2>3
         DEF ExecutionOK, HoldsGrants, Issuing, HasCredential, Holding9, Steps, Succeeded, Typed
  <2>7. HasNotPaid(p)'
      BY <1>1, <1>2, <2>1, <2>3 DEF HasNotPaid, CInv, PaidOnce
  <2>8. OwnsOne(p)' /\ WroteInTurn(p)' /\ RequestKnows(p)' /\ ResultsTruthful(p)'
      BY <1>1, <1>2, <1>3, <2>1, <2>3, <2>5, EarlySteps DEF Early, Typed
  <2> QED
      BY <2>4, <2>5, <2>6, <2>7, <2>8, Frame DEF ExecutionOK
<1>5. CASE ~Claimable(g)
  <2>1. /\ run' = [run EXCEPT ![p] = Over] /\ ledger' = ledger
        /\ \/ slot' = slot
           \/ /\ ledger[g].state = "COMPLETED"
              /\ slot[8] \in {None, ledger[g]} /\ slot' = [slot EXCEPT ![8] = ledger[g]]
      BY <1>5 DEF ClaimCredential, End, Finalizable, Finalize
  <2>2. run'[p] = Over /\ run'[p].pc = "over"
      BY <1>1, <2>1 DEF Typed, Over
  <2>3. ledger[g].state = "COMPLETED" => ledger[g] \in Outcomes
      BY <1>1, <1>2 DEF Typed, LedgerStates
  <2>4. Typed'
      BY <1>1, <1>2, <2>1, <2>3 DEF Typed, servers
  <2>5. OwnStep(p)
      BY <1>1, <1>2, <2>1, <2>3 DEF Typed, OwnStep, LedgerGrows, SlotGrows, Pays, servers
  <2>6. HoldsGrants(p)' /\ HasNotPaid(p)'
      BY <2>2 DEF HoldsGrants, HasNotPaid, Issuing, HasCredential, Holding9, Steps
  <2>7. OwnsOne(p)' /\ WroteInTurn(p)' /\ RequestKnows(p)' /\ ResultsTruthful(p)'
      BY <1>1, <1>3, <2>1, <2>2, <2>5, EarlySteps DEF Early
  <2> QED
      BY <2>4, <2>5, <2>6, <2>7, Frame DEF ExecutionOK
<1> QED
    BY <1>4, <1>5

LEMMA RequestTokenKeeps ==
    ASSUME CInv, NEW p \in Procs, RequestToken(p)
    PROVE  CInv'
<1>1. /\ run[p].pc = "issue" /\ UNCHANGED <<now, servers, stores>>
      /\ ExecutionOK(p) /\ Typed /\ run[p] \in Active
    BY RunRecords DEF RequestToken, CInv, Steps, Issuing
<1>2. /\ run' = [run EXCEPT ![p].pc = "issuing", ![p].issued = now]
      /\ wire' = [wire EXCEPT ![p] = Request("token", None)]
      /\ spent' = [spent EXCEPT ![run[p].g8] = @ + 1]
    BY DEF RequestToken
<1>3. /\ run[p].g8 \in Grants8 /\ run[p].g8 \in Grants /\ ledger[run[p].g8] = Claimed(p)
      /\ spent[run[p].g8] = 0
    BY <1>1 DEF ExecutionOK, HoldsGrants, HasNotPaid, Issuing, Grants
<1>4. /\ run'[p] \in Active /\ run'[p].pc = "issuing" /\ run'[p].kind = run[p].kind
      /\ run'[p].g8 = run[p].g8
    BY <1>1, <1>2 DEF Typed, Active, Steps, Issuing
<1>5. Request("token", None) \in Tokens /\ Request("token", None).kind = "token"
    BY DEF Request, Tokens
<1>6. Typed'
    BY <1>1, <1>2, <1>3, <1>4, <1>5 DEF Typed, servers, stores
<1>7. OwnStep(p)
    BY <1>1, <1>2, <1>3 DEF Typed, OwnStep, LedgerGrows, SlotGrows, Pays, servers, stores
<1>8. HoldsGrants(p)'
    BY <1>1, <1>3, <1>4
       DEF ExecutionOK, HoldsGrants, Issuing, HasCredential, Holding9, Steps, Succeeded, stores
<1>9. HasNotPaid(p)'
    BY <1>4 DEF HasNotPaid
<1>10. ~Writing(p)'
    BY <1>1, <1>2, <1>5 DEF Writing, Typed
<1>11. wire'[p] \in Tokens
    BY <1>1, <1>2, <1>5 DEF Typed
<1>12. OwnsOne(p)' /\ WroteInTurn(p)' /\ RequestKnows(p)' /\ ResultsTruthful(p)'
    BY <1>1, <1>4, <1>7, <1>10, <1>11, EarlySteps DEF Early, Issuing, stores
<1> QED
    BY <1>6, <1>7, <1>8, <1>9, <1>12, Frame DEF ExecutionOK

LEMMA ReceiveTokenKeeps ==
    ASSUME CInv, NEW p \in Procs, ReceiveToken(p)
    PROVE  CInv'
<1>1. /\ run[p].pc = "issuing" /\ UNCHANGED <<now, servers, stores, spent>>
      /\ ExecutionOK(p) /\ Typed /\ run[p] \in Active
    BY RunRecords DEF ReceiveToken, CInv, Steps, Issuing
<1>2. PICK result \in Results, expires \in Nat :
         run' = [run EXCEPT ![p].pc = "record", ![p].result = result, ![p].expires = expires]
  <2>1. CASE Taken(p)
    <3>1. wire[p].expires \in Nat
        BY <1>1, <2>1 DEF ExecutionOK, RequestKnows, Tokens, Taken
    <3> QED
        BY <2>1, <3>1 DEF ReceiveToken, Results
  <2>2. CASE ~Taken(p)
    <3>1. run' = [run EXCEPT ![p].pc = "record", ![p].result = Stopped("UNKNOWN")]
        BY <2>2 DEF ReceiveToken, Conclude
    <3>2. run' = [run EXCEPT ![p].pc = "record", ![p].result = Stopped("UNKNOWN"),
                             ![p].expires = run[p].expires]
        BY <1>1, <3>1 DEF Typed, Active
    <3> QED
        BY <1>1, <3>2 DEF Results, Active
  <2> QED
      BY <2>1, <2>2
<1>3. wire' = [wire EXCEPT ![p] = NoRequest]
    BY DEF ReceiveToken
<1>4. /\ run'[p] \in Active /\ run'[p].pc = "record" /\ run'[p].kind = run[p].kind
      /\ run'[p].g8 = run[p].g8
    BY <1>1, <1>2 DEF Typed, Active, Steps, Issuing
<1>5. Typed'
    BY <1>1, <1>2, <1>3, <1>4 DEF Typed, servers, stores
<1>6. OwnStep(p)
    BY <1>1, <1>2, <1>3 DEF Typed, OwnStep, LedgerGrows, SlotGrows, Pays, servers, stores
<1>7. HoldsGrants(p)' /\ HasNotPaid(p)'
    BY <1>1, <1>4
       DEF ExecutionOK, HoldsGrants, HasNotPaid, Issuing, HasCredential, Holding9, Steps,
           Succeeded, stores
<1>8. ~Writing(p)'
    BY <1>1, <1>3 DEF Writing, Typed, NoRequest
<1>9. OwnsOne(p)' /\ WroteInTurn(p)' /\ RequestKnows(p)' /\ ResultsTruthful(p)'
    BY <1>1, <1>4, <1>6, <1>8, EarlySteps DEF Early, Issuing, stores
<1> QED
    BY <1>5, <1>6, <1>7, <1>9, Frame DEF ExecutionOK

LEMMA RecordIssueKeeps ==
    ASSUME CInv, NEW p \in Procs, RecordIssue(p)
    PROVE  CInv'
<1> DEFINE g == run[p].g8
           result == run[p].result
<1>1. /\ run[p].pc = "record" /\ UNCHANGED <<now, servers, slot, wire, spent>>
      /\ ExecutionOK(p) /\ Typed /\ run[p] \in Active
    BY RunRecords DEF RecordIssue, CInv, Steps, Issuing
<1>2. /\ g \in Grants8 /\ g \in Grants /\ g \notin Grants9
      /\ ledger[g] = Claimed(p) /\ result \in Results
    BY <1>1, CredentialAssumption DEF ExecutionOK, HoldsGrants, Issuing, Grants, Active
<1>3. ledger' = [ledger EXCEPT ![g] = Completed(p, result)]
    BY DEF RecordIssue, Complete
<1>4. PICK pc \in {"finalize", "handoff", "over"} :
         /\ pc # "over" => run' = [run EXCEPT ![p].pc = pc]
         /\ pc = "over" => run' = [run EXCEPT ![p] = Over]
         /\ pc = "handoff" => run[p].kind \notin Fresh /\ result = Success
    BY DEF RecordIssue, HandOverOrStop, Goto, End
<1>5. /\ run'[p] \in {Over} \cup Active /\ run'[p].pc = pc
      /\ pc # "over" => /\ run'[p].kind = run[p].kind /\ run'[p].g8 = g
                        /\ run'[p].result = result
  <2>1. CASE pc # "over"
    <3>1. run'[p] = [run[p] EXCEPT !.pc = pc]
        BY <1>1, <1>4, <2>1 DEF Typed
    <3> QED
        BY <1>1, <2>1, <3>1 DEF Active, Steps, HasCredential
  <2>2. CASE pc = "over"
      BY <1>1, <1>4, <2>2 DEF Typed, Over
  <2> QED
      BY <2>1, <2>2
<1>6. Typed'
  <2>1. Completed(p, result) \in LedgerStates
      BY <1>2 DEF LedgerStates, Outcomes
  <2>2. run' \in [Procs -> {Idle, Over} \cup Active]
      BY <1>1, <1>4, <1>5 DEF Typed
  <2> QED
      BY <1>1, <1>2, <1>3, <2>1, <2>2 DEF Typed, servers
<1>7. OwnStep(p)
    BY <1>1, <1>2, <1>3, <1>4 DEF Typed, OwnStep, LedgerGrows, SlotGrows, Pays, servers
<1>8. ledger'[g] = Completed(p, result)
    BY <1>1, <1>2, <1>3 DEF Typed
<1>9. pc = "handoff" => Succeeded(8)
  <2>1. run[p].kind \notin Fresh => run[p].kind \in Recovering
      BY <1>1, CredentialAssumption DEF Active, Fresh, Recovering
  <2> QED
      BY <1>1, <1>4, <2>1 DEF ExecutionOK, HoldsGrants, Steps, Issuing
<1>10. HoldsGrants(p)' /\ HasNotPaid(p)'
    BY <1>1, <1>2, <1>4, <1>5, <1>8, <1>9
       DEF ExecutionOK, HoldsGrants, HasNotPaid, Issuing, HasCredential, Holding9, Steps,
           Succeeded
<1>11. \A h \in Grants9 : ledger'[h] = ledger[h]
    BY <1>1, <1>2, <1>3 DEF Typed, Grants
<1>12. ~Writing(p)'
    BY <1>1 DEF ExecutionOK, WroteInTurn, Wrote, Writing
<1>13. OwnsOne(p)' /\ WroteInTurn(p)' /\ RequestKnows(p)' /\ ResultsTruthful(p)'
    BY <1>1, <1>4, <1>5, <1>7, <1>11, <1>12, EarlySteps DEF Early, Issuing
<1> QED
    BY <1>6, <1>7, <1>10, <1>13, Frame DEF ExecutionOK

LEMMA FinalizeIssueKeeps ==
    ASSUME CInv, NEW p \in Procs, FinalizeIssue(p)
    PROVE  CInv'
<1> DEFINE g == run[p].g8
           result == run[p].result
<1>1. /\ run[p].pc = "finalize" /\ UNCHANGED <<now, servers, ledger, wire, spent>>
      /\ ExecutionOK(p) /\ Typed /\ run[p] \in Active
    BY RunRecords DEF FinalizeIssue, CInv, Steps
<1>2. /\ g \in Grants8 /\ g \in Grants /\ ledger[g] = Completed(p, result)
      /\ result \in Results /\ Completed(p, result) \in Outcomes
    BY <1>1 DEF ExecutionOK, HoldsGrants, Grants, Active, Outcomes
<1>3. \/ /\ run' = [run EXCEPT ![p].pc = "handoff"] /\ result = Success
         /\ slot[8] \in {None, ledger[g]} /\ slot' = [slot EXCEPT ![8] = ledger[g]]
      \/ /\ run' = [run EXCEPT ![p] = Over]
         /\ slot[8] \in {None, ledger[g]} /\ slot' = [slot EXCEPT ![8] = ledger[g]]
      \/ run' = [run EXCEPT ![p] = Over] /\ slot' = slot
    BY DEF FinalizeIssue, HandOverOrStop, Goto, End, Finalizable, Finalize
<1>4. \/ /\ run'[p] \in Active /\ run'[p].pc = "handoff" /\ run'[p].kind = run[p].kind
         /\ result = Success /\ slot'[8] = Completed(p, result)
      \/ run'[p] = Over /\ run'[p].pc = "over"
  <2>1. CASE run' = [run EXCEPT ![p].pc = "handoff"]
    <3>1. run'[p] = [run[p] EXCEPT !.pc = "handoff"]
        BY <1>1, <2>1 DEF Typed
    <3>2. run'[p] \in Active /\ run'[p].pc = "handoff" /\ run'[p].kind = run[p].kind
        BY <1>1, <3>1 DEF Active, Steps, HasCredential
    <3>3. CASE run' = [run EXCEPT ![p] = Over]
        BY <1>1, <3>3 DEF Typed, Over
    <3> QED
        BY <1>1, <1>2, <1>3, <3>2, <3>3 DEF Typed, Stages
  <2>2. CASE run' = [run EXCEPT ![p] = Over]
      BY <1>1, <2>2 DEF Typed, Over
  <2> QED
      BY <1>3, <2>1, <2>2
<1>5. Typed'
  <2>1. run' \in [Procs -> {Idle, Over} \cup Active]
      BY <1>1, <1>3, <1>4 DEF Typed
  <2>2. slot' \in [Stages -> {None} \cup Outcomes]
      BY <1>1, <1>2, <1>3 DEF Typed
  <2> QED
      BY <1>1, <2>1, <2>2 DEF Typed, servers
<1>6. OwnStep(p)
    BY <1>1, <1>2, <1>3 DEF Typed, OwnStep, LedgerGrows, SlotGrows, Pays, servers, Stages
<1>7. run'[p].pc = "handoff" => Succeeded(8)'
    BY <1>2, <1>4, OutcomeRecords DEF Succeeded
<1>8. Succeeded(9) => Succeeded(9)'
    BY <1>6, Monotone DEF Stages
<1>9. HoldsGrants(p)' /\ HasNotPaid(p)'
    BY <1>1, <1>2, <1>4, <1>7, <1>8
       DEF ExecutionOK, HoldsGrants, HasNotPaid, Issuing, HasCredential, Holding9, Steps
<1>10. ~Writing(p)'
    BY <1>1 DEF ExecutionOK, WroteInTurn, Wrote, Writing
<1>11. OwnsOne(p)' /\ WroteInTurn(p)' /\ RequestKnows(p)' /\ ResultsTruthful(p)'
    BY <1>1, <1>4, <1>6, <1>10, EarlySteps DEF Early
<1> QED
    BY <1>5, <1>6, <1>9, <1>11, Frame DEF ExecutionOK

LEMMA TakeCredentialKeeps ==
    ASSUME CInv, NEW p \in Procs, TakeCredential(p)
    PROVE  CInv'
<1>1. /\ run[p].pc = "handoff" /\ UNCHANGED <<now, servers, stores, wire, spent>>
      /\ ExecutionOK(p) /\ Typed /\ run[p] \in Active
    BY RunRecords DEF TakeCredential, CInv, Steps, HasCredential
<1>2. run' = [run EXCEPT ![p].pc = "register"] \/ run' = [run EXCEPT ![p] = Over]
    BY DEF TakeCredential, Goto, End
<1>3. \/ run'[p] \in Active /\ run'[p].pc = "register" /\ run'[p].kind = run[p].kind
      \/ run'[p] = Over /\ run'[p].pc = "over"
  <2>1. CASE run' = [run EXCEPT ![p].pc = "register"]
    <3>1. run'[p] = [run[p] EXCEPT !.pc = "register"]
        BY <1>1, <2>1 DEF Typed
    <3> QED
        BY <1>1, <3>1 DEF Active, Steps, HasCredential
  <2>2. CASE run' = [run EXCEPT ![p] = Over]
      BY <1>1, <2>2 DEF Typed, Over
  <2> QED
      BY <1>2, <2>1, <2>2
<1>4. Typed'
    BY <1>1, <1>2, <1>3 DEF Typed, servers, stores
<1>5. OwnStep(p)
    BY <1>1, <1>2 DEF Typed, OwnStep, LedgerGrows, SlotGrows, Pays, servers, stores
<1>6. HoldsGrants(p)' /\ HasNotPaid(p)'
    BY <1>1, <1>3
       DEF ExecutionOK, HoldsGrants, HasNotPaid, Issuing, HasCredential, Holding9, Steps,
           Succeeded, stores
<1>7. ~Writing(p)'
    BY <1>1 DEF ExecutionOK, WroteInTurn, Wrote, Writing
<1>8. OwnsOne(p)' /\ WroteInTurn(p)' /\ RequestKnows(p)' /\ ResultsTruthful(p)'
    BY <1>1, <1>3, <1>5, <1>7, EarlySteps DEF Early, stores
<1> QED
    BY <1>4, <1>5, <1>6, <1>8, Frame DEF ExecutionOK

-----------------------------------------------------------------------------
(* Stage 9.  An execution with a grant of stage 9 it has not completed owns *)
(* no other, and no outcome of stage 9 is its own.                          *)
LEMMA LateSteps ==
    ASSUME CInv, NEW p \in Procs, OwnStep(p), run[p].pc \in Holding9,
           ledger' = ledger, run'[p].pc \in Holding9,
           run'[p].g9 = run[p].g9, run'[p].kind = run[p].kind
    PROVE  /\ HoldsGrants(p)' /\ OwnsOne(p)'
           /\ run'[p].pc \in {"writing", "complete"} \/ ~Wrote(p)' => WroteInTurn(p)'
           /\ \A g \in Grants9, r \in Results : ledger'[g] # Completed(p, r)
<1> USE LedgerRecords
<1>1. ExecutionOK(p)
    BY DEF CInv
<1>2. run[p].pc \in HasCredential /\ run'[p].pc \in HasCredential
    BY DEF Holding9, HasCredential
<1>3. /\ run[p].g9 \in Grants9 /\ ledger[run[p].g9] = Claimed(p)
      /\ Succeeded(8)
      /\ \E g \in Grants8 : ledger[g] = Completed(p, Success)
    BY <1>1, <1>2 DEF ExecutionOK, HoldsGrants
<1>4. Succeeded(8)' /\ (Succeeded(9) => Succeeded(9)')
    BY <1>3, Monotone DEF Stages
<1>5. HoldsGrants(p)'
    BY <1>1, <1>2, <1>3, <1>4
       DEF ExecutionOK, HoldsGrants, Holding9, HasCredential, Steps, Issuing
<1>6. \A g \in Grants9 : Owns(p, g)' => g = run[p].g9
    BY <1>1 DEF ExecutionOK, OwnsOne, Owns, Holding9
<1>7. OwnsOne(p)'
    BY <1>4, <1>6 DEF OwnsOne
<1>8. run'[p].pc \in {"writing", "complete"} \/ ~Wrote(p)' => WroteInTurn(p)'
  <2>1. Owns(p, run[p].g9)'
      BY <1>3 DEF Owns
  <2> QED
      BY <1>3, <2>1 DEF WroteInTurn
<1>9. \A g \in Grants9, r \in Results : ledger'[g] # Completed(p, r)
    BY <1>3, <1>6 DEF Owns
<1> QED
    BY <1>5, <1>7, <1>8, <1>9

(* An execution that ends keeps what it owns and what it has written.       *)
LEMMA EndingSteps ==
    ASSUME CInv, NEW p \in Procs, OwnStep(p), ledger' = ledger,
           run'[p] = Over, Writing(p)' => wire'[p] = wire[p]
    PROVE  ExecutionOK(p)'
<1>1. ExecutionOK(p) /\ run'[p].pc = "over"
    BY DEF CInv, Over
<1>2. /\ Succeeded(8) => Succeeded(8)'
      /\ Succeeded(9) => Succeeded(9)'
      /\ Registered(p)' <=> Registered(p)
      /\ First(p)' <=> First(p)
      /\ secret' = secret
    BY Monotone DEF Stages, OwnStep
<1>3. \A g \in Grants : Owns(p, g)' <=> Owns(p, g)
    BY DEF Owns
<1>4. Writing(p)' => Writing(p)
    BY DEF Writing
<1>5. Wrote(p)' => Wrote(p)
    BY <1>2, <1>4 DEF Wrote
<1>6. HoldsGrants(p)' /\ HasNotPaid(p)'
    BY <1>1 DEF HoldsGrants, HasNotPaid, Issuing, HasCredential, Holding9, Steps
<1>7. OwnsOne(p)'
    BY <1>1, <1>2, <1>3 DEF ExecutionOK, OwnsOne, Grants
<1>8. WroteInTurn(p)'
    BY <1>1, <1>3, <1>5 DEF ExecutionOK, WroteInTurn, Grants
<1>9. RequestKnows(p)'
    BY <1>1, <1>2, <1>4 DEF ExecutionOK, RequestKnows
<1>10. ResultsTruthful(p)'
    BY <1>1, <1>2, <1>5 DEF ExecutionOK, ResultsTruthful, Truthful
<1> QED
    BY <1>6, <1>7, <1>8, <1>9, <1>10 DEF ExecutionOK

LEMMA ClaimRegistrationKeeps ==
    ASSUME CInv, NEW p \in Procs, NEW g \in Grants9, ClaimRegistration(p, g)
    PROVE  CInv'
<1> USE LedgerRecords
<1>1. /\ run[p].pc = "register" /\ UNCHANGED <<now, servers, wire, spent>>
      /\ ExecutionOK(p) /\ Typed /\ run[p] \in Active
    BY RunRecords DEF ClaimRegistration, CInv, Steps, HasCredential
<1>2. g \in Grants /\ g \notin Grants8 /\ {8, 9} = Stages
    BY CredentialAssumption DEF Grants, Stages
<1>3. ~Writing(p)' /\ ~Wrote(p)
    BY <1>1 DEF ExecutionOK, WroteInTurn, Wrote, Writing
<1>4. CASE Claimable(g)
  <2>1. /\ ledger[g] = Available /\ ledger' = [ledger EXCEPT ![g] = Claimed(p)]
        /\ run' = [run EXCEPT ![p].pc = "write", ![p].g9 = g] /\ slot' = slot
      BY <1>4 DEF ClaimRegistration, Claimable, Claim
  <2>2. run'[p] = [run[p] EXCEPT !.pc = "write", !.g9 = g]
      BY <1>1, <2>1 DEF Typed
  <2>3. /\ run'[p] \in Active /\ run'[p].pc = "write" /\ run'[p].g9 = g
        /\ run'[p].kind = run[p].kind
      BY <1>1, <2>2 DEF Active, Steps, HasCredential
  <2>4. Typed'
      BY <1>1, <1>2, <2>1, <2>3 DEF Typed, LedgerStates, servers
  <2>5. OwnStep(p)
      BY <1>1, <1>2, <2>1 DEF Typed, OwnStep, LedgerGrows, SlotGrows, Pays, servers
  <2>6. /\ ledger'[g] = Claimed(p) /\ \A h \in Grants \ {g} : ledger'[h] = ledger[h]
      BY <1>1, <1>2, <2>1 DEF Typed
  <2>7. /\ \E h \in Grants8 : ledger'[h] = Completed(p, Success)
        /\ Succeeded(8)
      BY <1>1, <1>2, <2>6 DEF ExecutionOK, HoldsGrants, HasCredential, Grants
  <2>8. HoldsGrants(p)'
      BY <1>1, <1>2, <2>1, <2>3, <2>6, <2>7
         DEF ExecutionOK, HoldsGrants, Issuing, HasCredential, Holding9, Steps, Succeeded
  <2>9. HasNotPaid(p)'
      BY <1>1, <1>2, <2>1, <2>3 DEF HasNotPaid, CInv, PaidOnce
  <2>10. \A h \in Grants9 : Owns(p, h)' => h = g
      BY <1>1, <2>6 DEF ExecutionOK, OwnsOne, Owns, Holding9, Grants
  <2>11. OwnsOne(p)'
      BY <2>1, <2>3, <2>7, <2>10 DEF OwnsOne, Holding9, Succeeded
  <2>12. ~Wrote(p)'
      BY <1>3, <2>5, Monotone DEF Wrote
  <2>13. WroteInTurn(p)' /\ RequestKnows(p)'
      BY <2>3, <2>12 DEF WroteInTurn, RequestKnows, Wrote
  <2>14. ResultsTruthful(p)'
      BY <2>3, <2>6, <2>10 DEF ResultsTruthful, Owns
  <2> QED
      BY <2>4, <2>5, <2>8, <2>9, <2>11, <2>13, <2>14, Frame DEF ExecutionOK
<1>5. CASE ~Claimable(g)
  <2>1. /\ run' = [run EXCEPT ![p] = Over] /\ ledger' = ledger
        /\ \/ slot' = slot
           \/ /\ ledger[g].state = "COMPLETED"
              /\ slot[9] \in {None, ledger[g]} /\ slot' = [slot EXCEPT ![9] = ledger[g]]
      BY <1>5 DEF ClaimRegistration, End, Finalizable, Finalize
  <2>2. run'[p] = Over
      BY <1>1, <2>1 DEF Typed
  <2>3. ledger[g].state = "COMPLETED" => ledger[g] \in Outcomes
      BY <1>1, <1>2 DEF Typed, LedgerStates
  <2>4. Typed'
      BY <1>1, <1>2, <2>1, <2>3 DEF Typed, servers
  <2>5. OwnStep(p)
      BY <1>1, <1>2, <2>1, <2>3 DEF Typed, OwnStep, LedgerGrows, SlotGrows, Pays, servers
  <2> QED
      BY <1>1, <2>1, <2>2, <2>4, <2>5, EndingSteps, Frame
<1> QED
    BY <1>4, <1>5

LEMMA FinalizeRegistrationKeeps ==
    ASSUME CInv, NEW p \in Procs, FinalizeRegistration(p)
    PROVE  CInv'
<1> DEFINE g == run[p].g9
<1>1. /\ run[p].pc = "receipt" /\ UNCHANGED <<now, servers, ledger, wire, spent>>
      /\ ExecutionOK(p) /\ Typed /\ run[p] \in Active
    BY RunRecords DEF FinalizeRegistration, CInv, Steps, HasCredential
<1>2. /\ g \in Grants9 /\ g \in Grants /\ ledger[g] \in Outcomes
    BY <1>1 DEF ExecutionOK, HoldsGrants, Grants, Active, Outcomes
<1>3. /\ run' = [run EXCEPT ![p] = Over]
      /\ \/ slot' = slot
         \/ slot[9] \in {None, ledger[g]} /\ slot' = [slot EXCEPT ![9] = ledger[g]]
    BY DEF FinalizeRegistration, End, Finalizable, Finalize
<1>4. run'[p] = Over
    BY <1>1, <1>3 DEF Typed
<1>5. Typed'
    BY <1>1, <1>2, <1>3 DEF Typed, servers
<1>6. OwnStep(p)
    BY <1>1, <1>2, <1>3 DEF Typed, OwnStep, LedgerGrows, SlotGrows, Pays, servers, Stages
<1> QED
    BY <1>1, <1>4, <1>5, <1>6, EndingSteps, Frame

LEMMA DieKeeps ==
    ASSUME CInv, NEW p \in Procs, Die(p)
    PROVE  CInv'
<1>1. /\ run' = [run EXCEPT ![p] = Over] /\ UNCHANGED <<now, servers, stores, spent>>
      /\ wire' = wire \/ wire' = [wire EXCEPT ![p] = NoRequest]
      /\ Typed
    BY DEF Die, End, Abandon, CInv
<1>2. run'[p] = Over
    BY <1>1 DEF Typed
<1>3. Writing(p)' => wire'[p] = wire[p]
    BY <1>1 DEF Typed, Writing, NoRequest
<1>4. Typed'
    BY <1>1 DEF Typed, servers, stores
<1>5. OwnStep(p)
    BY <1>1 DEF Typed, OwnStep, LedgerGrows, SlotGrows, Pays, servers, stores
<1> QED
    BY <1>1, <1>2, <1>3, <1>4, <1>5, EndingSteps, Frame DEF stores

(* Nothing has been sent: the result says so, and nothing of it is there.   *)
LEMMA NothingWrittenKeeps ==
    ASSUME CInv, NEW p \in Procs, run[p].pc = "write", NothingWritten(p),
           UNCHANGED <<now, servers, stores>>
    PROVE  CInv'
<1>1. ExecutionOK(p) /\ Typed /\ run[p] \in Active
    BY RunRecords DEF CInv, Steps, HasCredential
<1>2. /\ run' = [run EXCEPT ![p].pc = "complete", ![p].result = Stopped("NOT_ATTEMPTED")]
      /\ UNCHANGED <<wire, spent>>
    BY DEF NothingWritten, Conclude
<1>3. run'[p] = [run[p] EXCEPT !.pc = "complete", !.result = Stopped("NOT_ATTEMPTED")]
    BY <1>1, <1>2 DEF Typed
<1>4. /\ run'[p] \in Active /\ run'[p].pc = "complete" /\ run'[p].kind = run[p].kind
      /\ run'[p].g9 = run[p].g9 /\ run'[p].result = Stopped("NOT_ATTEMPTED")
    BY <1>1, <1>3 DEF Active, Steps, HasCredential, Results
<1>5. Typed'
    BY <1>1, <1>2, <1>4 DEF Typed, servers, stores
<1>6. OwnStep(p)
    BY <1>1, <1>2 DEF Typed, OwnStep, LedgerGrows, SlotGrows, Pays, servers, stores
<1>7. ~Wrote(p)'
  <2>1. ~Wrote(p)
      BY <1>1 DEF ExecutionOK, WroteInTurn
  <2> QED
      BY <1>2, <1>6, <2>1, Monotone DEF Wrote, Writing
<1>8. Truthful(p, Stopped("NOT_ATTEMPTED"))'
    BY <1>7 DEF Truthful, Success, Stopped, Result
<1>9. HoldsGrants(p)' /\ OwnsOne(p)' /\ WroteInTurn(p)'
    BY <1>4, <1>6, LateSteps DEF Holding9, stores
<1>10. HasNotPaid(p)' /\ RequestKnows(p)'
    BY <1>4, <1>7 DEF HasNotPaid, RequestKnows, Wrote
<1>11. \A h \in Grants9, r \in Results : ledger'[h] # Completed(p, r)
    BY <1>1, <1>4, <1>6, LateSteps DEF Holding9, stores
<1>12. ResultsTruthful(p)'
    BY <1>4, <1>8, <1>11 DEF ResultsTruthful
<1> QED
    BY <1>5, <1>6, <1>9, <1>10, <1>12, Frame DEF ExecutionOK

(* What an execution that waits for its answer looks like after it sent.    *)
LEMMA SendKeeps ==
    ASSUME CInv, NEW p \in Procs, NEW kind \in {"project", "secret", "refresh"},
           run[p].pc \in {"write", "writing"}, Send(p, kind, "writing"),
           UNCHANGED <<now, servers, stores>>,
           spent[run[p].g9] = 0,
           kind = "refresh" => run[p].kind = "registration" /\ Present
    PROVE  CInv'
<1> DEFINE g == run[p].g9
<1>1. ExecutionOK(p) /\ Typed /\ run[p] \in Active /\ run[p].pc \in Holding9
    BY RunRecords DEF CInv, Steps, HasCredential, Holding9
<1>2. /\ wire' = [wire EXCEPT ![p] = Request(kind, Snapshot)]
      /\ spent' = IF kind = "project" THEN spent ELSE [spent EXCEPT ![g] = @ + 1]
      /\ run' = [run EXCEPT ![p].pc = "writing"]
    BY DEF Send, Goto
<1>3. run'[p] = [run[p] EXCEPT !.pc = "writing"]
    BY <1>1, <1>2 DEF Typed
<1>4. /\ run'[p] \in Active /\ run'[p].pc = "writing" /\ run'[p].kind = run[p].kind
      /\ run'[p].g9 = g
    BY <1>1, <1>3 DEF Active, Steps, HasCredential
<1>5. g \in Grants /\ ledger[g] = Claimed(p) /\ g \in Grants9
    BY <1>1 DEF ExecutionOK, HoldsGrants, Grants
<1>6. /\ Snapshot.version = Len(secret) /\ Snapshot.credential = Holds
      /\ Len(secret) \in Nat /\ Holds \in Procs \cup {None}
      /\ Present => Len(secret) \in 1..Len(secret) /\ Holds = secret[Len(secret)]
    BY <1>1 DEF Typed, Snapshot, Holds, Present
<1>7. /\ Request(kind, Snapshot) \in Writes
      /\ wire'[p].kind = kind /\ wire'[p].reply = "pending" /\ wire'[p].seen = Snapshot
  <2>1. Snapshot \in [version : Nat, credential : Procs \cup {None}]
      BY <1>6 DEF Snapshot
  <2> QED
      BY <1>1, <1>2, <2>1 DEF Typed, Request, Writes
<1>8. Typed'
    BY <1>1, <1>2, <1>4, <1>5, <1>7 DEF Typed, servers, stores
<1>9. OwnStep(p)
    BY <1>1, <1>2, <1>5 DEF Typed, OwnStep, LedgerGrows, SlotGrows, Pays, servers, stores
<1>10. HoldsGrants(p)' /\ OwnsOne(p)' /\ WroteInTurn(p)'
    BY <1>1, <1>4, <1>9, LateSteps DEF Holding9, stores
<1>11. HasNotPaid(p)'
    BY <1>2, <1>4, <1>7 DEF HasNotPaid
<1>12. RequestKnows(p)'
  <2>1. wire'[p] \in Writes
      BY <1>1, <1>2, <1>7 DEF Typed
  <2>2. secret' = secret
      BY DEF servers
  <2> QED
      BY <1>4, <1>6, <1>7, <2>1, <2>2 DEF RequestKnows
<1>13. \A h \in Grants9, r \in Results : ledger'[h] # Completed(p, r)
    BY <1>1, <1>4, <1>9, LateSteps DEF Holding9, stores
<1>14. ResultsTruthful(p)'
    BY <1>4, <1>13 DEF ResultsTruthful
<1> QED
    BY <1>8, <1>9, <1>10, <1>11, <1>12, <1>14, Frame DEF ExecutionOK

LEMMA InstallKeeps ==
    ASSUME CInv, NEW p \in Procs, Install(p)
    PROVE  CInv'
<1>1. run[p].pc = "write" /\ UNCHANGED <<now, servers, stores>> /\ spent[run[p].g9] = 0
    BY DEF Install, CInv, ExecutionOK, HasNotPaid
<1> QED
    BY <1>1, NothingWrittenKeeps, SendKeeps DEF Install

LEMMA RefreshKeeps ==
    ASSUME CInv, NEW p \in Procs, Refresh(p)
    PROVE  CInv'
<1>1. run[p].pc = "write" /\ UNCHANGED <<now, servers, stores>> /\ spent[run[p].g9] = 0
    BY DEF Refresh, CInv, ExecutionOK, HasNotPaid
<1> QED
    BY <1>1, NothingWrittenKeeps, SendKeeps DEF Refresh

(* The write is over, with an answer or without one.                        *)
LEMMA ConcludeWriteKeeps ==
    ASSUME CInv, NEW p \in Procs, NEW result \in Results, run[p].pc = "writing",
           Conclude(p, "complete", result),
           wire' = wire \/ wire' = [wire EXCEPT ![p] = NoRequest],
           result # Stopped("NOT_ATTEMPTED"),
           result = Success => Registered(p) /\ (First(p) \/ Succeeded(9)),
           UNCHANGED <<now, servers, stores, spent>>
    PROVE  CInv'
<1>1. ExecutionOK(p) /\ Typed /\ run[p] \in Active /\ run[p].pc \in Holding9
    BY RunRecords DEF CInv, Steps, HasCredential, Holding9
<1>2. run' = [run EXCEPT ![p].pc = "complete", ![p].result = result]
    BY DEF Conclude
<1>3. run'[p] = [run[p] EXCEPT !.pc = "complete", !.result = result]
    BY <1>1, <1>2 DEF Typed
<1>4. /\ run'[p] \in Active /\ run'[p].pc = "complete" /\ run'[p].kind = run[p].kind
      /\ run'[p].g9 = run[p].g9 /\ run'[p].result = result
    BY <1>1, <1>3 DEF Active, Steps, HasCredential
<1>5. Typed'
    BY <1>1, <1>2, <1>4 DEF Typed, servers, stores
<1>6. OwnStep(p)
    BY <1>1, <1>2 DEF Typed, OwnStep, LedgerGrows, SlotGrows, Pays, servers, stores
<1>7. Truthful(p, result)'
    BY <1>6, Monotone DEF Truthful, Stages
<1>8. HoldsGrants(p)' /\ OwnsOne(p)' /\ WroteInTurn(p)'
    BY <1>1, <1>4, <1>6, LateSteps DEF Holding9, stores
<1>9. Writing(p)' => wire' = wire
    BY <1>1 DEF Typed, Writing, NoRequest
<1>10. HasNotPaid(p)' /\ RequestKnows(p)'
    BY <1>1, <1>4, <1>9 DEF ExecutionOK, HasNotPaid, RequestKnows, Writing, servers
<1>11. \A h \in Grants9, r \in Results : ledger'[h] # Completed(p, r)
    BY <1>1, <1>4, <1>6, LateSteps DEF Holding9, stores
<1>12. ResultsTruthful(p)'
    BY <1>4, <1>7, <1>11 DEF ResultsTruthful
<1> QED
    BY <1>5, <1>6, <1>8, <1>10, <1>12, Frame DEF ExecutionOK

LEMMA ReceiveWriteKeeps ==
    ASSUME CInv, NEW p \in Procs, ReceiveWrite(p)
    PROVE  CInv'
<1>1. /\ run[p].pc = "writing" /\ UNCHANGED <<now, servers, stores>>
      /\ ExecutionOK(p) /\ Typed
    BY DEF ReceiveWrite, CInv
<1>2. /\ wire[p].kind \in {"project", "secret", "refresh"}
      /\ run[p].kind = "registration" => Succeeded(9)
    BY <1>1 DEF ExecutionOK, HoldsGrants, RequestKnows, Writes, Steps, HasCredential
<1>3. CASE wire[p].reply = "done" /\ wire[p].kind = "project" /\ Send(p, "secret", "writing")
  <2>1. spent[run[p].g9] = 0
      BY <1>1, <1>3 DEF ExecutionOK, HasNotPaid
  <2> QED
      BY <1>1, <1>3, <2>1, SendKeeps
<1>4. CASE /\ wire[p].reply = "done" /\ wire[p].kind # "project"
           /\ Conclude(p, "complete", Success)
           /\ wire' = [wire EXCEPT ![p] = NoRequest] /\ UNCHANGED spent
  <2>1. Registered(p) /\ (First(p) \/ Succeeded(9))
    <3>1. CASE wire[p].kind = "secret"
      <4>1. First(p)
          BY <1>1, <1>4, <3>1 DEF ExecutionOK, RequestKnows
      <4>2. 1 \in DOMAIN secret
          BY <1>1, <4>1 DEF Typed, First, Present
      <4> QED
          BY <4>1, <4>2 DEF First, Registered
    <3>2. CASE wire[p].kind = "refresh"
        BY <1>1, <1>2, <1>4, <3>2 DEF ExecutionOK, RequestKnows
    <3> QED
        BY <1>2, <1>4, <3>1, <3>2
  <2>2. Success \in Results /\ Success # Stopped("NOT_ATTEMPTED")
      BY DEF Results, Success, Stopped, Result
  <2> QED
      BY <1>1, <1>4, <2>1, <2>2, ConcludeWriteKeeps
<1>5. CASE /\ wire[p].reply = "refused" /\ Conclude(p, "complete", Refused(p))
           /\ wire' = [wire EXCEPT ![p] = NoRequest] /\ UNCHANGED spent
  <2>1. /\ Refused(p) \in Results /\ Refused(p) # Stopped("NOT_ATTEMPTED")
        /\ Refused(p) # Success
      BY DEF Refused, Results, Success, Stopped, Result
  <2> QED
      BY <1>1, <1>5, <2>1, ConcludeWriteKeeps
<1> QED
    BY <1>3, <1>4, <1>5 DEF ReceiveWrite

LEMMA GiveUpKeeps ==
    ASSUME CInv, NEW p \in Procs, GiveUp(p)
    PROVE  CInv'
<1>1. /\ UNCHANGED <<now, servers, stores, spent>>
      /\ ExecutionOK(p) /\ Typed
    BY DEF GiveUp, CInv
<1>2. /\ wire' = wire \/ wire' = [wire EXCEPT ![p] = NoRequest]
      /\ Writing(p) \/ wire' = [wire EXCEPT ![p] = NoRequest]
    BY DEF GiveUp, Abandon
<1>3. CASE run[p].pc = "writing" /\ Conclude(p, "complete", Stopped("UNKNOWN"))
  <2>1. /\ Stopped("UNKNOWN") \in Results /\ Stopped("UNKNOWN") # Stopped("NOT_ATTEMPTED")
        /\ Stopped("UNKNOWN") # Success
      BY DEF Results, Success, Stopped, Result
  <2> QED
      BY <1>1, <1>2, <1>3, <2>1, ConcludeWriteKeeps
<1>4. CASE run[p].pc = "issuing" /\ Conclude(p, "record", Stopped("UNKNOWN"))
  <2>1. run' = [run EXCEPT ![p].pc = "record", ![p].result = Stopped("UNKNOWN")]
      BY <1>4 DEF Conclude
  <2>2. run[p] \in Active /\ run'[p] = [run[p] EXCEPT !.pc = "record", !.result = Stopped("UNKNOWN")]
      BY <1>1, <1>4, <2>1, RunRecords DEF Typed, Steps, Issuing
  <2>3. /\ run'[p] \in Active /\ run'[p].pc = "record" /\ run'[p].kind = run[p].kind
        /\ run'[p].g8 = run[p].g8
      BY <2>2 DEF Active, Steps, Issuing, Results
  <2>4. ~Writing(p)
      BY <1>1, <1>4 DEF ExecutionOK, WroteInTurn, Wrote
  <2>5. ~Writing(p)'
      BY <1>1, <1>2, <2>4 DEF Writing, Typed, NoRequest
  <2>6. Typed'
      BY <1>1, <1>2, <2>1, <2>3 DEF Typed, servers, stores
  <2>7. OwnStep(p)
      BY <1>1, <1>2, <2>1 DEF Typed, OwnStep, LedgerGrows, SlotGrows, Pays, servers, stores
  <2>8. HoldsGrants(p)' /\ HasNotPaid(p)'
      BY <1>1, <1>4, <2>3
         DEF ExecutionOK, HoldsGrants, HasNotPaid, Issuing, HasCredential, Holding9, Steps,
             Succeeded, stores
  <2>9. OwnsOne(p)' /\ WroteInTurn(p)' /\ RequestKnows(p)' /\ ResultsTruthful(p)'
      BY <1>1, <1>4, <2>3, <2>5, <2>7, EarlySteps DEF Early, Issuing, stores
  <2> QED
      BY <2>6, <2>7, <2>8, <2>9, Frame DEF ExecutionOK
<1> QED
    BY <1>3, <1>4 DEF GiveUp

LEMMA RecordRegistrationKeeps ==
    ASSUME CInv, NEW p \in Procs, RecordRegistration(p)
    PROVE  CInv'
<1> USE LedgerRecords
<1>0. PICK g, result : g = run[p].g9 /\ result = run[p].result
    OBVIOUS
<1>1. /\ run[p].pc = "complete" /\ UNCHANGED <<now, servers, slot, wire, spent>>
      /\ ExecutionOK(p) /\ Typed /\ run[p] \in Active
    BY RunRecords DEF RecordRegistration, CInv, Steps, HasCredential
<1>2. /\ g \in Grants9 /\ g \in Grants /\ g \notin Grants8
      /\ ledger[g] = Claimed(p) /\ result \in Results
      /\ Truthful(p, result) /\ Succeeded(8)
      /\ \E h \in Grants8 : ledger[h] = Completed(p, Success)
    BY <1>0, <1>1, CredentialAssumption
       DEF ExecutionOK, HoldsGrants, Holding9, HasCredential, Grants, Active, ResultsTruthful
<1>3. /\ ledger' = [ledger EXCEPT ![g] = Completed(p, result)]
      /\ \/ run' = [run EXCEPT ![p] = Over]
         \/ run' = [run EXCEPT ![p].pc = "receipt"]
    BY <1>0 DEF RecordRegistration, Complete, Goto, End
<1>4. \/ run'[p] = Over /\ run'[p].pc = "over"
      \/ /\ run'[p] \in Active /\ run'[p].pc = "receipt" /\ run'[p].kind = run[p].kind
         /\ run'[p].g9 = g /\ run'[p].result = result
  <2>1. CASE run' = [run EXCEPT ![p].pc = "receipt"]
    <3>1. run'[p] = [run[p] EXCEPT !.pc = "receipt"]
        BY <1>1, <2>1 DEF Typed
    <3> QED
        BY <1>0, <1>1, <3>1 DEF Active, Steps, HasCredential
  <2>2. CASE run' = [run EXCEPT ![p] = Over]
      BY <1>1, <2>2 DEF Typed, Over
  <2> QED
      BY <1>3, <2>1, <2>2
<1>5. Typed'
  <2>1. Completed(p, result) \in LedgerStates
      BY <1>2 DEF LedgerStates, Outcomes
  <2>2. run' \in [Procs -> {Idle, Over} \cup Active]
      BY <1>1, <1>3, <1>4 DEF Typed
  <2> QED
      BY <1>1, <1>2, <1>3, <2>1, <2>2 DEF Typed, servers
<1>6. OwnStep(p)
    BY <1>1, <1>2, <1>3 DEF Typed, OwnStep, LedgerGrows, SlotGrows, Pays, servers
<1>7. /\ ledger'[g] = Completed(p, result)
      /\ \A h \in Grants \ {g} : ledger'[h] = ledger[h]
    BY <1>1, <1>2, <1>3 DEF Typed
<1>8. HoldsGrants(p)' /\ HasNotPaid(p)'
  <2>1. \E h \in Grants8 : ledger'[h] = Completed(p, Success)
      BY <1>2, <1>7 DEF Grants
  <2> QED
      BY <1>1, <1>2, <1>4, <1>7, <2>1
         DEF ExecutionOK, HoldsGrants, HasNotPaid, Issuing, HasCredential, Holding9, Steps,
             Succeeded
<1>9. \A h \in Grants9 : Owns(p, h)' => h = g
    BY <1>0, <1>1, <1>7 DEF ExecutionOK, OwnsOne, Owns, Holding9, Grants
<1>10. OwnsOne(p)'
    BY <1>1, <1>2, <1>4, <1>9 DEF OwnsOne, Succeeded
<1>11. WroteInTurn(p)'
  <2>1. Owns(p, g)'
      BY <1>7 DEF Owns
  <2>2. \E h \in Grants8 : ledger'[h] = Completed(p, Success)
      BY <1>2, <1>7 DEF Grants
  <2> QED
      BY <1>2, <1>4, <2>1, <2>2 DEF WroteInTurn
<1>12. RequestKnows(p)'
    BY <1>1, <1>4 DEF ExecutionOK, RequestKnows, Writing, servers
<1>13. ResultsTruthful(p)'
  <2>1. Truthful(p, result)'
    <3>1. Wrote(p)' <=> Wrote(p)
        BY <1>1, <1>6, Monotone DEF Wrote, Writing
    <3> QED
        BY <1>2, <1>6, <3>1, Monotone DEF Truthful, Stages
  <2>2. ASSUME NEW h \in Grants9, NEW r \in Results, ledger'[h] = Completed(p, r)
        PROVE  r = result
    <3>1. Owns(p, h)'
        BY <2>2 DEF Owns
    <3> QED
        BY <1>2, <1>7, <1>9, <2>2, <3>1, OutcomeRecords
  <2> QED
      BY <1>4, <2>1, <2>2 DEF ResultsTruthful
<1> QED
    BY <1>5, <1>6, <1>8, <1>10, <1>11, <1>12, <1>13, Frame DEF ExecutionOK

-----------------------------------------------------------------------------
(* The servers.  A served write is out of the way; what it wrote stays.     *)
LEMMA ServeFrame ==
    ASSUME CInv, NEW p \in Procs, wire[p].reply = "pending", ~Writing(p)',
           UNCHANGED <<now, ledger, slot, run, spent>>,
           NEW answer, wire' = [wire EXCEPT ![p] = answer],
           Typed',
           \/ secret' = secret
           \/ secret' = Append(secret, p) /\ Writing(p),
           RequestKnows(p)',
           run[p].pc = "writing" /\ answer.kind = "project" => wire[p].kind = "project"
    PROVE  CInv'
<1>1. Typed /\ secret \in Seq(Procs) /\ \A q \in Procs : ExecutionOK(q)
    BY DEF CInv, Typed
<1>2. /\ Present => Present' /\ secret'[1] = secret[1]
      /\ Len(secret) \in Nat /\ Len(secret') \in Nat /\ Len(secret) <= Len(secret')
      /\ \A i \in 1..Len(secret) : secret'[i] = secret[i]
    BY <1>1 DEF Present
<1>3. \A q \in Procs : Registered(q) => Registered(q)'
    BY <1>1 DEF Registered
<1>4. \A q \in Procs : First(q) => First(q)'
    BY <1>2 DEF First
<1>5. \A q \in Procs \ {p} : wire'[q] = wire[q] /\ (Registered(q)' => Registered(q))
  <2>1. ASSUME NEW q \in Procs \ {p}, NEW i \in DOMAIN secret', secret'[i] = q
        PROVE  i \in DOMAIN secret /\ secret[i] = q
      BY <1>1, <2>1
  <2>2. \A q \in Procs \ {p} : wire'[q] = wire[q]
      BY <1>1 DEF Typed
  <2> QED
      BY <2>1, <2>2 DEF Registered
<1>6. \A s \in Stages : Succeeded(s)' <=> Succeeded(s)
    BY DEF Succeeded
<1>7. \A q \in Procs : Wrote(q)' => Wrote(q)
  <2>1. \A q \in Procs \ {p} : Writing(q)' => Writing(q)
      BY <1>5 DEF Writing
  <2>2. Registered(p)' => Registered(p) \/ Writing(p)
      BY DEF Registered
  <2> QED
      BY <1>5, <2>1, <2>2 DEF Wrote
<1>8. PaidOnce'
    BY DEF CInv, PaidOnce
<1>9. FirstNamed'
    BY <1>2, <1>6 DEF CInv, FirstNamed, Stages
<1>10. ASSUME NEW q \in Procs PROVE ExecutionOK(q)'
  <2>1. ExecutionOK(q) /\ Succeeded(8)' = Succeeded(8) /\ Succeeded(9)' = Succeeded(9)
      BY <1>1, <1>6 DEF Stages, Succeeded
  <2>2. \A g \in Grants : Owns(q, g)' <=> Owns(q, g)
      BY DEF Owns
  <2>3. HoldsGrants(q)'
      BY <2>1 DEF ExecutionOK, HoldsGrants
  <2>4. HasNotPaid(q)'
    <3>1. CASE q = p
        BY <1>1, <2>1, <3>1 DEF ExecutionOK, HasNotPaid, Typed
    <3>2. CASE q # p
        BY <1>5, <2>1, <3>2 DEF ExecutionOK, HasNotPaid
    <3> QED
        BY <3>1, <3>2
  <2>5. OwnsOne(q)'
      BY <2>1, <2>2 DEF ExecutionOK, OwnsOne, Grants
  <2>6. WroteInTurn(q)'
      BY <1>7, <2>1, <2>2 DEF ExecutionOK, WroteInTurn, Grants
  <2>7. RequestKnows(q)'
    <3>1. CASE q # p
      <4>1. /\ wire'[q] = wire[q] /\ run' = run
            /\ First(q) => First(q)'
            /\ Registered(q) => Registered(q)'
            /\ \A v \in 1..Len(secret) : v \in 1..Len(secret') /\ secret'[v] = secret[v]
          BY <1>2, <1>3, <1>4, <1>5, <3>1
      <4> QED
          BY <2>1, <4>1 DEF ExecutionOK, RequestKnows, Writing
    <3> QED
        BY <3>1
  <2>8. ResultsTruthful(q)'
    <3>1. \A r \in Results : Truthful(q, r) => Truthful(q, r)'
        BY <1>3, <1>4, <1>6, <1>7 DEF Truthful, Stages
    <3>2. run[q].pc = "complete" => run[q].result \in Results
        BY <1>1, RunRecords DEF Active, Steps, HasCredential
    <3> QED
        BY <2>1, <3>1, <3>2 DEF ExecutionOK, ResultsTruthful
  <2> QED
      BY <2>3, <2>4, <2>5, <2>6, <2>7, <2>8 DEF ExecutionOK
<1> QED
    BY <1>8, <1>9, <1>10 DEF CInv

LEMMA ServeKeeps ==
    ASSUME CInv, NEW p \in Procs, Serve(p)
    PROVE  CInv'
<1>1. /\ wire[p].reply = "pending" /\ UNCHANGED <<now, ledger, slot, run, spent>>
      /\ ExecutionOK(p) /\ Typed
    BY DEF Serve, CInv, stores
<1>2. \/ wire[p] \in Writes
      \/ wire[p] \in [kind : {"token"}, reply : {"pending", "refused"}, seen : {None}]
    BY <1>1 DEF Typed, Tokens, NoRequest
<1>3. CASE IssueToken(p)
  <2>1. PICK lifetime \in Lifetimes :
           wire' = [wire EXCEPT ![p] = IF Waiting(p)
                       THEN [reply |-> "done", expires |-> now + lifetime] ELSE NoRequest]
      BY <1>3 DEF IssueToken, Answer
  <2>2. PICK answer : /\ wire' = [wire EXCEPT ![p] = answer]
                      /\ \/ answer = NoRequest /\ ~Waiting(p)
                         \/ answer = [reply |-> "done", expires |-> now + lifetime]
      BY <2>1
  <2>3. wire[p].kind = "token" /\ UNCHANGED <<project, secret>> /\ now + lifetime \in Nat
      BY <1>1, <1>3, CredentialAssumption DEF IssueToken, servers, Typed
  <2>4. (answer = NoRequest /\ ~Waiting(p)) \/ answer \in Tokens
      BY <2>2, <2>3 DEF Tokens
  <2>5. wire'[p] = answer /\ answer.reply # "pending"
      BY <1>1, <2>2 DEF Typed, NoRequest
  <2>6. ~Writing(p)' /\ ~Writing(p)
      BY <2>3, <2>5 DEF Writing
  <2>7. run[p].pc # "writing"
      BY <1>1, <2>3 DEF ExecutionOK, RequestKnows, Writes
  <2>8. Typed'
      BY <1>1, <2>2, <2>3, <2>4 DEF Typed
  <2>9. RequestKnows(p)'
      BY <1>1, <2>2, <2>4, <2>5, <2>6, <2>7 DEF RequestKnows, Waiting
  <2> QED
      BY <1>1, <2>2, <2>3, <2>6, <2>7, <2>8, <2>9, ServeFrame
<1>4. CASE CreateProject(p) \/ CreateSecret(p) \/ ReplaceSecret(p)
  <2>1. PICK answer :
           /\ wire' = [wire EXCEPT ![p] = answer]
           /\ \/ answer = NoRequest /\ ~Waiting(p)
              \/ answer = [wire[p] EXCEPT !.reply = "done"]
      BY <1>4 DEF CreateProject, CreateSecret, ReplaceSecret, Put, Done, Answer
  <2>2. wire[p] \in Writes /\ wire[p].kind \in {"project", "secret", "refresh"} /\ Writing(p)
      BY <1>1, <1>2, <1>4 DEF CreateProject, CreateSecret, ReplaceSecret, Writes, Writing
  <2>3. \/ answer = NoRequest /\ ~Waiting(p)
        \/ /\ answer \in Writes /\ answer.reply = "done"
           /\ answer.kind = wire[p].kind /\ answer.seen = wire[p].seen
      BY <2>1, <2>2 DEF Writes
  <2>4. wire'[p] = answer /\ answer.reply # "pending" /\ ~Writing(p)'
      BY <1>1, <2>1, <2>3 DEF Typed, NoRequest, Writing
  <2>5. /\ secret' = secret \/ secret' = Append(secret, p)
        /\ wire[p].kind = "project" => secret' = secret
        /\ wire[p].kind # "project" => secret' = Append(secret, p)
        /\ wire[p].kind = "secret" => secret = <<>>
        /\ project' \in BOOLEAN
      BY <1>1, <1>4, <2>2
         DEF CreateProject, CreateSecret, ReplaceSecret, Put, Present, Typed
  <2>6. secret \in Seq(Procs) /\ secret' \in Seq(Procs)
    <3>1. secret \in Seq(Procs)
        BY <1>1 DEF Typed
    <3>2. Append(secret, p) \in Seq(Procs)
        BY <3>1
    <3> QED
        BY <2>5, <3>1, <3>2
  <2>7. Typed'
    <3>1. wire' \in [Procs -> {NoRequest} \cup Writes \cup Tokens]
        BY <1>1, <2>1, <2>3 DEF Typed
    <3> QED
        BY <1>1, <2>5, <2>6, <3>1 DEF Typed
  <2>8. /\ wire[p].kind = "secret" => First(p)'
        /\ wire[p].kind = "refresh" => Registered(p)'
    <3>1. CASE wire[p].kind = "secret"
        BY <2>5, <2>6, <3>1 DEF First, Present
    <3>2. CASE wire[p].kind = "refresh"
      <4>1. PICK i \in DOMAIN secret' : secret'[i] = p
          BY <2>5, <2>6, <3>2
      <4>2. Registered(p)'
          BY <4>1 DEF Registered
      <4> QED
          BY <3>2, <4>2
    <3> QED
        BY <3>1, <3>2
  <2>9. RequestKnows(p)'
    <3>1. run[p].pc = "writing" => wire'[p] \in Writes
        BY <2>1, <2>3, <2>4 DEF Waiting
    <3>2. run[p].pc = "issuing" => FALSE
        BY <1>1, <2>2 DEF ExecutionOK, WroteInTurn, Wrote
    <3>3. run[p].pc = "writing" => wire'[p].kind = wire[p].kind
        BY <2>1, <2>3, <2>4 DEF Waiting
    <3> QED
        BY <1>1, <2>4, <2>8, <3>1, <3>2, <3>3 DEF ExecutionOK, RequestKnows
  <2>10. run[p].pc = "writing" /\ answer.kind = "project" => wire[p].kind = "project"
      BY <2>1, <2>3 DEF Waiting
  <2> QED
      BY <1>1, <2>1, <2>2, <2>4, <2>5, <2>7, <2>9, <2>10, ServeFrame
<1>5. CASE Refuse(p)
  <2>1. PICK answer :
           /\ wire' = [wire EXCEPT ![p] = answer] /\ UNCHANGED <<project, secret>>
           /\ \/ answer = NoRequest /\ ~Waiting(p)
              \/ answer = [wire[p] EXCEPT !.reply = "refused"]
      BY <1>5 DEF Refuse, Answer, servers
  <2>2. \/ answer = NoRequest /\ ~Waiting(p)
        \/ /\ answer \in Writes \cup Tokens /\ answer.reply = "refused"
           /\ wire[p] \in Writes => answer \in Writes
           /\ wire[p] \in Tokens => answer \in Tokens
           /\ answer.kind = wire[p].kind
      BY <1>2, <2>1 DEF Writes, Tokens
  <2>3. wire'[p] = answer /\ answer.reply \notin {"pending", "done"} /\ ~Writing(p)'
      BY <1>1, <2>1, <2>2 DEF Typed, NoRequest, Writing
  <2>4. Typed'
    <3>1. wire' \in [Procs -> {NoRequest} \cup Writes \cup Tokens]
        BY <1>1, <2>1, <2>2 DEF Typed
    <3> QED
        BY <1>1, <2>1, <3>1 DEF Typed
  <2>5. RequestKnows(p)'
    <3>1. /\ run[p].pc = "writing" => wire'[p] \in Writes /\ wire'[p].kind = wire[p].kind
          /\ run[p].pc = "issuing" => wire'[p] \in Tokens
        BY <1>1, <2>1, <2>2, <2>3 DEF Waiting, ExecutionOK, RequestKnows
    <3> QED
        BY <1>1, <2>3, <3>1 DEF ExecutionOK, RequestKnows
  <2>6. run[p].pc = "writing" /\ answer.kind = "project" => wire[p].kind = "project"
      BY <2>1, <2>2 DEF Waiting
  <2> QED
      BY <1>1, <2>1, <2>3, <2>4, <2>5, <2>6, ServeFrame
<1> QED
    BY <1>3, <1>4, <1>5 DEF Serve

-----------------------------------------------------------------------------
(* The clock ticks, or nothing happens.                                     *)
LEMMA OthersKeep ==
    ASSUME CInv, Tick \/ UNCHANGED vars
    PROVE  CInv'
<1>1. now' \in Nat /\ UNCHANGED <<ledger, slot, project, secret, wire, run, spent>>
    BY DEF CInv, Typed, Tick, vars, servers, stores
<1>2. Typed' /\ PaidOnce' /\ FirstNamed'
    BY <1>1 DEF CInv, Typed, PaidOnce, FirstNamed, Succeeded, Present
<1>3. ASSUME NEW p \in Procs PROVE ExecutionOK(p)'
  <2>1. ExecutionOK(p)
      BY DEF CInv
  <2>2. HoldsGrants(p)' /\ HasNotPaid(p)'
      BY <1>1, <2>1 DEF ExecutionOK, HoldsGrants, HasNotPaid, Succeeded
  <2>3. OwnsOne(p)' /\ WroteInTurn(p)' /\ RequestKnows(p)'
      BY <1>1, <2>1
         DEF ExecutionOK, OwnsOne, WroteInTurn, RequestKnows, Owns, Succeeded, Wrote,
             Registered, Writing, First, Present
  <2>4. ResultsTruthful(p)'
      BY <1>1, <2>1
         DEF ExecutionOK, ResultsTruthful, Truthful, Succeeded, Wrote, Registered, Writing,
             First, Present
  <2> QED
      BY <2>2, <2>3, <2>4 DEF ExecutionOK
<1> QED
    BY <1>2, <1>3 DEF CInv

LEMMA NextCInv == CInv /\ [Next]_vars => CInv'
<1> SUFFICES ASSUME CInv, [Next]_vars PROVE CInv'
    OBVIOUS
<1>1. ASSUME NEW p \in Procs, Step(p) PROVE CInv'
    BY <1>1, StartKeeps, ClaimCredentialKeeps, RequestTokenKeeps, ReceiveTokenKeeps,
       RecordIssueKeeps, FinalizeIssueKeeps, TakeCredentialKeeps, ClaimRegistrationKeeps,
       InstallKeeps, RefreshKeeps, ReceiveWriteKeeps, GiveUpKeeps, RecordRegistrationKeeps,
       FinalizeRegistrationKeeps DEF Step
<1>2. ASSUME NEW p \in Procs, Serve(p) \/ Die(p) PROVE CInv'
    BY <1>2, ServeKeeps, DieKeeps
<1> QED
    BY <1>1, <1>2, OthersKeep DEF Next

LEMMA Inductive == Spec => []CInv
BY InitCInv, NextCInv, PTL DEF Spec

-----------------------------------------------------------------------------
(* A grant pays for one TokenRequest or one write of the registration,      *)
(* however many executions present it (RecoverTargetCredential and          *)
(* RecoverTargetRegistration claim before they ask).                        *)
THEOREM GrantsPayOnce == Spec => []OneEffectPerGrant
<1>1. CInv => OneEffectPerGrant
    BY DEF CInv, PaidOnce, OneEffectPerGrant
<1> QED
    BY <1>1, Inductive, PTL

(* The registration holds only credentials the ledger knows of, a recorded  *)
(* result says what became of the write, and the receipt of stage 9 names   *)
(* the execution of the first credential (Install and Refresh, and the      *)
(* state they leave when they stop).                                        *)
THEOREM RegistrationAccounted == Spec => []RegistrationIsAccounted
<1>1. ASSUME CInv PROVE RegistrationIsAccounted
  <2>1. ASSUME NEW p \in Procs, Registered(p)
        PROVE  /\ \E g \in Grants8 : ledger[g] = Completed(p, Success)
               /\ \E g \in Grants9 : Owns(p, g)
      BY <1>1, <2>1 DEF CInv, ExecutionOK, WroteInTurn, Wrote
  <2>2. ASSUME NEW p \in Procs, NEW g \in Grants9
        PROVE  /\ ledger[g] = Completed(p, Success) => Registered(p)
               /\ ledger[g] = Completed(p, Stopped("NOT_ATTEMPTED")) =>
                     ~Registered(p) /\ ~Writing(p)
    <3>1. ResultsTruthful(p)
        BY <1>1 DEF CInv, ExecutionOK
    <3>2. Success \in Results /\ Stopped("NOT_ATTEMPTED") \in Results
        BY DEF Results
    <3> QED
        BY <3>1, <3>2 DEF ResultsTruthful, Truthful, Wrote
  <2>3. Succeeded(9) => Present /\ secret[1] = slot[9].by /\ Succeeded(8)
      BY <1>1 DEF CInv, FirstNamed
  <2> QED
      BY <2>1, <2>2, <2>3 DEF RegistrationIsAccounted
<1> QED
    BY <1>1, Inductive, PTL

(* A replacement is of the version, and so of the credential, it was based  *)
(* on: of two recoveries that read the same Secret one is refused (the uid  *)
(* and the resourceVersion of the replacement).                             *)
THEOREM RefreshesInTurn == Spec => RefreshReplacesWhatItRead
<1> DEFINE A == \A p \in Procs :
                   Present /\ secret' = Append(secret, p) => wire[p].seen.credential = Holds
<1>1. ASSUME CInv, [Next]_vars PROVE A
  <2> SUFFICES ASSUME NEW p \in Procs, Present, secret' = Append(secret, p)
               PROVE  wire[p].seen.credential = Holds
      OBVIOUS
  <2>1. secret \in Seq(Procs)
      BY <1>1 DEF CInv, Typed
  <2>2. secret' # secret
      BY <2>1
  <2>3. ASSUME NEW q \in Procs, Step(q) PROVE FALSE
      BY <2>2, <2>3
         DEF Step, Start, ClaimCredential, RequestToken, ReceiveToken, RecordIssue,
             FinalizeIssue, TakeCredential, ClaimRegistration, Install, Refresh,
             ReceiveWrite, GiveUp, RecordRegistration, FinalizeRegistration, servers
  <2>4. PICK q \in Procs : Serve(q)
      BY <1>1, <2>2, <2>3 DEF Next, Die, Tick, servers, vars
  <2>5. ReplaceSecret(q) /\ wire[q].reply = "pending"
      BY <2>2, <2>4
         DEF Serve, IssueToken, CreateProject, CreateSecret, ReplaceSecret, Refuse, servers
  <2>6. q = p
    <3>1. secret' = Append(secret, q)
        BY <2>5 DEF ReplaceSecret, Put
    <3>2. /\ Append(secret, q)[Len(secret) + 1] = q
          /\ Append(secret, p)[Len(secret) + 1] = p
        BY <2>1
    <3> QED
        BY <3>1, <3>2
  <2>7. Writing(p) /\ wire[p].kind = "refresh" /\ wire[p].seen.version = Len(secret)
      BY <2>5, <2>6 DEF ReplaceSecret, Current, Writing
  <2>8. RequestKnows(p)
      BY <1>1 DEF CInv, ExecutionOK
  <2> QED
      BY <2>7, <2>8 DEF RequestKnows, Holds
<1> QED
    BY <1>1, Inductive, PTL DEF Spec, RefreshReplacesWhatItRead
=============================================================================
