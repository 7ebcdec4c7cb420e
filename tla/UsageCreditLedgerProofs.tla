---------------------- MODULE UsageCreditLedgerProofs ----------------------
(***************************************************************************)
(* Theorems about the usage-credit account, for any number of requests of  *)
(* any writers, any keys, amounts, opening balance and debt cap.           *)
(***************************************************************************)
EXTENDS UsageCreditLedger, TLAPS

AllLocked == \A r \in Requests : Op[r].writer \in LockedWriters

\* Who holds the row: a transaction that has flushed, and one that has read
\* FOR UPDATE, holds the lock; what it read under the lock is still the
\* balance; and what it flushed passed the unique indexes and the refusals.
LockInv ==
  \A r \in Requests :
    /\ pc[r] = "flushed" =>
         lock = r /\ ~DuplicateKey(r) /\ ~Refused(Op[r], seen[r])
    /\ pc[r] \in {"read", "flushed"} /\ Op[r].writer \in LockedWriters =>
         lock = r /\ seen[r] = balance

\* The inductive invariant behind the exactly-once and floor theorems.
IInv == TypeOK /\ LockInv /\ AtMostOncePerKey

LEMMA DeltaIsInt ==
  ASSUME NEW r \in Requests, NEW b \in Int
  PROVE  Delta(Op[r], b) \in Int
<1>1. Op[r] \in OpType
  BY ConstantsAssumption
<1>2. Op[r].amount \in Int /\ DebtCap \in Int
  BY <1>1, ConstantsAssumption DEF OpType
<1>. QED
  BY <1>2 DEF Delta, SignedMove, PenaltyMove, ExpiryMove, FullDebit, Lesser, Greater

\* The row a request inserts is well typed, adds up, and carries the
\* request's own key.
LEMMA RowFacts ==
  ASSUME TypeOK, NEW r \in Requests
  PROVE  /\ Row(r) \in RowType
         /\ Row(r).after = Row(r).before + Row(r).delta
         /\ Row(r).after \in Int /\ Row(r).delta \in Int
         /\ Row(r).before = seen[r]
         /\ Row(r).key = Op[r].key
         /\ Row(r).request = r
<1>1. seen[r] \in Int
  BY DEF TypeOK
<1>2. Delta(Op[r], seen[r]) \in Int
  BY <1>1, DeltaIsInt
<1>3. Op[r].key \in Keys \cup {NoKey}
  BY ConstantsAssumption DEF OpType
<1>. QED
  BY <1>1, <1>2, <1>3 DEF Row, RowType

LEMMA InitIInv == Init => IInv
  BY ConstantsAssumption
  DEF Init, IInv, TypeOK, LockInv, AtMostOncePerKey, RowType, Ended

LEMMA StepTypeOK == TypeOK /\ [Next]_vars => TypeOK'
<1>. SUFFICES ASSUME TypeOK, [Next]_vars PROVE TypeOK'
  OBVIOUS
<1>. USE ConstantsAssumption DEF TypeOK, Ended
<1>1. CASE UNCHANGED vars
  BY <1>1 DEF vars
<1>2. ASSUME NEW r \in Requests, CheckKey(r) PROVE TypeOK'
  BY <1>2 DEF CheckKey
<1>3. ASSUME NEW r \in Requests, LockAndRead(r) PROVE TypeOK'
  BY <1>3 DEF LockAndRead
<1>4. ASSUME NEW r \in Requests, ReadUnlocked(r) PROVE TypeOK'
  BY <1>4 DEF ReadUnlocked
<1>5. ASSUME NEW r \in Requests, EndUnwritten(r) PROVE TypeOK'
  BY <1>5 DEF EndUnwritten, Release
<1>6. ASSUME NEW r \in Requests, Flush(r) PROVE TypeOK'
  BY <1>6 DEF Flush, Release
<1>7. ASSUME NEW r \in Requests, Commit(r) PROVE TypeOK'
  <2>1. Row(r) \in RowType /\ Row(r).after \in Int
    BY RowFacts
  <2>2. ledger' \in Seq(RowType)
    BY <1>7, <2>1 DEF Commit
  <2>. QED
    BY <1>7, <2>1, <2>2 DEF Commit, Release
<1>8. ASSUME NEW r \in Requests, Rollback(r) PROVE TypeOK'
  BY <1>8 DEF Rollback, Release
<1>. QED
  BY <1>1, <1>2, <1>3, <1>4, <1>5, <1>6, <1>7, <1>8 DEF Next, Step

\* Everything but a commit leaves the ledger and the balance alone.
LEMMA StepLockInv == IInv /\ [Next]_vars => LockInv'
<1>. SUFFICES ASSUME IInv, [Next]_vars PROVE LockInv'
  OBVIOUS
<1>. USE ConstantsAssumption DEF IInv, TypeOK, LockInv, DuplicateKey, Recorded
<1>1. CASE UNCHANGED vars
  BY <1>1 DEF vars
<1>2. ASSUME NEW r \in Requests, CheckKey(r) PROVE LockInv'
  BY <1>2 DEF CheckKey
<1>3. ASSUME NEW r \in Requests, LockAndRead(r) PROVE LockInv'
  BY <1>3 DEF LockAndRead
<1>4. ASSUME NEW r \in Requests, ReadUnlocked(r) PROVE LockInv'
  BY <1>4 DEF ReadUnlocked, LockedWriters, UnlockedWriters
<1>5. ASSUME NEW r \in Requests, EndUnwritten(r) PROVE LockInv'
  BY <1>5 DEF EndUnwritten, Release
<1>6. ASSUME NEW r \in Requests, Flush(r) PROVE LockInv'
  BY <1>6 DEF Flush, Release
<1>7. ASSUME NEW r \in Requests, Commit(r) PROVE LockInv'
  <2>1. lock = r
    BY <1>7 DEF Commit
  <2>2. \A s \in Requests : s # r => pc[s] # "flushed"
    BY <2>1
  <2>3. \A s \in Requests : s # r /\ pc[s] = "read" => Op[s].writer \notin LockedWriters
    BY <2>1
  <2>. QED
    BY <1>7, <2>1, <2>2, <2>3 DEF Commit, Release
<1>8. ASSUME NEW r \in Requests, Rollback(r) PROVE LockInv'
  BY <1>8 DEF Rollback, Release
<1>. QED
  BY <1>1, <1>2, <1>3, <1>4, <1>5, <1>6, <1>7, <1>8 DEF Next, Step

LEMMA StepOnce == IInv /\ [Next]_vars => AtMostOncePerKey'
<1>. SUFFICES ASSUME IInv, [Next]_vars PROVE AtMostOncePerKey'
  OBVIOUS
<1>1. CASE UNCHANGED ledger
  BY <1>1 DEF IInv, AtMostOncePerKey
<1>2. ASSUME NEW r \in Requests, Commit(r) PROVE AtMostOncePerKey'
  <2>1. ledger \in Seq(RowType) /\ Row(r) \in RowType
    BY RowFacts DEF IInv, TypeOK
  <2>2. ledger' = Append(ledger, Row(r))
    BY <1>2 DEF Commit
  <2>3. ~DuplicateKey(r)
    BY <1>2 DEF Commit, IInv, LockInv
  <2>4. /\ Row(r).key = Op[r].key
        /\ Row(r).request = r
    BY RowFacts DEF IInv
  <2>5. /\ Len(ledger') = Len(ledger) + 1
        /\ \A i \in 1..Len(ledger) : ledger'[i] = ledger[i]
        /\ ledger'[Len(ledger) + 1] = Row(r)
        /\ DOMAIN ledger' = 1..(Len(ledger) + 1)
        /\ DOMAIN ledger = 1..Len(ledger)
    BY <2>1, <2>2
  <2>. SUFFICES ASSUME NEW i \in DOMAIN ledger', NEW j \in DOMAIN ledger',
                       ledger'[i].key # NoKey,
                       ledger'[i].key = ledger'[j].key,
                       Op[ledger'[i].request].writer \in IndexedWriters,
                       Op[ledger'[j].request].writer \in IndexedWriters
                PROVE  i = j
    BY DEF AtMostOncePerKey
  <2>6. CASE i \in DOMAIN ledger /\ j \in DOMAIN ledger
    BY <2>5, <2>6 DEF IInv, AtMostOncePerKey
  <2>7. CASE i = Len(ledger) + 1 /\ j \in DOMAIN ledger
    BY <2>3, <2>4, <2>5, <2>7 DEF DuplicateKey, Recorded
  <2>8. CASE i \in DOMAIN ledger /\ j = Len(ledger) + 1
    BY <2>3, <2>4, <2>5, <2>8 DEF DuplicateKey, Recorded
  <2>9. Len(ledger) \in Nat
    BY <2>1
  <2>. QED
    BY <2>5, <2>6, <2>7, <2>8, <2>9
<1>. QED
  BY <1>1, <1>2 DEF Next, Step, vars, CheckKey, LockAndRead, ReadUnlocked,
                    EndUnwritten, Flush, Rollback

\* Spec keeps the inductive invariant.
LEMMA InductiveInvariant == Spec => []IInv
<1>1. IInv /\ [Next]_vars => IInv'
  BY StepTypeOK, StepLockInv, StepOnce DEF IInv
<1>. QED
  BY InitIInv, <1>1, PTL DEF Spec

\* The variables keep their types.
THEOREM TypeCorrect == Spec => []TypeOK
<1>1. IInv => TypeOK
  BY DEF IInv
<1>. QED
  BY InductiveInvariant, <1>1, PTL

\* Retries and duplicates never book a key twice, although the look-up of
\* _post, _charge_penalty and deduct_for_completed_job runs before any lock.
THEOREM ExactlyOnce == Spec => []AtMostOncePerKey
<1>1. IInv => AtMostOncePerKey
  BY DEF IInv
<1>. QED
  BY InductiveInvariant, <1>1, PTL

-----------------------------------------------------------------------------
\* With writers that all take the lock, a commit extends the chain.
LEMMA StepChain ==
  ASSUME AllLocked
  PROVE  IInv /\ LedgerChain /\ [Next]_vars => LedgerChain'
<1>. SUFFICES ASSUME IInv, LedgerChain, [Next]_vars PROVE LedgerChain'
  OBVIOUS
<1>1. CASE UNCHANGED <<ledger, balance>>
  BY <1>1 DEF LedgerChain, Chained, EndsAtBalance
<1>2. ASSUME NEW r \in Requests, Commit(r) PROVE LedgerChain'
  <2>1. ledger \in Seq(RowType) /\ Row(r) \in RowType
    BY RowFacts DEF IInv, TypeOK
  <2>2. ledger' = Append(ledger, Row(r)) /\ balance' = Row(r).after
    BY <1>2 DEF Commit
  <2>3. Row(r).before = balance
    BY <1>2, RowFacts, AllLocked DEF Commit, IInv, LockInv, AllLocked
  <2>4. /\ Len(ledger) \in Nat
        /\ Len(ledger') = Len(ledger) + 1
        /\ \A i \in 1..Len(ledger) : ledger'[i] = ledger[i]
        /\ ledger'[Len(ledger) + 1] = Row(r)
        /\ DOMAIN ledger' = 1..(Len(ledger) + 1)
        /\ DOMAIN ledger = 1..Len(ledger)
        /\ ledger' # <<>>
        /\ ledger = <<>> <=> Len(ledger) = 0
    BY <2>1, <2>2
  <2>5. EndsAtBalance'
    BY <2>2, <2>4 DEF EndsAtBalance
  <2>6. Chained'
    <3>. SUFFICES ASSUME NEW i \in 1..(Len(ledger) + 1)
                  PROVE  ledger'[i].before =
                           IF i = 1 THEN Opening ELSE ledger'[i - 1].after
      BY <2>4 DEF Chained
    <3>1. CASE i \in 1..Len(ledger)
      <4>1. i # 1 => i - 1 \in 1..Len(ledger)
        BY <2>4, <3>1
      <4>. QED
        BY <2>4, <3>1, <4>1 DEF LedgerChain, Chained
    <3>2. CASE i = Len(ledger) + 1
      BY <2>3, <2>4, <3>2 DEF LedgerChain, EndsAtBalance
    <3>. QED
      BY <2>4, <3>1, <3>2
  <2>. QED
    BY <2>5, <2>6 DEF LedgerChain
<1>. QED
  BY <1>1, <1>2 DEF Next, Step, vars, CheckKey, LockAndRead, ReadUnlocked,
                    EndUnwritten, Flush, Rollback

\* Writers that all take the row lock never lose an update: the rows form one
\* chain from the opening balance to the current one.
THEOREM LockedWritersKeepTheChain ==
  ASSUME AllLocked
  PROVE  Spec => []LedgerChain
<1>1. Init => LedgerChain
  BY DEF Init, LedgerChain, Chained, EndsAtBalance
<1>2. IInv /\ LedgerChain /\ [Next]_vars => LedgerChain'
  BY StepChain
<1>. QED
  BY <1>1, <1>2, InductiveInvariant, PTL DEF Spec

\* No interleaving lets a strict debit, a penalty or an expiry push the
\* balance past its floor.
THEOREM FloorsHold == Spec => FloorRespected
<1>1. IInv /\ [Next]_vars =>
        [\A r \in Requests :
           (pc[r] = "flushed" /\ pc'[r] = "committed") =>
             /\ Op[r].writer \in {"post_strict", "manual"} => balance' >= 0
             /\ Op[r].writer = "penalty" => balance' >= Lesser(seen[r], -DebtCap)
             /\ Op[r].writer = "expiry" => balance' >= Lesser(seen[r], 0)]_vars
  <2>. SUFFICES ASSUME IInv, Next, NEW r \in Requests,
                       pc[r] = "flushed", pc'[r] = "committed"
                PROVE  /\ Op[r].writer \in {"post_strict", "manual"} => balance' >= 0
                       /\ Op[r].writer = "penalty" => balance' >= Lesser(seen[r], -DebtCap)
                       /\ Op[r].writer = "expiry" => balance' >= Lesser(seen[r], 0)
    OBVIOUS
  <2>1. Commit(r)
    BY DEF Next, Step, CheckKey, LockAndRead, ReadUnlocked, EndUnwritten, Flush,
           Commit, Rollback, IInv, TypeOK, Ended
  <2>2. balance' = seen[r] + Delta(Op[r], seen[r])
    BY <2>1 DEF Commit, Row
  <2>3. seen[r] \in Int /\ Op[r].amount \in Int /\ DebtCap \in Nat
    BY ConstantsAssumption DEF IInv, TypeOK, OpType
  <2>4. ~Refused(Op[r], seen[r])
    BY DEF IInv, LockInv
  <2>5. Op[r].writer \in {"post_strict", "manual"} => balance' >= 0
    BY <2>2, <2>3, <2>4, DeltaIsInt DEF Refused
  <2>6. Op[r].writer = "penalty" => balance' >= Lesser(seen[r], -DebtCap)
    BY <2>2, <2>3 DEF Delta, PenaltyMove, Lesser, Greater
  <2>7. Op[r].writer = "expiry" => balance' >= Lesser(seen[r], 0)
    BY <2>2, <2>3 DEF Delta, ExpiryMove, Lesser, Greater
  <2>. QED
    BY <2>5, <2>6, <2>7
<1>. QED
  BY <1>1, InductiveInvariant, PTL DEF Spec, FloorRespected

\* With writers that all take the row lock, the interleaved transactions
\* implement the atomic account: a commit is one entry with a fresh key whose
\* amount is the movement of the balance, any other step is a stutter.
THEOREM LockedWritersImplementAccount ==
  ASSUME AllLocked
  PROVE  Spec => ImplementsAccount
<1>1. Init => Account!Init
  BY DEF Init, Account!Init, Entries
<1>2. IInv /\ [Next]_vars => [Account!Next]_<<balance, Entries>>
  <2>. SUFFICES ASSUME IInv, [Next]_vars PROVE [Account!Next]_<<balance, Entries>>
    OBVIOUS
  <2>1. CASE UNCHANGED <<ledger, balance>>
    BY <2>1 DEF Entries
  <2>2. ASSUME NEW r \in Requests, Commit(r) PROVE Account!Next
    <3>. DEFINE k == IF Op[r].writer \in IndexedWriters THEN Op[r].key ELSE NoKey
                e == [key |-> k, delta |-> balance' - balance]
    <3>1. ledger \in Seq(RowType) /\ Row(r) \in RowType
      BY RowFacts DEF IInv, TypeOK
    <3>2. ledger' = Append(ledger, Row(r)) /\ balance' = Row(r).after
      BY <2>2 DEF Commit
    <3>3. Row(r).before = balance /\ Row(r).delta = balance' - balance /\ balance' \in Int
      BY <2>2, <3>2, RowFacts, AllLocked DEF Commit, IInv, LockInv, AllLocked, TypeOK
    <3>4. /\ Len(ledger) \in Nat
          /\ \A i \in 1..Len(ledger) : ledger'[i] = ledger[i]
          /\ ledger'[Len(ledger) + 1] = Row(r)
          /\ DOMAIN ledger' = 1..(Len(ledger) + 1)
          /\ DOMAIN ledger = 1..Len(ledger)
      BY <3>1, <3>2
    <3>5. Row(r).key = Op[r].key /\ Row(r).request = r
      BY RowFacts DEF IInv
    <3>6. k \in Keys \cup {NoKey}
      BY ConstantsAssumption DEF OpType
    <3>7. k # NoKey => \A i \in DOMAIN Entries : Entries[i].key # k
      <4>1. ~DuplicateKey(r)
        BY <2>2 DEF Commit, IInv, LockInv
      <4>. QED
        BY <4>1 DEF DuplicateKey, Recorded, Entries
    <3>8. Entries' = Append(Entries, e)
      <4>1. Entries \in Seq([key : Keys \cup {NoKey}, delta : Int])
        <5>1. \A i \in 1..Len(ledger) : ledger[i] \in RowType
          BY <3>1
        <5>2. \A i \in 1..Len(ledger) : Entries[i] \in [key : Keys \cup {NoKey}, delta : Int]
          BY <5>1, <3>4 DEF Entries, RowType
        <5>. QED
          BY <5>2, <3>4 DEF Entries
      <4>2. Len(Entries) = Len(ledger)
        BY <3>4, <4>1 DEF Entries
      <4>3. Entries' = [i \in 1..(Len(ledger) + 1) |->
                          IF i = Len(ledger) + 1 THEN e ELSE Entries[i]]
        BY <3>3, <3>4, <3>5 DEF Entries
      <4>4. Append(Entries, e) = [i \in 1..(Len(ledger) + 1) |->
                                    IF i = Len(ledger) + 1 THEN e ELSE Entries[i]]
        BY <4>1, <4>2, <3>4
      <4>. QED
        BY <4>3, <4>4
    <3>9. Account!Post(k)
      BY <3>3, <3>7, <3>8 DEF Account!Post
    <3>. QED
      BY <3>6, <3>9 DEF Account!Next
  <2>. QED
    BY <2>1, <2>2 DEF Next, Step, vars, CheckKey, LockAndRead, ReadUnlocked,
                      EndUnwritten, Flush, Rollback
<1>. QED
  BY <1>1, <1>2, InductiveInvariant, PTL DEF Spec, Account!Spec, ImplementsAccount
=============================================================================
