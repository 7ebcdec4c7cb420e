------------------------- MODULE UsageCreditLedger -------------------------
(***************************************************************************)
(* The usage-credit account of one tenant: the row tenant_billing          *)
(* .credit_balance and the append-only table usage_credit_ledger, as the   *)
(* database transactions of the writers found in src/app/engines use them. *)
(*                                                                         *)
(* A request is one transaction.  It looks its idempotency key up, reads   *)
(* the balance (with or without SELECT ... FOR UPDATE), computes what to   *)
(* move, flushes the new ABSOLUTE balance together with the ledger row     *)
(* (the UPDATE takes the row lock, the INSERT meets the unique indexes)    *)
(* and commits, or is rolled back by an error anywhere before that.        *)
(* PostgreSQL runs at READ COMMITTED: a read sees what is committed, and   *)
(* only FOR UPDATE and UPDATE wait for the row lock.                       *)
(***************************************************************************)
EXTENDS Integers, Sequences

CONSTANTS Requests,   \* the concurrent transactions on this tenant's account
          Op,         \* what each of them does, see OpType
          Opening,    \* the balance before the first of them
          DebtCap,    \* sla_penalty debt cap: how far below zero a penalty goes
          Nobody,     \* "the row is not locked"
          Keys,       \* idempotency keys (and jobs, for the job-keyed writers)
          NoKey       \* "the ledger row carries no idempotency key"

VARIABLES balance,    \* committed tenant_billing.credit_balance
          ledger,     \* committed usage_credit_ledger rows, in commit order
          lock,       \* the transaction that holds the tenant_billing row lock
          pc,         \* where each transaction is
          seen        \* the balance each transaction works with

vars == <<balance, ledger, lock, pc, seen>>

\* Writers that read the balance with SELECT ... FOR UPDATE.
LockedWriters ==
  {"post", "post_strict", "manual", "penalty", "remedy", "expiry", "settlement"}

\* Writers that read it with a plain SELECT and then write the absolute value
\* they computed from that read.
UnlockedWriters == {"deduction", "recovery", "activation"}

Writers == LockedWriters \cup UnlockedWriters

\* Writers whose ledger row a unique index guards: uq_ucl_idempotency_key, and
\* uq_ucl_job_event_once for the completed-job deduction.
IndexedWriters ==
  {"post", "post_strict", "penalty", "remedy", "settlement", "deduction"}

\* Writers that look for an earlier row before they do anything.
CheckingWriters ==
  {"post", "post_strict", "penalty", "remedy", "deduction", "recovery"}

OpType == [writer : Writers, key : Keys \cup {NoKey}, amount : Int]

ASSUME ConstantsAssumption ==
  /\ Op \in [Requests -> OpType]
  /\ Opening \in Int
  /\ DebtCap \in Nat
  /\ Nobody \notin Requests
  /\ NoKey \notin Keys

Lesser(a, b)  == IF a < b THEN a ELSE b
Greater(a, b) == IF a > b THEN a ELSE b

\* _post of the usage-credit service and the finance hub's manual adjustment
\* move a signed amount.
SignedMove(op, bal) == op.amount

\* _charge_penalty: never below -DebtCap, and nothing once past it.
PenaltyMove(op, bal) == -Lesser(op.amount, Greater(0, bal + DebtCap))

\* expire_due of the top-up entitlements: the unspent part, if it is there.
ExpiryMove(op, bal) == -Greater(0, Lesser(op.amount, bal))

\* Completed-job deduction, platform-charge recovery, provider-funded remedy
\* and dispute settlement take the full amount, past zero if need be.
FullDebit(op, bal) == -op.amount

Delta(op, bal) ==
  IF op.writer = "penalty" THEN PenaltyMove(op, bal)
  ELSE IF op.writer = "expiry" THEN ExpiryMove(op, bal)
  ELSE IF op.writer \in {"post", "post_strict", "manual", "activation"}
  THEN SignedMove(op, bal) ELSE FullDebit(op, bal)

\* Mutation: the balance is tested before the debit instead of after it.
RefusedBeforeMove(op, bal) == op.writer \in {"post_strict", "manual"} /\ bal < 0

\* 402 / 409 INSUFFICIENT_USAGE_CREDIT.
Refused(op, bal) ==
  /\ op.writer \in {"post_strict", "manual"}
  /\ bal + Delta(op, bal) < 0

\* A penalty or an expiry that comes to nothing writes no row at all.
WritesNothing(op, bal) ==
  /\ op.writer \in {"penalty", "expiry"}
  /\ Delta(op, bal) = 0

\* Mutation: the row is written without its balance_before snapshot.
RowWithoutSnapshot(r) == [request |-> r, key |-> Op[r].key,
                          delta |-> Delta(Op[r], seen[r]),
                          after |-> seen[r] + Delta(Op[r], seen[r])]

Row(r) == [request |-> r,
           key     |-> Op[r].key,
           delta   |-> Delta(Op[r], seen[r]),
           before  |-> seen[r],
           after   |-> seen[r] + Delta(Op[r], seen[r])]

\* A committed row with this key is visible.
Recorded(k) == \E i \in DOMAIN ledger : ledger[i].key = k

\* Mutation: the unique indexes were never created.
NoUniqueIndex(r) == FALSE

\* What the unique indexes refuse.
DuplicateKey(r) ==
  /\ Op[r].writer \in IndexedWriters
  /\ Op[r].key # NoKey
  /\ Recorded(Op[r].key)

Ended == {"committed", "replayed", "refused", "nothing", "aborted"}

\* Mutation: the transaction ends and the row stays locked.
ReleaseForgotten(r) == UNCHANGED lock

Release(r) == lock' = IF lock = r THEN Nobody ELSE lock

Init ==
  /\ balance = Opening
  /\ ledger = <<>>
  /\ lock = Nobody
  /\ pc = [r \in Requests |-> "start"]
  /\ seen = [r \in Requests |-> Opening]

\* The idempotency look-up, a read of committed rows taken before any lock.
CheckKey(r) ==
  /\ pc[r] = "start"
  /\ pc' = [pc EXCEPT ![r] =
              IF /\ Op[r].writer \in CheckingWriters
                 /\ Op[r].key # NoKey
                 /\ Recorded(Op[r].key)
              THEN "replayed" ELSE "checked"]
  /\ UNCHANGED <<balance, ledger, lock, seen>>

\* Mutation: the row is locked, but the session hands out the copy it loaded
\* before (no populate_existing), so the balance is as old as the request.
LockAfterRead(r) ==
  /\ pc[r] = "checked"
  /\ Op[r].writer \in LockedWriters
  /\ lock = Nobody
  /\ lock' = r
  /\ pc' = [pc EXCEPT ![r] = "read"]
  /\ UNCHANGED <<balance, ledger, seen>>

\* SELECT ... FOR UPDATE: waits for the row, then reads the committed balance.
LockAndRead(r) ==
  /\ pc[r] = "checked"
  /\ Op[r].writer \in LockedWriters
  /\ lock = Nobody
  /\ lock' = r
  /\ seen' = [seen EXCEPT ![r] = balance]
  /\ pc' = [pc EXCEPT ![r] = "read"]
  /\ UNCHANGED <<balance, ledger>>

\* A plain SELECT: never waits, takes nothing.
ReadUnlocked(r) ==
  /\ pc[r] = "checked"
  /\ Op[r].writer \in UnlockedWriters
  /\ seen' = [seen EXCEPT ![r] = balance]
  /\ pc' = [pc EXCEPT ![r] = "read"]
  /\ UNCHANGED <<balance, ledger, lock>>

\* The request ends without a write: refused, or there is nothing to take.
EndUnwritten(r) ==
  /\ pc[r] = "read"
  /\ \/ /\ Refused(Op[r], seen[r])
        /\ pc' = [pc EXCEPT ![r] = "refused"]
     \/ /\ WritesNothing(Op[r], seen[r])
        /\ pc' = [pc EXCEPT ![r] = "nothing"]
  /\ Release(r)
  /\ UNCHANGED <<balance, ledger, seen>>

\* flush(): UPDATE tenant_billing SET credit_balance = <absolute value>, which
\* waits for the row lock, and INSERT the ledger row, which fails with an
\* IntegrityError (and aborts the transaction) on a duplicate key.
Flush(r) ==
  /\ pc[r] = "read"
  /\ ~Refused(Op[r], seen[r])
  /\ ~WritesNothing(Op[r], seen[r])
  /\ lock \in {r, Nobody}
  /\ IF DuplicateKey(r)
     THEN /\ pc' = [pc EXCEPT ![r] = "aborted"]
          /\ Release(r)
     ELSE /\ pc' = [pc EXCEPT ![r] = "flushed"]
          /\ lock' = r
  /\ UNCHANGED <<balance, ledger, seen>>

Commit(r) ==
  /\ pc[r] = "flushed"
  /\ balance' = Row(r).after
  /\ ledger' = Append(ledger, Row(r))
  /\ pc' = [pc EXCEPT ![r] = "committed"]
  /\ Release(r)
  /\ UNCHANGED seen

\* An error in the rest of the request, or the death of its worker.
Rollback(r) ==
  /\ pc[r] \in {"checked", "read", "flushed"}
  /\ pc' = [pc EXCEPT ![r] = "aborted"]
  /\ Release(r)
  /\ UNCHANGED <<balance, ledger, seen>>

Step(r) == \/ CheckKey(r) \/ LockAndRead(r) \/ ReadUnlocked(r)
           \/ EndUnwritten(r) \/ Flush(r) \/ Commit(r)

Next == \E r \in Requests : Step(r) \/ Rollback(r)

\* A running request goes on: the server keeps executing the coroutine, and
\* PostgreSQL grants a free row lock to a waiter.  Nothing makes a rollback
\* happen.
Spec == Init /\ [][Next]_vars /\ \A r \in Requests : WF_vars(Step(r))

-----------------------------------------------------------------------------
RowType == [request : Requests, key : Keys \cup {NoKey},
            delta : Int, before : Int, after : Int]

\* The types of the variables.
TypeOK ==
  /\ balance \in Int
  /\ ledger \in Seq(RowType)
  /\ lock \in Requests \cup {Nobody}
  /\ pc \in [Requests -> {"start", "checked", "read", "flushed"} \cup Ended]
  /\ seen \in [Requests -> Int]

\* Exactly-once movements ("Exactly-once provider usage-credit movements",
\* migration 268; "never deduct twice for the same job", the HS9 gate): however
\* retries and duplicates interleave, no key is ever booked twice by a writer
\* whose rows a unique index guards, although the look-up runs before any lock.
AtMostOncePerKey ==
  \A i, j \in DOMAIN ledger :
    /\ ledger[i].key # NoKey
    /\ ledger[i].key = ledger[j].key
    /\ Op[ledger[i].request].writer \in IndexedWriters
    /\ Op[ledger[j].request].writer \in IndexedWriters
    => i = j

\* Each row starts from the balance the row before it left.
Chained ==
  \A i \in DOMAIN ledger :
    ledger[i].before = IF i = 1 THEN Opening ELSE ledger[i - 1].after

\* The balance is what the last row left.
EndsAtBalance ==
  balance = IF ledger = <<>> THEN Opening ELSE ledger[Len(ledger)].after

\* The statement an operator defends from the ledger: the rows form one
\* unbroken chain from the opening balance to the current one, so no
\* transaction's movement was overwritten by another's.  FOR UPDATE is what
\* buys this; it holds when every writer in the mix takes the row lock.
LedgerChain == Chained /\ EndsAtBalance

\* The committed rows as entries of an abstract account; a key no unique index
\* guards is no identity there.
Entries ==
  [i \in DOMAIN ledger |->
     [key   |-> IF Op[ledger[i].request].writer \in IndexedWriters
                THEN ledger[i].key ELSE NoKey,
      delta |-> ledger[i].delta]]

Account == INSTANCE CreditAccount WITH entries <- Entries

\* The concurrent transactions together behave as the abstract account: every
\* commit looks like one atomic entry and everything else is invisible.  Holds
\* for writers that all take the row lock.
ImplementsAccount == Account!Spec

\* A debit that refuses to go negative leaves no negative balance behind, and
\* a penalty leaves at most DebtCap of debt unless the debt was there already,
\* whatever the other writers, unlocked ones included, did in between.
FloorRespected ==
  [][\A r \in Requests :
       (pc[r] = "flushed" /\ pc'[r] = "committed") =>
         /\ Op[r].writer \in {"post_strict", "manual"} => balance' >= 0
         /\ Op[r].writer = "penalty" => balance' >= Lesser(seen[r], -DebtCap)
         /\ Op[r].writer = "expiry" => balance' >= Lesser(seen[r], 0)]_vars

\* Every request is answered: a request waiting for the row lock gets it, and
\* none is left holding it.
EveryRequestEnds == \A r \in Requests : <>(pc[r] \in Ended /\ lock # r)
=============================================================================
