-------------------------- MODULE PlanSeatsProofs --------------------------
(***************************************************************************)
(* Theorems about PlanSeats: one open checkout per plan, one grant per     *)
(* payment, and a team nobody comes back to without the provider's word.   *)
(***************************************************************************)
EXTENDS PlanSeats, FunctionTheorems, FiniteSetTheorems, TLAPS

-----------------------------------------------------------------------------
(***************************************************************************)
(* The inductive invariant                                                 *)
(***************************************************************************)

\* What is needed of the types: the amounts play no part here.
RowTypes ==
  /\ order \in [Orders -> {"none", "created", "failed", "captured"}]
  /\ opening \subseteq Orders
  /\ credited \in [Orders -> Nat]
  /\ DOMAIN txn = Orders /\ DOMAIN ent = Orders
  /\ \A o \in Orders : DOMAIN ent[o] = {"status", "starts", "expires", "taken"}
  /\ status \in [Members -> {"absent", "active", "inactive"}]

\* The advisory lock of a checkout: one at a time holds it, its order is not
\* there yet, and what it saw still holds: no identical order to be paid.
CheckoutLockInv ==
  \A o \in opening :
    /\ \A p \in opening : o = p
    /\ Plan[o].kind = "funding" /\ order[o] = "none"
    /\ ~PendingTwin(o)

\* The row lock of a capture: its order stays uncaptured, and it is paid for.
CaptureLockInv ==
  \A o \in Orders :
    txn[o].open => order[o] \in {"created", "failed"} /\ o \in paid

\* Suspended and switched-off members are inactive, and nobody is both; a member
\* being added has no row yet.
TeamInv ==
  /\ \A m \in suspended : status[m] = "inactive" /\ m \notin off
  /\ \A m \in off : status[m] = "inactive"
  /\ \A m \in adding : status[m] = "absent"
  /\ suspended \subseteq Members /\ off \subseteq Members /\ adding \subseteq Members

OrderInv ==
  /\ RowTypes
  /\ CheckoutLockInv
  /\ CaptureLockInv
  /\ OneOpenCheckout
  /\ OneGrantPerPayment

IInv == OrderInv /\ TeamInv

LEMMA InitIInv == Init => IInv
<1>. SUFFICES ASSUME Init PROVE IInv
  OBVIOUS
<1>1. RowTypes
  BY DEF Init, RowTypes, NoTxn, NeverGrant
<1>2. CheckoutLockInv /\ CaptureLockInv /\ OneOpenCheckout
  BY DEF Init, CheckoutLockInv, CaptureLockInv, OneOpenCheckout, NoTxn
<1>3. OneGrantPerPayment
  BY DEF Init, OneGrantPerPayment, NeverGrant
<1>4. TeamInv
  BY DEF Init, TeamInv
<1>. QED
  BY <1>1, <1>2, <1>3, <1>4 DEF IInv, OrderInv

-----------------------------------------------------------------------------
(***************************************************************************)
(* Orders                                                                  *)
(***************************************************************************)

\* A step that leaves the orders and the entitlements' statuses alone.
LEMMA OrdersKept ==
  ASSUME OrderInv, UNCHANGED orderVars,
         DOMAIN ent' = Orders,
         \A o \in Orders : /\ DOMAIN ent'[o] = DOMAIN ent[o]
                           /\ ent'[o].status = "none" <=> ent[o].status = "none",
         RowTypes => status' \in [Members -> {"absent", "active", "inactive"}]
  PROVE  OrderInv'
<1>1. RowTypes'
  BY DEF OrderInv, RowTypes, orderVars
<1>2. CheckoutLockInv' /\ CaptureLockInv' /\ OneOpenCheckout'
  BY DEF OrderInv, CheckoutLockInv, CaptureLockInv, OneOpenCheckout, PendingTwin, orderVars
<1>3. OneGrantPerPayment'
  BY DEF OrderInv, OneGrantPerPayment, orderVars
<1>. QED
  BY <1>1, <1>2, <1>3 DEF OrderInv

LEMMA SyncTypes ==
  ASSUME NEW bal, RowTypes, SyncTeam(bal)
  PROVE  status' \in [Members -> {"absent", "active", "inactive"}]
BY DEF RowTypes, SyncTeam

LEMMA CheckoutStep == OrderInv /\ Checkout => OrderInv'
<1>. SUFFICES ASSUME OrderInv, NEW o \in Orders,
                     OpenFunding(o) \/ FinishFunding(o) \/ OpenPackage(o)
                       \/ Pay(o) \/ AttemptFailed(o)
              PROVE  OrderInv'
  BY DEF Checkout
<1>. USE PlanAssumption DEF OrderInv
<1>0. UNCHANGED <<ent, status, credited, txn>>
  BY DEF OpenFunding, FinishFunding, OpenPackage, Pay, AttemptFailed, moneyVars, teamVars
<1>1. CASE OpenFunding(o)
  <2>1. RowTypes' /\ OneOpenCheckout' /\ OneGrantPerPayment' /\ CaptureLockInv'
    BY <1>0, <1>1 DEF OpenFunding, RowTypes, OneOpenCheckout, OneGrantPerPayment, CaptureLockInv
  <2>2. CheckoutLockInv'
    BY <1>1 DEF OpenFunding, CheckoutLockInv, PendingTwin
  <2>. QED  BY <2>1, <2>2
<1>2. CASE FinishFunding(o)
  <2>1. RowTypes' /\ CaptureLockInv' /\ OneGrantPerPayment'
    BY <1>0, <1>2 DEF FinishFunding, RowTypes, CaptureLockInv, CheckoutLockInv, OneGrantPerPayment
  <2>2. opening' = {}
    BY <1>2 DEF FinishFunding, CheckoutLockInv
  <2>3. OneOpenCheckout'
    BY <1>2 DEF FinishFunding, OneOpenCheckout, CheckoutLockInv, PendingTwin, RowTypes
  <2>. QED  BY <2>1, <2>2, <2>3 DEF CheckoutLockInv
<1>3. CASE OpenPackage(o)
  <2>1. RowTypes' /\ CaptureLockInv' /\ OneGrantPerPayment'
    BY <1>0, <1>3 DEF OpenPackage, RowTypes, CaptureLockInv, OneGrantPerPayment
  <2>2. CheckoutLockInv' /\ OneOpenCheckout'
    BY <1>3 DEF OpenPackage, CheckoutLockInv, PendingTwin, OneOpenCheckout, RowTypes
  <2>. QED  BY <2>1, <2>2
<1>4. CASE Pay(o)
  BY <1>0, <1>4 DEF Pay, RowTypes, CheckoutLockInv, CaptureLockInv, PendingTwin,
     OneOpenCheckout, OneGrantPerPayment
<1>5. CASE AttemptFailed(o)
  <2>1. RowTypes' /\ CaptureLockInv' /\ OneGrantPerPayment'
    BY <1>0, <1>5 DEF AttemptFailed, RowTypes, CaptureLockInv, OneGrantPerPayment
  <2>2. CheckoutLockInv' /\ OneOpenCheckout'
    BY <1>5 DEF AttemptFailed, CheckoutLockInv, PendingTwin, OneOpenCheckout, RowTypes
  <2>. QED  BY <2>1, <2>2
<1>. QED
  BY <1>1, <1>2, <1>3, <1>4, <1>5

LEMMA CaptureStep == OrderInv /\ Capture => OrderInv'
<1>. SUFFICES ASSUME OrderInv, NEW o \in Orders,
                     CaptureRead(o) \/ CaptureCommit(o) \/ CaptureAbort(o)
              PROVE  OrderInv'
  BY DEF Capture
<1>. USE DEF OrderInv
<1>1. CASE CaptureRead(o) \/ CaptureAbort(o)
  <2>1. UNCHANGED <<order, opening, paid, credited, ent, status>>
    BY <1>1 DEF CaptureRead, CaptureAbort, moneyVars, teamVars
  <2>2. RowTypes'
    BY <1>1, <2>1 DEF CaptureRead, CaptureAbort, RowTypes, NoTxn
  <2>3. CaptureLockInv'
    BY <1>1, <2>1 DEF CaptureRead, CaptureAbort, RowTypes, CaptureLockInv, NoTxn
  <2>4. CheckoutLockInv' /\ OneOpenCheckout' /\ OneGrantPerPayment'
    BY <2>1 DEF CheckoutLockInv, PendingTwin, OneOpenCheckout, OneGrantPerPayment
  <2>. QED  BY <2>2, <2>3, <2>4
<1>2. CASE CaptureCommit(o)
  <2>1. /\ order' = [order EXCEPT ![o] = "captured"]
        /\ credited' = [credited EXCEPT ![o] = @ + 1]
        /\ txn' = [txn EXCEPT ![o] = NoTxn]
        /\ UNCHANGED <<opening, paid>>
        /\ order[o] \in {"created", "failed"} /\ o \in paid
    BY <1>2 DEF CaptureCommit, CaptureLockInv
  <2>2. status' \in [Members -> {"absent", "active", "inactive"}]
    BY <1>2, SyncTypes DEF CaptureCommit, TrySyncTeam, RowTypes
  <2>3. /\ ent[o].status = "none"
        /\ IF Plan[o].seats > 0
           THEN ent' = [ent EXCEPT ![o] = [status |-> "active", starts |-> clock,
                          expires |-> clock + Plan[o].validity, taken |-> 0]]
           ELSE ent' = ent
    BY <1>2, <2>1 DEF CaptureCommit, Granted, OneGrantPerPayment
  <2>4. RowTypes'
    BY <2>1, <2>2, <2>3 DEF RowTypes, NoTxn
  <2>5. CheckoutLockInv' /\ OneOpenCheckout' /\ CaptureLockInv'
    BY <2>1 DEF CheckoutLockInv, PendingTwin, OneOpenCheckout, CaptureLockInv, RowTypes, NoTxn
  <2>6. OneGrantPerPayment'
    BY <2>1, <2>3 DEF OneGrantPerPayment, RowTypes
  <2>. QED  BY <2>4, <2>5, <2>6
<1>. QED
  BY <1>1, <1>2

LEMMA LapseKeeps ==
  ASSUME RowTypes, LapseDue
  PROVE  /\ DOMAIN ent' = Orders
         /\ \A o \in Orders : /\ DOMAIN ent'[o] = DOMAIN ent[o]
                              /\ ent'[o].status = "none" <=> ent[o].status = "none"
<1>1. PICK rows \in DueOrders : \E total \in Totals(rows, Cardinality(Due)) :
        ent' = [o \in Orders |-> IF o \in Due
          THEN LET i == CHOOSE i \in DOMAIN rows : rows[i] = o
               IN  [ent[o] EXCEPT !.status = "expired", !.taken = total[i] - total[i - 1]]
          ELSE ent[o]]
  BY DEF LapseDue
<1>2. PICK total : ent' = [o \in Orders |-> IF o \in Due
          THEN LET i == CHOOSE i \in DOMAIN rows : rows[i] = o
               IN  [ent[o] EXCEPT !.status = "expired", !.taken = total[i] - total[i - 1]]
          ELSE ent[o]]
  BY <1>1
<1>3. DOMAIN ent' = Orders
  BY <1>2
<1>4. ASSUME NEW o \in Orders
      PROVE  \E t : ent'[o] = IF o \in Due
                             THEN [ent[o] EXCEPT !.status = "expired", !.taken = t]
                             ELSE ent[o]
  <2>. DEFINE i == CHOOSE i \in DOMAIN rows : rows[i] = o
  <2>1. ent'[o] = IF o \in Due
                  THEN [ent[o] EXCEPT !.status = "expired", !.taken = total[i] - total[i - 1]]
                  ELSE ent[o]
    BY <1>2
  <2>. QED  BY <2>1
<1>5. \A o \in Due : ent[o].status = "active"
  BY DEF Due
<1>. QED
  BY <1>3, <1>4, <1>5 DEF RowTypes

LEMMA StepOrders == OrderInv /\ [Next]_vars => OrderInv'
<1>. SUFFICES ASSUME OrderInv, [Next]_vars PROVE OrderInv'
  OBVIOUS
<1>0. RowTypes
  BY DEF OrderInv
<1>1. CASE Team
  <2>1. UNCHANGED <<orderVars, ent>>
    BY <1>1 DEF Team, AddCheck, AddCommit, Activate, Deactivate, Delete, moneyVars
  <2>2. status' \in [Members -> {"absent", "active", "inactive"}]
    BY <1>0, <1>1 DEF Team, AddCheck, AddCommit, Activate, Deactivate, Delete, RowTypes
  <2>. QED  BY <1>0, <2>1, <2>2, OrdersKept DEF RowTypes
<1>2. CASE Deduct
  <2>1. UNCHANGED <<orderVars, ent>>
    BY <1>2 DEF Deduct
  <2>2. status' \in [Members -> {"absent", "active", "inactive"}]
    BY <1>0, <1>2, SyncTypes DEF Deduct, TrySyncTeam, RowTypes
  <2>. QED  BY <1>0, <2>1, <2>2, OrdersKept DEF RowTypes
<1>3. CASE Sweep
  <2>1. UNCHANGED orderVars
    BY <1>3 DEF Sweep
  <2>2. status' \in [Members -> {"absent", "active", "inactive"}]
    BY <1>0, <1>3, SyncTypes DEF Sweep
  <2>3. UNCHANGED ent \/ LapseDue
    BY <1>3 DEF Sweep, moneyVars
  <2>4. /\ DOMAIN ent' = Orders
        /\ \A o \in Orders : /\ DOMAIN ent'[o] = DOMAIN ent[o]
                             /\ ent'[o].status = "none" <=> ent[o].status = "none"
    BY <1>0, <2>3, LapseKeeps DEF RowTypes
  <2>. QED  BY <2>1, <2>2, <2>4, OrdersKept
<1>4. CASE Tick \/ UNCHANGED vars
  <2>1. UNCHANGED <<orderVars, ent, status>>
    BY <1>4 DEF Tick, vars, orderVars, moneyVars, teamVars
  <2>. QED  BY <1>0, <2>1, OrdersKept DEF RowTypes
<1>. QED
  BY <1>1, <1>2, <1>3, <1>4, CheckoutStep, CaptureStep DEF Next

-----------------------------------------------------------------------------
(***************************************************************************)
(* The team                                                                *)
(***************************************************************************)

LEMMA SyncKeepsTeam ==
  ASSUME NEW bal, RowTypes, TeamInv, SyncTeam(bal) \/ UNCHANGED <<status, suspended>>,
         UNCHANGED <<adding, off>>
  PROVE  TeamInv'
<1>1. CASE SyncTeam(bal) /\ bal <= 0
  BY <1>1 DEF SyncTeam, TeamInv, RowTypes, Active
<1>2. CASE SyncTeam(bal) /\ ~(bal <= 0)
  BY <1>2 DEF SyncTeam, TeamInv, RowTypes
<1>3. CASE UNCHANGED <<status, suspended>>
  BY <1>3 DEF TeamInv
<1>. QED
  BY <1>1, <1>2, <1>3

LEMMA StepTeam == RowTypes /\ TeamInv /\ [Next]_vars => TeamInv'
<1>. SUFFICES ASSUME RowTypes, TeamInv, [Next]_vars PROVE TeamInv'
  OBVIOUS
<1>1. CASE Checkout \/ Tick \/ UNCHANGED vars
  <2>1. UNCHANGED teamVars
    BY <1>1 DEF Checkout, OpenFunding, FinishFunding, OpenPackage, Pay, AttemptFailed,
       Tick, vars, teamVars
  <2>. QED  BY <2>1 DEF TeamInv, teamVars
<1>2. CASE Capture
  <2>1. PICK o \in Orders : CaptureRead(o) \/ CaptureCommit(o) \/ CaptureAbort(o)
    BY <1>2 DEF Capture
  <2>2. CASE CaptureCommit(o)
    BY <2>2, SyncKeepsTeam DEF CaptureCommit, TrySyncTeam
  <2>3. CASE CaptureRead(o) \/ CaptureAbort(o)
    BY <2>3 DEF CaptureRead, CaptureAbort, TeamInv, teamVars
  <2>. QED  BY <2>1, <2>2, <2>3
<1>3. CASE Deduct
  BY <1>3, SyncKeepsTeam DEF Deduct, TrySyncTeam
<1>4. CASE Sweep
  BY <1>4, SyncKeepsTeam DEF Sweep
<1>5. CASE Team
  <2>1. PICK m \in Members : AddCheck(m) \/ AddCommit(m) \/ Activate(m)
                               \/ Deactivate(m) \/ Delete(m)
    BY <1>5 DEF Team
  <2>2. CASE AddCheck(m)
    BY <2>2 DEF AddCheck, TeamInv
  <2>3. CASE AddCommit(m)
    BY <2>3 DEF AddCommit, TeamInv, RowTypes
  <2>4. CASE Activate(m)
    BY <2>4 DEF Activate, TeamInv, RowTypes
  <2>5. CASE Deactivate(m)
    BY <2>5 DEF Deactivate, TeamInv, RowTypes
  <2>6. CASE Delete(m)
    BY <2>6 DEF Delete, TeamInv, RowTypes
  <2>. QED  BY <2>1, <2>2, <2>3, <2>4, <2>5, <2>6
<1>. QED
  BY <1>1, <1>2, <1>3, <1>4, <1>5 DEF Next

-----------------------------------------------------------------------------
(***************************************************************************)
(* Amounts and dates                                                       *)
(***************************************************************************)

Entitlement == [status : {"none", "active", "expired"}, starts : Days,
                expires : Nat, taken : Nat]

AmountTypes ==
  /\ clock \in Days /\ paid \subseteq Orders
  /\ txn \in [Orders -> [open : BOOLEAN, balance : Int, live : Nat]]
  /\ ent \in [Orders -> Entitlement]
  /\ balance \in Int /\ seats \in Nat
  /\ spent \in [Orders -> Nat]
  /\ deductions \in 0..MaxDeductions

\* The types are what the rows, the team and the amounts say together.
LEMMA TypeParts == RowTypes /\ TeamInv /\ AmountTypes => TypeOK
BY DEF RowTypes, TeamInv, AmountTypes, TypeOK, Entitlement

\* live_seats is a number: finitely many grants have finitely many seats.
LEMMA LiveSeatsType == LiveSeats \in Nat
<1>. DEFINE row == [o \in LiveGrants |-> {o} \X (1..Plan[o].seats)]
            rows == {{o} \X (1..Plan[o].seats) : o \in LiveGrants}
<1>1. LiveGrants \in SUBSET Orders
  BY DEF LiveGrants
<1>2. IsFiniteSet(LiveGrants)
  BY <1>1, FS_Subset, PlanAssumption DEF PlanAssumption
<1>3. IsFiniteSet(rows)
  <2>1. row \in Surjection(LiveGrants, rows)
    BY DEF Surjection
  <2>. QED  BY <1>2, <2>1, FS_Surjection
<1>4. ASSUME NEW T \in rows
      PROVE  IsFiniteSet(T)
  <2>1. PICK o \in LiveGrants : T = {o} \X (1..Plan[o].seats)
    OBVIOUS
  <2>2. Plan[o].seats \in Nat
    BY <1>1, PlanAssumption DEF PlanAssumption
  <2>3. IsFiniteSet({o})
    BY FS_Singleton
  <2>4. IsFiniteSet(1..Plan[o].seats)
    BY <2>2, FS_Interval
  <2>5. IsFiniteSet({o} \X (1..Plan[o].seats))
    BY <2>3, <2>4, FS_Product
  <2>. QED  BY <2>1, <2>5
<1>5. IsFiniteSet(UNION rows)
  BY <1>3, <1>4, FS_UNION
<1>. QED  BY <1>5, FS_CardinalityType DEF LiveSeats

\* What one row takes: nothing, or a part of its own credit that no debit since
\* the grant and no row before it has used.
LEMMA WithdrawBounds ==
  ASSUME AmountTypes, NEW o \in Orders, NEW before \in Nat
  PROVE  /\ Withdraw(o, before) \in Nat
         /\ Withdraw(o, before) > 0 =>
              Withdraw(o, before) + spent[o] + before <= Plan[o].credits
<1>1. spent[o] \in Nat /\ balance \in Int
  BY DEF AmountTypes
<1>2. Plan[o].credits \in Nat
  BY PlanAssumption DEF PlanAssumption
<1>. QED  BY <1>1, <1>2 DEF Withdraw, Greater, Lesser

\* expire_due leaves amounts that are amounts, and takes from each due row only
\* credit of its own that is unspent.
LEMMA LapseAmounts ==
  ASSUME AmountTypes, LapseDue
  PROVE  /\ ent' \in [Orders -> Entitlement]
         /\ balance' \in Int /\ spent' \in [Orders -> Nat] /\ seats' \in Nat
         /\ \A o \in Orders : ent'[o].taken > ent[o].taken =>
              ent'[o].taken + spent[o] <= Plan[o].credits
<1>. DEFINE n == Cardinality(Due)
<1>0. PICK rows \in DueOrders : \E total \in Totals(rows, n) :
        /\ ent' = [o \in Orders |-> IF o \in Due
             THEN LET i == CHOOSE i \in DOMAIN rows : rows[i] = o
                  IN  [ent[o] EXCEPT !.status = "expired", !.taken = total[i] - total[i - 1]]
             ELSE ent[o]]
        /\ balance' = balance - total[n]
        /\ spent' = Debited(total[n])
        /\ seats' = LiveSeats
  BY DEF LapseDue
<1>1. PICK total \in Totals(rows, n) :
        /\ ent' = [o \in Orders |-> IF o \in Due
             THEN LET i == CHOOSE i \in DOMAIN rows : rows[i] = o
                  IN  [ent[o] EXCEPT !.status = "expired", !.taken = total[i] - total[i - 1]]
             ELSE ent[o]]
        /\ balance' = balance - total[n]
        /\ spent' = Debited(total[n])
        /\ seats' = LiveSeats
  BY <1>0
<1>2. n \in Nat
  <2>1. Due \in SUBSET Orders
    BY DEF Due
  <2>. QED  BY <2>1, FS_Subset, FS_CardinalityType, PlanAssumption DEF PlanAssumption
<1>. HIDE DEF n
<1>3. \A i \in 0..n : total[i] \in Nat
  <2>1. total \in [0..n -> 0..Greater(0, balance)]
    BY DEF Totals
  <2>2. Greater(0, balance) \in Nat
    BY DEF Greater, AmountTypes
  <2>. QED  BY <2>1, <2>2
<1>4. ASSUME NEW o \in Due
      PROVE  \E t \in Nat :
               /\ ent'[o] = [ent[o] EXCEPT !.status = "expired", !.taken = t]
               /\ t > 0 => t + spent[o] <= Plan[o].credits
  <2>. DEFINE i == CHOOSE i \in DOMAIN rows : rows[i] = o
  <2>0. o \in Orders
    BY DEF Due
  <2>1. DOMAIN rows = 1..n /\ \E k \in DOMAIN rows : rows[k] = o
    BY DEF DueOrders, n
  <2>2. i \in DOMAIN rows /\ rows[i] = o
    BY <2>1
  <2>3. ent'[o] = [ent[o] EXCEPT !.status = "expired", !.taken = total[i] - total[i - 1]]
    BY <1>1, <2>0
  <2>. HIDE DEF i
  <2>4. i \in 1..n /\ i - 1 \in 0..n /\ i \in 0..n
    BY <1>2, <2>1, <2>2
  <2>5. total[i] = total[i - 1] + Withdraw(o, total[i - 1])
    BY <2>2, <2>4 DEF Totals
  <2>6. total[i - 1] \in Nat /\ total[i] \in Nat
    BY <1>3, <2>4
  <2>7. /\ Withdraw(o, total[i - 1]) \in Nat
        /\ Withdraw(o, total[i - 1]) > 0 =>
             Withdraw(o, total[i - 1]) + spent[o] + total[i - 1] <= Plan[o].credits
    BY <2>0, <2>6, WithdrawBounds
  <2>8. spent[o] \in Nat /\ Plan[o].credits \in Nat
    BY <2>0, PlanAssumption DEF AmountTypes, PlanAssumption
  <2>9. total[i] - total[i - 1] = Withdraw(o, total[i - 1])
    BY <2>5, <2>6, <2>7
  <2>. DEFINE t == total[i] - total[i - 1]
  <2>10. t \in Nat /\ (t > 0 => t + spent[o] <= Plan[o].credits)
    BY <2>6, <2>7, <2>8, <2>9
  <2>. QED  BY <2>3, <2>10
<1>5. \A o \in Orders \ Due : ent'[o] = ent[o]
  BY <1>1
<1>6. ent' \in [Orders -> Entitlement]
  <2>1. ASSUME NEW o \in Orders PROVE ent'[o] \in Entitlement
    <3>1. ent[o] \in Entitlement
      BY DEF AmountTypes
    <3>. QED  BY <1>4, <1>5, <3>1 DEF Entitlement
  <2>. DEFINE after(o) == IF o \in Due
             THEN LET i == CHOOSE i \in DOMAIN rows : rows[i] = o
                  IN  [ent[o] EXCEPT !.status = "expired", !.taken = total[i] - total[i - 1]]
             ELSE ent[o]
  <2>2. ent' = [o \in Orders |-> after(o)]
    BY <1>1
  <2>. HIDE DEF after
  <2>. QED  BY <2>1, <2>2
<1>7. balance' \in Int /\ seats' \in Nat /\ spent' \in [Orders -> Nat]
  <2>1. total[n] \in Nat
    BY <1>2, <1>3
  <2>2. balance' = balance - total[n] /\ seats' = LiveSeats /\ spent' = Debited(total[n])
    BY <1>1
  <2>. QED  BY <2>1, <2>2, LiveSeatsType DEF Debited, AmountTypes
<1>8. \A o \in Orders : ent'[o].taken > ent[o].taken =>
        ent'[o].taken + spent[o] <= Plan[o].credits
  <2>. SUFFICES ASSUME NEW o \in Orders, ent'[o].taken > ent[o].taken
                PROVE  ent'[o].taken + spent[o] <= Plan[o].credits
    OBVIOUS
  <2>0. ent[o].taken \in Nat
    BY DEF AmountTypes, Entitlement
  <2>1. o \in Due
    BY <1>5, <2>0
  <2>2. PICK t \in Nat : /\ ent'[o] = [ent[o] EXCEPT !.status = "expired", !.taken = t]
                         /\ t > 0 => t + spent[o] <= Plan[o].credits
    BY <1>4, <2>1
  <2>3. ent'[o].taken = t
    BY <2>2 DEF AmountTypes, Entitlement
  <2>. QED  BY <2>0, <2>2, <2>3
<1>. QED  BY <1>6, <1>7, <1>8

LEMMA InitAmounts == Init => AmountTypes
BY PlanAssumption DEF PlanAssumption, Init, AmountTypes, Entitlement, NoTxn, NeverGrant, Days

\* "What lapses is the part of the grant the provider never spent": what it takes from
\* the balance is credit of its own order no debit has used since the grant.
LapseTakesUnspent ==
  [][\A o \in Orders : ent'[o].taken > ent[o].taken =>
       ent'[o].taken + spent[o] <= Plan[o].credits]_vars

UnspentStep ==
  \A o \in Orders : ent'[o].taken > ent[o].taken =>
    ent'[o].taken + spent[o] <= Plan[o].credits

LEMMA StepAmounts == AmountTypes /\ [Next]_vars => AmountTypes' /\ UnspentStep
<1>. SUFFICES ASSUME AmountTypes, [Next]_vars PROVE AmountTypes' /\ UnspentStep
  OBVIOUS
<1>0. \A o \in Orders : ent[o].taken \in Nat
  BY DEF AmountTypes, Entitlement
<1>1. ASSUME UNCHANGED ent PROVE UnspentStep
  BY <1>0, <1>1 DEF UnspentStep
<1>2. CASE Checkout
  <2>1. /\ UNCHANGED <<clock, txn, moneyVars, deductions>>
        /\ paid' \subseteq Orders
    BY <1>2 DEF Checkout, OpenFunding, FinishFunding, OpenPackage, Pay, AttemptFailed,
       AmountTypes
  <2>. QED  BY <2>1, <1>1 DEF AmountTypes, moneyVars
<1>3. CASE Team \/ Tick \/ UNCHANGED vars
  <2>1. /\ UNCHANGED <<orderVars, moneyVars, deductions>>
        /\ clock' \in Days
    BY <1>3, PlanAssumption DEF Team, AddCheck, AddCommit, Activate, Deactivate, Delete, Tick,
       vars, orderVars, moneyVars, AmountTypes, Days, PlanAssumption
  <2>. QED  BY <2>1, <1>1 DEF AmountTypes, moneyVars, orderVars
<1>4. CASE Capture
  <2>1. PICK o \in Orders : CaptureRead(o) \/ CaptureCommit(o) \/ CaptureAbort(o)
    BY <1>4 DEF Capture
  <2>2. CASE CaptureRead(o) \/ CaptureAbort(o)
    <3>1. UNCHANGED <<clock, paid, moneyVars, deductions>>
      BY <2>2 DEF CaptureRead, CaptureAbort
    <3>2. txn' \in [Orders -> [open : BOOLEAN, balance : Int, live : Nat]]
      <4>. DEFINE read == [open |-> TRUE, balance |-> balance, live |-> LiveSeats]
      <4>1. read \in [open : BOOLEAN, balance : Int, live : Nat]
        BY LiveSeatsType DEF AmountTypes
      <4>2. NoTxn \in [open : BOOLEAN, balance : Int, live : Nat]
        BY DEF NoTxn
      <4>3. txn' = [txn EXCEPT ![o] = read] \/ txn' = [txn EXCEPT ![o] = NoTxn]
        BY <2>2 DEF CaptureRead, CaptureAbort
      <4>. HIDE DEF read
      <4>. QED  BY <4>1, <4>2, <4>3 DEF AmountTypes
    <3>. QED  BY <3>1, <3>2, <1>1 DEF AmountTypes, moneyVars
  <2>3. CASE CaptureCommit(o)
    <3>1. /\ Plan[o].credits \in Nat /\ Plan[o].seats \in Nat /\ Plan[o].validity \in Nat
          /\ txn[o].balance \in Int /\ txn[o].live \in Nat /\ clock \in Nat
      BY PlanAssumption DEF PlanAssumption, AmountTypes, Days
    <3>2. /\ UNCHANGED <<clock, paid, spent, deductions>>
          /\ balance' = txn[o].balance + Plan[o].credits
          /\ txn' = [txn EXCEPT ![o] = NoTxn]
      BY <2>3 DEF CaptureCommit
    <3>3. \/ UNCHANGED <<ent, seats>>
          \/ /\ seats' = txn[o].live + Plan[o].seats
             /\ \/ UNCHANGED ent
                \/ ent' = [ent EXCEPT ![o] = [status |-> "active", starts |-> clock,
                             expires |-> clock + Plan[o].validity, taken |-> 0]]
      BY <2>3 DEF CaptureCommit, Granted
    <3>4. seats' \in Nat /\ balance' \in Int
      BY <3>1, <3>2, <3>3 DEF AmountTypes
    <3>5. ent' \in [Orders -> Entitlement]
      BY <3>1, <3>3 DEF AmountTypes, Entitlement
    <3>6. txn' \in [Orders -> [open : BOOLEAN, balance : Int, live : Nat]]
      BY <3>2 DEF AmountTypes, NoTxn
    <3>7. UnspentStep
      BY <1>0, <3>3 DEF AmountTypes, UnspentStep
    <3>. QED  BY <3>2, <3>4, <3>5, <3>6, <3>7 DEF AmountTypes
  <2>. QED  BY <2>1, <2>2, <2>3
<1>5. CASE Deduct
  <2>1. /\ UNCHANGED <<clock, paid, txn, ent, seats>>
        /\ deductions' = deductions + 1 /\ deductions < MaxDeductions
        /\ balance' = balance - Deduction /\ spent' = Debited(Deduction)
    BY <1>5 DEF Deduct, orderVars
  <2>2. Deduction \in Nat /\ MaxDeductions \in Nat
    BY PlanAssumption DEF PlanAssumption
  <2>3. spent' \in [Orders -> Nat]
    BY <2>1, <2>2 DEF Debited, AmountTypes
  <2>. QED  BY <2>1, <2>2, <2>3, <1>1 DEF AmountTypes
<1>6. CASE Sweep
  <2>1. UNCHANGED <<clock, paid, txn, deductions>>
    BY <1>6 DEF Sweep, orderVars
  <2>2. CASE UNCHANGED moneyVars
    BY <2>1, <2>2, <1>1 DEF AmountTypes, moneyVars
  <2>3. CASE LapseDue
    BY <2>1, <2>3, LapseAmounts DEF AmountTypes, UnspentStep
  <2>. QED  BY <1>6, <2>2, <2>3 DEF Sweep
<1>. QED  BY <1>2, <1>3, <1>4, <1>5, <1>6 DEF Next

LEMMA AmountsHold == Spec => []AmountTypes
<1>1. AmountTypes /\ [Next]_vars => AmountTypes'
  BY StepAmounts
<1>. QED  BY <1>1, InitAmounts, PTL DEF Spec

-----------------------------------------------------------------------------
(***************************************************************************)
(* Theorems                                                                *)
(***************************************************************************)

LEMMA IInvHolds == Spec => []IInv
<1>1. IInv /\ [Next]_vars => IInv'
  BY StepOrders, StepTeam DEF IInv, OrderInv
<1>. QED
  BY <1>1, InitIInv, PTL DEF Spec

\* Any number of clicks on any number of plans leave one order of each plan to
\* be paid (create_activation_funding_order): the advisory lock keeps what the
\* look-up for a pending twin saw true until the order is there.
THEOREM ClicksOpenOneCheckout == Spec => []OneOpenCheckout
<1>1. IInv => OneOpenCheckout
  BY DEF IInv, OrderInv
<1>. QED
  BY <1>1, IInvHolds, PTL

\* Every payment is credited once and grants its seats once, for any number of
\* deliveries of its webhook, of failed attempts and of crashed captures; and
\* nothing is credited that was not paid.
THEOREM PaymentGrantsOnce == Spec => []OneGrantPerPayment
<1>1. IInv => OneGrantPerPayment
  BY DEF IInv, OrderInv
<1>. QED
  BY <1>1, IInvHolds, PTL

\* No sequence of suspensions, payments and lapses puts a member back to work
\* whom the provider switched off (sync_team_credit_suspension): the mark of a
\* suspension and the provider's decision exclude each other.
THEOREM OffStaysOff == Spec => []SwitchedOffStaysOff
<1>1. IInv => SwitchedOffStaysOff
  BY DEF IInv, TeamInv, SwitchedOffStaysOff
<1>. QED
  BY <1>1, IInvHolds, PTL

\* Every row keeps its type: the cached seats are never negative although they are
\* written from a stale read, a lapse takes a natural number, and the members
\* marked as suspended are inactive ones.
THEOREM TypeCorrect == Spec => []TypeOK
<1>1. IInv /\ AmountTypes => TypeOK
  BY TypeParts DEF IInv, OrderInv
<1>. QED
  BY <1>1, IInvHolds, AmountsHold, PTL

\* expire_due, for any plans, any number of rows due in one sweep and any debits
\* and earlier lapses: a lapse never takes back credit that is spent.
THEOREM LapseSparesSpentCredit == Spec => LapseTakesUnspent
<1>1. AmountTypes /\ [Next]_vars => [UnspentStep]_vars
  BY StepAmounts
<1>2. [UnspentStep]_vars =>
        [\A o \in Orders : ent'[o].taken > ent[o].taken =>
           ent'[o].taken + spent[o] <= Plan[o].credits]_vars
  BY DEF UnspentStep
<1>. QED
  BY <1>1, <1>2, AmountsHold, PTL DEF Spec, LapseTakesUnspent
=============================================================================
