------------------------------ MODULE PlanSeats ------------------------------
(***************************************************************************)
(* Top-up plans of one workspace: the order that pays for a plan, the      *)
(* entitlement it grants (technician seats and credit, until they lapse),  *)
(* and the team that works on them: technicians need a seat to be added,   *)
(* are suspended while the credit is exhausted and restored when it is     *)
(* back.                                                                   *)
(*                                                                         *)
(* Capturing a payment reads the balance and the live seats first and      *)
(* writes absolute values at commit, so it is two steps; adding a          *)
(* technician checks the seats under an advisory lock and inserts, two     *)
(* steps as well.  The hourly sweep lapses entitlements and brings the     *)
(* team back in line with the balance in one transaction.  Interleavings   *)
(* of the other writers of the balance are UsageCreditLedger's.            *)
(***************************************************************************)
EXTENDS Integers, FiniteSets

CONSTANTS Orders,      \* checkouts the workspace may open
          Plan,        \* what each buys: [kind, credits, seats, validity]
          Members,     \* people who may be on the team
          Opening,     \* the balance to begin with
          Deduction,   \* the credit a completed job costs
          MaxDeductions,
          MaxTime      \* days

VARIABLES clock,
          order,       \* status of the activation_payment_orders row
          opening,     \* funding checkouts past the check for a pending twin
          paid,        \* orders whose money the gateway holds
          txn,         \* capture transactions: what they have read
          ent,         \* tenant_topup_entitlements, one per order
          credited,    \* ledger rows that credited the order
          balance,     \* tenant_billing.credit_balance
          spent,       \* ledger debits since the order's grant
          seats,       \* tenant_billing.entitled_seats, a cached projection
          status,      \* provider_team_members.status, "absent" when there is no row
          suspended,   \* members with credit_suspended_at set
          adding,      \* the member being added under the seat lock
          off,         \* history: members the provider switched off
          deductions   \* completed jobs so far, bounded by MaxDeductions

vars == <<clock, order, opening, paid, txn, ent, credited, balance, spent,
          seats, status, suspended, adding, off, deductions>>

orderVars == <<order, opening, paid, txn, credited>>
teamVars  == <<status, suspended, adding, off>>
moneyVars == <<ent, balance, spent, seats>>

ASSUME PlanAssumption ==
  /\ IsFiniteSet(Orders)
  /\ Plan \in [Orders -> [kind : {"funding", "credit"}, credits : Nat \ {0},
                          seats : Nat, validity : Nat]]
  /\ \A o \in Orders : Plan[o].kind = "credit" => Plan[o].seats = 0
  /\ Opening \in Int /\ Deduction \in Nat
  /\ MaxTime \in Nat /\ MaxDeductions \in Nat

Days       == 0..MaxTime
NeverGrant == [status |-> "none", starts |-> 0, expires |-> 0, taken |-> 0]
NoTxn      == [open |-> FALSE, balance |-> 0, live |-> 0]

\* expires_at of a plan without validity is NULL.
Unlimited(o) == Plan[o].validity = 0

LiveGrants == {o \in Orders : /\ ent[o].status = "active"
                              /\ Unlimited(o) \/ ent[o].expires > clock}

\* live_seats: the seats of the live grants, counted one by one.
LiveSeats == Cardinality(UNION {{o} \X (1..Plan[o].seats) : o \in LiveGrants})

\* resolve_qualifying_technician_count
Active == {m \in Members : status[m] = "active"}

TypeOK ==
  /\ clock \in Days
  /\ order \in [Orders -> {"none", "created", "failed", "captured"}]
  /\ opening \subseteq Orders /\ paid \subseteq Orders
  /\ txn \in [Orders -> [open : BOOLEAN, balance : Int, live : Nat]]
  /\ ent \in [Orders -> [status : {"none", "active", "expired"}, starts : Days,
                         expires : Nat, taken : Nat]]
  /\ credited \in [Orders -> Nat]
  /\ balance \in Int /\ seats \in Nat
  /\ spent \in [Orders -> Nat]
  /\ status \in [Members -> {"absent", "active", "inactive"}]
  /\ suspended \in SUBSET {m \in Members : status[m] = "inactive"}
  /\ adding \subseteq Members /\ off \subseteq Members
  /\ deductions \in 0..MaxDeductions

Init ==
  /\ clock = 0
  /\ order = [o \in Orders |-> "none"]
  /\ opening = {} /\ paid = {}
  /\ txn = [o \in Orders |-> NoTxn]
  /\ ent = [o \in Orders |-> NeverGrant]
  /\ credited = [o \in Orders |-> 0]
  /\ balance = Opening
  /\ spent = [o \in Orders |-> 0]
  /\ seats = 0
  /\ status = [m \in Members |-> "absent"]
  /\ suspended = {} /\ adding = {} /\ off = {}
  /\ deductions = 0

-----------------------------------------------------------------------------
(***************************************************************************)
(* Credit suspension                                                       *)
(***************************************************************************)

\* Mutation: restoring leaves credit_suspended_at set.
RestoreKeepsMark(bal) ==
  IF bal <= 0
  THEN /\ suspended' = suspended \cup Active
       /\ status' = [m \in Members |-> IF m \in Active THEN "inactive" ELSE status[m]]
  ELSE /\ UNCHANGED suspended
       /\ status' = [m \in Members |-> IF m \in suspended THEN "active" ELSE status[m]]

\* sync_team_credit_suspension for a balance of bal.
SyncTeam(bal) ==
  IF bal <= 0
  THEN /\ suspended' = suspended \cup Active
       /\ status' = [m \in Members |-> IF m \in Active THEN "inactive" ELSE status[m]]
  ELSE /\ suspended' = {}
       /\ status' = [m \in Members |-> IF m \in suspended THEN "active" ELSE status[m]]

\* A payment or a deduction swallows any error of the synchronisation.
TrySyncTeam(bal) ==
  \/ SyncTeam(bal)
  \/ UNCHANGED <<status, suspended>>

-----------------------------------------------------------------------------
(***************************************************************************)
(* Checkout                                                                *)
(***************************************************************************)

\* An identical funding order still to be paid is reused, not repeated.
PendingTwin(o) ==
  \E p \in Orders : order[p] = "created" /\ Plan[p] = Plan[o]

\* Mutation: no advisory lock around the check and the insert.
OpenUnserialized(o) ==
  /\ Plan[o].kind = "funding"
  /\ order[o] = "none"
  /\ ~PendingTwin(o)
  /\ opening' = opening \cup {o}
  /\ UNCHANGED <<clock, order, paid, txn, credited, moneyVars, teamVars, deductions>>

\* create_activation_funding_order, under pg_advisory_xact_lock per tenant.
OpenFunding(o) ==
  /\ Plan[o].kind = "funding"
  /\ order[o] = "none"
  /\ opening = {}
  /\ ~PendingTwin(o)
  /\ opening' = {o}
  /\ UNCHANGED <<clock, order, paid, txn, credited, moneyVars, teamVars, deductions>>

\* The gateway gives an order id, or does not; the lock ends with the transaction.
FinishFunding(o) ==
  /\ o \in opening
  /\ opening' = opening \ {o}
  /\ \/ order' = [order EXCEPT ![o] = "created"]
     \/ UNCHANGED order
  /\ UNCHANGED <<clock, paid, txn, credited, moneyVars, teamVars, deductions>>

\* create_credit_package_order: no lock, no reuse, refused once the balance
\* holds the package.
OpenPackage(o) ==
  /\ Plan[o].kind = "credit"
  /\ order[o] = "none"
  /\ balance < Plan[o].credits
  /\ order' = [order EXCEPT ![o] = "created"]
  /\ UNCHANGED <<clock, opening, paid, txn, credited, moneyVars, teamVars, deductions>>

Pay(o) ==
  /\ order[o] \in {"created", "failed"}
  /\ o \notin paid
  /\ paid' = paid \cup {o}
  /\ UNCHANGED <<clock, order, opening, txn, credited, moneyVars, teamVars, deductions>>

\* A webhook reports an attempt that was not captured.
AttemptFailed(o) ==
  /\ order[o] \in {"created", "failed"}
  /\ ~txn[o].open
  /\ order' = [order EXCEPT ![o] = "failed"]
  /\ UNCHANGED <<clock, opening, paid, txn, credited, moneyVars, teamVars, deductions>>

-----------------------------------------------------------------------------
(***************************************************************************)
(* Capture, by webhook, signed checkout or reconciliation                  *)
(***************************************************************************)

\* Mutation: a delivery for an order that is captured already is not turned away.
CaptureAnyway(o) ==
  /\ order[o] # "none"
  /\ o \in paid
  /\ ~txn[o].open
  /\ txn' = [txn EXCEPT ![o] = [open |-> TRUE, balance |-> balance, live |-> LiveSeats]]
  /\ UNCHANGED <<clock, order, opening, paid, credited, moneyVars, teamVars, deductions>>

\* The order row is locked to the end; an order already captured is returned as
\* it is.  The balance is read without a lock, the seats by a plain SELECT.
CaptureRead(o) ==
  /\ order[o] \in {"created", "failed"}
  /\ o \in paid
  /\ ~txn[o].open
  /\ txn' = [txn EXCEPT ![o] = [open |-> TRUE, balance |-> balance, live |-> LiveSeats]]
  /\ UNCHANGED <<clock, order, opening, paid, credited, moneyVars, teamVars, deductions>>

\* grant: one entitlement per order, and the cached seats from what was read.
Granted(o) ==
  IF Plan[o].seats > 0
  THEN /\ ent' = IF ent[o].status = "none"
                 THEN [ent EXCEPT ![o] = [status |-> "active", starts |-> clock,
                         expires |-> clock + Plan[o].validity, taken |-> 0]]
                 ELSE ent
       /\ seats' = txn[o].live + Plan[o].seats
  ELSE UNCHANGED <<ent, seats>>

\* The team is synchronised before the session writes the new balance, so with
\* the balance the payment found.
CaptureCommit(o) ==
  /\ txn[o].open
  /\ order' = [order EXCEPT ![o] = "captured"]
  /\ Granted(o)
  /\ balance' = txn[o].balance + Plan[o].credits
  /\ credited' = [credited EXCEPT ![o] = @ + 1]
  /\ TrySyncTeam(balance)
  /\ txn' = [txn EXCEPT ![o] = NoTxn]
  /\ UNCHANGED <<clock, opening, paid, spent, adding, off, deductions>>

CaptureAbort(o) ==
  /\ txn[o].open
  /\ txn' = [txn EXCEPT ![o] = NoTxn]
  /\ UNCHANGED <<clock, order, opening, paid, credited, moneyVars, teamVars, deductions>>

-----------------------------------------------------------------------------
(***************************************************************************)
(* Spending and lapsing                                                    *)
(***************************************************************************)

\* A ledger row of -amount, as the grants that are there see it.
Debited(amount) ==
  [o \in Orders |-> IF ent[o].status = "none" THEN 0 ELSE spent[o] + amount]

\* The deduction of a completed job, which takes the balance below zero if need be.
Deduct ==
  /\ deductions < MaxDeductions
  /\ deductions' = deductions + 1
  /\ balance' = balance - Deduction
  /\ spent' = Debited(Deduction)
  /\ TrySyncTeam(balance')
  /\ UNCHANGED <<clock, orderVars, ent, seats, adding, off>>

Due == {o \in Orders : /\ ent[o].status = "active"
                       /\ ~Unlimited(o) /\ ent[o].expires <= clock}

Lesser(a, b)  == IF a < b THEN a ELSE b
Greater(a, b) == IF a > b THEN a ELSE b

\* What a due row takes back when the sweep has taken `before` already: the part
\* of its credit not debited since the grant, earlier lapses being debits too.
Withdraw(o, before) ==
  Greater(0, Lesser(Greater(0, Plan[o].credits - spent[o] - before),
                    balance - before))

\* The orders in which the sweep may meet the due rows: by expires_at.
DueOrders == {rows \in [1..Cardinality(Due) -> Due] :
  /\ \A o \in Due : \E i \in DOMAIN rows : rows[i] = o
  /\ \A i, j \in DOMAIN rows : i < j => ent[rows[i]].expires <= ent[rows[j]].expires}

\* total[i]: what the first i of n rows take together, never more than a positive
\* balance; there is exactly one such function.
Totals(rows, n) == {total \in [0..n -> 0..Greater(0, balance)] :
  /\ total[0] = 0
  /\ \A i \in 1..n : total[i] = total[i - 1] + Withdraw(rows[i], total[i - 1])}

\* expire_due, and the cached seats of a workspace that had a row due.
LapseDue ==
  LET n == Cardinality(Due) IN
  \E rows \in DueOrders : \E total \in Totals(rows, n) :
    /\ ent' = [o \in Orders |-> IF o \in Due
           THEN LET i == CHOOSE i \in DOMAIN rows : rows[i] = o
                IN  [ent[o] EXCEPT !.status = "expired",
                                   !.taken = total[i] - total[i - 1]]
           ELSE ent[o]]
    /\ balance' = balance - total[n]
    /\ spent' = Debited(total[n])
    /\ seats' = LiveSeats

\* Mutation: the sweep only lapses entitlements.
SweepWithoutTeam ==
  /\ IF Due = {} THEN UNCHANGED moneyVars ELSE LapseDue
  /\ UNCHANGED <<clock, orderVars, status, suspended, adding, off, deductions>>

\* run_once of jobs/expire_topup_entitlements, one transaction.
Sweep ==
  /\ IF Due = {} THEN UNCHANGED moneyVars ELSE LapseDue
  /\ SyncTeam(balance')
  /\ UNCHANGED <<clock, orderVars, adding, off, deductions>>

-----------------------------------------------------------------------------
(***************************************************************************)
(* The team                                                                *)
(***************************************************************************)

SeatFree == Cardinality(Active) < LiveSeats

\* create_team_member, and the edit that turns a staff row into a technician:
\* the seats are checked under the advisory lock, the row is written at commit.
AddCheck(m) ==
  /\ status[m] = "absent"
  /\ adding = {}
  /\ SeatFree
  /\ adding' = {m}
  /\ UNCHANGED <<clock, orderVars, moneyVars, status, suspended, off, deductions>>

AddCommit(m) ==
  /\ m \in adding
  /\ adding' = {}
  /\ status' = [status EXCEPT ![m] = "active"]
  /\ UNCHANGED <<clock, orderVars, moneyVars, suspended, off, deductions>>

\* activate_team_member: the seats and the credit, unless active already.
Activate(m) ==
  /\ status[m] = "inactive"
  /\ adding = {}
  /\ SeatFree
  /\ balance > 0
  /\ status' = [status EXCEPT ![m] = "active"]
  /\ suspended' = suspended \ {m}
  /\ off' = off \ {m}
  /\ UNCHANGED <<clock, orderVars, moneyVars, adding, deductions>>

\* Mutation: a deactivation leaves credit_suspended_at as it is.
DeactivateKeepsMark(m) ==
  /\ status[m] # "absent"
  /\ status' = [status EXCEPT ![m] = "inactive"]
  /\ off' = off \cup {m}
  /\ UNCHANGED <<clock, orderVars, moneyVars, suspended, adding, deductions>>

\* deactivate_team_member
Deactivate(m) ==
  /\ status[m] # "absent"
  /\ status' = [status EXCEPT ![m] = "inactive"]
  /\ suspended' = suspended \ {m}
  /\ off' = off \cup {m}
  /\ UNCHANGED <<clock, orderVars, moneyVars, adding, deductions>>

\* delete_team_member
Delete(m) ==
  /\ status[m] # "absent"
  /\ status' = [status EXCEPT ![m] = "absent"]
  /\ suspended' = suspended \ {m}
  /\ off' = off \ {m}
  /\ UNCHANGED <<clock, orderVars, moneyVars, adding, deductions>>

Tick ==
  /\ clock < MaxTime
  /\ clock' = clock + 1
  /\ UNCHANGED <<orderVars, moneyVars, teamVars, deductions>>

Checkout == \E o \in Orders :
  OpenFunding(o) \/ FinishFunding(o) \/ OpenPackage(o) \/ Pay(o) \/ AttemptFailed(o)

Capture == \E o \in Orders : CaptureRead(o) \/ CaptureCommit(o) \/ CaptureAbort(o)

Team == \E m \in Members :
  AddCheck(m) \/ AddCommit(m) \/ Activate(m) \/ Deactivate(m) \/ Delete(m)

Next == Checkout \/ Capture \/ Team \/ Deduct \/ Sweep \/ Tick

\* The background loop of main.py runs the sweep every hour, errors or not.
Spec == Init /\ [][Next]_vars /\ WF_vars(Sweep)

-----------------------------------------------------------------------------
(***************************************************************************)
(* Properties                                                              *)
(***************************************************************************)

\* Two clicks on "pay" never leave two identical orders to be paid: "two
\* simultaneous clicks can both observe no pending order".
OneOpenCheckout ==
  \A o, p \in Orders :
    /\ order[o] = "created" /\ order[p] = "created"
    /\ Plan[o].kind = "funding" /\ Plan[o] = Plan[p]
    => o = p

\* Each payment, however often it is reported and whatever failed attempts came
\* before it, is credited once and grants its seats once; and nothing is credited
\* that was not paid.
OneGrantPerPayment ==
  \A o \in Orders :
    /\ credited[o] = IF order[o] = "captured" THEN 1 ELSE 0
    /\ credited[o] > 0 => o \in paid
    /\ ent[o].status # "none" <=> (order[o] = "captured" /\ Plan[o].seats > 0)

\* "Only members this function suspended are restored": a member the provider
\* switched off stays off through any sequence of exhaustions and payments.
SwitchedOffStaysOff == \A m \in off : status[m] # "active"

\* "running it late reaches the same state": whatever moved the balance and
\* whichever synchronisation failed, a workspace without credit ends up without
\* an active technician, and one with credit has its suspended ones back.
TeamFollowsCredit ==
  \A m \in Members :
    /\ (balance <= 0 /\ status[m] = "active")
         ~> (balance > 0 \/ status[m] # "active")
    /\ (balance > 0 /\ m \in suspended)
         ~> (balance <= 0 \/ m \notin suspended)
=============================================================================
