----------------------------- MODULE TopupOrder -----------------------------
(***************************************************************************)
(* Credit top-up orders (table credit_topup_orders): a tenant opens a      *)
(* gateway checkout, the payment is confirmed by the browser and by the    *)
(* webhook, the tenant may dismiss the checkout, an administrator may      *)
(* retry the posting or refund the money.                                  *)
(*                                                                         *)
(* Confirmations and the cancellation read the order row WITHOUT a lock    *)
(* and write it at commit, so each is two steps here: what was read, then  *)
(* the commit of what was decided from it.  Retry and refund hold the row  *)
(* lock from their read to their commit and are one step; so is the        *)
(* posting itself, which locks the balance (module UsageCreditLedger) and  *)
(* is identified by a key per order.                                       *)
(***************************************************************************)
EXTENDS Integers

CONSTANTS Orders,
          Price,       \* amount_paid, by order
          Credits,     \* credits_purchased, by order
          Bonus,       \* bonus_credits, by order
          Packages,    \* credits, bonus included, of the packages now on sale
          Endpoints,   \* bound: the confirmations tried, by order
          Opening,     \* the tenant's balance before the first order
          Spends       \* amounts other operations take from the balance

VARIABLES payment,     \* payment_status, "none" before the order is opened
          wallet,      \* wallet_credit_status
          captured,    \* orders the gateway holds the money of
          grants,      \* ledger rows under the key topup_credit_grant:{order}:1
          refunded,    \* refunded_amount
          revoked,     \* credits the refunds took back
          pending,     \* <<order, decision>> of requests that have read, not committed
          balance      \* tenant_billing.credit_balance

vars == <<payment, wallet, captured, grants, refunded, revoked, pending,
          balance>>

orderVars  == <<payment, wallet>>
moneyVars  == <<grants, refunded, revoked, balance>>

\* confirm_topup_payment of the tenant finance hub, by browser and by webhook;
\* confirm_purchase of platform commerce.
Confirmations == {"hub_browser", "hub_webhook", "commerce"}
Decisions     == Confirmations \cup {"failed", "cancelled"}

PaymentStatus == {"none", "initiated", "failed", "cancelled", "credited",
                  "partially_refunded", "refunded"}

ASSUME OrderAssumption ==
  /\ Price \in [Orders -> Nat \ {0}]
  /\ Credits \in [Orders -> Nat \ {0}]
  /\ Bonus \in [Orders -> Nat]
  /\ Packages \subseteq Nat
  /\ Endpoints \in [Orders -> SUBSET Confirmations]
  /\ Opening \in Int
  /\ Spends \subseteq Nat

\* What the order itself says it is worth: the retry posts it and the refund
\* takes it back, bonus included.
Total(o) == Credits[o] + Bonus[o]

\* What a confirmation may post.  The tenant hub leaves the bonus out, also of an
\* order that was sold with one; platform commerce posts the package its request
\* names, at what that package gives now, without a look at the order.
Posting(o, by) == IF by = "commerce" THEN Packages ELSE {Credits[o]}

TypeOK ==
  /\ payment \in [Orders -> PaymentStatus]
  /\ wallet \in [Orders -> {"pending", "credited"}]
  /\ captured \subseteq Orders
  /\ grants \in [Orders -> Nat]
  /\ refunded \in [Orders -> Nat]
  /\ revoked \in [Orders -> Nat]
  /\ pending \subseteq Orders \X Decisions
  /\ balance \in Int

Init ==
  /\ payment  = [o \in Orders |-> "none"]
  /\ wallet   = [o \in Orders |-> "pending"]
  /\ captured = {}
  /\ grants   = [o \in Orders |-> 0]
  /\ refunded = [o \in Orders |-> 0]
  /\ revoked  = [o \in Orders |-> 0]
  /\ pending  = {}
  /\ balance  = Opening

-----------------------------------------------------------------------------
(***************************************************************************)
(* The tenant                                                              *)
(***************************************************************************)

Create(o) ==
  /\ payment[o] = "none"
  /\ payment' = [payment EXCEPT ![o] = "initiated"]
  /\ UNCHANGED <<wallet, captured, moneyVars, pending>>

\* The gateway takes the money.  It knows nothing of payment_status: a checkout
\* left open pays an order that has been cancelled or marked failed.
Pay(o) ==
  /\ payment[o] # "none"
  /\ o \notin captured
  /\ captured' = captured \cup {o}
  /\ UNCHANGED <<orderVars, moneyVars, pending>>

\* cancel_topup up to its early return: anything but "initiated" is left alone.
CancelRead(o) ==
  /\ payment[o] = "initiated"
  /\ pending' = pending \cup {<<o, "cancelled">>}
  /\ UNCHANGED <<orderVars, captured, moneyVars>>

\* An outcome that moves no money: the label is written whatever it is by now.
LabelCommit(o, d) ==
  /\ <<o, d>> \in pending
  /\ d \in {"failed", "cancelled"}
  /\ payment' = [payment EXCEPT ![o] = d]
  /\ pending' = pending \ {<<o, d>>}
  /\ UNCHANGED <<wallet, captured, moneyVars>>

-----------------------------------------------------------------------------
(***************************************************************************)
(* Confirmation                                                            *)
(***************************************************************************)

\* A signature that does not verify fails the order before anything else is
\* looked at, a credited order included.  (platform commerce raises instead,
\* and its label is rolled back.)
BadSignature(o) ==
  /\ payment[o] # "none"
  /\ payment' = [payment EXCEPT ![o] = "failed"]
  /\ UNCHANGED <<wallet, captured, moneyVars, pending>>

\* The webhook reports an attempt that was not captured.
FailureRead(o) ==
  /\ payment[o] \notin {"none", "credited"}
  /\ pending' = pending \cup {<<o, "failed">>}
  /\ UNCHANGED <<orderVars, captured, moneyVars>>

\* The early return of each endpoint for an order it takes to be done.
TakenAsDone(o, by) ==
  IF by = "commerce" THEN wallet[o] = "credited" ELSE payment[o] = "credited"

\* Every endpoint finds the order by its gateway id, whoever opened it.
ConfirmRead(o, by) ==
  /\ payment[o] # "none"
  /\ by \in Endpoints[o]
  /\ o \in captured
  /\ ~TakenAsDone(o, by)
  /\ pending' = pending \cup {<<o, by>>}
  /\ UNCHANGED <<orderVars, captured, moneyVars>>

\* Mutation: the posting is not looked up under its key.
PostAgain(o, amount) ==
  /\ grants'  = [grants EXCEPT ![o] = @ + 1]
  /\ balance' = balance + amount

\* grant_topup_credit: a row under the order's key makes it a no-op.
Post(o, amount) ==
  IF grants[o] = 0
  THEN /\ grants'  = [grants EXCEPT ![o] = 1]
       /\ balance' = balance + amount
  ELSE UNCHANGED <<grants, balance>>

\* The posting and both labels, in one transaction.
ConfirmCommit(o, by) ==
  /\ <<o, by>> \in pending
  /\ by \in Confirmations
  /\ \E amount \in Posting(o, by) : Post(o, amount)
  /\ payment' = [payment EXCEPT ![o] = "credited"]
  /\ wallet'  = [wallet EXCEPT ![o] = "credited"]
  /\ pending' = pending \ {<<o, by>>}
  /\ UNCHANGED <<captured, refunded, revoked>>

\* The process dies, or the database refuses: nothing of it is written.
Abort(o, d) ==
  /\ <<o, d>> \in pending
  /\ pending' = pending \ {<<o, d>>}
  /\ UNCHANGED <<orderVars, captured, moneyVars>>

-----------------------------------------------------------------------------
(***************************************************************************)
(* The administrator                                                       *)
(***************************************************************************)

\* Mutation: the retry stops at the status that announces the posting.
RetryParks(o) ==
  /\ wallet[o] # "credited"
  /\ payment[o] = "failed"
  /\ Post(o, Total(o))
  /\ payment' = [payment EXCEPT ![o] = "paid_pending_credit"]
  /\ UNCHANGED <<wallet, captured, refunded, revoked, pending>>

\* retry_credit_posting: for a payment that failed after the money was taken.
\* (paid_pending_credit, the other status it accepts, is never committed.)
RetryPosting(o) ==
  /\ wallet[o] # "credited"
  /\ payment[o] = "failed"
  /\ Post(o, Total(o))
  /\ payment' = [payment EXCEPT ![o] = "credited"]
  /\ wallet'  = [wallet EXCEPT ![o] = "credited"]
  /\ UNCHANGED <<captured, refunded, revoked, pending>>

\* The credits a cumulative refund of r stands for, rounded half up.
Target(o, r) ==
  IF r >= Price[o] THEN Total(o)
  ELSE (2 * Total(o) * r + Price[o]) \div (2 * Price[o])

\* Mutation: each refund revokes its own rounded share.
ShareOnly(o, amount) ==
  Target(o, amount) - Target(o, 0)

ToRevoke(o, amount) ==
  Target(o, refunded[o] + amount) - Target(o, refunded[o])

WithinPaid(o, amount) ==
  /\ refunded[o] < Price[o]
  /\ refunded[o] + amount <= Price[o]

\* Mutation: the refund does not ask what is left of the credits.
AlwaysAffordable(o, amount) == TRUE

Affordable(o, amount) ==
  ToRevoke(o, amount) > 0 => balance >= ToRevoke(o, amount)

\* refund_topup: refused outright when the balance cannot give the credits back.
Refund(o, amount) ==
  /\ payment[o] \in {"credited", "partially_refunded"}
  /\ WithinPaid(o, amount)
  /\ Affordable(o, amount)
  /\ refunded' = [refunded EXCEPT ![o] = @ + amount]
  /\ IF ToRevoke(o, amount) > 0
     THEN /\ revoked' = [revoked EXCEPT ![o] = @ + ToRevoke(o, amount)]
          /\ balance' = balance - ToRevoke(o, amount)
     ELSE UNCHANGED <<revoked, balance>>
  /\ payment' = [payment EXCEPT ![o] =
       IF refunded'[o] >= Price[o] THEN "refunded" ELSE "partially_refunded"]
  /\ UNCHANGED <<wallet, captured, grants, pending>>

-----------------------------------------------------------------------------
\* Everything else that moves the balance, see UsageCreditLedger.
Spend(amount) ==
  /\ balance > 0
  /\ balance' = balance - amount
  /\ UNCHANGED <<orderVars, captured, grants, refunded, revoked, pending>>

Tenant ==
  \E o \in Orders : Create(o) \/ Pay(o) \/ CancelRead(o) \/ BadSignature(o)

Confirming ==
  \E o \in Orders :
    \/ FailureRead(o)
    \/ \E by \in Confirmations : ConfirmRead(o, by) \/ ConfirmCommit(o, by)
    \/ \E d \in Decisions : LabelCommit(o, d) \/ Abort(o, d)

Admin ==
  \E o \in Orders :
    \/ RetryPosting(o)
    \/ \E amount \in 1..Price[o] : Refund(o, amount)

Next == Tenant \/ Confirming \/ Admin \/ (\E amount \in Spends : Spend(amount))

Spec == Init /\ [][Next]_vars

-----------------------------------------------------------------------------
(***************************************************************************)
(* Properties                                                              *)
(***************************************************************************)

\* However often a payment is confirmed, by whichever endpoints, and whatever
\* label a cancellation, a failed attempt, a refund or a retry left on the order
\* in between, its credits are posted once.
OneGrantPerOrder == \A o \in Orders : grants[o] <= 1

\* The money returned on an order never exceeds the money paid for it, also when
\* a late confirmation has turned a refunded order back into a credited one.
RefundWithinPaid == \A o \in Orders : refunded[o] <= Price[o]

\* Money is returned only on an order whose credits were posted, and what the
\* refunds took back is exactly the share of the credits the order records,
\* bonus included, that the money returned stands for, over any sequence of
\* partial refunds.  (What was posted may have been less, or more: see Posting.)
CashBackCostsCredit ==
  \A o \in Orders :
    /\ revoked[o] = Target(o, refunded[o])
    /\ refunded[o] = Price[o] => revoked[o] = Total(o)
    /\ refunded[o] > 0 => grants[o] > 0

Purchase == INSTANCE CreditPurchase WITH
  Worth    <- [o \in Orders |-> Total(o)],
  Postings <- [o \in Orders |-> Packages \cup {Credits[o], Total(o)}],
  sold     <- {o \in Orders : grants[o] > 0},
  returned <- refunded,
  taken    <- revoked

\* Seen from the tenant's money and credits, every order is a plain purchase:
\* whatever is confirmed twice, dismissed late, retried or relabelled, each step
\* credits one order for the first time, with one of the amounts its endpoints
\* post, or returns money with the nearest whole number of the credits the order
\* records for it, or cannot be told from nothing.
ImplementsPurchase == Purchase!Spec
=============================================================================
