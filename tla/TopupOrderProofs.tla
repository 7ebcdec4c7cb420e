-------------------------- MODULE TopupOrderProofs --------------------------
(***************************************************************************)
(* Theorems about top-up orders, for any number of orders, any prices,     *)
(* credits and bonuses, any endpoints and any other spending.              *)
(***************************************************************************)
EXTENDS TopupOrder, TLAPS

\* Only a posted order can carry one of the labels that allow a refund.
LabelledPosted ==
  \A o \in Orders :
    payment[o] \in {"credited", "partially_refunded"} => grants[o] > 0

IInv ==
  /\ TypeOK
  /\ OneGrantPerOrder
  /\ RefundWithinPaid
  /\ LabelledPosted
  /\ CashBackCostsCredit

-----------------------------------------------------------------------------
(***************************************************************************)
(* The rounded share of a refund                                           *)
(***************************************************************************)

\* Rounding a division down preserves order.
LEMMA DivMonotone ==
  ASSUME NEW a \in Int, NEW b \in Int, NEW n \in Nat \ {0}, a <= b
  PROVE  a \div n <= b \div n
  OBVIOUS

LEMMA DivBound ==
  ASSUME NEW a \in Int, NEW q \in Int, NEW n \in Nat \ {0}, a < n * (q + 1), a >= 0
  PROVE  a \div n <= q /\ a \div n \in Nat
  OBVIOUS

LEMMA TotalIsNat == \A o \in Orders : Total(o) \in Nat /\ Price[o] \in Nat \ {0}
  BY OrderAssumption DEF Total

\* A refund of nothing stands for no credits, a full one for all of them, any
\* other for something in between.
LEMMA TargetBounds ==
  ASSUME NEW o \in Orders, NEW r \in Nat
  PROVE  /\ Target(o, r) \in Nat /\ Target(o, r) <= Total(o)
         /\ r = 0 => Target(o, r) = 0
         /\ r >= Price[o] => Target(o, r) = Total(o)
<1>. DEFINE T == Total(o)
            P == Price[o]
            a == 2 * T * r + P
<1>1. T \in Nat /\ P \in Nat \ {0}
  BY TotalIsNat
<1>2. CASE r >= P
  BY <1>1, <1>2 DEF Target
<1>3. CASE r < P
  <2>. HIDE DEF T, P
  <2>1. a \in Int /\ 2 * P \in Nat \ {0} /\ T * r \in Nat /\ T * P \in Nat
    BY <1>1
  <2>2. T * r <= T * P
    BY <1>1, <1>3
  <2>3. a >= 0 /\ (2 * P) * (T + 1) = 2 * (T * P) + 2 * P
        /\ a = 2 * (T * r) + P
    BY <1>1, <2>1
  <2>4. a < (2 * P) * (T + 1)
    BY <1>1, <2>1, <2>2, <2>3
  <2>. HIDE DEF a
  <2>5. a \div (2 * P) <= T /\ a \div (2 * P) \in Nat
    BY <1>1, <2>1, <2>3, <2>4, DivBound
  <2>6. Target(o, r) = a \div (2 * P)
    BY <1>1, <1>3 DEF Target, T, P, a
  <2>7. ASSUME r = 0 PROVE a \div (2 * P) = 0
    <3>1. a = P
      BY <1>1, <2>7 DEF a
    <3>2. P < (2 * P) * (0 + 1) /\ P >= 0
      BY <1>1
    <3>. QED
      BY <1>1, <2>1, <3>1, <3>2, DivBound
  <2>. QED
    BY <1>1, <1>3, <2>5, <2>6, <2>7 DEF T, P
<1>. QED
  BY <1>1, <1>2, <1>3

\* More money back never stands for fewer credits.
LEMMA TargetMonotone ==
  ASSUME NEW o \in Orders, NEW r \in Nat, NEW s \in Nat, r <= s
  PROVE  Target(o, r) <= Target(o, s)
<1>. DEFINE T == Total(o)
            P == Price[o]
<1>1. T \in Nat /\ P \in Nat \ {0}
  BY TotalIsNat
<1>2. CASE s >= P
  BY <1>2, TargetBounds
<1>3. CASE s < P
  <2>1. 2 * T * r + P \in Int /\ 2 * T * s + P \in Int /\ 2 * P \in Nat \ {0}
    BY <1>1
  <2>2. 2 * T * r + P <= 2 * T * s + P
    <3>. HIDE DEF T, P
    <3>1. T * r <= T * s
      BY <1>1
    <3>2. 2 * T * r = 2 * (T * r) /\ 2 * T * s = 2 * (T * s)
      BY <1>1
    <3>. QED
      BY <1>1, <3>1, <3>2
  <2>3. (2 * T * r + P) \div (2 * P) <= (2 * T * s + P) \div (2 * P)
    BY <2>1, <2>2, DivMonotone
  <2>. QED
    BY <1>1, <1>3, <2>3 DEF Target
<1>. QED
  BY <1>1, <1>2, <1>3

\* The quotient is what the division is about: n * q <= a < n * (q + 1).
LEMMA DivExact ==
  ASSUME NEW a \in Nat, NEW n \in Nat \ {0}
  PROVE  /\ a \div n \in Int
         /\ n * (a \div n) <= a
         /\ a < n * (a \div n + 1)
  OBVIOUS

\* The target is the nearest whole number to the exact share.
LEMMA TargetIsFair ==
  ASSUME NEW o \in Orders, NEW r \in Nat, r <= Price[o]
  PROVE  Purchase!FairShare(o, r, Target(o, r))
<1>. DEFINE T == Total(o)
            P == Price[o]
            a == 2 * T * r + P
            c == Target(o, r)
<1>1. T \in Nat /\ P \in Nat \ {0} /\ r <= P
  BY TotalIsNat
<1>0. c \in Nat
  BY TargetBounds
<1>2. (2 * P) * c <= a /\ a < (2 * P) * (c + 1)
  <2>1. CASE r >= P
    <3>1. c = T /\ r = P
      BY <1>1, <2>1, TargetBounds
    <3>. HIDE DEF T, P, c
    <3>2. T * P \in Nat /\ (2 * P) * T = 2 * (T * P) /\ 2 * T * P = 2 * (T * P)
          /\ (2 * P) * (T + 1) = 2 * (T * P) + 2 * P
      BY <1>1
    <3>3. a = 2 * T * P + P
      BY <3>1
    <3>. QED
      BY <1>1, <3>1, <3>2, <3>3
  <2>2. CASE r < P
    <3>1. c = a \div (2 * P)
      BY <1>1, <2>2 DEF Target
    <3>. HIDE DEF T, P, c
    <3>2. a \in Nat /\ 2 * P \in Nat \ {0}
      BY <1>1
    <3>. HIDE DEF a
    <3>. QED
      BY <3>1, <3>2, DivExact
  <2>. QED
    BY <1>1, <2>1, <2>2
<1>3. 2 * P * c = (2 * P) * c /\ 2 * P * (c + 1) = (2 * P) * (c + 1)
  BY <1>0, <1>1
<1>4. 2 * Price[o] * c <= 2 * [p \in Orders |-> Total(p)][o] * r + Price[o]
      /\ 2 * [p \in Orders |-> Total(p)][o] * r + Price[o] < 2 * Price[o] * (c + 1)
  BY <1>2, <1>3
<1>. QED
  BY <1>4 DEF Purchase!FairShare

LEMMA ToRevokeIsNat ==
  ASSUME TypeOK, NEW o \in Orders, NEW amount \in Nat
  PROVE  /\ ToRevoke(o, amount) \in Nat
         /\ Target(o, refunded[o] + amount) = Target(o, refunded[o]) + ToRevoke(o, amount)
<1>1. refunded[o] \in Nat /\ refunded[o] + amount \in Nat
  BY DEF TypeOK
<1>. QED
  BY <1>1, TargetBounds, TargetMonotone DEF ToRevoke

-----------------------------------------------------------------------------
(***************************************************************************)
(* The inductive invariant                                                 *)
(***************************************************************************)

LEMMA InitIInv == Init => IInv
<1>. SUFFICES ASSUME Init PROVE IInv
  OBVIOUS
<1>1. TypeOK
  BY OrderAssumption DEF Init, TypeOK, PaymentStatus
<1>2. OneGrantPerOrder /\ LabelledPosted
  BY DEF Init, OneGrantPerOrder, LabelledPosted
<1>3. RefundWithinPaid
  <2>1. ASSUME NEW o \in Orders PROVE refunded[o] <= Price[o]
    <3>1. Price[o] \in Nat
      BY TotalIsNat
    <3>. QED
      BY <3>1 DEF Init
  <2>. QED
    BY <2>1 DEF RefundWithinPaid
<1>4. CashBackCostsCredit
  BY <1>1, TotalIsNat, TargetBounds DEF Init, CashBackCostsCredit
<1>. QED
  BY <1>1, <1>2, <1>3, <1>4 DEF IInv

\* What any endpoint posts is a number of credits.
LEMMA PostingIsNat ==
  \A o \in Orders, by \in Confirmations : Posting(o, by) \subseteq Nat
  BY OrderAssumption DEF Posting

LEMMA StepTypeOK == TypeOK /\ [Next]_vars => TypeOK'
<1>. SUFFICES ASSUME TypeOK, [Next]_vars PROVE TypeOK'
  OBVIOUS
<1>. USE OrderAssumption DEF TypeOK, Confirmations, Decisions, PaymentStatus,
                             orderVars, moneyVars
<1>1. CASE UNCHANGED vars
  BY <1>1 DEF vars
<1>2. ASSUME NEW o \in Orders,
             Create(o) \/ Pay(o) \/ CancelRead(o) \/ BadSignature(o) \/ FailureRead(o)
      PROVE  TypeOK'
  BY <1>2 DEF Create, Pay, CancelRead, BadSignature, FailureRead
<1>3. ASSUME NEW o \in Orders, NEW by \in Confirmations, ConfirmRead(o, by)
      PROVE  TypeOK'
  BY <1>3 DEF ConfirmRead
<1>4. ASSUME NEW o \in Orders, NEW by \in Confirmations, ConfirmCommit(o, by)
      PROVE  TypeOK'
  <2>1. PICK amount \in Posting(o, by) : Post(o, amount)
    BY <1>4 DEF ConfirmCommit
  <2>2. amount \in Nat
    BY PostingIsNat
  <2>. QED
    BY <1>4, <2>1, <2>2 DEF ConfirmCommit, Post
<1>5. ASSUME NEW o \in Orders, NEW d \in Decisions, LabelCommit(o, d) \/ Abort(o, d)
      PROVE  TypeOK'
  BY <1>5 DEF LabelCommit, Abort
<1>6. ASSUME NEW o \in Orders, RetryPosting(o)
      PROVE  TypeOK'
  BY <1>6, TotalIsNat DEF RetryPosting, Post
<1>7. ASSUME NEW o \in Orders, NEW amount \in 1..Price[o], Refund(o, amount)
      PROVE  TypeOK'
  <2>1. amount \in Nat
    OBVIOUS
  <2>2. ToRevoke(o, amount) \in Nat
    BY <2>1, ToRevokeIsNat
  <2>. QED
    BY <1>7, <2>1, <2>2 DEF Refund
<1>8. ASSUME NEW amount \in Spends, Spend(amount)
      PROVE  TypeOK'
  BY <1>8 DEF Spend
<1>. QED
  BY <1>1, <1>2, <1>3, <1>4, <1>5, <1>6, <1>7, <1>8
  DEF Next, Tenant, Confirming, Admin

\* Whoever posts, and whatever amount, the order has one row afterwards.
LEMMA PostFacts ==
  ASSUME IInv, NEW o \in Orders, NEW amount, Post(o, amount)
  PROVE  /\ OneGrantPerOrder'
         /\ grants'[o] > 0
         /\ \A p \in Orders : grants[p] > 0 => grants'[p] > 0
  BY DEF IInv, TypeOK, OneGrantPerOrder, Post

LEMMA StepIInv == IInv /\ [Next]_vars => IInv'
<1>. SUFFICES ASSUME IInv, [Next]_vars PROVE IInv'
  OBVIOUS
<1>t. TypeOK /\ TypeOK'
  BY StepTypeOK DEF IInv
<1>. SUFFICES (OneGrantPerOrder /\ RefundWithinPaid /\ LabelledPosted /\ CashBackCostsCredit)'
  BY <1>t DEF IInv
\* A step that posts or refunds nothing and gives no order a label of a posted one.
<1>q. ASSUME UNCHANGED <<grants, refunded, revoked>>,
             \A o \in Orders : \/ payment'[o] = payment[o]
                               \/ payment'[o] \in {"initiated", "failed", "cancelled"}
      PROVE  (OneGrantPerOrder /\ RefundWithinPaid /\ LabelledPosted /\ CashBackCostsCredit)'
  BY <1>q DEF IInv, OneGrantPerOrder, RefundWithinPaid, LabelledPosted,
              CashBackCostsCredit, Target, Total
\* A step that posts an order's credits, and labels it so.
<1>p. ASSUME NEW o \in Orders, NEW amount, Post(o, amount),
             payment' = [payment EXCEPT ![o] = "credited"],
             UNCHANGED <<refunded, revoked>>
      PROVE  (OneGrantPerOrder /\ RefundWithinPaid /\ LabelledPosted /\ CashBackCostsCredit)'
  <2>1. /\ OneGrantPerOrder'
        /\ grants'[o] > 0
        /\ \A p \in Orders : grants[p] > 0 => grants'[p] > 0
    BY <1>p, PostFacts
  <2>2. RefundWithinPaid' /\ CashBackCostsCredit'
    BY <1>p, <2>1 DEF IInv, RefundWithinPaid, CashBackCostsCredit, Target, Total
  <2>3. LabelledPosted'
    BY <1>p, <1>t, <2>1 DEF IInv, TypeOK, LabelledPosted, Total
  <2>. QED
    BY <2>1, <2>2, <2>3
<1>1. CASE UNCHANGED vars
  BY <1>1, <1>q DEF vars
<1>2. ASSUME NEW o \in Orders,
             Create(o) \/ Pay(o) \/ CancelRead(o) \/ BadSignature(o) \/ FailureRead(o)
      PROVE  (OneGrantPerOrder /\ RefundWithinPaid /\ LabelledPosted /\ CashBackCostsCredit)'
  BY <1>2, <1>t, <1>q DEF TypeOK, Create, Pay, CancelRead, BadSignature, FailureRead,
                          orderVars, moneyVars
<1>3. ASSUME NEW o \in Orders, NEW by \in Confirmations, ConfirmRead(o, by)
      PROVE  (OneGrantPerOrder /\ RefundWithinPaid /\ LabelledPosted /\ CashBackCostsCredit)'
  BY <1>3, <1>q DEF ConfirmRead, orderVars, moneyVars
<1>4. ASSUME NEW o \in Orders, NEW by \in Confirmations, ConfirmCommit(o, by)
      PROVE  (OneGrantPerOrder /\ RefundWithinPaid /\ LabelledPosted /\ CashBackCostsCredit)'
  BY <1>4, <1>p DEF ConfirmCommit
<1>5. ASSUME NEW o \in Orders, NEW d \in Decisions, LabelCommit(o, d) \/ Abort(o, d)
      PROVE  (OneGrantPerOrder /\ RefundWithinPaid /\ LabelledPosted /\ CashBackCostsCredit)'
  BY <1>5, <1>t, <1>q DEF TypeOK, LabelCommit, Abort, orderVars, moneyVars
<1>6. ASSUME NEW o \in Orders, RetryPosting(o)
      PROVE  (OneGrantPerOrder /\ RefundWithinPaid /\ LabelledPosted /\ CashBackCostsCredit)'
  BY <1>6, <1>p DEF RetryPosting
<1>7. ASSUME NEW o \in Orders, NEW amount \in 1..Price[o], Refund(o, amount)
      PROVE  (OneGrantPerOrder /\ RefundWithinPaid /\ LabelledPosted /\ CashBackCostsCredit)'
  <2>1. amount \in Nat /\ Price[o] \in Nat /\ refunded[o] \in Nat /\ revoked[o] \in Nat
    BY <1>t, TotalIsNat DEF TypeOK
  <2>2. /\ ToRevoke(o, amount) \in Nat
        /\ Target(o, refunded[o] + amount) = Target(o, refunded[o]) + ToRevoke(o, amount)
    BY <1>t, <2>1, ToRevokeIsNat
  <2>3. /\ refunded' = [refunded EXCEPT ![o] = refunded[o] + amount]
        /\ refunded[o] + amount <= Price[o]
        /\ UNCHANGED grants
        /\ grants[o] > 0
    BY <1>7 DEF Refund, WithinPaid, IInv, LabelledPosted
  <2>4. revoked' = [revoked EXCEPT ![o] = revoked[o] + ToRevoke(o, amount)]
    BY <1>7, <1>t, <2>1, <2>2 DEF Refund, TypeOK
  <2>5. OneGrantPerOrder' /\ RefundWithinPaid'
    BY <2>1, <2>3, <1>t DEF TypeOK, IInv, OneGrantPerOrder, RefundWithinPaid
  <2>6. LabelledPosted'
    BY <1>7, <2>3, <1>t DEF TypeOK, IInv, LabelledPosted, Refund, Total
  <2>7. ASSUME NEW p \in Orders
        PROVE  /\ revoked'[p] = Target(p, refunded'[p])
               /\ refunded'[p] = Price[p] => revoked'[p] = Total(p)
               /\ refunded'[p] > 0 => grants'[p] > 0
    <3>1. CASE p = o
      <4>1. revoked'[o] = Target(o, refunded[o] + amount) /\ refunded'[o] = refunded[o] + amount
        BY <2>2, <2>3, <2>4, <1>t DEF TypeOK, IInv, CashBackCostsCredit
      <4>2. refunded[o] + amount = Price[o] => Target(o, refunded[o] + amount) = Total(o)
        BY <2>1, TargetBounds
      <4>. QED
        BY <3>1, <4>1, <4>2, <2>3
    <3>2. CASE p # o
      BY <3>2, <2>3, <2>4, <1>t DEF TypeOK, IInv, CashBackCostsCredit
    <3>. QED
      BY <3>1, <3>2
  <2>. QED
    BY <2>5, <2>6, <2>7 DEF CashBackCostsCredit, Target, Total
<1>8. ASSUME NEW amount \in Spends, Spend(amount)
      PROVE  (OneGrantPerOrder /\ RefundWithinPaid /\ LabelledPosted /\ CashBackCostsCredit)'
  BY <1>8, <1>q DEF Spend, orderVars
<1>. QED
  BY <1>1, <1>2, <1>3, <1>4, <1>5, <1>6, <1>7, <1>8
  DEF Next, Tenant, Confirming, Admin

-----------------------------------------------------------------------------
(***************************************************************************)
(* Theorems                                                                *)
(***************************************************************************)

LEMMA IInvHolds == Spec => []IInv
  BY InitIInv, StepIInv, PTL DEF Spec

\* The columns of an order and the balance keep their types, a late write of any
\* request included.
THEOREM TypeCorrect == Spec => []TypeOK
<1>1. IInv => TypeOK
  BY DEF IInv
<1>. QED
  BY <1>1, IInvHolds, PTL

\* The credits of an order are posted once, however many confirmations, retries
\* and relabelled orders there are (grant_topup_credit's key).
THEOREM CreditsPostedOnce == Spec => []OneGrantPerOrder
<1>1. IInv => OneGrantPerOrder
  BY DEF IInv
<1>. QED
  BY <1>1, IInvHolds, PTL

\* No sequence of refunds returns more than was paid (refund_topup's cap).
THEOREM RefundsWithinPayment == Spec => []RefundWithinPaid
<1>1. IInv => RefundWithinPaid
  BY DEF IInv
<1>. QED
  BY <1>1, IInvHolds, PTL

\* Whatever the price and the rounding, partial refunds add up to the share of
\* the order's recorded credits the money stands for (refund_topup's cumulative
\* target), whatever amount the confirmation posted.
THEOREM CashBackTakesCredit == Spec => []CashBackCostsCredit
<1>1. IInv => CashBackCostsCredit
  BY DEF IInv
<1>. QED
  BY <1>1, IInvHolds, PTL

-----------------------------------------------------------------------------
(***************************************************************************)
(* The orders implement the plain purchase                                 *)
(***************************************************************************)

\* What the abstract purchase sees of a step that posts and refunds nothing.
LEMMA NothingShows ==
  ASSUME UNCHANGED <<grants, refunded, revoked, balance>>
  PROVE  UNCHANGED Purchase!vars
  BY DEF Purchase!vars

\* A posting, by a confirmation or a retry, is the sale of the order, or shows
\* nothing when the order's row is there already.
LEMMA PostIsSale ==
  ASSUME IInv, NEW o \in Orders, UNCHANGED <<refunded, revoked>>,
         NEW amount \in Packages \cup {Credits[o], Total(o)}, Post(o, amount)
  PROVE  [Purchase!Next]_Purchase!vars
<1>1. CASE grants[o] = 0
  <2>1. {p \in Orders : grants[p] > 0}' = {p \in Orders : grants[p] > 0} \cup {o}
    BY <1>1 DEF Post, IInv, TypeOK
  <2>2. o \notin {p \in Orders : grants[p] > 0}
    BY <1>1
  <2>3. balance' = balance + amount
    BY <1>1 DEF Post
  <2>4. Purchase!Sell(o, amount)
    BY <2>1, <2>2, <2>3 DEF Purchase!Sell
  <2>5. amount \in [p \in Orders |-> Packages \cup {Credits[p], Total(p)}][o]
    OBVIOUS
  <2>. QED
    BY <2>4, <2>5 DEF Purchase!Next
<1>2. CASE grants[o] # 0
  BY <1>2, NothingShows DEF Post
<1>. QED
  BY <1>1, <1>2

\* A refund returns money and the nearest whole share of the credits.
LEMMA RefundIsReturn ==
  ASSUME IInv, NEW o \in Orders, NEW amount \in 1..Price[o], Refund(o, amount)
  PROVE  Purchase!Next
<1>. DEFINE c == Target(o, refunded[o] + amount)
<1>1. amount \in Nat /\ refunded[o] \in Nat /\ revoked[o] \in Nat /\ balance \in Int
      /\ Price[o] \in Nat /\ refunded[o] + amount \in Nat
  BY TotalIsNat DEF IInv, TypeOK
<1>2. ToRevoke(o, amount) \in Nat /\ c = revoked[o] + ToRevoke(o, amount)
  BY <1>1, ToRevokeIsNat DEF IInv, CashBackCostsCredit
<1>3. c \in Nat /\ c <= Total(o) /\ Total(o) \in Nat
  BY <1>1, TargetBounds, TotalIsNat
<1>4. o \in {p \in Orders : grants[p] > 0}
  BY DEF Refund, IInv, LabelledPosted
<1>5. refunded[o] + amount <= Price[o]
  BY DEF Refund, WithinPaid
<1>6. Purchase!FairShare(o, refunded[o] + amount, c)
  BY <1>1, <1>5, TargetIsFair
<1>7. /\ refunded' = [refunded EXCEPT ![o] = @ + amount]
      /\ {p \in Orders : grants[p] > 0}' = {p \in Orders : grants[p] > 0}
  BY DEF Refund
<1>8. /\ revoked' = [revoked EXCEPT ![o] = c]
      /\ balance' = balance - (c - revoked[o])
      /\ c > revoked[o] => balance' >= 0
  <2>. HIDE DEF c
  <2>1. CASE ToRevoke(o, amount) > 0
    BY <1>1, <1>2, <2>1 DEF Refund, Affordable
  <2>2. CASE ~(ToRevoke(o, amount) > 0)
    <3>1. c = revoked[o]
      BY <1>1, <1>2, <2>2
    <3>2. UNCHANGED <<revoked, balance>>
      BY <2>2 DEF Refund
    <3>. QED
      BY <1>1, <3>1, <3>2 DEF IInv, TypeOK
  <2>. QED
    BY <2>1, <2>2
<1>9. Purchase!Return(o, amount, c)
  <2>. HIDE DEF c
  <2>. QED
    BY <1>4, <1>5, <1>6, <1>7, <1>8 DEF Purchase!Return
<1>10. c \in revoked[o]..[p \in Orders |-> Total(p)][o]
  <2>. HIDE DEF c
  <2>. QED
    BY <1>1, <1>2, <1>3
<1>. HIDE DEF c
<1>. QED
  BY <1>9, <1>10 DEF Purchase!Next

LEMMA StepIsPurchase == IInv /\ [Next]_vars => [Purchase!Next]_Purchase!vars
<1>. SUFFICES ASSUME IInv, [Next]_vars PROVE [Purchase!Next]_Purchase!vars
  OBVIOUS
<1>1. CASE UNCHANGED vars
  BY <1>1, NothingShows DEF vars
<1>2. ASSUME NEW o \in Orders,
             Create(o) \/ Pay(o) \/ CancelRead(o) \/ BadSignature(o) \/ FailureRead(o)
      PROVE  [Purchase!Next]_Purchase!vars
  BY <1>2, NothingShows DEF Create, Pay, CancelRead, BadSignature, FailureRead, moneyVars
<1>3. ASSUME NEW o \in Orders, NEW by \in Confirmations, ConfirmRead(o, by)
      PROVE  [Purchase!Next]_Purchase!vars
  BY <1>3, NothingShows DEF ConfirmRead, moneyVars
<1>4. ASSUME NEW o \in Orders, NEW by \in Confirmations, ConfirmCommit(o, by)
      PROVE  [Purchase!Next]_Purchase!vars
  <2>1. PICK amount \in Posting(o, by) : Post(o, amount)
    BY <1>4 DEF ConfirmCommit
  <2>2. amount \in Packages \cup {Credits[o], Total(o)}
    BY DEF Posting
  <2>. QED
    BY <1>4, <2>1, <2>2, PostIsSale DEF ConfirmCommit
<1>5. ASSUME NEW o \in Orders, NEW d \in Decisions, LabelCommit(o, d) \/ Abort(o, d)
      PROVE  [Purchase!Next]_Purchase!vars
  BY <1>5, NothingShows DEF LabelCommit, Abort, moneyVars
<1>6. ASSUME NEW o \in Orders, RetryPosting(o)
      PROVE  [Purchase!Next]_Purchase!vars
  BY <1>6, PostIsSale DEF RetryPosting
<1>7. ASSUME NEW o \in Orders, NEW amount \in 1..Price[o], Refund(o, amount)
      PROVE  [Purchase!Next]_Purchase!vars
  BY <1>7, RefundIsReturn
<1>8. ASSUME NEW amount \in Spends, Spend(amount)
      PROVE  [Purchase!Next]_Purchase!vars
  <2>1. amount \in Nat /\ balance \in Int
    BY OrderAssumption DEF IInv, TypeOK
  <2>2. /\ balance > 0 /\ balance' \in Int /\ balance' <= balance
        /\ UNCHANGED <<grants, refunded, revoked>>
    BY <1>8, <2>1 DEF Spend
  <2>3. Purchase!Spend
    BY <2>2 DEF Purchase!Spend
  <2>. QED
    BY <2>3 DEF Purchase!Next
<1>. QED
  BY <1>1, <1>2, <1>3, <1>4, <1>5, <1>6, <1>7, <1>8
  DEF Next, Tenant, Confirming, Admin

\* Top-up orders with all their endpoints, labels, races, retries and refunds are
\* a purchase credited once, by an amount one of its endpoints posts, and returned
\* by rounded shares of what the order records: for any prices, credits, bonuses,
\* packages and orders.
THEOREM OrdersImplementPurchase == Spec => ImplementsPurchase
<1>1. Init => Purchase!Init
  BY DEF Init, Purchase!Init
<1>. QED
  BY <1>1, StepIsPurchase, IInvHolds, PTL DEF Spec, Purchase!Spec, ImplementsPurchase
=============================================================================
