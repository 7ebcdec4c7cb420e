--------------------------- MODULE CreditPurchase ---------------------------
(***************************************************************************)
(* What buying credits promises.  An order is credited once, with one of   *)
(* the amounts the endpoints post for it; money handed back takes credits  *)
(* with it, as many as the order records for it to the nearest whole       *)
(* credit however the refunds are split, and only credits the balance      *)
(* still has.  Confirmations, labels and retries are no part of it: none   *)
(* of them may show.                                                       *)
(***************************************************************************)
EXTENDS Integers

CONSTANTS Orders,
          Price,     \* money paid for each order
          Worth,     \* credits the order records, a bonus included
          Postings,  \* amounts its crediting may post
          Opening

VARIABLES sold,      \* orders credited
          returned,  \* money handed back, by order
          taken,     \* credits taken back, by order
          balance

vars == <<sold, returned, taken, balance>>

Init == /\ sold = {}
        /\ returned = [o \in Orders |-> 0]
        /\ taken = [o \in Orders |-> 0]
        /\ balance = Opening

Sell(o, amount) ==
  /\ o \notin sold
  /\ sold' = sold \cup {o}
  /\ balance' = balance + amount
  /\ UNCHANGED <<returned, taken>>

\* c credits are what `money` bought, to the nearest whole, a half counting up:
\* Worth * money / Price - 1/2 < c <= Worth * money / Price + 1/2.
FairShare(o, money, c) ==
  /\ 2 * Price[o] * c <= 2 * Worth[o] * money + Price[o]
  /\ 2 * Worth[o] * money + Price[o] < 2 * Price[o] * (c + 1)

Return(o, money, c) ==
  /\ o \in sold
  /\ returned[o] + money <= Price[o]
  /\ FairShare(o, returned[o] + money, c)
  /\ returned' = [returned EXCEPT ![o] = @ + money]
  /\ taken' = [taken EXCEPT ![o] = c]
  /\ balance' = balance - (c - taken[o])
  /\ c > taken[o] => balance' >= 0
  /\ UNCHANGED sold

\* The balance is used for other things; nothing starts from an empty one.
Spend ==
  /\ balance > 0
  /\ balance' \in Int /\ balance' <= balance
  /\ UNCHANGED <<sold, returned, taken>>

Next ==
  \/ \E o \in Orders :
       \/ \E amount \in Postings[o] : Sell(o, amount)
       \/ \E money \in 1..Price[o], c \in taken[o]..Worth[o] : Return(o, money, c)
  \/ Spend

Spec == Init /\ [][Next]_vars
=============================================================================
