---------------------------- MODULE BookingDesk ----------------------------
(***************************************************************************)
(* What the booking desk promises: a booking is made in one step, with     *)
(* everything true at that moment that a careful clerk would look up.  Its *)
(* draft has none yet, its number is its own, the customer has no open     *)
(* booking of the problem (or wants another), and the window it is given   *)
(* has room.  How a confirmation gets there is no part of it.              *)
(***************************************************************************)
EXTENDS Integers, FiniteSets

CONSTANTS Requests,   \* confirmations, each of which may make one booking
          DraftOf,
          Override,   \* made although the customer has an open booking
          Slots,
          Capacity

VARIABLES problem,    \* of each draft
          booking,    \* status of the booking a request made
          number,
          slot,
          given,      \* the calendar had room for it there
          back,       \* brought back after it had ended
          listed      \* bookings the calendar counts

vars == <<problem, booking, number, slot, given, back, listed>>

Made == {b \in Requests : booking[b] # "none"}

\* The visits in window s that the calendar gave it.
Filled(s) == {b \in listed : booking[b] # "cancelled" /\ slot[b] = s /\ given[b]}

\* The desk opens with its books in order.
Init ==
  /\ \A a, b \in Made : a # b => DraftOf[a] # DraftOf[b] /\ number[a] # number[b]
  /\ \A s \in Slots : Cardinality(Filled(s)) <= Capacity[s]

Book(a) ==
  /\ booking[a] = "none"
  /\ \A b \in Made : DraftOf[b] # DraftOf[a] /\ number[b] # number'[a]
  /\ \/ a \in Override
     \/ \A b \in Made : /\ problem[DraftOf[b]] = problem[DraftOf[a]]
                        /\ booking[b] = "active"
                        => back[b]
  /\ given'[a] => \E s \in Slots : slot'[a] = s /\ Cardinality(Filled(s)) < Capacity[s]
  /\ booking' = [booking EXCEPT ![a] = "active"]
  /\ number' = [number EXCEPT ![a] = number'[a]]
  /\ slot' = [slot EXCEPT ![a] = slot'[a]]
  /\ given' = [given EXCEPT ![a] = given'[a]]
  /\ listed' = listed \cup {a}
  /\ UNCHANGED <<problem, back>>

\* The calendar forgets a visit: somebody still writes to its draft.
Forget(b) ==
  /\ listed' = listed \ {b}
  /\ UNCHANGED <<problem, booking, number, slot, given, back>>

Close(b, to) ==
  /\ booking[b] = "active"
  /\ booking' = [booking EXCEPT ![b] = to]
  /\ UNCHANGED <<problem, number, slot, given, back, listed>>

\* It comes back where it was, whoever has the place by now.
Reopen(b) ==
  /\ booking[b] = "cancelled"
  /\ booking' = [booking EXCEPT ![b] = "active"]
  /\ given' = [given EXCEPT ![b] = FALSE]
  /\ back' = [back EXCEPT ![b] = TRUE]
  /\ UNCHANGED <<problem, number, slot, listed>>

\* A visit is given another window; an ended one is thereby brought back.
Move(b, s) ==
  /\ b \in Made
  /\ Cardinality(Filled(s) \ {b}) < Capacity[s]
  /\ booking' = [booking EXCEPT ![b] = "active"]
  /\ back' = [back EXCEPT ![b] = @ \/ booking[b] # "active"]
  /\ slot' = [slot EXCEPT ![b] = s]
  /\ given' = [given EXCEPT ![b] = TRUE]
  /\ UNCHANGED <<problem, number, listed>>

Next == \E b \in Requests :
  \/ Book(b) \/ Forget(b) \/ Reopen(b)
  \/ \E to \in {"completed", "cancelled"} : Close(b, to)
  \/ \E s \in Slots : Move(b, s)

Spec == Init /\ [][Next]_vars
=============================================================================
