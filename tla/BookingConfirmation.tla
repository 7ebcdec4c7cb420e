------------------------ MODULE BookingConfirmation ------------------------
(***************************************************************************)
(* Confirming a home-service draft, and the provider's calendar.           *)
(*                                                                         *)
(* A confirmation is a long transaction: it marks the draft ready (and     *)
(* commits), looks for an earlier confirmation, takes the lock of this     *)
(* customer and problem, counts the bookings of the day for a number,      *)
(* inserts the booking, takes the provider's capacity lock, picks the      *)
(* slot, and commits.  Taps are repeated, two customers want one slot, and *)
(* the draft is still being edited.  Afterwards visits are cancelled,      *)
(* reopened and moved.                                                     *)
(*                                                                         *)
(* PostgreSQL runs at READ COMMITTED: a query sees what was committed      *)
(* before it.  An advisory lock and a row of a unique index are held to    *)
(* the end of the transaction.  A booking is named by the attempt that     *)
(* made it; booking and job are one, as JobLifecycle shows they stay in    *)
(* step.                                                                   *)
(***************************************************************************)
EXTENDS Integers, FiniteSets

CONSTANTS Drafts,
          Attempts,       \* confirmations sent, repeated taps included
          DraftOf,        \* the draft each of them confirms
          Problems,       \* choices of customer and problem for the drafts
          Override,       \* attempts sent with allow_duplicate
          Slots,          \* bookable windows of one provider and day, 1 first
          Capacity,       \* places in each of them
          DailyLimit,     \* places on the day
          Offer,          \* the slot the customer picked for a draft, or NoSlot
          Existing,       \* attempts whose booking is there from the start
          Edits,          \* bound: <<draft, status>> that edits write
          Closable,       \* bound: bookings that are closed and reopened
          Movable,        \* bound: bookings whose visit is moved
          MaxDay          \* bound: days the run goes on

VARIABLES problem,    \* customer and selected_problem_id of each draft
          draft,      \* HomeServiceBookingDraft.status
          editing,    \* <<draft, status>>: read while open, about to be written
          pc,         \* where an attempt is
          known,      \* the draft's status as the attempt holds it
          day,        \* the date of the booking number
          number,     \* booking number: the date, and the count within it
          booking,    \* status of the booking an attempt made
          slot,       \* scheduled window of its job
          checked,    \* the calendar had room for it when it was placed there
          reopened,   \* brought back after it had ended
          proposal    \* slot of the pending provider reschedule request

confirmVars == <<pc, known, number>>
visitVars   == <<booking, slot, checked, reopened>>
contextVars   == <<problem, day>>
vars        == <<contextVars, draft, editing, confirmVars, visitVars, proposal>>

NoSlot == 0

\* "open" is every status before ready_for_confirmation.
OpenStatuses == {"open", "ready"}

InFlight == {"marking", "final", "looked_up", "unique", "numbered", "inserted", "placed"}

NoNumber == <<0, 0>>

ASSUME BookingAssumption ==
  /\ IsFiniteSet(Attempts)
  /\ DraftOf \in [Attempts -> Drafts]
  /\ Override \subseteq Attempts
  /\ Slots \subseteq Nat \ {NoSlot}
  /\ Capacity \in [Slots -> Nat]
  /\ Offer \in [Drafts -> Slots \cup {NoSlot}]
  /\ DailyLimit \in Nat /\ MaxDay \in Nat \ {0}
  /\ Edits \subseteq Drafts \X {"open", "cancelled"}
  /\ Closable \subseteq Attempts /\ Movable \subseteq Attempts
  /\ Existing \subseteq Attempts
  /\ \A a, b \in Existing : a = b
  /\ \A a \in Existing :
       /\ Offer[DraftOf[a]] \in Slots
       /\ Capacity[Offer[DraftOf[a]]] > 0

TypeOK ==
  /\ problem \in Problems
  /\ draft \in [Drafts -> {"open", "ready", "confirmed", "cancelled"}]
  /\ editing \subseteq Drafts \X {"open", "cancelled"}
  /\ pc \in [Attempts -> InFlight \cup {"new", "done"}]
  /\ known \in [Attempts -> {"open", "ready", "confirmed", "cancelled"}]
  /\ day \in 1..MaxDay
  /\ number \in [Attempts -> Nat \X Nat]
  /\ booking \in [Attempts -> {"none", "active", "completed", "cancelled"}]
  /\ slot \in [Attempts -> Slots \cup {NoSlot}]
  /\ checked \in [Attempts -> BOOLEAN]
  /\ reopened \in [Attempts -> BOOLEAN]
  /\ proposal \in [Attempts -> Slots \cup {NoSlot}]

Init ==
  /\ problem \in Problems
  /\ draft = [d \in Drafts |->
       IF \E a \in Existing : DraftOf[a] = d THEN "confirmed" ELSE "open"]
  /\ editing = {}
  /\ pc = [a \in Attempts |-> IF a \in Existing THEN "done" ELSE "new"]
  /\ known = [a \in Attempts |-> "open"]
  /\ day = 1
  /\ number = [a \in Attempts |-> IF a \in Existing THEN <<1, 1>> ELSE NoNumber]
  /\ booking = [a \in Attempts |-> IF a \in Existing THEN "active" ELSE "none"]
  /\ slot = [a \in Attempts |-> IF a \in Existing THEN Offer[DraftOf[a]] ELSE NoSlot]
  /\ checked = [a \in Attempts |-> a \in Existing]
  /\ reopened = [a \in Attempts |-> FALSE]
  /\ proposal = [a \in Attempts |-> NoSlot]

-----------------------------------------------------------------------------
(***************************************************************************)
(* Locks and the calendar                                                  *)
(***************************************************************************)

Committed == {a \in Attempts : booking[a] # "none"}

\* Attempts that hold the lock of their customer and problem, those whose booking
\* row is inserted and not committed, and the one with the capacity lock.
Serialized == {a \in Attempts : pc[a] \in {"unique", "numbered", "inserted", "placed"}}
Uncommitted == {a \in Attempts : pc[a] \in {"inserted", "placed"}}
CapacityFree == \A a \in Attempts : pc[a] # "placed"

SameProblem(a, b) == problem[DraftOf[a]] = problem[DraftOf[b]]

\* The unique indexes on booking_number and on draft_id.
Clashes(a, b) == number[a] = number[b] \/ DraftOf[a] = DraftOf[b]

\* _booked_counts: visits on the calendar.  A visit whose draft is not
\* "confirmed" is not counted.
OnCalendar ==
  {b \in Committed : booking[b] # "cancelled" /\ draft[DraftOf[b]] = "confirmed"}

Booked(s, others) == Cardinality({b \in OnCalendar \cap others : slot[b] = s})

\* slot_has_capacity and _daily_remaining, without the visits outside others.
HasRoom(s, others) ==
  /\ Cardinality({b \in OnCalendar \cap others : slot[b] # NoSlot}) < DailyLimit
  /\ Booked(s, others) < Capacity[s]

-----------------------------------------------------------------------------
(***************************************************************************)
(* Confirming                                                              *)
(***************************************************************************)

Goto(a, where) == pc' = [pc EXCEPT ![a] = where]

\* An answer without a booking: the transaction is rolled back, its locks go.
\* What the attempt remembers is cleared once it is of no more use.
End(a) ==
  /\ Goto(a, "done")
  /\ known' = [known EXCEPT ![a] = "open"]
  /\ number' = [number EXCEPT ![a] = NoNumber]
  /\ UNCHANGED <<contextVars, draft, editing, visitVars, proposal>>

\* The draft is read.  confirm_home_service_booking goes on with it as it is;
\* confirm_draft first marks it ready, unless it is confirmed.
Open(a) ==
  /\ pc[a] = "new"
  /\ known' = [known EXCEPT ![a] = draft[DraftOf[a]]]
  /\ \/ Goto(a, "final")
     \/ draft[DraftOf[a]] # "confirmed" /\ Goto(a, "marking")
  /\ UNCHANGED <<contextVars, draft, editing, number, visitVars, proposal>>

\* mark_ready_for_confirmation, from the status read above: a status that does
\* not change is not written.
MarkReady(a) ==
  /\ pc[a] = "marking"
  /\ known[a] \in OpenStatuses
  /\ draft' = IF known[a] = "ready" THEN draft
              ELSE [draft EXCEPT ![DraftOf[a]] = "ready"]
  /\ known' = [known EXCEPT ![a] = "ready"]
  /\ Goto(a, "final")
  /\ UNCHANGED <<contextVars, editing, number, visitVars, proposal>>

\* The draft is closed or a check of mark_ready_for_confirmation fails.
MarkRefused(a) == pc[a] = "marking" /\ End(a)

\* finalize: a draft confirmed before is answered with its booking.
Lookup(a) ==
  /\ pc[a] = "final"
  /\ \A b \in Committed : DraftOf[b] # DraftOf[a]
  /\ known[a] = "ready"
  /\ Goto(a, "looked_up")
  /\ UNCHANGED <<contextVars, draft, editing, known, number, visitVars, proposal>>

AnswerExisting(a) ==
  /\ pc[a] = "final"
  /\ \E b \in Committed : DraftOf[b] = DraftOf[a]
  /\ End(a)

NotReady(a) ==
  /\ pc[a] = "final"
  /\ \A b \in Committed : DraftOf[b] # DraftOf[a]
  /\ known[a] # "ready"
  /\ End(a)

OpenTwin(a) == \E b \in Committed : SameProblem(a, b) /\ booking[b] = "active"

\* Mutation: the open bookings of this problem are read without its lock.
CheckUnlocked(a) ==
  /\ pc[a] = "looked_up"
  /\ a \in Override \/ ~OpenTwin(a)
  /\ Goto(a, "unique")
  /\ UNCHANGED <<contextVars, draft, editing, known, number, visitVars, proposal>>

\* The lock of the customer and problem, and the search for an open booking of it.
CheckUnique(a) ==
  /\ pc[a] = "looked_up"
  /\ \A b \in Serialized : ~SameProblem(a, b)
  /\ a \in Override \/ ~OpenTwin(a)
  /\ Goto(a, "unique")
  /\ UNCHANGED <<contextVars, draft, editing, known, number, visitVars, proposal>>

\* DUPLICATE_ACTIVE_BOOKING
AnswerDuplicate(a) ==
  /\ pc[a] = "looked_up"
  /\ \A b \in Serialized : ~SameProblem(a, b)
  /\ a \notin Override
  /\ OpenTwin(a)
  /\ End(a)

\* The count of the day's bookings, after further checks of the draft.
Number(a) ==
  /\ pc[a] = "unique"
  /\ number' = [number EXCEPT ![a] =
                   <<day, 1 + Cardinality({b \in Committed : number[b][1] = day})>>]
  /\ Goto(a, "numbered")
  /\ UNCHANGED <<contextVars, draft, editing, known, visitVars, proposal>>

\* Mutation: the bookings table has no unique index.
InsertUnindexed(a) ==
  /\ pc[a] = "numbered"
  /\ Goto(a, "inserted")
  /\ UNCHANGED <<contextVars, draft, editing, known, number, visitVars, proposal>>

\* The insert waits for an uncommitted row that clashes with it.
Insert(a) ==
  /\ pc[a] = "numbered"
  /\ \A b \in Uncommitted \cup Committed : ~Clashes(a, b)
  /\ Goto(a, "inserted")
  /\ UNCHANGED <<contextVars, draft, editing, known, number, visitVars, proposal>>

\* Mutation: a number that is taken is tried again and again.
NeverFails(a) == FALSE /\ End(a)

\* It fails on a committed one.
InsertFails(a) ==
  /\ pc[a] = "numbered"
  /\ \A b \in Uncommitted : ~Clashes(a, b)
  /\ \E b \in Committed : Clashes(a, b)
  /\ End(a)

\* find_earliest_slot
Earliest(S) == CHOOSE s \in S : \A t \in S : s <= t

\* Mutation: the decision on the slot is not serialized.
PlaceUnlocked(a) ==
  LET room == {s \in Slots : HasRoom(s, Attempts)}
      want == Offer[DraftOf[a]]
  IN  /\ pc[a] = "inserted"
      /\ slot' = [slot EXCEPT ![a] = IF room = {} \/ want \in room THEN want
                                     ELSE Earliest(room)]
      /\ checked' = [checked EXCEPT ![a] = room # {}]
      /\ Goto(a, "placed")
      /\ UNCHANGED <<contextVars, draft, editing, known, number, booking, reopened, proposal>>

\* The promised slot if it still has room, else the earliest that has; with no
\* room at all the visit keeps the preferred slot and waits for a person.
Place(a) ==
  LET room == {s \in Slots : HasRoom(s, Attempts)}
      want == Offer[DraftOf[a]]
  IN  /\ pc[a] = "inserted"
      /\ CapacityFree
      /\ slot' = [slot EXCEPT ![a] = IF room = {} \/ want \in room THEN want
                                     ELSE Earliest(room)]
      /\ checked' = [checked EXCEPT ![a] = room # {}]
      /\ Goto(a, "placed")
      /\ UNCHANGED <<contextVars, draft, editing, known, number, booking, reopened, proposal>>

\* Mutation: the draft is left as it was.
CommitWithoutDraft(a) ==
  /\ pc[a] = "placed"
  /\ booking' = [booking EXCEPT ![a] = "active"]
  /\ Goto(a, "done")
  /\ known' = [known EXCEPT ![a] = "open"]
  /\ UNCHANGED <<contextVars, draft, editing, number, slot, checked, reopened, proposal>>

\* Booking, job, draft and confirmation are committed together.
Commit(a) ==
  /\ pc[a] = "placed"
  /\ booking' = [booking EXCEPT ![a] = "active"]
  /\ draft' = [draft EXCEPT ![DraftOf[a]] = "confirmed"]
  /\ Goto(a, "done")
  /\ known' = [known EXCEPT ![a] = "open"]
  /\ UNCHANGED <<contextVars, editing, number, slot, checked, reopened, proposal>>

\* A later check fails, or the request dies before it commits.
Abort(a) ==
  /\ pc[a] \in InFlight
  /\ Goto(a, "done")
  /\ known' = [known EXCEPT ![a] = "open"]
  /\ number' = [number EXCEPT ![a] = NoNumber]
  /\ slot' = [slot EXCEPT ![a] = NoSlot]
  /\ checked' = [checked EXCEPT ![a] = FALSE]
  /\ UNCHANGED <<contextVars, draft, editing, booking, reopened, proposal>>

Confirm(a) ==
  \/ Open(a) \/ MarkReady(a) \/ MarkRefused(a) \/ Lookup(a) \/ AnswerExisting(a)
  \/ NotReady(a) \/ CheckUnique(a) \/ AnswerDuplicate(a) \/ Number(a) \/ Insert(a) \/ InsertFails(a)
  \/ Place(a) \/ Commit(a)

-----------------------------------------------------------------------------
(***************************************************************************)
(* Editing and cancelling a draft                                          *)
(***************************************************************************)

\* update_draft_fields and cancel_draft read the draft, refuse a closed one, and
\* write its status later.
EditRead(d, to) ==
  /\ draft[d] \in OpenStatuses
  /\ editing' = editing \cup {<<d, to>>}
  /\ UNCHANGED <<contextVars, draft, confirmVars, visitVars, proposal>>

EditWrite(d, to) ==
  /\ <<d, to>> \in editing
  /\ editing' = editing \ {<<d, to>>}
  /\ draft' = [draft EXCEPT ![d] = to]
  /\ UNCHANGED <<contextVars, confirmVars, visitVars, proposal>>

-----------------------------------------------------------------------------
(***************************************************************************)
(* The visit afterwards                                                    *)
(***************************************************************************)

\* The job is completed or cancelled.
Close(b, to) ==
  /\ booking[b] = "active"
  /\ booking' = [booking EXCEPT ![b] = to]
  /\ UNCHANGED <<contextVars, draft, editing, confirmVars, slot, checked, reopened, proposal>>

\* override_status brings a cancelled job back where it was; the calendar is not
\* asked.
Reopen(b) ==
  /\ booking[b] = "cancelled"
  /\ booking' = [booking EXCEPT ![b] = "active"]
  /\ checked' = [checked EXCEPT ![b] = FALSE]
  /\ reopened' = [reopened EXCEPT ![b] = TRUE]
  /\ UNCHANGED <<contextVars, draft, editing, confirmVars, slot, proposal>>

MoveTo(b, s) ==
  /\ CapacityFree
  /\ HasRoom(s, Attempts \ {b})
  /\ slot' = [slot EXCEPT ![b] = s]
  /\ checked' = [checked EXCEPT ![b] = TRUE]

\* customer_reschedule_booking
Reschedule(b, s) ==
  /\ booking[b] = "active"
  /\ MoveTo(b, s)
  /\ UNCHANGED <<contextVars, draft, editing, confirmVars, booking, reopened, proposal>>

\* mark_scheduled, for a job that has no slot.
FirstSlot(b, s) ==
  /\ booking[b] = "active"
  /\ slot[b] = NoSlot
  /\ MoveTo(b, s)
  /\ UNCHANGED <<contextVars, draft, editing, confirmVars, booking, reopened, proposal>>

\* Mutation: the request keeps where the window ends.
ProposeEnd(b, s) ==
  /\ booking[b] = "active"
  /\ slot[b] \notin {NoSlot, s}
  /\ CapacityFree
  /\ HasRoom(s, Attempts \ {b})
  /\ proposal' = [proposal EXCEPT ![b] = s + 1]
  /\ UNCHANGED <<contextVars, draft, editing, confirmVars, visitVars>>

\* create_request: a provider asks for another slot; it replaces an earlier ask.
\* The limits on how often a visit is moved are left out: they only stop moves.
Propose(b, s) ==
  /\ booking[b] = "active"
  /\ slot[b] \notin {NoSlot, s}
  /\ CapacityFree
  /\ HasRoom(s, Attempts \ {b})
  /\ proposal' = [proposal EXCEPT ![b] = s]
  /\ UNCHANGED <<contextVars, draft, editing, confirmVars, visitVars>>

\* decide_request, approve.  The job is not looked at: a closed one comes back.
Approve(b) ==
  /\ proposal[b] # NoSlot
  /\ MoveTo(b, proposal[b])
  /\ booking' = [booking EXCEPT ![b] = "active"]
  /\ reopened' = [reopened EXCEPT ![b] = @ \/ booking[b] # "active"]
  /\ proposal' = [proposal EXCEPT ![b] = NoSlot]
  /\ UNCHANGED <<contextVars, draft, editing, confirmVars>>

\* decide_request when the customer says no, the slot is gone, or the request has
\* expired.
Decline(b) ==
  /\ proposal[b] # NoSlot
  /\ proposal' = [proposal EXCEPT ![b] = NoSlot]
  /\ UNCHANGED <<contextVars, draft, editing, confirmVars, visitVars>>

Midnight ==
  /\ day < MaxDay
  /\ day' = day + 1
  /\ UNCHANGED <<problem, draft, editing, confirmVars, visitVars, proposal>>

-----------------------------------------------------------------------------
Drafting == \E e \in Edits : EditRead(e[1], e[2]) \/ EditWrite(e[1], e[2])

Visiting ==
  \/ \E b \in Closable :
       Reopen(b) \/ \E to \in {"completed", "cancelled"} : Close(b, to)
  \/ \E b \in Movable :
       \/ Approve(b) \/ Decline(b)
       \/ \E s \in Slots : Reschedule(b, s) \/ FirstSlot(b, s) \/ Propose(b, s)

Next == (\E a \in Attempts : Confirm(a) \/ Abort(a)) \/ Drafting \/ Visiting \/ Midnight

\* Some request that can go on goes on: there are finitely many, so no stronger
\* promise of the locks to those who wait is needed.
Fairness == WF_vars(\E a \in Attempts : Confirm(a))

Spec == Init /\ [][Next]_vars /\ Fairness

-----------------------------------------------------------------------------
(***************************************************************************)
(* Properties                                                              *)
(***************************************************************************)

\* However often and from wherever a draft is confirmed, it becomes one booking,
\* and no two bookings share a number.
OneBookingPerDraft ==
  \A a, b \in Committed : a # b => ~Clashes(a, b)

\* A customer has two open bookings for one problem only if one of them was
\* confirmed with the customer's consent (or was brought back after it had
\* ended): repeated taps, two drafts and two devices included.
OneOpenBookingPerProblem ==
  \A a, b \in Committed :
    (a # b /\ SameProblem(a, b) /\ booking[a] = "active" /\ booking[b] = "active"
       /\ ~reopened[a] /\ ~reopened[b])
    => a \in Override \/ b \in Override

\* The visits on the calendar that were given their slot by it fit in it, over
\* confirmations, cancellations and moves at the same time.
CalendarWithinCapacity ==
  \A s \in Slots : Cardinality({b \in OnCalendar : slot[b] = s /\ checked[b]}) <= Capacity[s]

\* The same of every visit that will be made.  A draft whose status is written by
\* a request that read it before it was confirmed drops its visit from the
\* calendar, and the place is given away again.
VisitsWithinCapacity ==
  \A s \in Slots :
    Cardinality({b \in Committed : booking[b] # "cancelled" /\ slot[b] = s /\ checked[b]})
      <= Capacity[s]

\* Every confirmation is answered: nobody waits for ever for a lock or an index.
EveryConfirmIsAnswered ==
  []<>(\A a \in Attempts : pc[a] \notin InFlight)

\* What others see of a row: nothing before its transaction commits.
Visible(column, nothing) ==
  [a \in Attempts |-> IF booking[a] = "none" THEN nothing ELSE column[a]]

Bookings == INSTANCE BookingDesk WITH
  Requests <- Attempts,
  number   <- Visible(number, NoNumber),
  slot     <- Visible(slot, NoSlot),
  given    <- Visible(checked, FALSE),
  back     <- reopened,
  listed   <- {b \in Committed : draft[DraftOf[b]] = "confirmed"}

\* Read, checked, numbered and placed in a dozen steps that others interleave
\* with, a confirmation is nevertheless atomic: its commit is a step of the desk,
\* with every check still true, and its other steps cannot be seen.
ConfirmsAtomically == Bookings!Spec
=============================================================================
