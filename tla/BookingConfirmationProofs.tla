--------------------- MODULE BookingConfirmationProofs ---------------------
(***************************************************************************)
(* Theorems about confirmations and the calendar, for any drafts, repeated *)
(* attempts, problems, slots, capacities and offers, and any edits and     *)
(* moves at the same time.                                                 *)
(***************************************************************************)
EXTENDS BookingConfirmation, FiniteSetTheorems, WellFoundedInduction, TLAPS

\* An attempt that is not answered yet has made no booking, and only a booking
\* that was made has a proposal.
PcInv ==
  \A a \in Attempts :
    /\ booking[a] # "none" => pc[a] = "done"
    /\ proposal[a] # NoSlot => booking[a] # "none"

\* The unique indexes: no two rows clash, whether they are committed or not.
Rows == Uncommitted \cup Committed

IndexInv == \A a, b \in Rows : a # b => ~Clashes(a, b)

\* The lock of the problem: one attempt at a time has it, and what it saw when it
\* took it still holds.
ProblemLockInv ==
  \A a \in Serialized :
    /\ \A b \in Serialized : a # b => ~SameProblem(a, b)
    /\ \A b \in Committed :
         (a \notin Override /\ SameProblem(a, b) /\ booking[b] = "active") => reopened[b]

\* The visits that were given slot s by the calendar and are on it.
Held(s) == {b \in OnCalendar : slot[b] = s /\ checked[b]}

\* The capacity lock: one attempt at a time has it, and the room it found is
\* still there.
CapacityLockInv ==
  \A a \in Attempts : pc[a] = "placed" =>
    /\ \A b \in Attempts : pc[b] = "placed" => a = b
    /\ checked[a] => \E s \in Slots : slot[a] = s /\ Cardinality(Held(s)) < Capacity[s]

IInv ==
  /\ TypeOK
  /\ PcInv
  /\ IndexInv
  /\ ProblemLockInv
  /\ OneOpenBookingPerProblem

-----------------------------------------------------------------------------
(***************************************************************************)
(* Counting                                                                *)
(***************************************************************************)

LEMMA AttemptsFinite ==
  ASSUME NEW S \in SUBSET Attempts
  PROVE  IsFiniteSet(S) /\ Cardinality(S) \in Nat
  BY BookingAssumption, FS_Subset, FS_CardinalityType

LEMMA FewerVisits ==
  ASSUME NEW S \in SUBSET Attempts, NEW T \in SUBSET S
  PROVE  Cardinality(T) <= Cardinality(S) /\ Cardinality(S) \in Nat /\ Cardinality(T) \in Nat
  BY AttemptsFinite, FS_Subset

\* The earliest of some slots is one of them.
LEMMA EarliestIsOne ==
  ASSUME NEW S \in SUBSET Slots, S # {}
  PROVE  Earliest(S) \in S
<1>. DEFINE R == OpToRel(<, Nat)
<1>1. IsWellFoundedOn(R, Nat)
  BY NatLessThanWellFounded
<1>2. S \subseteq Nat
  BY BookingAssumption
<1>3. \E x \in S : \A y \in S : <<y, x>> \notin R
  <2>. HIDE DEF R
  <2>. QED
    BY <1>1, <1>2, WFMin
<1>4. PICK x \in S : \A y \in S : <<y, x>> \notin R
  BY <1>3
<1>5. ASSUME NEW y \in S PROVE x <= y
  <2>1. x \in Nat /\ y \in Nat
    BY <1>2
  <2>2. R = {ss \in Nat \X Nat : ss[1] < ss[2]}
    BY Zenon DEF OpToRel
  <2>3. y < x => <<y, x>> \in {ss \in Nat \X Nat : ss[1] < ss[2]}
    BY <2>1
  <2>. HIDE DEF R
  <2>4. ~(y < x)
    BY <1>4, <2>2, <2>3
  <2>. QED
    BY <2>1, <2>4
<1>. QED
  BY <1>5 DEF Earliest

-----------------------------------------------------------------------------
(***************************************************************************)
(* Types                                                                   *)
(***************************************************************************)

\* The ways a confirmation ends without a booking.
Answered(a) ==
  MarkRefused(a) \/ AnswerExisting(a) \/ NotReady(a) \/ AnswerDuplicate(a) \/ InsertFails(a)

\* Its steps before the booking row is inserted.
Preparing(a) == Open(a) \/ MarkReady(a) \/ Lookup(a) \/ CheckUnique(a) \/ Number(a)

\* Steps on a visit that leave its slot alone, and those that give it one.
Settling(b) ==
  Decline(b) \/ Reopen(b) \/ (\E s \in Slots : Propose(b, s))
  \/ \E to \in {"completed", "cancelled"} : Close(b, to)

Moving(b) == Approve(b) \/ \E s \in Slots : Reschedule(b, s) \/ FirstSlot(b, s)

LEMMA AnsweredEnds ==
  ASSUME NEW a \in Attempts, Answered(a)
  PROVE  End(a) /\ pc[a] \in InFlight
  BY DEF Answered, MarkRefused, AnswerExisting, NotReady, AnswerDuplicate, InsertFails, InFlight

LEMMA NextSplit ==
  ASSUME [Next]_vars
  PROVE  \/ UNCHANGED vars
         \/ \E a \in Attempts : Answered(a)
         \/ \E a \in Attempts : Preparing(a)
         \/ \E a \in Attempts : Insert(a)
         \/ \E a \in Attempts : Place(a)
         \/ \E a \in Attempts : Commit(a)
         \/ \E a \in Attempts : Abort(a)
         \/ \E e \in Edits : EditRead(e[1], e[2])
         \/ \E e \in Edits : EditWrite(e[1], e[2])
         \/ \E b \in Attempts : Settling(b)
         \/ \E b \in Attempts : Moving(b)
         \/ Midnight
  BY BookingAssumption
  DEF Next, Confirm, Drafting, Visiting, Answered, Preparing, Settling, Moving

\* A visit is moved to a slot the calendar offered.
LEMMA MovingMoves ==
  ASSUME TypeOK, NEW b \in Attempts, Moving(b)
  PROVE  /\ \E s \in Slots : MoveTo(b, s)
         /\ booking' \in [Attempts -> {"none", "active", "completed", "cancelled"}]
         /\ proposal[b] = NoSlot => booking' = booking /\ reopened' = reopened
  BY DEF Moving, Approve, Reschedule, FirstSlot, TypeOK

LEMMA StepTypeOK == TypeOK /\ [Next]_vars => TypeOK'
<1>. SUFFICES ASSUME TypeOK, [Next]_vars PROVE TypeOK'
  OBVIOUS
<1>n. NoNumber \in Nat \X Nat
  BY DEF NoNumber
<1>. USE <1>n DEF TypeOK, contextVars, confirmVars, visitVars, InFlight, Goto
<1>1. CASE UNCHANGED vars
  BY <1>1 DEF vars
<1>2. ASSUME NEW a \in Attempts, Answered(a) PROVE TypeOK'
  <2>1. End(a)
    BY <1>2, AnsweredEnds
  <2>. QED
    BY <2>1 DEF End
<1>3. ASSUME NEW a \in Attempts, Preparing(a) PROVE TypeOK'
  <2>1. DraftOf[a] \in Drafts
    BY BookingAssumption
  <2>2. CASE Number(a)
    <3>. DEFINE n == Cardinality({b \in Committed : number[b][1] = day})
    <3>1. n \in Nat
      BY AttemptsFinite DEF Committed
    <3>2. <<day, 1 + n>> \in Nat \X Nat
      BY <3>1, BookingAssumption
    <3>. HIDE DEF n
    <3>3. number' = [number EXCEPT ![a] = <<day, 1 + n>>]
      BY <2>2 DEF Number, n
    <3>. QED
      BY <2>2, <3>2, <3>3 DEF Number
  <2>3. CASE Open(a) \/ MarkReady(a) \/ Lookup(a) \/ CheckUnique(a)
    <3>1. CASE Open(a)
      BY <2>1, <3>1 DEF Open
    <3>2. CASE MarkReady(a)
      BY <2>1, <3>2 DEF MarkReady
    <3>3. CASE Lookup(a)
      BY <3>3 DEF Lookup
    <3>4. CASE CheckUnique(a)
      BY <3>4 DEF CheckUnique
    <3>. QED
      BY <2>3, <3>1, <3>2, <3>3, <3>4
  <2>. QED
    BY <1>3, <2>2, <2>3 DEF Preparing
<1>4. ASSUME NEW a \in Attempts, Insert(a) PROVE TypeOK'
  BY <1>4 DEF Insert
<1>5. ASSUME NEW a \in Attempts, Place(a) PROVE TypeOK'
  <2>. DEFINE room == {s \in Slots : HasRoom(s, Attempts)}
              to == IF room = {} \/ Offer[DraftOf[a]] \in room THEN Offer[DraftOf[a]]
                    ELSE Earliest(room)
  <2>0. Offer[DraftOf[a]] \in Slots \cup {NoSlot} /\ room \subseteq Slots
    BY BookingAssumption
  <2>1. to \in Slots \cup {NoSlot}
    <3>. HIDE DEF room
    <3>1. room # {} => Earliest(room) \in room
      BY <2>0, EarliestIsOne
    <3>. QED
      BY <2>0, <3>1
  <2>2. slot' = [slot EXCEPT ![a] = to] /\ checked' = [checked EXCEPT ![a] = (room # {})]
    BY <1>5 DEF Place
  <2>. HIDE DEF room, to
  <2>. QED
    BY <1>5, <2>1, <2>2 DEF Place
<1>6. ASSUME NEW a \in Attempts, Commit(a) PROVE TypeOK'
  BY <1>6, BookingAssumption DEF Commit
<1>7. ASSUME NEW a \in Attempts, Abort(a) PROVE TypeOK'
  BY <1>7 DEF Abort
<1>8. ASSUME NEW e \in Edits, EditRead(e[1], e[2]) \/ EditWrite(e[1], e[2]) PROVE TypeOK'
  <2>1. e[1] \in Drafts /\ e[2] \in {"open", "cancelled"}
    BY BookingAssumption
  <2>2. CASE EditRead(e[1], e[2])
    <3>1. <<e[1], e[2]>> \in Drafts \X {"open", "cancelled"}
      BY <2>1
    <3>. QED
      BY <2>2, <3>1 DEF EditRead
  <2>3. CASE EditWrite(e[1], e[2])
    BY <2>1, <2>3 DEF EditWrite
  <2>. QED
    BY <1>8, <2>2, <2>3
<1>9. ASSUME NEW b \in Attempts, Settling(b) PROVE TypeOK'
  <2>1. CASE Decline(b)
    BY <2>1 DEF Decline, NoSlot
  <2>2. CASE Reopen(b)
    BY <2>2 DEF Reopen
  <2>3. ASSUME NEW s \in Slots, Propose(b, s) PROVE TypeOK'
    BY <2>3 DEF Propose
  <2>4. ASSUME NEW to \in {"completed", "cancelled"}, Close(b, to) PROVE TypeOK'
    BY <2>4 DEF Close
  <2>. QED
    BY <1>9, <2>1, <2>2, <2>3, <2>4 DEF Settling
<1>10. ASSUME NEW b \in Attempts, Moving(b) PROVE TypeOK'
  <2>1. CASE Approve(b)
    BY <2>1 DEF Approve, MoveTo
  <2>2. ASSUME NEW s \in Slots, Reschedule(b, s) \/ FirstSlot(b, s) PROVE TypeOK'
    BY <2>2 DEF Reschedule, FirstSlot, MoveTo
  <2>. QED
    BY <1>10, <2>1, <2>2 DEF Moving
<1>11. CASE Midnight
  BY <1>11, BookingAssumption DEF Midnight
<1>. QED
  BY <1>1, <1>2, <1>3, <1>4, <1>5, <1>6, <1>7, <1>8, <1>9, <1>10, <1>11, NextSplit

-----------------------------------------------------------------------------
(***************************************************************************)
(* One booking per draft, one open booking per problem                     *)
(***************************************************************************)

LEMMA InitIInv == Init => IInv
<1>. SUFFICES ASSUME Init PROVE IInv
  OBVIOUS
<1>1. TypeOK
  <2>1. <<1, 1>> \in Nat \X Nat /\ NoNumber \in Nat \X Nat
    BY DEF NoNumber
  <2>2. number \in [Attempts -> Nat \X Nat]
    BY <2>1 DEF Init
  <2>3. /\ slot \in [Attempts -> Slots \cup {NoSlot}]
        /\ proposal \in [Attempts -> Slots \cup {NoSlot}]
    BY BookingAssumption DEF Init
  <2>4. checked \in [Attempts -> BOOLEAN] /\ reopened \in [Attempts -> BOOLEAN]
    BY DEF Init
  <2>. QED
    BY <2>2, <2>3, <2>4, BookingAssumption DEF Init, TypeOK, InFlight
<1>2. Committed = Existing /\ Uncommitted = {} /\ Serialized = {}
  BY BookingAssumption DEF Init, Committed, Uncommitted, Serialized
<1>3. PcInv
  BY BookingAssumption DEF Init, PcInv
<1>4. IndexInv /\ ProblemLockInv /\ OneOpenBookingPerProblem
  BY <1>2, BookingAssumption DEF IndexInv, Rows, ProblemLockInv, OneOpenBookingPerProblem
<1>. QED
  BY <1>1, <1>3, <1>4 DEF IInv

\* Steps that insert and commit nothing keep the indexes as they are.
LEMMA NoNewRow ==
  ASSUME IndexInv, Rows' \subseteq Rows, \A x \in Rows' : number'[x] = number[x]
  PROVE  IndexInv'
  BY DEF IndexInv, Clashes

\* Steps that take no lock of a problem, commit nothing and bring back nothing
\* without saying so keep what the locks protect.
LEMMA NoNewLock ==
  ASSUME ProblemLockInv, OneOpenBookingPerProblem, problem' = problem,
         Serialized' \subseteq Serialized, Committed' = Committed,
         \A b \in Committed :
           /\ reopened[b] => reopened'[b]
           /\ booking'[b] = "active" => booking[b] = "active" \/ reopened'[b]
  PROVE  ProblemLockInv' /\ OneOpenBookingPerProblem'
<1>1. ProblemLockInv'
  BY DEF ProblemLockInv, SameProblem
<1>2. OneOpenBookingPerProblem'
  BY DEF OneOpenBookingPerProblem, SameProblem
<1>. QED
  BY <1>1, <1>2

LEMMA StepIInv == IInv /\ [Next]_vars => IInv'
<1>. SUFFICES ASSUME IInv, [Next]_vars PROVE IInv'
  OBVIOUS
<1>t. TypeOK /\ TypeOK'
  BY StepTypeOK DEF IInv
<1>. USE DEF IInv, contextVars, confirmVars, visitVars, Goto
<1>1. CASE UNCHANGED vars
  <2>1. PcInv' /\ Rows' = Rows /\ Serialized' = Serialized /\ Committed' = Committed
    BY <1>1 DEF vars, PcInv, Rows, Serialized, Committed, Uncommitted
  <2>. QED
    BY <1>1, <1>t, <2>1, NoNewRow, NoNewLock DEF vars
<1>2. ASSUME NEW a \in Attempts, Answered(a) \/ Abort(a) PROVE IInv'
  <2>1. /\ pc[a] \in InFlight /\ pc' = [pc EXCEPT ![a] = "done"]
        /\ number' = [number EXCEPT ![a] = NoNumber]
        /\ UNCHANGED <<problem, booking, reopened, proposal>>
    BY <1>2, AnsweredEnds DEF End, Abort
  <2>2. PcInv'
    BY <2>1, <1>t DEF PcInv, TypeOK, InFlight
  <2>3. a \notin Rows' /\ Rows' \subseteq Rows
    BY <2>1, <1>t DEF PcInv, Rows, Committed, Uncommitted, TypeOK, InFlight
  <2>4. Serialized' \subseteq Serialized /\ Committed' = Committed
    BY <2>1, <1>t DEF Serialized, Committed, TypeOK
  <2>5. IndexInv'
    <3>1. \A x \in Rows' : number'[x] = number[x]
      BY <2>1, <2>3, <1>t DEF TypeOK
    <3>. QED
      BY <2>3, <3>1, NoNewRow
  <2>6. ProblemLockInv' /\ OneOpenBookingPerProblem'
    BY <2>1, <2>4, NoNewLock
  <2>. QED
    BY <1>t, <2>2, <2>5, <2>6
<1>3. ASSUME NEW a \in Attempts, Preparing(a) PROVE IInv'
  <2>1. /\ pc[a] \in {"new", "marking", "final", "looked_up", "unique"}
        /\ \E to \in {"marking", "final", "looked_up", "unique", "numbered"} :
             pc' = [pc EXCEPT ![a] = to]
        /\ \A x \in Attempts \ {a} : number'[x] = number[x]
        /\ UNCHANGED <<problem, booking, reopened, proposal>>
    BY <1>3, <1>t DEF Preparing, Open, MarkReady, Lookup, CheckUnique, Number, TypeOK
  <2>2. PcInv' /\ a \notin Rows' /\ Rows' \subseteq Rows
    BY <2>1, <1>t DEF PcInv, Rows, Committed, Uncommitted, TypeOK
  <2>3. IndexInv'
    BY <2>1, <2>2, NoNewRow DEF Rows, Committed, Uncommitted
  <2>4. Committed' = Committed
    BY <2>1 DEF Committed
  <2>5. ProblemLockInv' /\ OneOpenBookingPerProblem'
    <3>1. CASE CheckUnique(a)
      <4>1. Serialized' = Serialized \cup {a}
        BY <3>1, <1>t DEF CheckUnique, Serialized, TypeOK
      <4>2. /\ \A b \in Serialized : ~SameProblem(a, b)
            /\ a \in Override \/ \A b \in Committed : ~(SameProblem(a, b) /\ booking[b] = "active")
        BY <3>1 DEF CheckUnique, OpenTwin
      <4>3. ProblemLockInv'
        BY <4>1, <4>2, <2>1, <2>4 DEF ProblemLockInv, SameProblem
      <4>4. OneOpenBookingPerProblem'
        BY <2>1, <2>4 DEF OneOpenBookingPerProblem, SameProblem
      <4>. QED
        BY <4>3, <4>4
    <3>2. CASE Open(a) \/ MarkReady(a) \/ Lookup(a) \/ Number(a)
      <4>1. Serialized' \subseteq Serialized
        BY <3>2, <1>t DEF Open, MarkReady, Lookup, Number, Serialized, TypeOK
      <4>. QED
        BY <4>1, <2>1, <2>4, NoNewLock
    <3>. QED
      BY <1>3, <3>1, <3>2 DEF Preparing
  <2>. QED
    BY <1>t, <2>2, <2>3, <2>5
<1>4. ASSUME NEW a \in Attempts, Insert(a) PROVE IInv'
  <2>1. Rows' = Rows \cup {a} /\ Serialized' = Serialized /\ Committed' = Committed
    BY <1>4, <1>t DEF Insert, Rows, Committed, Uncommitted, Serialized, TypeOK
  <2>2. PcInv'
    BY <1>4, <1>t DEF Insert, PcInv, TypeOK
  <2>3. IndexInv'
    BY <1>4, <2>1 DEF Insert, IndexInv, Rows, Clashes
  <2>4. ProblemLockInv' /\ OneOpenBookingPerProblem'
    BY <1>4, <2>1, NoNewLock DEF Insert
  <2>. QED
    BY <1>t, <2>2, <2>3, <2>4
<1>5. ASSUME NEW a \in Attempts, Place(a) PROVE IInv'
  <2>1. /\ pc[a] = "inserted" /\ pc' = [pc EXCEPT ![a] = "placed"]
        /\ UNCHANGED <<problem, number, booking, reopened, proposal>>
    BY <1>5 DEF Place
  <2>2. Rows' = Rows /\ Serialized' = Serialized /\ Committed' = Committed
    BY <2>1, <1>t DEF Rows, Committed, Uncommitted, Serialized, TypeOK
  <2>3. PcInv'
    BY <2>1, <1>t DEF PcInv, TypeOK
  <2>. QED
    BY <1>t, <2>1, <2>2, <2>3, NoNewRow, NoNewLock
<1>6. ASSUME NEW a \in Attempts, Commit(a) PROVE IInv'
  <2>1. /\ pc[a] = "placed" /\ pc' = [pc EXCEPT ![a] = "done"]
        /\ booking' = [booking EXCEPT ![a] = "active"]
        /\ UNCHANGED <<problem, number, reopened, proposal>>
    BY <1>6 DEF Commit
  <2>2. /\ Rows' = Rows /\ Committed' = Committed \cup {a}
        /\ a \in Serialized /\ Serialized' = Serialized \ {a}
    BY <2>1, <1>t DEF Rows, Committed, Uncommitted, Serialized, TypeOK
  <2>3. PcInv'
    BY <2>1, <1>t DEF PcInv, TypeOK
  <2>4. IndexInv'
    BY <2>1, <2>2, NoNewRow
  <2>5. \A b \in Committed : b # a => booking'[b] = booking[b]
    BY <2>1, <1>t DEF TypeOK, Committed
  <2>6. ProblemLockInv'
    BY <2>1, <2>2, <2>5 DEF ProblemLockInv, SameProblem
  <2>7. OneOpenBookingPerProblem'
    BY <2>1, <2>2, <2>5 DEF ProblemLockInv, OneOpenBookingPerProblem, SameProblem
  <2>. QED
    BY <1>t, <2>3, <2>4, <2>6, <2>7
<1>7. ASSUME UNCHANGED <<problem, confirmVars, visitVars, proposal>> PROVE IInv'
  <2>1. PcInv' /\ Rows' = Rows /\ Serialized' = Serialized /\ Committed' = Committed
    BY <1>7 DEF PcInv, Rows, Serialized, Committed, Uncommitted
  <2>. QED
    BY <1>7, <1>t, <2>1, NoNewRow, NoNewLock
<1>8. ASSUME NEW b \in Attempts, Settling(b) \/ Moving(b) PROVE IInv'
  <2>1. UNCHANGED <<problem, confirmVars>> /\ booking[b] # "none"
    BY <1>8 DEF PcInv, Settling, Moving, Decline, Reopen, Propose, Close, Approve,
                Reschedule, FirstSlot
  <2>2. \A x \in Attempts \ {b} : /\ booking'[x] = booking[x]
                                  /\ reopened'[x] = reopened[x]
                                  /\ proposal'[x] = proposal[x]
    BY <1>8, <1>t DEF TypeOK, Settling, Moving, Decline, Reopen, Propose, Close, Approve,
                      Reschedule, FirstSlot
  <2>3. booking'[b] # "none" /\ (booking'[b] = "active" => booking[b] = "active" \/ reopened'[b])
    BY <1>8, <1>t, <2>1 DEF TypeOK, Settling, Moving, Decline, Reopen, Propose, Close,
                            Approve, Reschedule, FirstSlot
  <2>4. reopened[b] => reopened'[b]
    BY <1>8, <1>t DEF TypeOK, Settling, Moving, Decline, Reopen, Propose, Close, Approve,
                      Reschedule, FirstSlot
  <2>5. PcInv' /\ Rows' = Rows /\ Serialized' = Serialized /\ Committed' = Committed
    BY <2>1, <2>2, <2>3, <1>t DEF PcInv, Rows, Serialized, Committed, Uncommitted, TypeOK
  <2>6. IndexInv'
    BY <2>1, <2>5, NoNewRow
  <2>7. ProblemLockInv' /\ OneOpenBookingPerProblem'
    BY <2>1, <2>2, <2>3, <2>4, <2>5, NoNewLock DEF Committed
  <2>. QED
    BY <1>t, <2>5, <2>6, <2>7
<1>. QED
  BY <1>1, <1>2, <1>3, <1>4, <1>5, <1>6, <1>7, <1>8, NextSplit DEF EditRead, EditWrite, Midnight

-----------------------------------------------------------------------------
(***************************************************************************)
(* The calendar                                                            *)
(***************************************************************************)

CalendarInv == CapacityLockInv /\ CalendarWithinCapacity

LEMMA HeldIsFinite ==
  /\ \A s \in Slots : Held(s) \in SUBSET Attempts /\ Capacity[s] \in Nat
  /\ CalendarWithinCapacity <=> \A s \in Slots : Cardinality(Held(s)) <= Capacity[s]
  BY BookingAssumption DEF Held, OnCalendar, Committed, CalendarWithinCapacity

\* One more visit in a slot that has room for it fits.
LEMMA OneMoreFits ==
  ASSUME NEW S \in SUBSET Attempts, NEW T \in SUBSET Attempts, NEW b \in Attempts,
         NEW n \in Nat, Cardinality(S) < n, T \subseteq S \cup {b}
  PROVE  Cardinality(T) <= n
<1>1. IsFiniteSet(S) /\ Cardinality(S) \in Nat /\ Cardinality(T) \in Nat
  BY AttemptsFinite
<1>2. IsFiniteSet(S \cup {b}) /\ Cardinality(S \cup {b}) <= n
  <2>1. /\ IsFiniteSet(S \cup {b})
        /\ Cardinality(S \cup {b}) = IF b \in S THEN Cardinality(S) ELSE Cardinality(S) + 1
    BY <1>1, FS_AddElement, Zenon
  <2>. QED
    BY <1>1, <2>1
<1>3. Cardinality(T) <= Cardinality(S \cup {b})
  BY <1>2, FS_Subset
<1>. QED
  BY <1>1, <1>2, <1>3, AttemptsFinite

LEMMA InitCalendarInv == Init => CalendarInv
<1>. SUFFICES ASSUME Init PROVE CalendarInv
  OBVIOUS
<1>1. CapacityLockInv
  BY DEF Init, CapacityLockInv
<1>2. ASSUME NEW s \in Slots PROVE Cardinality(Held(s)) <= Capacity[s]
  <2>1. Held(s) \subseteq {a \in Existing : Offer[DraftOf[a]] = s}
    BY BookingAssumption DEF Init, Held, OnCalendar, Committed
  <2>2. CASE Held(s) = {}
    BY <2>2, FS_EmptySet, HeldIsFinite
  <2>3. CASE Held(s) # {}
    <3>1. PICK a \in Existing : a \in Held(s) /\ Offer[DraftOf[a]] = s
      BY <2>1, <2>3
    <3>2. Held(s) = {a} /\ Capacity[s] > 0
      BY <2>1, <3>1, BookingAssumption
    <3>3. Cardinality(Held(s)) = 1
      BY <3>2, FS_Singleton
    <3>. QED
      BY <3>2, <3>3, HeldIsFinite
  <2>. QED
    BY <2>2, <2>3
<1>. QED
  BY <1>1, <1>2, HeldIsFinite DEF CalendarInv

\* A step that puts no visit on the calendar and leaves the one being placed
\* alone keeps the room.
LEMMA NoNewVisit ==
  ASSUME CalendarInv,
         \A s \in Slots : Held(s)' \subseteq Held(s),
         \A a \in Attempts : pc'[a] = "placed" =>
           pc[a] = "placed" /\ slot'[a] = slot[a] /\ checked'[a] = checked[a]
  PROVE  CalendarInv'
<1>1. ASSUME NEW s \in Slots
      PROVE  /\ Cardinality(Held(s)') <= Cardinality(Held(s))
             /\ Cardinality(Held(s)) \in Nat /\ Cardinality(Held(s)') \in Nat
             /\ Capacity[s] \in Nat
  BY HeldIsFinite, FewerVisits
<1>2. ASSUME NEW s \in Slots PROVE Cardinality(Held(s)') <= Capacity[s]
  BY <1>1, HeldIsFinite DEF CalendarInv
<1>3. CalendarWithinCapacity'
  BY <1>2 DEF CalendarWithinCapacity, Held
<1>4. ASSUME NEW a \in Attempts, pc'[a] = "placed"
      PROVE  /\ \A b \in Attempts : pc'[b] = "placed" => a = b
             /\ checked'[a] => \E s \in Slots : slot'[a] = s /\ Cardinality(Held(s)') < Capacity[s]
  BY <1>1, <1>4 DEF CalendarInv, CapacityLockInv
<1>5. CapacityLockInv'
  BY <1>4 DEF CapacityLockInv
<1>. QED
  BY <1>3, <1>5 DEF CalendarInv

\* A visit stays where it is on the calendar unless its own booking, slot or
\* draft changes.
LEMMA CalendarSame ==
  ASSUME NEW a \in Attempts, booking' = booking, draft' = draft, booking[a] = "none",
         \A x \in Attempts \ {a} : slot'[x] = slot[x] /\ checked'[x] = checked[x]
  PROVE  \A s \in Slots : Held(s)' = Held(s)
  BY DEF Held, OnCalendar, Committed

LEMMA StepCalendarInv == IInv /\ CalendarInv /\ [Next]_vars => CalendarInv'
<1>. SUFFICES ASSUME IInv, CalendarInv, [Next]_vars PROVE CalendarInv'
  OBVIOUS
<1>t. TypeOK /\ PcInv
  BY DEF IInv
<1>. USE DEF contextVars, confirmVars, visitVars, Goto
<1>1. ASSUME UNCHANGED <<pc, booking, slot, checked>>,
             \A d \in Drafts : draft'[d] = "confirmed" => draft[d] = "confirmed"
      PROVE  CalendarInv'
  <2>1. \A a \in Attempts : DraftOf[a] \in Drafts
    BY BookingAssumption
  <2>2. \A s \in Slots : Held(s)' \subseteq Held(s)
    BY <1>1, <2>1 DEF Held, OnCalendar, Committed
  <2>. QED
    BY <1>1, <2>2, NoNewVisit
<1>2. ASSUME NEW a \in Attempts, Answered(a) \/ Abort(a) PROVE CalendarInv'
  <2>1. /\ pc[a] \in InFlight /\ pc' = [pc EXCEPT ![a] = "done"]
        /\ UNCHANGED <<booking, draft>>
        /\ \A x \in Attempts \ {a} : slot'[x] = slot[x] /\ checked'[x] = checked[x]
    BY <1>2, <1>t, AnsweredEnds DEF End, Abort, TypeOK
  <2>2. booking[a] = "none"
    BY <2>1, <1>t DEF PcInv, InFlight
  <2>3. \A s \in Slots : Held(s)' = Held(s)
    BY <2>1, <2>2, CalendarSame
  <2>4. \A x \in Attempts : pc'[x] = "placed" =>
          pc[x] = "placed" /\ slot'[x] = slot[x] /\ checked'[x] = checked[x]
    BY <2>1, <1>t DEF TypeOK
  <2>. QED
    BY <2>3, <2>4, NoNewVisit
<1>3. ASSUME NEW a \in Attempts, Preparing(a) \/ Insert(a) PROVE CalendarInv'
  <2>1. /\ UNCHANGED <<booking, slot, checked>>
        /\ \E to \in {"marking", "final", "looked_up", "unique", "numbered", "inserted"} :
             pc' = [pc EXCEPT ![a] = to]
    BY <1>3 DEF Preparing, Insert, Open, MarkReady, Lookup, CheckUnique, Number
  <2>2. \A d \in Drafts : draft'[d] = "confirmed" => draft[d] = "confirmed"
    BY <1>3, <1>t DEF TypeOK, Preparing, Insert, Open, MarkReady, Lookup, CheckUnique, Number
  <2>3. \A x \in Attempts : pc'[x] = "placed" => pc[x] = "placed"
    BY <2>1, <1>t DEF TypeOK
  <2>4. \A s \in Slots : Held(s)' \subseteq Held(s)
    <3>1. \A x \in Attempts : DraftOf[x] \in Drafts
      BY BookingAssumption
    <3>. QED
      BY <2>1, <2>2, <3>1 DEF Held, OnCalendar, Committed
  <2>. QED
    BY <2>1, <2>3, <2>4, NoNewVisit
<1>4. ASSUME NEW a \in Attempts, Place(a) PROVE CalendarInv'
  <2>. DEFINE room == {s \in Slots : HasRoom(s, Attempts)}
              to == IF room = {} \/ Offer[DraftOf[a]] \in room THEN Offer[DraftOf[a]]
                    ELSE Earliest(room)
  <2>1. /\ pc[a] = "inserted" /\ CapacityFree /\ pc' = [pc EXCEPT ![a] = "placed"]
        /\ slot' = [slot EXCEPT ![a] = to] /\ checked' = [checked EXCEPT ![a] = (room # {})]
        /\ UNCHANGED <<booking, draft>>
    BY <1>4 DEF Place
  <2>2. room # {} => to \in Slots /\ HasRoom(to, Attempts)
    <3>1. room \subseteq Slots
      OBVIOUS
    <3>. HIDE DEF room
    <3>2. room # {} => to \in room
      BY <3>1, EarliestIsOne
    <3>. QED
      BY <3>2 DEF room
  <2>. HIDE DEF room, to
  <2>3. booking[a] = "none"
    BY <2>1, <1>t DEF PcInv
  <2>4. \A x \in Attempts \ {a} : slot'[x] = slot[x] /\ checked'[x] = checked[x]
    BY <2>1, <1>t DEF TypeOK
  <2>5. \A s \in Slots : Held(s)' = Held(s)
    BY <2>1, <2>3, <2>4, CalendarSame
  <2>6. ASSUME NEW s \in Slots, HasRoom(s, Attempts)
        PROVE  Cardinality(Held(s)) < Capacity[s]
    <3>. DEFINE B == {b \in OnCalendar \cap Attempts : slot[b] = s}
    <3>1. B \in SUBSET Attempts /\ Held(s) \in SUBSET B
      BY DEF Held, OnCalendar, Committed
    <3>2. Cardinality(B) < Capacity[s]
      BY <2>6 DEF HasRoom, Booked
    <3>. HIDE DEF B
    <3>3. Cardinality(Held(s)) <= Cardinality(B) /\ Cardinality(B) \in Nat
          /\ Cardinality(Held(s)) \in Nat /\ Capacity[s] \in Nat
      BY <3>1, FewerVisits, HeldIsFinite
    <3>. QED
      BY <3>2, <3>3
  <2>7. CapacityLockInv'
    <3>1. \A x \in Attempts : pc'[x] = "placed" => x = a
      BY <2>1, <1>t DEF TypeOK, CapacityFree
    <3>2. checked'[a] => \E s \in Slots : slot'[a] = s /\ Cardinality(Held(s)') < Capacity[s]
      <4>1. checked'[a] => room # {}
        BY <2>1, <1>t DEF TypeOK
      <4>2. slot'[a] = to
        BY <2>1, <1>t DEF TypeOK
      <4>3. \A s \in Slots : Cardinality(Held(s)') = Cardinality(Held(s))
        BY <2>5
      <4>. QED
        BY <4>1, <4>2, <4>3, <2>2, <2>6
    <3>. QED
      BY <3>1, <3>2 DEF CapacityLockInv
  <2>8. CalendarWithinCapacity'
    <3>1. ASSUME NEW s \in Slots PROVE Cardinality(Held(s)') <= Capacity[s]
      BY <2>5, HeldIsFinite DEF CalendarInv
    <3>. QED
      BY <3>1 DEF CalendarWithinCapacity, Held
  <2>. QED
    BY <2>7, <2>8 DEF CalendarInv
<1>5. ASSUME NEW a \in Attempts, Commit(a) PROVE CalendarInv'
  <2>1. /\ pc[a] = "placed" /\ pc' = [pc EXCEPT ![a] = "done"]
        /\ booking' = [booking EXCEPT ![a] = "active"]
        /\ draft' = [draft EXCEPT ![DraftOf[a]] = "confirmed"]
        /\ UNCHANGED <<slot, checked>>
    BY <1>5 DEF Commit
  <2>2. \A x \in Attempts : pc'[x] # "placed"
    BY <2>1, <1>t DEF TypeOK, CalendarInv, CapacityLockInv
  <2>3. \A b \in Committed : b # a => DraftOf[b] # DraftOf[a] /\ DraftOf[b] \in Drafts
    BY <2>1, BookingAssumption DEF IInv, IndexInv, Rows, Clashes, Uncommitted, Committed
  <2>4. OnCalendar' \subseteq OnCalendar \cup {a}
    BY <2>1, <2>3, <1>t DEF OnCalendar, Committed, TypeOK
  <2>5. ASSUME NEW s \in Slots PROVE Cardinality(Held(s)') <= Capacity[s]
    <3>1. Held(s)' \in SUBSET Attempts
      BY DEF Held, OnCalendar, Committed
    <3>2. CASE checked[a] /\ slot[a] = s
      <4>1. Cardinality(Held(s)) < Capacity[s]
        BY <2>1, <3>2 DEF CalendarInv, CapacityLockInv
      <4>2. Held(s)' \subseteq Held(s) \cup {a}
        BY <2>1, <2>4 DEF Held
      <4>. QED
        BY <3>1, <4>1, <4>2, HeldIsFinite, OneMoreFits
    <3>3. CASE ~(checked[a] /\ slot[a] = s)
      <4>1. Held(s)' \subseteq Held(s)
        BY <2>1, <2>4, <3>3 DEF Held
      <4>2. Cardinality(Held(s)') <= Cardinality(Held(s)) /\ Cardinality(Held(s)) \in Nat
            /\ Cardinality(Held(s)') \in Nat
        BY <4>1, HeldIsFinite, FewerVisits
      <4>. QED
        BY <4>2, HeldIsFinite DEF CalendarInv
    <3>. QED
      BY <3>2, <3>3
  <2>. QED
    BY <2>2, <2>5 DEF CalendarInv, CapacityLockInv, CalendarWithinCapacity, Held
<1>6. ASSUME NEW e \in Edits, EditWrite(e[1], e[2]) PROVE CalendarInv'
  <2>1. e[1] \in Drafts /\ e[2] \in {"open", "cancelled"}
    BY BookingAssumption
  <2>2. \A d \in Drafts : draft'[d] = "confirmed" => draft[d] = "confirmed"
    BY <1>6, <2>1, <1>t DEF EditWrite, TypeOK
  <2>. QED
    BY <1>1, <1>6, <2>2 DEF EditWrite
<1>7. ASSUME NEW b \in Attempts, Settling(b) PROVE CalendarInv'
  <2>1. UNCHANGED <<pc, slot, draft>>
    BY <1>7 DEF Settling, Decline, Reopen, Propose, Close
  <2>2. \A x \in Attempts \ {b} : booking'[x] = booking[x] /\ checked'[x] = checked[x]
    BY <1>7, <1>t DEF TypeOK, Settling, Decline, Reopen, Propose, Close
  <2>3. /\ checked'[b] => checked[b] /\ (booking'[b] \notin {"none", "cancelled"} =>
                                         booking[b] \notin {"none", "cancelled"})
        /\ pc[b] = "placed" => checked'[b] = checked[b]
    BY <1>7, <1>t DEF TypeOK, PcInv, Settling, Decline, Reopen, Propose, Close
  <2>4. \A s \in Slots : Held(s)' \subseteq Held(s)
    BY <2>1, <2>2, <2>3 DEF Held, OnCalendar, Committed
  <2>. QED
    BY <2>1, <2>2, <2>3, <2>4, NoNewVisit
<1>8. ASSUME NEW b \in Attempts, Moving(b) PROVE CalendarInv'
  <2>1. PICK s \in Slots : MoveTo(b, s)
    BY <1>8, <1>t, MovingMoves
  <2>2. UNCHANGED <<pc, draft>> /\ \A x \in Attempts \ {b} : booking'[x] = booking[x]
    BY <1>8, <1>t DEF Moving, Approve, Reschedule, FirstSlot, TypeOK
  <2>3. /\ CapacityFree /\ HasRoom(s, Attempts \ {b})
        /\ slot' = [slot EXCEPT ![b] = s] /\ checked' = [checked EXCEPT ![b] = TRUE]
    BY <2>1 DEF MoveTo
  <2>4. \A x \in Attempts : pc'[x] # "placed"
    BY <2>2, <2>3 DEF CapacityFree
  <2>5. /\ slot'[b] = s
        /\ \A x \in Attempts \ {b} : slot'[x] = slot[x] /\ checked'[x] = checked[x]
    BY <2>3, <1>t DEF TypeOK
  <2>6. ASSUME NEW r \in Slots PROVE Cardinality(Held(r)') <= Capacity[r]
    <3>1. Held(r)' \in SUBSET Attempts /\ Capacity[r] \in Nat
      BY HeldIsFinite DEF Held, OnCalendar, Committed
    <3>2. CASE r = s
      <4>. DEFINE B == {x \in OnCalendar \cap (Attempts \ {b}) : slot[x] = s}
      <4>1. Cardinality(B) < Capacity[s]
        BY <2>3 DEF HasRoom, Booked
      <4>2. B \in SUBSET Attempts /\ Held(r)' \subseteq B \cup {b}
        BY <3>2, <2>2, <2>5 DEF Held, OnCalendar, Committed
      <4>. HIDE DEF B
      <4>. QED
        BY <3>1, <3>2, <4>1, <4>2, OneMoreFits
    <3>3. CASE r # s
      <4>1. Held(r)' \subseteq Held(r)
        BY <3>3, <2>2, <2>5 DEF Held, OnCalendar, Committed
      <4>2. Cardinality(Held(r)') <= Cardinality(Held(r)) /\ Cardinality(Held(r)) \in Nat
            /\ Cardinality(Held(r)') \in Nat
        BY <4>1, HeldIsFinite, FewerVisits
      <4>. QED
        BY <3>1, <4>2, HeldIsFinite DEF CalendarInv
    <3>. QED
      BY <3>2, <3>3
  <2>. QED
    BY <2>4, <2>6 DEF CalendarInv, CapacityLockInv, CalendarWithinCapacity, Held
<1>. QED
  BY <1>1, <1>2, <1>3, <1>4, <1>5, <1>6, <1>7, <1>8, NextSplit DEF vars, EditRead, Midnight

-----------------------------------------------------------------------------
(***************************************************************************)
(* Theorems                                                                *)
(***************************************************************************)

LEMMA IInvHolds == Spec => []IInv
  BY InitIInv, StepIInv, PTL DEF Spec

\* The state of drafts, attempts, bookings and visits keeps its types.
THEOREM TypeCorrect == Spec => []TypeOK
<1>1. IInv => TypeOK
  BY DEF IInv
<1>. QED
  BY <1>1, IInvHolds, PTL

\* A draft becomes one booking with a number of its own, whatever the number and
\* the order of its confirmations (the unique indexes of service_bookings).
THEOREM DraftBookedOnce == Spec => []OneBookingPerDraft
<1>1. IInv => OneBookingPerDraft
  BY DEF IInv, IndexInv, Rows, OneBookingPerDraft
<1>. QED
  BY <1>1, IInvHolds, PTL

\* Two open bookings of one customer for one problem need the customer's consent
\* (the advisory lock of finalize).
THEOREM ProblemBookedOnce == Spec => []OneOpenBookingPerProblem
<1>1. IInv => OneOpenBookingPerProblem
  BY DEF IInv
<1>. QED
  BY <1>1, IInvHolds, PTL

\* The visits the calendar accepted fit in it (the capacity lock shared by
\* confirmations and moves).
THEOREM CapacityRespected == Spec => []CalendarWithinCapacity
<1>1. CalendarInv => CalendarWithinCapacity
  BY DEF CalendarInv
<1>. QED
  BY <1>1, IInvHolds, InitCalendarInv, StepCalendarInv, PTL DEF Spec

-----------------------------------------------------------------------------
(***************************************************************************)
(* A confirmation is atomic                                                *)
(***************************************************************************)

Listed == {b \in Committed : draft[DraftOf[b]] = "confirmed"}

\* What the desk sees of its windows is what the calendar holds.
LEMMA FilledIsHeld == \A s : Bookings!Filled(s) = Held(s)
  BY DEF Bookings!Filled, Held, OnCalendar, Committed, Visible

\* The desk counts as the calendar does.
LEMMA SameCount == \A S : Bookings!Cardinality(S) = Cardinality(S)
  BY DEF Bookings!Cardinality, Cardinality

\* The bookings the desk has made are the committed ones.
LEMMA MadeIsCommitted == Bookings!Made = Committed
  BY DEF Bookings!Made, Committed

\* Steps on what is not committed cannot be seen.
LEMMA Unseen ==
  ASSUME UNCHANGED <<problem, booking, reopened>>,
         \A b \in Committed :
           number'[b] = number[b] /\ slot'[b] = slot[b] /\ checked'[b] = checked[b],
         Listed' = Listed
  PROVE  UNCHANGED Bookings!vars
<1>1. \A b \in Attempts : booking[b] # "none" => b \in Committed
  BY DEF Committed
<1>2. /\ Visible(number, NoNumber)' = Visible(number, NoNumber)
      /\ Visible(slot, NoSlot)' = Visible(slot, NoSlot)
      /\ Visible(checked, FALSE)' = Visible(checked, FALSE)
  BY <1>1 DEF Visible
<1>. QED
  BY <1>2 DEF Bookings!vars, Listed

\* A status written to a draft, by an edit or by a confirmation that read it
\* before it was booked, makes the calendar forget at most one visit: a draft has
\* one booking.
LEMMA DraftWritten ==
  ASSUME IInv, NEW d \in Drafts, NEW to \in {"open", "ready", "cancelled"},
         draft' = [draft EXCEPT ![d] = to],
         UNCHANGED <<problem, number, visitVars>>
  PROVE  [Bookings!Next]_Bookings!vars
<1>0. UNCHANGED <<problem, number, booking, slot, checked, reopened>> /\ Committed' = Committed
  BY DEF visitVars, Committed
<1>1. \A b \in Committed : draft'[DraftOf[b]] = "confirmed" <=>
                             draft[DraftOf[b]] = "confirmed" /\ DraftOf[b] # d
  BY BookingAssumption DEF IInv, TypeOK, Committed
<1>2. CASE \E b \in Listed : DraftOf[b] = d
  <2>1. PICK b \in Listed : DraftOf[b] = d
    BY <1>2
  <2>2. b \in Attempts /\ \A x \in Committed : DraftOf[x] = d => x = b
    BY <2>1 DEF Listed, IInv, IndexInv, Rows, Clashes, Committed
  <2>3. Listed' = Listed \ {b}
    BY <1>0, <1>1, <2>1, <2>2 DEF Listed
  <2>4. /\ Visible(number, NoNumber)' = Visible(number, NoNumber)
        /\ Visible(slot, NoSlot)' = Visible(slot, NoSlot)
        /\ Visible(checked, FALSE)' = Visible(checked, FALSE)
    BY <1>0 DEF Visible
  <2>5. Bookings!Forget(b)
    BY <1>0, <2>3, <2>4 DEF Bookings!Forget, Listed
  <2>. QED
    BY <2>2, <2>5 DEF Bookings!Next
<1>3. CASE ~\E b \in Listed : DraftOf[b] = d
  <2>1. Listed' = Listed
    BY <1>0, <1>1, <1>3 DEF Listed
  <2>. QED
    BY <1>0, <2>1, Unseen
<1>. QED
  BY <1>2, <1>3

\* The commit: what was looked up many steps ago is true now.  The index rows and
\* the two locks are held up to here.
LEMMA CommitBooks ==
  ASSUME IInv, CalendarInv, NEW a \in Attempts, Commit(a)
  PROVE  Bookings!Book(a)
<1>1. /\ pc[a] = "placed" /\ booking[a] = "none"
      /\ booking' = [booking EXCEPT ![a] = "active"]
      /\ draft' = [draft EXCEPT ![DraftOf[a]] = "confirmed"]
      /\ UNCHANGED <<problem, number, slot, checked, reopened>>
  BY DEF Commit, contextVars, IInv, PcInv
<1>2. /\ a \in Uncommitted /\ a \in Serialized /\ a \notin Committed
      /\ Committed' = Committed \cup {a}
  BY <1>1 DEF Uncommitted, Serialized, Committed, IInv, TypeOK
<1>3. \A b \in Committed : DraftOf[b] # DraftOf[a] /\ number[b] # number[a]
  BY <1>2 DEF IInv, IndexInv, Rows, Clashes
<1>4. /\ Visible(number, NoNumber)' = [Visible(number, NoNumber) EXCEPT ![a] = number[a]]
      /\ Visible(slot, NoSlot)' = [Visible(slot, NoSlot) EXCEPT ![a] = slot[a]]
      /\ Visible(checked, FALSE)' = [Visible(checked, FALSE) EXCEPT ![a] = checked[a]]
  BY <1>1 DEF Visible, IInv, TypeOK
<1>5. /\ Visible(number, NoNumber)'[a] = number[a]
      /\ Visible(slot, NoSlot)'[a] = slot[a]
      /\ Visible(checked, FALSE)'[a] = checked[a]
  BY <1>4 DEF Visible
<1>6. \A b \in Committed : Visible(number, NoNumber)[b] = number[b]
  BY DEF Visible, Committed
<1>7. Listed' = Listed \cup {a}
  <2>1. \A b \in Committed : draft'[DraftOf[b]] = draft[DraftOf[b]]
    BY <1>1, <1>3, BookingAssumption DEF IInv, TypeOK, Committed
  <2>2. draft'[DraftOf[a]] = "confirmed"
    BY <1>1, BookingAssumption DEF IInv, TypeOK
  <2>. QED
    BY <1>2, <2>1, <2>2 DEF Listed
<1>8. \/ a \in Override
      \/ \A b \in Committed : /\ problem[DraftOf[b]] = problem[DraftOf[a]]
                              /\ booking[b] = "active"
                              => reopened[b]
  BY <1>2 DEF IInv, ProblemLockInv, SameProblem
<1>9. checked[a] => \E s \in Slots :
                      slot[a] = s /\ Bookings!Cardinality(Bookings!Filled(s)) < Capacity[s]
  BY <1>1, FilledIsHeld, SameCount DEF CalendarInv, CapacityLockInv
<1>. QED
  BY <1>1, <1>3, <1>4, <1>5, <1>6, <1>7, <1>8, <1>9, MadeIsCommitted
  DEF Bookings!Book, Listed

\* Moving a visit is a move at the desk.
LEMMA MovingMovesBooking ==
  ASSUME IInv, NEW b \in Attempts, Moving(b)
  PROVE  [Bookings!Next]_Bookings!vars
<1>t. TypeOK /\ PcInv
  BY DEF IInv
<1>1. PICK s \in Slots : MoveTo(b, s)
  BY <1>t, MovingMoves
<1>2. /\ HasRoom(s, Attempts \ {b})
      /\ slot' = [slot EXCEPT ![b] = s] /\ checked' = [checked EXCEPT ![b] = TRUE]
  BY <1>1 DEF MoveTo
<1>3. /\ b \in Committed
      /\ UNCHANGED <<problem, draft, number>>
      /\ booking' = [booking EXCEPT ![b] = "active"]
      /\ reopened' = [reopened EXCEPT ![b] = @ \/ booking[b] # "active"]
  <2>1. CASE Approve(b)
    BY <2>1, <1>t DEF Approve, PcInv, Committed, contextVars, confirmVars
  <2>2. ASSUME NEW r \in Slots, Reschedule(b, r) \/ FirstSlot(b, r)
        PROVE  /\ booking[b] = "active" /\ UNCHANGED <<problem, draft, number>>
               /\ booking' = booking /\ reopened' = reopened
    BY <2>2 DEF Reschedule, FirstSlot, contextVars, confirmVars
  <2>3. ASSUME booking[b] = "active", booking' = booking, reopened' = reopened
        PROVE  /\ b \in Committed
               /\ booking' = [booking EXCEPT ![b] = "active"]
               /\ reopened' = [reopened EXCEPT ![b] = @ \/ booking[b] # "active"]
    BY <2>3, <1>t DEF TypeOK, Committed
  <2>. QED
    BY <2>1, <2>2, <2>3 DEF Moving
<1>4. Committed' = Committed /\ Listed' = Listed
  BY <1>3, <1>t DEF Committed, Listed, TypeOK
<1>5. /\ Visible(number, NoNumber)' = Visible(number, NoNumber)
      /\ Visible(slot, NoSlot)' = [Visible(slot, NoSlot) EXCEPT ![b] = s]
      /\ Visible(checked, FALSE)' = [Visible(checked, FALSE) EXCEPT ![b] = TRUE]
  BY <1>2, <1>3, <1>t DEF Visible, TypeOK, Committed
<1>6. Bookings!Cardinality(Bookings!Filled(s) \ {b}) < Capacity[s]
  <2>. DEFINE B == {x \in OnCalendar \cap (Attempts \ {b}) : slot[x] = s}
              F == Held(s) \ {b}
  <2>1. Cardinality(B) < Capacity[s]
    BY <1>2 DEF HasRoom, Booked
  <2>2. B \in SUBSET Attempts /\ F \in SUBSET B
    BY DEF Held, OnCalendar, Committed
  <2>. HIDE DEF B, F
  <2>3. Cardinality(F) <= Cardinality(B) /\ Cardinality(F) \in Nat /\ Cardinality(B) \in Nat
    BY <2>2, FewerVisits
  <2>4. Cardinality(F) < Capacity[s]
    BY <2>1, <2>3, HeldIsFinite
  <2>. QED
    BY <2>4, FilledIsHeld, SameCount DEF F
<1>7. Bookings!Move(b, s)
  BY <1>3, <1>4, <1>5, <1>6, MadeIsCommitted DEF Bookings!Move, Listed
<1>. QED
  BY <1>7 DEF Bookings!Next

\* Every step is a step of the desk or cannot be seen there.
LEMMA StepIsDesk ==
  IInv /\ CalendarInv /\ [Next]_vars => [Bookings!Next]_Bookings!vars
<1>. SUFFICES ASSUME IInv, CalendarInv, [Next]_vars PROVE [Bookings!Next]_Bookings!vars
  OBVIOUS
<1>t. TypeOK /\ PcInv
  BY DEF IInv
<1>. USE DEF contextVars, confirmVars, visitVars, Goto
<1>q. ASSUME UNCHANGED <<problem, draft, booking, reopened>>,
             \A b \in Committed :
               number'[b] = number[b] /\ slot'[b] = slot[b] /\ checked'[b] = checked[b]
      PROVE  [Bookings!Next]_Bookings!vars
  <2>1. Listed' = Listed
    BY <1>q DEF Listed, Committed
  <2>. QED
    BY <1>q, <2>1, Unseen
<1>1. CASE UNCHANGED vars \/ Midnight \/ \E e \in Edits : EditRead(e[1], e[2])
  BY <1>1, <1>q DEF vars, Midnight, EditRead
<1>2. ASSUME NEW a \in Attempts, Answered(a) \/ Abort(a) PROVE [Bookings!Next]_Bookings!vars
  <2>1. /\ pc[a] \in InFlight
        /\ UNCHANGED <<problem, draft, booking, reopened>>
        /\ \A x \in Attempts \ {a} :
             number'[x] = number[x] /\ slot'[x] = slot[x] /\ checked'[x] = checked[x]
    BY <1>2, <1>t, AnsweredEnds DEF End, Abort, TypeOK
  <2>2. a \notin Committed /\ Committed \subseteq Attempts
    BY <2>1, <1>t DEF PcInv, InFlight, Committed
  <2>. QED
    BY <2>1, <2>2, <1>q
<1>3. ASSUME NEW a \in Attempts, Preparing(a) \/ Insert(a) \/ Place(a)
      PROVE  [Bookings!Next]_Bookings!vars
  <2>1. CASE MarkReady(a)
    <3>1. DraftOf[a] \in Drafts
      BY BookingAssumption
    <3>2. CASE draft' = draft
      BY <2>1, <3>2, <1>q DEF MarkReady
    <3>3. CASE draft' = [draft EXCEPT ![DraftOf[a]] = "ready"]
      BY <2>1, <3>1, <3>3, DraftWritten DEF MarkReady
    <3>. QED
      BY <2>1, <3>2, <3>3 DEF MarkReady
  <2>2. CASE Open(a) \/ Lookup(a) \/ CheckUnique(a) \/ Number(a) \/ Insert(a) \/ Place(a)
    <3>1. /\ pc[a] # "done"
          /\ UNCHANGED <<problem, draft, booking, reopened>>
          /\ \A x \in Attempts \ {a} :
               number'[x] = number[x] /\ slot'[x] = slot[x] /\ checked'[x] = checked[x]
      BY <2>2, <1>t DEF Open, Lookup, CheckUnique, Number, Insert, Place, TypeOK
    <3>2. a \notin Committed /\ Committed \subseteq Attempts
      BY <3>1, <1>t DEF PcInv, Committed
    <3>. QED
      BY <3>1, <3>2, <1>q
  <2>. QED
    BY <1>3, <2>1, <2>2 DEF Preparing
<1>4. ASSUME NEW a \in Attempts, Commit(a) PROVE [Bookings!Next]_Bookings!vars
  BY <1>4, CommitBooks DEF Bookings!Next
<1>5. ASSUME NEW e \in Edits, EditWrite(e[1], e[2]) PROVE [Bookings!Next]_Bookings!vars
  <2>1. e[1] \in Drafts /\ e[2] \in {"open", "ready", "cancelled"}
    BY BookingAssumption
  <2>. QED
    BY <1>5, <2>1, DraftWritten DEF EditWrite
<1>6. ASSUME NEW b \in Attempts, Settling(b) PROVE [Bookings!Next]_Bookings!vars
  <2>1. CASE Decline(b) \/ \E s \in Slots : Propose(b, s)
    BY <2>1, <1>q DEF Decline, Propose
  <2>2. CASE Reopen(b)
    <3>1. Committed' = Committed /\ Listed' = Listed
      BY <2>2, <1>t DEF Reopen, Committed, Listed, TypeOK
    <3>2. /\ Visible(number, NoNumber)' = Visible(number, NoNumber)
          /\ Visible(slot, NoSlot)' = Visible(slot, NoSlot)
          /\ Visible(checked, FALSE)' = [Visible(checked, FALSE) EXCEPT ![b] = FALSE]
      BY <2>2, <1>t DEF Reopen, Visible, TypeOK
    <3>3. Bookings!Reopen(b)
      BY <2>2, <3>1, <3>2 DEF Reopen, Bookings!Reopen, Listed
    <3>. QED
      BY <3>3 DEF Bookings!Next
  <2>3. ASSUME NEW to \in {"completed", "cancelled"}, Close(b, to)
        PROVE  [Bookings!Next]_Bookings!vars
    <3>1. Committed' = Committed /\ Listed' = Listed
      BY <2>3, <1>t DEF Close, Committed, Listed, TypeOK
    <3>2. /\ Visible(number, NoNumber)' = Visible(number, NoNumber)
          /\ Visible(slot, NoSlot)' = Visible(slot, NoSlot)
          /\ Visible(checked, FALSE)' = Visible(checked, FALSE)
      BY <2>3, <1>t DEF Close, Visible, TypeOK
    <3>3. Bookings!Close(b, to)
      BY <2>3, <3>1, <3>2 DEF Close, Bookings!Close, Listed
    <3>. QED
      BY <3>3 DEF Bookings!Next
  <2>. QED
    BY <1>6, <2>1, <2>2, <2>3 DEF Settling
<1>7. ASSUME NEW b \in Attempts, Moving(b) PROVE [Bookings!Next]_Bookings!vars
  BY <1>7, MovingMovesBooking
<1>. QED
  BY <1>1, <1>2, <1>3, <1>4, <1>5, <1>6, <1>7, NextSplit

\* Every confirmation, of however many at once and with whatever edits, closings
\* and moves in between, is one step of the booking desk or nothing at all
\* (finalize: the indexes, the lock of the problem and the capacity lock together
\* make it so).
THEOREM ConfirmationsAreAtomic == Spec => ConfirmsAtomically
<1>1. IInv /\ CalendarInv => Bookings!Init
  <2>. SUFFICES ASSUME IInv, CalendarInv PROVE Bookings!Init
    OBVIOUS
  <2>1. \A b \in Committed : Visible(number, NoNumber)[b] = number[b]
    BY DEF Visible, Committed
  <2>2. \A a, b \in Committed : a # b =>
          DraftOf[a] # DraftOf[b] /\ Visible(number, NoNumber)[a] # Visible(number, NoNumber)[b]
    BY <2>1 DEF IInv, IndexInv, Rows, Clashes
  <2>3. \A s \in Slots : Bookings!Cardinality(Bookings!Filled(s)) <= Capacity[s]
    BY FilledIsHeld, SameCount DEF CalendarInv, CalendarWithinCapacity, Held
  <2>. QED
    BY <2>2, <2>3, MadeIsCommitted DEF Bookings!Init
<1>. QED
  BY <1>1, StepIsDesk, InitIInv, IInvHolds, InitCalendarInv, StepCalendarInv, PTL
  DEF Spec, ConfirmsAtomically, Bookings!Spec
=============================================================================
