--------------------------- MODULE PartsInventory ---------------------------
(***************************************************************************)
(* Parts a technician asks for during a job, and the stock they come from. *)
(* A request waits for the customer (requests of older versions: for the   *)
(* provider, then perhaps the customer); an approval holds stock at one    *)
(* location, finishing the work consumes it.                               *)
(*                                                                         *)
(* Every decision on a request, and every end of a hold, reads its row     *)
(* WITHOUT a lock and writes at commit, so each is two steps: what was     *)
(* read, then the commit of what was decided from it, never looking again. *)
(* The stock operation inside locks the balance row from its own read to   *)
(* the commit (and gives up at once when it is locked), so it is one step  *)
(* with the commit.                                                        *)
(***************************************************************************)
EXTENDS Integers, FiniteSets

CONSTANTS Requests,
          Jobs,
          JobOf,       \* the job each request belongs to
          Qty,         \* how many pieces it asks for
          Legacy,      \* requests that start with the provider's approval
          Locations,
          Vans,        \* locations that are the technician's own stock
          Opening,     \* pieces at each location
          NoPlace,     \* the part is bought in: it comes from no stock
          Reach,       \* bound: the locations tried for each request
          MaxStock,    \* bound on the pieces at one location
          MaxInFlight  \* bound on decisions read but not committed

VARIABLES job,         \* "open" while parts may be asked for and work finished
          finishing,   \* how far its work-done request has read
          request,     \* status of each parts request
          required,    \* its customer_approval_required: the others are FALSE
          place,       \* its stock_location_id
          hold,        \* status of its stock_reservations row at each location
          twice,       \* holds ended by someone who read them before they ended
          pending,     \* <<request, decision, location read>> not committed yet
          onhand,      \* StockBalance.quantity
          reserved,    \* StockBalance.reserved_qty
          consumed     \* pieces the ledger took out for each request

vars == <<job, finishing, request, required, place, hold, twice, pending,
          onhand, reserved, consumed>>

stockVars == <<hold, twice, onhand, reserved, consumed>>
jobVars   == <<job, finishing, required>>

\* "refuse" is the technician's cancellation, the provider's rejection or the
\* customer's; the last four end a hold: work done, the provider's install, and
\* the confirm and release calls of the inventory screen.
Decisions == {"create", "approve", "business_approve", "refuse",
              "finish", "install", "confirm", "release"}

\* "approved" is business_approved or customer_approved, "refused" one of
\* business_rejected, customer_rejected and cancelled.
Statuses        == {"none", "requested", "customer_approval_pending", "approved",
                    "refused", "installed"}
PendingStatuses == {"requested", "customer_approval_pending"}

ASSUME PartsAssumption ==
  /\ IsFiniteSet(Requests)
  /\ JobOf \in [Requests -> Jobs]
  /\ Qty \in [Requests -> Nat \ {0}]
  /\ Legacy \subseteq Requests
  /\ Reach \in [Requests -> SUBSET Locations]
  /\ Vans \subseteq Locations /\ NoPlace \notin Locations
  /\ MaxStock \in Nat /\ Opening \in [Locations -> 0..MaxStock]

Places == Locations \cup {NoPlace}

Available(l) == onhand[l] - reserved[l]

TypeOK ==
  /\ job \in [Jobs -> {"open", "closed"}]
  /\ finishing \in [Jobs -> {"no", "checked", "installing"}]
  /\ request \in [Requests -> Statuses]
  /\ required \in [Requests -> BOOLEAN]
  /\ place \in [Requests -> Places]
  /\ hold \in [Requests \X Locations -> {"none", "active", "confirmed", "released"}]
  /\ twice \subseteq Requests \X Locations
  /\ pending \subseteq Requests \X Decisions \X Places
  /\ onhand \in [Locations -> Int]
  /\ reserved \in [Locations -> Nat]
  /\ consumed \in [Requests -> Nat]

Init ==
  /\ job = [j \in Jobs |-> "open"]
  /\ finishing = [j \in Jobs |-> "no"]
  /\ request = [r \in Requests |-> IF r \in Legacy THEN "requested" ELSE "none"]
  /\ required \in {f \in [Requests -> BOOLEAN] : \A r \in Requests \ Legacy : f[r]}
  /\ place = [r \in Requests |-> NoPlace]
  /\ hold = [rl \in Requests \X Locations |-> "none"]
  /\ twice = {}
  /\ pending = {}
  /\ onhand = Opening
  /\ reserved = [l \in Locations |-> 0]
  /\ consumed = [r \in Requests |-> 0]

\* Requests being served, a work-done request counting as one.
InFlight == Cardinality({e \in pending : e[2] # "finish"})
            + Cardinality({j \in Jobs : finishing[j] # "no"})

Begin(r, d, l) ==
  /\ InFlight < MaxInFlight
  /\ pending' = pending \cup {<<r, d, l>>}
  /\ UNCHANGED <<jobVars, request, place, stockVars>>

Done(r, d, l) ==
  /\ <<r, d, l>> \in pending
  /\ pending' = pending \ {<<r, d, l>>}

\* An approval that was sent twice may be in flight once more.
DoneOnce(r, d, l) ==
  /\ <<r, d, l>> \in pending
  /\ pending' \in {pending, pending \ {<<r, d, l>>}}

-----------------------------------------------------------------------------
(***************************************************************************)
(* Stock                                                                   *)
(***************************************************************************)

\* Mutation: the stock is not looked at again under the lock.
ReserveUnchecked(r, l) ==
  /\ hold[<<r, l>>] = "none"
  /\ hold' = [hold EXCEPT ![<<r, l>>] = "active"]
  /\ reserved' = [reserved EXCEPT ![l] = @ + Qty[r]]
  /\ UNCHANGED <<onhand, consumed, twice>>

\* create_reservation.  A reservation of this request at this location is
\* returned as it is, whatever its status; too little stock refuses the whole
\* decision.
Reserve(r, l) ==
  \/ /\ hold[<<r, l>>] # "none"
     /\ UNCHANGED stockVars
  \/ /\ hold[<<r, l>>] = "none"
     /\ Available(l) >= Qty[r]
     /\ hold' = [hold EXCEPT ![<<r, l>>] = "active"]
     /\ reserved' = [reserved EXCEPT ![l] = @ + Qty[r]]
     /\ UNCHANGED <<onhand, consumed, twice>>

\* _reserve_parts_inventory
ReserveParts(r, l) == IF l = NoPlace THEN UNCHANGED stockVars ELSE Reserve(r, l)

\* The pieces the requests in R ask for, one by one, and how many they are.
Pieces(R)     == UNION {{r} \X (1..Qty[r]) : r \in R}
PieceCount(R) == Cardinality(Pieces(R))

\* Mutation: nothing stops reserved_qty at zero.
NoFloor(n) == n

Floor(n) == IF n > 0 THEN n ELSE 0

At(H, l) == {r \in Requests : <<r, l>> \in H}

\* The holds H end in status s.  They were read as active; here they are
\* overwritten and taken off reserved_qty whatever they are by now.
End(H, s) ==
  /\ reserved' = [l \in Locations |-> Floor(reserved[l] - PieceCount(At(H, l)))]
  /\ hold' = [rl \in Requests \X Locations |-> IF rl \in H THEN s ELSE hold[rl]]
  /\ twice' = twice \cup {rl \in H : hold[rl] # "active"}

\* Mutation: the ledger's key names the location too.
ConfirmPerLocation(H) ==
  /\ End(H, "confirmed")
  /\ onhand' = [l \in Locations |-> onhand[l] - PieceCount(At(H, l))]
  /\ consumed' = [r \in Requests |->
       consumed[r] + IF \E l \in Locations : <<r, l>> \in H THEN Qty[r] ELSE 0]

\* confirm_reservation of each hold in H: the stock goes too, unless the ledger
\* has the row confirm:{job}:{item} already.
Confirm(H) ==
  /\ End(H, "confirmed")
  /\ onhand' = [l \in Locations |->
       onhand[l] - PieceCount({r \in At(H, l) : consumed[r] = 0})]
  /\ consumed' = [r \in Requests |->
       IF \E l \in Locations : <<r, l>> \in H THEN Qty[r] ELSE consumed[r]]

\* receive_stock
Receive(l, n) ==
  /\ onhand[l] + n <= MaxStock
  /\ onhand' = [onhand EXCEPT ![l] = @ + n]
  /\ UNCHANGED <<jobVars, request, place, pending, hold, twice, reserved, consumed>>

\* count_stock
Count(l, n) ==
  /\ n >= reserved[l]
  /\ onhand' = [onhand EXCEPT ![l] = n]
  /\ UNCHANGED <<jobVars, request, place, pending, hold, twice, reserved, consumed>>

\* transfer_stock
Transfer(from, to, n) ==
  /\ from # to
  /\ Available(from) >= n
  /\ onhand[to] + n <= MaxStock
  /\ onhand' = [onhand EXCEPT ![from] = @ - n, ![to] = @ + n]
  /\ UNCHANGED <<jobVars, request, place, pending, hold, twice, reserved, consumed>>

-----------------------------------------------------------------------------
(***************************************************************************)
(* Asking for a part                                                       *)
(***************************************************************************)

\* _stock_location_for_part: one location must hold the whole quantity, the
\* technician's own stock before others, the fullest of them first.
Usable(r) == {l \in Reach[r] : Available(l) >= Qty[r]}

Preferred(r) == {l \in Usable(r) : \A k \in Usable(r) :
  /\ k \in Vans => l \in Vans
  /\ (k \in Vans <=> l \in Vans) => Available(k) <= Available(l)}

CreateRead(r) ==
  /\ request[r] = "none"
  /\ job[JobOf[r]] = "open"
  /\ \A l \in Locations : <<r, "create", l>> \notin pending
  /\ \E l \in Preferred(r) : Begin(r, "create", l)

\* The job is not locked: it may be finished or cancelled by now.
CreateCommit(r, l) ==
  /\ Done(r, "create", l)
  /\ request' = [request EXCEPT ![r] = "customer_approval_pending"]
  /\ place' = [place EXCEPT ![r] = l]
  /\ UNCHANGED <<jobVars, stockVars>>

\* cancel_parts_request, reject_parts_request and the customer's decline: between
\* them they turn down whatever is pending.
RefuseRead(r) ==
  /\ request[r] \in PendingStatuses
  /\ Begin(r, "refuse", NoPlace)

RefuseCommit(r) ==
  /\ Done(r, "refuse", NoPlace)
  /\ request' = [request EXCEPT ![r] = "refused"]
  /\ UNCHANGED <<jobVars, place, stockVars>>

\* customer_decide_parts_request; an approval keeps the place it read.
CustomerRead(r) ==
  /\ request[r] = "customer_approval_pending"
  /\ required[r]
  /\ Begin(r, "approve", place[r])

\* approve_parts_request: the provider names a location, or buys the part in.
BusinessRead(r, l) ==
  /\ request[r] = "requested"
  /\ l \in Reach[r] \cup {NoPlace}
  /\ Begin(r, "business_approve", l)

CustomerApprove(r, l) ==
  /\ DoneOnce(r, "approve", l)
  /\ ReserveParts(r, l)
  /\ request' = [request EXCEPT ![r] = "approved"]
  /\ UNCHANGED <<jobVars, place>>

\* Buying in leaves the columns of a request as they are: it was read with none
\* of them set, so the session has no change to write.  Stock is held once
\* nobody else must approve.
BusinessApprove(r, l) ==
  /\ DoneOnce(r, "business_approve", l)
  /\ place' = IF l = NoPlace THEN place ELSE [place EXCEPT ![r] = l]
  /\ \/ /\ required[r]
        /\ request' = [request EXCEPT ![r] = "customer_approval_pending"]
        /\ UNCHANGED stockVars
     \/ /\ ~required[r]
        /\ request' = [request EXCEPT ![r] = "approved"]
        /\ ReserveParts(r, l)
  /\ UNCHANGED jobVars

\* A decision refused or rolled back.
Abort(r, d, l) ==
  /\ d # "finish"
  /\ Done(r, d, l)
  /\ UNCHANGED <<jobVars, request, place, stockVars>>

-----------------------------------------------------------------------------
(***************************************************************************)
(* The end of a hold                                                       *)
(***************************************************************************)

Ours(j) == {r \in Requests : JobOf[r] = j}

\* What a work-done request of j is installing: <<request, place>>.
Installing(j) ==
  {<<e[1], e[3]>> : e \in {f \in pending : f[2] = "finish" /\ f[1] \in Ours(j)}}

NoLonger(j) == {e \in pending : ~(e[2] = "finish" /\ e[1] \in Ours(j))}

\* mark_work_done: refused while a part is pending.
WorkDoneRead(j) ==
  /\ job[j] = "open"
  /\ finishing[j] = "no"
  /\ InFlight < MaxInFlight
  /\ \A r \in Ours(j) : request[r] \notin PendingStatuses
  /\ finishing' = [finishing EXCEPT ![j] = "checked"]
  /\ UNCHANGED <<job, request, required, place, pending, stockVars>>

\* stock_reservation_id is set: some approval made a reservation.
Reserved(r) == \E l \in Locations : hold[<<r, l>>] # "none"

\* _set_status locks the job and refuses one that has moved, then the approved
\* parts and their reservations are read.  A part without a reservation is left
\* as it is, one whose reservation is not active fails the request.
WorkDoneLook(j) ==
  LET approved == {r \in Ours(j) : request[r] = "approved"}
      bought   == {r \in approved : place[r] = NoPlace}
      held     == {r \in approved \ bought : Reserved(r)}
  IN  /\ finishing[j] = "checked"
      /\ job[j] = "open"
      /\ \A r \in held : hold[<<r, place[r]>>] = "active"
      /\ finishing' = [finishing EXCEPT ![j] = "installing"]
      /\ pending' = pending \cup {<<r, "finish", place[r]>> : r \in held \cup bought}
      /\ UNCHANGED <<job, request, required, place, stockVars>>

WorkDoneCommit(j) ==
  /\ finishing[j] = "installing"
  /\ job[j] = "open"
  /\ finishing' = [finishing EXCEPT ![j] = "no"]
  /\ pending' = NoLonger(j)
  /\ job' = [job EXCEPT ![j] = "closed"]
  /\ Confirm({rl \in Installing(j) : rl[2] # NoPlace})
  /\ request' = [r \in Requests |->
       IF \E l \in Places : <<r, l>> \in Installing(j) THEN "installed" ELSE request[r]]
  /\ UNCHANGED <<required, place>>

WorkDoneAbort(j) ==
  /\ finishing[j] # "no"
  /\ finishing' = [finishing EXCEPT ![j] = "no"]
  /\ pending' = NoLonger(j)
  /\ UNCHANGED <<job, request, required, place, stockVars>>

\* The job is cancelled; its parts are not looked at.
CancelJob(j) ==
  /\ job[j] = "open"
  /\ job' = [job EXCEPT ![j] = "closed"]
  /\ UNCHANGED <<finishing, request, required, place, pending, stockVars>>

\* install_parts_request, by the provider: a part that is bought in, or one whose
\* reservation is active.
InstallRead(r) ==
  /\ request[r] = "approved"
  /\ place[r] # NoPlace => hold[<<r, place[r]>>] = "active"
  /\ Begin(r, "install", place[r])

InstallCommit(r, l) ==
  /\ Done(r, "install", l)
  /\ IF l = NoPlace THEN UNCHANGED stockVars ELSE Confirm({<<r, l>>})
  /\ request' = [request EXCEPT ![r] = "installed"]
  /\ UNCHANGED <<jobVars, place>>

\* confirm_reservation and release_reservation from the inventory screen: the
\* request is not looked at.
StockroomRead(r, l) ==
  /\ hold[<<r, l>>] = "active"
  /\ Begin(r, "confirm", l) \/ Begin(r, "release", l)

ConfirmCommit(r, l) ==
  /\ Done(r, "confirm", l)
  /\ Confirm({<<r, l>>})
  /\ UNCHANGED <<jobVars, request, place>>

ReleaseCommit(r, l) ==
  /\ Done(r, "release", l)
  /\ End({<<r, l>>}, "released")
  /\ UNCHANGED <<jobVars, request, place, onhand, consumed>>

-----------------------------------------------------------------------------
Asking == \E r \in Requests :
  \/ CreateRead(r) \/ CustomerRead(r) \/ RefuseRead(r) \/ RefuseCommit(r)
  \/ \E l \in Locations : CreateCommit(r, l)
  \/ \E l \in Places :
       BusinessRead(r, l) \/ BusinessApprove(r, l) \/ CustomerApprove(r, l)
  \/ \E d \in Decisions, l \in Places : Abort(r, d, l)

Finishing == \E j \in Jobs :
  WorkDoneRead(j) \/ WorkDoneLook(j) \/ WorkDoneCommit(j) \/ WorkDoneAbort(j) \/ CancelJob(j)

Ending == \E r \in Requests :
  \/ InstallRead(r)
  \/ \E l \in Places : InstallCommit(r, l)
  \/ \E l \in Locations : StockroomRead(r, l) \/ ConfirmCommit(r, l) \/ ReleaseCommit(r, l)

Stockroom == \E l \in Locations :
  \/ \E n \in 1..MaxStock : Receive(l, n)
  \/ \E n \in 0..MaxStock : Count(l, n)
  \/ \E to \in Locations, n \in 1..MaxStock : Transfer(l, to, n)

Next == Asking \/ Finishing \/ Ending \/ Stockroom

Spec == Init /\ [][Next]_vars

-----------------------------------------------------------------------------
(***************************************************************************)
(* Properties                                                              *)
(***************************************************************************)

HeldAt(l) == {r \in Requests : hold[<<r, l>>] = "active"}

\* A piece promised to one job is not promised or moved away to another, over
\* decisions taken twice or against each other, receipts, counts and transfers:
\* reserved_qty is what the active reservations add up to, and it is there.  The
\* exception is a location where a hold was ended twice, by two that had both
\* read it active: from then on reserved_qty may say less than is held, so that a
\* held piece can be given away, but it never says more.
HeldStockIsThere ==
  \A l \in Locations :
    /\ reserved[l] <= PieceCount(HeldAt(l))
    /\ (\A r \in Requests : <<r, l>> \notin twice) =>
         /\ reserved[l] = PieceCount(HeldAt(l))
         /\ reserved[l] <= onhand[l]

\* A part leaves the stock at most once, also when two end its hold or hold it at
\* two locations; a confirmed hold has taken it, and what was taken shows as a
\* confirmed hold unless a second end has overwritten that.  A technician's
\* request shown as installed has taken its part.  (A request of an older version
\* may not: installing a part that is read as bought in overlaps an approval that
\* names a location.)
PartLeavesOnce ==
  \A r \in Requests :
    /\ consumed[r] \in {0, Qty[r]}
    /\ (\E l \in Locations : hold[<<r, l>>] = "confirmed") => consumed[r] = Qty[r]
    /\ consumed[r] = Qty[r] =>
         \E l \in Locations : hold[<<r, l>>] = "confirmed" \/ <<r, l>> \in twice
    /\ (request[r] = "installed" /\ r \notin Legacy) => consumed[r] = Qty[r]
=============================================================================
