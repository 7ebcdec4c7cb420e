------------------------------ MODULE SlaClock ------------------------------
(***************************************************************************)
(* The clock a job is judged by, and what running out of time costs: the   *)
(* sla_* columns of service_jobs, the provider's account, and the requests *)
(* of a provider to have the customer confirm a cancellation.              *)
(*                                                                         *)
(* Two sweeps (sla_breach every 15 minutes, travel_timeout every minute)   *)
(* and the stall watchdog act on jobs; technicians, providers, customers   *)
(* and admins act in between, and time passes.  Every handler here locks   *)
(* the job's row, or re-reads the status under that lock, so each is one   *)
(* step; the sweep skips rows that are locked and rolls back as a whole,   *)
(* so that any set of jobs may be left for a later run.  One tick is the   *)
(* unit all policy times are given in.                                     *)
(***************************************************************************)
EXTENDS Integers

CONSTANTS Jobs,          \* the jobs of one provider
          Reachable,     \* those with a customer_id, who can be compensated
          FirstSlot,     \* where the slot a job is booked into ends
          LaterSlots,    \* slots a job can be moved to
          Reasons,       \* cancellation reasons the customer must confirm
          ToCustomer,    \* sla_penalty_to_customer
          AutoCancel,    \* sla_auto_cancel
          Initial,       \* the charge for a missed slot
          Total,         \* sla_total_penalty_amount, the cumulative target
          DebtCap,       \* sla_penalty_debt_cap
          Refusals,      \* how an arrival claim is refused: "gps", "denied"
          FalsePenalty,  \* false_arrival_penalty_amount
          Opening,       \* the provider's balance before anything is charged
          CloseAfter,    \* sla_close_after_hours
          StageLimit,    \* minutes a stage, or a journey, may last
          ConfirmWithin, \* provider_cancellation_confirmation_minutes
          MaxTime,       \* bound: the clock
          MaxReopens     \* bound: times the admin reopens a job

VARIABLES now,
          job,       \* what a job's row holds, see JobType
          paid,      \* per job, the penalties its ledger rows add up to
          refund,    \* per job, what waivers gave back
          balance,   \* the provider's credit balance
          request    \* per job, its pending cancellation request

vars == <<now, job, paid, refund, balance, request>>

money == <<paid, refund, balance>>

\* What a penalty's idempotency key is made of besides the job.  The keys of
\* the stages, each of which names its entry, are added up under "stage".
Keys == {"day1", "final", "gps", "denied", "stage"}

NoTime   == -1      \* a NULL timestamp
NoEvent  == -1      \* no job_stage_sla_penalty event for this stage entry
Times    == 0 .. MaxTime
Slots    == {FirstSlot} \cup LaterSlots

Lesser(a, b)  == IF a < b THEN a ELSE b
Greater(a, b) == IF a > b THEN a ELSE b

\* The statuses that differ for the clock.  on_site stands for the provider's
\* stages after arrival, with_customer for the waits the customer owns.
Statuses == {"pending_assignment", "scheduled", "on_the_way", "on_site",
             "with_customer", "customer_not_available", "closed"}

Breachable == {"pending_assignment", "scheduled", "on_the_way"}

JobType == [status : Statuses, slot : Slots,
            entered : Times,                    \* on the way and on site only
            arrived : BOOLEAN,
            enrolled : BOOLEAN,                 \* sla_enforcement_started_at
            due : Slots \cup {NoTime},          \* sla_due_at
            next : (Slots \cup {s + CloseAfter : s \in Slots}) \cup {NoTime},
            stopped : BOOLEAN,                  \* sla_stopped_at
            days : 0 .. 2,                      \* sla_penalty_day_count
            breached : BOOLEAN,                 \* sla_breached_at
            charged : Int,                      \* sla_penalty_charged
            waived : BOOLEAN,                   \* sla_penalty_waived_at
            held : Times \cup {NoTime},         \* handover awaits the customer
            first : Int,                        \* penalty event of this entry
            final : BOOLEAN,                    \* close event of this entry
            reopens : 0 .. MaxReopens,
            by : {"nobody", "sweep", "watchdog", "provider", "customer", "work", "refused"}]

\* The row of a job's request that is still pending, if there is one: nothing
\* reads a request that was approved, rejected, superseded or has expired.
NoRequest == [reason |-> "none", expires |-> NoTime]

RequestType == [reason : Reasons, expires : 0 .. MaxTime + ConfirmWithin]

ASSUME PolicyAssumption ==
  /\ Reachable \subseteq Jobs /\ Refusals \subseteq {"gps", "denied"}
  /\ FirstSlot \in Nat /\ LaterSlots \subseteq Nat
  /\ ToCustomer \in BOOLEAN /\ AutoCancel \in BOOLEAN
  /\ Initial \in Nat /\ Total \in Nat /\ DebtCap \in Nat
  /\ FalsePenalty \in Nat /\ Opening \in Int
  /\ CloseAfter \in Nat \ {0} /\ StageLimit \in Nat \ {0}
  /\ ConfirmWithin \in Nat \ {0}
  /\ MaxTime \in Nat /\ MaxReopens \in Nat

Init ==
  /\ now = 0
  /\ job = [j \in Jobs |->
       [status |-> "pending_assignment", slot |-> FirstSlot, entered |-> 0,
        arrived |-> FALSE, enrolled |-> FALSE, due |-> NoTime, next |-> NoTime,
        stopped |-> FALSE, days |-> 0, breached |-> FALSE, charged |-> 0,
        waived |-> FALSE, held |-> NoTime, first |-> NoEvent, final |-> FALSE,
        reopens |-> 0, by |-> "nobody"]]
  /\ paid = [j \in Jobs |-> [k \in Keys |-> 0]]
  /\ refund = [j \in Jobs |-> 0]
  /\ balance = Opening
  /\ request = [j \in Jobs |-> NoRequest]

-----------------------------------------------------------------------------
(* The clock of one job. *)

\* stamp_due_at: enrol, run from the promised slot, clear an earlier stop.
Stamped(row) ==
  [row EXCEPT !.enrolled = TRUE, !.due = row.slot, !.next = row.slot,
              !.stopped = FALSE]

\* stop_sla.
Stopped(row) == [row EXCEPT !.stopped = TRUE, !.due = NoTime, !.next = NoTime]

\* Mutation: the close window is added to a deadline that already has it.
WindowTwice(row) ==
  [row EXCEPT !.due = row.slot, !.next = row.slot + 2 * row.days * CloseAfter]

\* _reconcile_enforced_deadlines, which every sweep runs first.
Reconciled(row) ==
  [row EXCEPT !.due = row.slot,
              !.next = IF row.days = 0 THEN row.slot ELSE row.slot + CloseAfter]

\* A new status.  The events of a stage entry carry its token, so the next
\* entry starts without any; the time of entry is read only on the way to the
\* customer and on site.
Moved(row, status, at) ==
  [row EXCEPT !.status = status, !.entered = at, !.held = NoTime,
              !.first = NoEvent, !.final = FALSE]

Closed(row, who) == [Moved(row, "closed", 0) EXCEPT !.by = who]

\* The first deadline of a provider-owned stage.
StageDue(row) == Greater(row.slot, row.entered + StageLimit)

Open(j) == job[j].status # "closed"

-----------------------------------------------------------------------------
(* Money. *)

\* _charge_penalty: what the balance moves by, and what the caller is told was
\* taken.  A replayed key moves nothing and reports the earlier row's amount.
Withdraw(seen, amount, allowed) ==
  IF amount = 0 THEN [moved |-> 0, told |-> 0]
  ELSE IF seen > 0 THEN [moved |-> 0, told |-> seen]
  ELSE [moved |-> Lesser(amount, allowed), told |-> Lesser(amount, allowed)]

\* What the debt cap leaves to take.
Allowed(bal) == Greater(0, bal + DebtCap)

\* issue_provider_funded_customer_credit: no cap, and a replay reports nothing.
Remedy(seen, amount) ==
  IF amount = 0 \/ seen > 0 THEN [moved |-> 0, told |-> 0]
  ELSE [moved |-> amount, told |-> amount]

Compensates(j) == ToCustomer /\ j \in Reachable

\* A remedy that fails has failed the database transaction, so the charge the
\* code falls back on fails with it and the sweep is rolled back.
Take(j, key, amount) ==
  IF Compensates(j) THEN Remedy(paid[j][key], amount)
  ELSE Withdraw(paid[j][key], amount, Allowed(balance))

\* Mutation: the close charges the full target on top of the first charge.
FullTarget(charged, target) == target

\* final_penalty_top_up.
TopUp(charged, target) == Greater(0, target - charged)

\* The rows of one penalty: the ledger and the balance.
Book(j, key, t) ==
  /\ paid' = [paid EXCEPT ![j][key] = @ + t.moved]
  /\ balance' = balance - t.moved
  /\ UNCHANGED refund

\* Mutation: the cancellation forgets the remainder of the target.
SettleNothing(j, row, who) ==
  /\ job' = [job EXCEPT ![j] = Closed(row, who)]
  /\ UNCHANGED money

\* settle_no_arrival_close, then the close of the job.
SettleNoArrival(j, row, who) ==
  LET t == Take(j, "final", TopUp(row.charged, Greater(Initial, Total)))
  IN /\ Book(j, "final", t)
     /\ job' = [job EXCEPT ![j] =
          Closed([row EXCEPT !.breached = TRUE, !.days = 2, !.next = NoTime,
                             !.charged = @ + t.told, !.stopped = TRUE], who)]

-----------------------------------------------------------------------------
(* The sweeps. *)

\* Mutation: a request to cancel stops the clock before the customer confirms.
EnforcedUnlessAsked(j) ==
  /\ job[j].enrolled /\ ~job[j].stopped /\ ~job[j].arrived
  /\ job[j].status \in Breachable
  /\ request[j] = NoRequest

Enforced(j) ==
  /\ job[j].enrolled /\ ~job[j].stopped /\ ~job[j].arrived
  /\ job[j].status \in Breachable

\* The day-1 charge, or the final charge and the close.
Breach(j, row) ==
  LET last == row.days >= 1
      key  == IF last THEN "final" ELSE "day1"
      t    == Take(j, key, IF last THEN TopUp(row.charged, Total) ELSE Initial)
      told == [row EXCEPT !.breached = TRUE, !.days = IF last THEN 2 ELSE 1,
                 !.charged = @ + t.told, !.stopped = last,
                 !.next = IF last THEN NoTime ELSE row.due + CloseAfter]
  IN /\ Book(j, key, t)
     /\ job' = [job EXCEPT ![j] =
                  IF last /\ AutoCancel THEN Closed(told, "sweep") ELSE told]

\* sla_breach_service.sweep for one of the rows it could lock.
SweepJob(j) ==
  /\ Enforced(j)
  /\ LET row == Reconciled(job[j])
     IN \/ /\ row.next > now
           /\ job' = [job EXCEPT ![j] = row]
           /\ UNCHANGED money
        \/ row.next <= now /\ Breach(j, row)
  /\ UNCHANGED <<now, request>>

\* travel_timeout.sweep and _cancel.
TravelTimeout(j) ==
  /\ job[j].status = "on_the_way"
  /\ job[j].days >= 1 /\ job[j].next # NoTime
  /\ now >= Greater(job[j].entered + StageLimit, job[j].next)
  /\ SettleNoArrival(j, job[j], "sweep")
  /\ UNCHANGED <<now, request>>

\* Mutation: the watchdog charges the stage and never closes it.
StageNeverClosed(j) ==
  LET p == Withdraw(0, Initial, Allowed(balance))
  IN /\ job[j].status = "on_site" /\ job[j].held = NoTime
     /\ now >= StageDue(job[j]) /\ job[j].first = NoEvent
     /\ paid' = [paid EXCEPT ![j]["stage"] = @ + p.moved]
     /\ balance' = balance - p.moved
     /\ job' = [job EXCEPT ![j].first = p.told, ![j].charged = @ + p.moved]
     /\ UNCHANGED <<refund, now, request>>

\* enforce_stalled_provider_stage, called by the stall watchdog.
EnforceStage(j) ==
  LET row  == job[j]
      due1 == StageDue(row)
      one  == IF row.first = NoEvent THEN Withdraw(0, Initial, Allowed(balance))
              ELSE [moved |-> 0, told |-> row.first]
      ends == now >= due1 + CloseAfter /\ ~row.final
      two  == IF ends
              THEN Withdraw(0, TopUp(one.told, Total),
                            Allowed(balance - one.moved))
              ELSE [moved |-> 0, told |-> 0]
      sum  == one.moved + two.moved
      told == [row EXCEPT !.first = one.told, !.final = @ \/ ends,
                 !.breached = @ \/ one.moved > 0, !.charged = @ + sum]
  IN /\ row.status = "on_site" /\ row.held = NoTime /\ now >= due1
     /\ paid' = [paid EXCEPT ![j]["stage"] = @ + sum]
     /\ balance' = balance - sum
     /\ job' = [job EXCEPT ![j] =
                  IF ends /\ AutoCancel THEN Closed(told, "watchdog") ELSE told]
     /\ UNCHANGED <<refund, now, request>>

-----------------------------------------------------------------------------
(* Technician, provider, customer, admin. *)

JobOnly(j, row) ==
  /\ job' = [job EXCEPT ![j] = row]
  /\ UNCHANGED <<money, now, request>>

\* assign_staff: the first point a job has a date to be judged against.
Assign(j) ==
  /\ job[j].status = "pending_assignment"
  /\ JobOnly(j, Stamped(Moved(job[j], "scheduled", 0)))

\* The assignment is dropped or rejected; the clock is left running.
Drop(j) ==
  /\ job[j].status = "scheduled"
  /\ JobOnly(j, Moved(job[j], "pending_assignment", 0))

\* customer_reschedule_booking: before travel only the slot moves, after a
\* visit the job returns to the schedule for a fresh one.
Reschedule(j, s) ==
  /\ s > job[j].slot
  /\ \/ /\ job[j].status \in {"pending_assignment", "scheduled"}
        /\ JobOnly(j, Stamped([job[j] EXCEPT !.slot = s]))
     \/ /\ job[j].status \in {"on_site", "customer_not_available"}
        /\ JobOnly(j, Stamped([Moved(job[j], "scheduled", 0)
                                EXCEPT !.slot = s, !.arrived = FALSE]))

\* mark_on_the_way.
SetOff(j) ==
  /\ job[j].status = "scheduled"
  /\ LET row == Moved(job[j], "on_the_way", now)
     IN JobOnly(j, IF row.due = NoTime /\ ~row.enrolled THEN Stamped(row) ELSE row)

\* mark_reached_site or a confirmed arrival.
Arrive(j) ==
  /\ job[j].status = "on_the_way"
  /\ JobOnly(j, [Stopped(Moved(job[j], "on_site", now)) EXCEPT !.arrived = TRUE])

\* _close_false_arrival and _close_repeated_denied_arrival: the penalty knows
\* no cap, and the clock stops without a breach being recorded.
FalseArrival(j, key) ==
  LET p == Withdraw(paid[j][key], FalsePenalty, FalsePenalty)
  IN /\ job[j].status = "on_the_way"
     /\ paid' = [paid EXCEPT ![j][key] = @ + p.moved]
     /\ balance' = balance - p.moved
     /\ job' = [job EXCEPT ![j] =
          Closed([job[j] EXCEPT !.charged = @ + p.told, !.stopped = TRUE,
                                !.next = NoTime], "refused")]
     /\ UNCHANGED <<refund, now, request>>

\* The next provider-owned stage, with stop_sla where the stage starts work.
Progress(j) ==
  /\ job[j].status \in {"on_site", "with_customer"}
  /\ JobOnly(j, Stopped(Moved(job[j], "on_site", now)))

\* An estimate is sent: the status itself is the customer's.
AwaitCustomer(j) ==
  /\ job[j].status = "on_site"
  /\ JobOnly(j, Moved(job[j], "with_customer", 0))

\* request_handover, and acknowledge_handover or mark_customer_unavailable: the
\* stage stays work_done, entered when it was.
RequestHandover(j) ==
  /\ job[j].status = "on_site" /\ job[j].held = NoTime
  /\ JobOnly(j, [job[j] EXCEPT !.held = now])

AnswerHandover(j) ==
  /\ job[j].held # NoTime
  /\ JobOnly(j, [job[j] EXCEPT !.held = NoTime])

\* mark_customer_not_available: outside the breachable statuses.
CustomerNotAvailable(j) ==
  /\ job[j].status \in {"scheduled", "on_the_way", "on_site"}
  /\ JobOnly(j, Moved(job[j], "customer_not_available", 0))

Complete(j) ==
  /\ job[j].status = "on_site"
  /\ JobOnly(j, Closed(job[j], "work"))

\* override_status by an admin: the sla columns stay as they are.
Reopen(j) ==
  /\ job[j].status = "closed" /\ job[j].reopens < MaxReopens
  /\ JobOnly(j, [job[j] EXCEPT !.status = "pending_assignment",
                               !.reopens = @ + 1, !.by = "nobody"])

\* initiate, for a reason the provider owns: cancel_job with its settlement.
ProviderCancel(j) ==
  /\ Open(j)
  /\ IF job[j].breached \/ job[j].days > 0
     THEN SettleNoArrival(j, job[j], "provider")
     ELSE /\ job' = [job EXCEPT ![j] = Closed(job[j], "provider")]
          /\ UNCHANGED money
  /\ UNCHANGED <<now, request>>

Lapsed(j) == request[j].expires <= now

Pending(j) == request[j] # NoRequest

\* initiate, for a reason the customer must confirm.  A live request with the
\* same reason is kept; another one is superseded or expires, and is replaced.
RequestCancellation(j, reason) ==
  /\ Open(j) /\ j \in Reachable
  /\ Pending(j) /\ ~Lapsed(j) => request[j].reason # reason
  /\ request' = [request EXCEPT ![j] = [reason  |-> reason,
                                        expires |-> now + ConfirmWithin]]
  /\ UNCHANGED <<job, money, now>>

\* decide_request: a late answer only expires the request.  An approval cancels
\* the job in the customer's name, so the provider settles nothing.
DecideRequest(j, approve) ==
  /\ Pending(j)
  /\ request' = [request EXCEPT ![j] = NoRequest]
  /\ IF approve /\ ~Lapsed(j)
     THEN Open(j) /\ job' = [job EXCEPT ![j] = Closed(job[j], "customer")]
     ELSE UNCHANGED job
  /\ UNCHANGED <<money, now>>

\* waive_penalty: the provider gets the recorded charge back.  (What it takes
\* back from the customer is not modelled.)
WaivePenalty(j) ==
  /\ ~job[j].waived /\ job[j].charged > 0
  /\ balance' = balance + job[j].charged
  /\ refund' = [refund EXCEPT ![j] = @ + job[j].charged]
  /\ job' = [job EXCEPT ![j].waived = TRUE]
  /\ UNCHANGED <<paid, now, request>>

Tick == now < MaxTime /\ now' = now + 1 /\ UNCHANGED <<job, money, request>>

Act(j) ==
  \/ Assign(j) \/ Drop(j) \/ SetOff(j) \/ Arrive(j) \/ Progress(j)
  \/ AwaitCustomer(j) \/ RequestHandover(j) \/ AnswerHandover(j)
  \/ CustomerNotAvailable(j) \/ Complete(j) \/ Reopen(j)
  \/ ProviderCancel(j) \/ WaivePenalty(j)
  \/ \E s \in LaterSlots : Reschedule(j, s)
  \/ \E key \in Refusals : FalseArrival(j, key)
  \/ \E reason \in Reasons : RequestCancellation(j, reason)
  \/ \E approve \in BOOLEAN : DecideRequest(j, approve)

Next ==
  \/ Tick
  \/ \E j \in Jobs : Act(j) \/ SweepJob(j) \/ TravelTimeout(j) \/ EnforceStage(j)

\* The three loops run for as long as the service does, and time passes.
Fairness ==
  /\ WF_vars(Tick)
  /\ \A j \in Jobs : WF_vars(SweepJob(j)) /\ WF_vars(EnforceStage(j))

Spec == Init /\ [][Next]_vars /\ Fairness

-----------------------------------------------------------------------------
(* Properties. *)

TypeOK ==
  /\ now \in Times
  /\ job \in [Jobs -> JobType]
  /\ paid \in [Jobs -> [Keys -> Nat]]
  /\ refund \in [Jobs -> Nat]
  /\ balance \in Int
  /\ request \in [Jobs -> RequestType \cup {NoRequest}]

Target == Greater(Initial, Total)

\* The two charges of the missed-arrival rule never add up to more than the
\* policy's cumulative amount, however often a job is rescheduled, reopened,
\* waived and swept (final_penalty_top_up, settle_no_arrival_close).
PenaltyWithinPolicy ==
  \A j \in Jobs : paid[j]["day1"] + paid[j]["final"] <= Target

\* "A provider must not be able to escape the final SLA consequence by
\* cancelling" (cancel_job): once a breach is recorded, a job its provider
\* cancels, or that a sweep closes for want of an arrival, has been charged the
\* full amount.  It is so for jobs whose penalty goes to the customer, which no
\* debt cap limits.
NoEscapeByCancelling ==
  \A j \in Jobs : Compensates(j) /\ job[j].by \in {"provider", "sweep"}
                  /\ job[j].days > 0 => job[j].charged >= Target

Abandoned(j) == /\ job[j].status \in {"scheduled", "on_the_way"}
                /\ ~job[j].arrived
                /\ now >= job[j].slot + CloseAfter

\* A job nobody reaches is closed, or somebody acts on it: no sequence of
\* reschedules, dropped assignments and pending cancellation requests leaves
\* it open for ever (a request "does not stop SLA enforcement").
AbandonedJobIsClosed == \A j \in Jobs : Abandoned(j) ~> ~Abandoned(j)

Parked(j) == /\ job[j].status = "on_site" /\ job[j].held = NoTime
             /\ now >= StageDue(job[j]) + CloseAfter

\* "Reached site" is no way out of the SLA: a stage the provider leaves
\* standing is closed by the watchdog, or moves on.
ParkedStageEnds == \A j \in Jobs : Parked(j) ~> ~Parked(j)
=============================================================================
