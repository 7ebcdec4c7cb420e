---------------------------- MODULE JobLifecycle ----------------------------
(***************************************************************************)
(* One home-service job from booking to closure: the rows service_jobs,    *)
(* service_bookings, service_job_assignments and service_job_quotes of one *)
(* job, and every handler of src/app that writes their status.             *)
(*                                                                         *)
(* A handler that takes the job's row lock before it decides is one atomic *)
(* action.  A handler that decides on an unlocked read is an operator of   *)
(* the snapshot s it read; while it is open (Read ... Write) the others    *)
(* may commit.  Refusals for reasons kept out of the model (clocks, slot   *)
(* capacity, policies, checklists, payloads, access) are steps not taken.  *)
(***************************************************************************)
EXTENDS Integers

CONSTANTS Handlers,       \* the handlers in play
          Overlapping,    \* unlocked handlers that may stay open while others act
          Requests,       \* how many of those are open at a time
          QuoteGated,     \* quote_gates_work: the price of the job is an estimate
          ChargeAt,       \* the lifecycle event the policy charges the provider at
          MaxAssignments, \* bound: assignment rows of the job
          MaxQuotes       \* bound: quote rows of the job

VARIABLES job,        \* service_jobs.status
          booking,    \* service_bookings.status
          staff,      \* service_jobs.assigned_staff_id is set
          asg,        \* status of the current assignment row, or "none"
          asgNo,      \* how many assignment rows were made; the last is row asgNo
          arrived,    \* arrival_verified_at is set
          challenge,  \* an arrival challenge is pending
          contacted,  \* a customer_contacted event exists
          begun,      \* an event with new_status service_started exists
          quote,      \* status of the current quote row, or "none"
          quoteNo,    \* how many quote rows were made; the current one is the last
          charged,    \* a completed_job_deduction ledger row exists
          proposal,   \* a provider reschedule request is pending
          txn         \* the open unlocked transactions

jobRows    == <<job, booking>>
assignment == <<staff, asg, asgNo>>
visit      == <<arrived, challenge, contacted, begun>>
estimate   == <<quote, quoteNo>>
vars == <<jobRows, assignment, visit, estimate, charged, proposal, txn>>

Terminal == {"completed", "cancelled", "failed", "closed_estimate_declined",
             "force_closed", "voided"}

Statuses == Terminal \cup
  {"pending_assignment", "assigned", "accepted", "scheduled", "on_the_way",
   "reached_site", "inspection_started", "inspection_done", "quote_required",
   "service_started", "work_done", "customer_not_available", "invoice_issued"}

QuoteStatuses == {"none", "draft", "sent", "approved", "rejected",
                  "revision_requested", "revised", "cancelled"}

\* Mutation: only finished jobs are protected, the graph is not consulted.
GraphUnchecked(a, b) == a \notin Terminal

\* JOB_TRANSITIONS.
CanMove(a, b) ==
  \/ a = "pending_assignment" /\ b \in {"assigned", "cancelled"}
  \/ a = "assigned" /\ b \in {"accepted", "cancelled"}
  \/ a = "accepted" /\ b \in {"scheduled", "on_the_way", "cancelled"}
  \/ a = "scheduled" /\ b \in {"on_the_way", "cancelled", "customer_not_available"}
  \/ a = "on_the_way" /\ b \in {"reached_site", "customer_not_available", "cancelled"}
  \/ a = "reached_site" /\ b \in {"inspection_started", "service_started",
                           "quote_required", "customer_not_available", "cancelled"}
  \/ a = "inspection_started" /\ b \in {"inspection_done", "quote_required",
                                 "customer_not_available", "cancelled"}
  \/ a = "inspection_done" /\ b \in {"quote_required", "service_started", "cancelled"}
  \/ a = "service_started" /\ b \in {"work_done", "quote_required", "cancelled"}
  \/ a = "work_done" /\ b = "completed"
  \/ a = "quote_required" /\ b \in {"service_started", "closed_estimate_declined",
                             "cancelled"}
  \/ a = "customer_not_available" /\ b \in {"accepted", "scheduled", "cancelled"}

\* QUOTE_TRANSITIONS, without the provider-approval statuses no handler writes.
QuoteCanMove(a, b) ==
  \/ a \in {"draft", "revised"} /\ b \in {"sent", "cancelled"}
  \/ a = "sent" /\ b \in {"approved", "rejected", "revision_requested", "cancelled"}
  \/ a = "revision_requested" /\ b \in {"revised", "cancelled"}

\* What an unlocked handler holds of the rows once it has read them.
Now == [job |-> job, booking |-> booking, staff |-> staff, asg |-> asg,
        asgNo |-> asgNo, quote |-> quote, quoteNo |-> quoteNo,
        begun |-> begun, charged |-> charged]

Snapshots == [job : Statuses, booking : Statuses, staff : BOOLEAN,
              asg : {"none", "assigned", "accepted"}, asgNo : 0 .. MaxAssignments,
              quote : QuoteStatuses, quoteNo : 0 .. MaxQuotes,
              begun : BOOLEAN, charged : BOOLEAN]

Idle == [op |-> "idle"]

Init ==
  /\ job = "pending_assignment" /\ booking = "pending_assignment"
  /\ staff = FALSE /\ asg = "none" /\ asgNo = 0
  /\ arrived = FALSE /\ challenge = FALSE /\ contacted = FALSE /\ begun = FALSE
  /\ quote = "none" /\ quoteNo = 0
  /\ charged = FALSE /\ proposal = FALSE
  /\ txn = [r \in Requests |-> Idle]

-----------------------------------------------------------------------------
(* Field execution: every handler ends in _set_status, which locks the job. *)

\* Mutation: a fixed boolean, not the current quote, authorises the work.
WorkStartsUnapproved == TRUE

\* _assert_quote_approval_satisfied.
QuoteApprovalSatisfied == QuoteGated => quote = "approved"

\* _set_status: setting the status the job already has changes nothing, and
\* the handler goes on with what it does after the call.
SetStatus(new) ==
  /\ job = new \/ CanMove(job, new)
  /\ (new = "service_started" /\ job # new) => QuoteApprovalSatisfied
  /\ job' = new
  /\ booking' = IF job = new THEN booking ELSE new
  /\ begun' = (begun \/ (job # new /\ new = "service_started"))

\* attempt_charge_at_event: charges at the configured event only, and a failed
\* charge never undoes the field work.
Charge(event) == charged' \in IF event = ChargeAt THEN {charged, TRUE} ELSE {charged}

AcceptJob ==
  /\ staff
  /\ SetStatus("accepted")
  /\ UNCHANGED <<assignment, arrived, challenge, contacted, estimate, charged, proposal>>

RejectJob ==
  /\ staff
  /\ SetStatus("cancelled")
  /\ UNCHANGED <<assignment, arrived, challenge, contacted, estimate, charged, proposal>>

MarkScheduled ==
  /\ SetStatus("scheduled")
  /\ UNCHANGED <<assignment, arrived, challenge, contacted, estimate, charged, proposal>>

LogCustomerContacted ==
  /\ staff
  /\ contacted' = TRUE
  /\ UNCHANGED <<jobRows, assignment, arrived, challenge, begun, estimate,
                 charged, proposal>>

MarkOnTheWay ==
  /\ staff /\ contacted
  /\ SetStatus("on_the_way")
  /\ UNCHANGED <<assignment, arrived, challenge, contacted, estimate, charged, proposal>>

\* mark_reached_site with the GPS fix inside the radius (or no verification).
MarkReachedSite ==
  /\ staff
  /\ SetStatus("reached_site")
  /\ arrived' = TRUE
  /\ UNCHANGED <<assignment, challenge, contacted, estimate, charged, proposal>>

\* mark_reached_site of an Instagram booking.
RequestArrivalConfirmation ==
  /\ staff /\ job = "on_the_way"
  /\ challenge' = TRUE
  /\ UNCHANGED <<jobRows, assignment, arrived, contacted, begun, estimate,
                 charged, proposal>>

ConfirmArrival ==
  /\ challenge /\ job = "on_the_way"
  /\ SetStatus("reached_site")
  /\ arrived' = TRUE /\ challenge' = FALSE
  /\ UNCHANGED <<assignment, contacted, estimate, charged, proposal>>

StartInspection ==
  /\ staff /\ arrived
  /\ SetStatus("inspection_started")
  /\ UNCHANGED <<assignment, arrived, challenge, contacted, estimate, charged, proposal>>

CompleteInspection ==
  /\ staff
  /\ SetStatus("inspection_done")
  /\ UNCHANGED <<assignment, arrived, challenge, contacted, estimate, charged, proposal>>

StartService ==
  /\ staff /\ arrived
  /\ SetStatus("service_started")
  /\ Charge("work_started")
  /\ UNCHANGED <<assignment, arrived, challenge, contacted, estimate, proposal>>

MarkWorkDone ==
  /\ staff
  /\ SetStatus("work_done")
  /\ Charge("work_done")
  /\ UNCHANGED <<assignment, arrived, challenge, contacted, estimate, proposal>>

MarkCustomerNotAvailable ==
  /\ staff
  /\ SetStatus("customer_not_available")
  /\ UNCHANGED <<assignment, arrived, challenge, contacted, estimate, charged, proposal>>

\* Mutation: a status no handler knows.
PartsRequired ==
  /\ staff
  /\ CanMove(job, "quote_required")
  /\ job' = "parts_required" /\ booking' = "parts_required"
  /\ UNCHANGED <<assignment, visit, estimate, charged, proposal>>

\* mark_quote_required and mark_parts_required.
MarkQuoteRequired ==
  /\ staff
  /\ SetStatus("quote_required")
  /\ UNCHANGED <<assignment, arrived, challenge, contacted, estimate, charged, proposal>>

\* Mutation: the job closes and its assignment stays current.
CancelJobOnly ==
  /\ SetStatus("cancelled")
  /\ UNCHANGED <<assignment, arrived, challenge, contacted, estimate, charged, proposal>>

\* cancel_job; it also runs, to the end, on a job that is already cancelled.
CancelJob ==
  /\ job = "cancelled" \/ CanMove(job, "cancelled")
  /\ job' = "cancelled" /\ booking' = "cancelled" /\ asg' = "none"
  /\ UNCHANGED <<staff, asgNo, visit, estimate, charged, proposal>>

CompleteJob ==
  /\ staff /\ job = "work_done"
  /\ SetStatus("completed")
  /\ Charge("job_completed")
  /\ UNCHANGED <<assignment, arrived, challenge, contacted, estimate, proposal>>

-----------------------------------------------------------------------------
(* Closing without the technician. *)

\* _close_breached_job: job, booking and current assignment in one go.
CloseBreached ==
  /\ job' = "cancelled" /\ booking' = "cancelled" /\ asg' = "none"
  /\ UNCHANGED <<staff, asgNo, arrived, contacted, begun, estimate, charged, proposal>>

\* verify_arrival with the GPS fix outside the radius and auto-close on.
FalseArrival ==
  /\ staff
  /\ CloseBreached
  /\ UNCHANGED challenge

\* deny_arrival: the denial alone, or the one that reaches the limit.
DenyArrival ==
  /\ challenge
  /\ challenge' = FALSE
  /\ \/ UNCHANGED <<jobRows, assignment, arrived, contacted, begun, estimate,
                    charged, proposal>>
     \/ CloseBreached

\* The challenge runs out of time or of code attempts.
ChallengeExpires ==
  /\ challenge
  /\ challenge' = FALSE
  /\ UNCHANGED <<jobRows, assignment, arrived, contacted, begun, estimate,
                 charged, proposal>>

\* The SLA sweep's final day.
SlaClose ==
  /\ job \in {"pending_assignment", "assigned", "accepted", "scheduled", "on_the_way"}
  /\ ~arrived
  /\ CloseBreached
  /\ UNCHANGED challenge

\* travel_timeout: FOR UPDATE SKIP LOCKED, and only while still on the way.
TravelTimeout ==
  /\ job = "on_the_way"
  /\ CloseBreached
  /\ UNCHANGED challenge

-----------------------------------------------------------------------------
(* Assignment and visits. *)

\* assign_job, also as the automatic assignment of the offer timeout.
NewAssignment ==
  /\ asgNo < MaxAssignments
  /\ job \notin {"cancelled", "failed", "completed"}
  /\ asg' = "assigned" /\ asgNo' = asgNo + 1 /\ staff' = TRUE
  /\ job' = "assigned" /\ booking' = "assigned"
  /\ UNCHANGED <<visit, estimate, charged, proposal>>

AssignJob == asg # "accepted" /\ NewAssignment

\* Mutation: the manual override forgets which statuses it applies to.
ReassignAnything == NewAssignment

ReassignJob ==
  /\ job \in {"pending_assignment", "assigned", "accepted", "scheduled",
              "customer_not_available"}
  /\ NewAssignment

CustomerCancelBooking ==
  /\ job \in {"pending_assignment", "assigned", "accepted", "scheduled"}
  /\ job' = "cancelled" /\ booking' = "cancelled"
  /\ asg' = "none" /\ staff' = FALSE
  /\ UNCHANGED <<asgNo, visit, estimate, charged, proposal>>

\* create_request of the provider reschedule; a pending one is superseded.
CreateRescheduleRequest ==
  /\ job \in {"pending_assignment", "assigned", "accepted", "scheduled",
              "customer_not_available"}
  /\ proposal' = TRUE
  /\ UNCHANGED <<jobRows, assignment, visit, estimate, charged>>

\* The session writes a column only when it differs from the value it loaded.
Put(loaded, current, new) == IF loaded = new THEN current ELSE new

\* The assignment row of the snapshot, if it is still the current one.
OnAssignment(s, new) == IF asgNo = s.asgNo /\ asg # "none" THEN new ELSE asg

\* customer_reschedule_booking, where it moves the status: a new appointment
\* is a fresh visit.  (Before the visit it moves the slot only.)  It locks the
\* job, but has loaded the booking before that.
CustomerRescheduleBooking(s) ==
  /\ job \in {"reached_site", "customer_not_available"}
  /\ job' = "scheduled"
  /\ booking' = Put(s.booking, booking, "scheduled")
  /\ arrived' = FALSE
  /\ UNCHANGED <<assignment, challenge, contacted, begun, estimate, charged, proposal>>

\* decide_request: locks the request and the job, but has loaded the booking
\* before that and never looks at the job's status.
DecideRescheduleRequest(s) ==
  /\ proposal
  /\ proposal' = FALSE
  /\ \/ UNCHANGED <<jobRows, arrived>>
     \/ /\ job' = "scheduled"
        /\ booking' = Put(s.booking, booking, "scheduled")
        /\ arrived' = FALSE
  /\ UNCHANGED <<assignment, challenge, contacted, begun, estimate, charged>>

\* Mutation: the technician's assignment goes, the job's status stays.
AssignmentLeavesJob(s) ==
  /\ s.asg = "assigned"
  /\ asg' = OnAssignment(s, "none")
  /\ staff' = Put(s.staff, staff, FALSE)
  /\ UNCHANGED <<jobRows, asgNo, visit, estimate, charged, proposal>>

\* cancel_assignment and technician_reject_job.
DropAssignment(s) ==
  /\ s.asg = "assigned"
  /\ asg' = OnAssignment(s, "none")
  /\ staff' = Put(s.staff, staff, FALSE)
  /\ job' = Put(s.job, job, "pending_assignment")
  /\ booking' = "pending_assignment"
  /\ UNCHANGED <<asgNo, visit, estimate, charged, proposal>>

TechnicianAcceptJob(s) ==
  /\ s.asg = "assigned"
  /\ asg' = OnAssignment(s, "accepted")
  /\ job' = Put(s.job, job, "accepted")
  /\ booking' = "accepted"
  /\ UNCHANGED <<staff, asgNo, visit, estimate, charged, proposal>>

ScheduleJob(s) ==
  /\ s.job \in {"assigned", "accepted", "scheduled", "pending_assignment",
                "customer_not_available"}
  /\ job' = Put(s.job, job, "scheduled")
  /\ booking' = "scheduled"
  /\ UNCHANGED <<assignment, visit, estimate, charged, proposal>>

-----------------------------------------------------------------------------
(* Estimates. *)

\* Mutation: the quote engine moves the job and forgets the booking.
SyncJobOnly(s, new) ==
  /\ s.job = new \/ CanMove(s.job, new)
  /\ job' = IF s.job = new THEN job ELSE new
  /\ UNCHANGED booking

\* _sync_job_status: reads the status, checks the edge, updates by job id.
SyncJobStatus(s, new) ==
  /\ s.job = new \/ CanMove(s.job, new)
  /\ IF s.job = new THEN UNCHANGED jobRows ELSE job' = new /\ booking' = new

\* An UPDATE of the snapshot's quote row, which may be current no more.
OnQuote(s, new) ==
  /\ QuoteCanMove(s.quote, new)
  /\ quote' = IF quoteNo = s.quoteNo THEN new ELSE quote
  /\ UNCHANGED quoteNo

\* FOR UPDATE on the quote row: nobody changed it since it was read.
QuoteLocked(s) == quoteNo = s.quoteNo /\ quote = s.quote

\* Mutation: an approved quote is superseded like any other.
SupersedeAnything(s) ==
  /\ quoteNo < MaxQuotes
  /\ s.job # "closed_estimate_declined" /\ s.quote # "sent"
  /\ quoteNo = s.quoteNo
  /\ quote' = "draft" /\ quoteNo' = quoteNo + 1
  /\ UNCHANGED <<jobRows, assignment, visit, charged, proposal>>

\* create_quote supersedes the current row; the partial unique index on
\* is_current refuses the second of two that superseded the same row.
CreateQuote(s) ==
  /\ quoteNo < MaxQuotes
  /\ s.job # "closed_estimate_declined"
  /\ s.quote \notin {"approved", "sent"}
  /\ quoteNo = s.quoteNo
  /\ quote' = "draft" /\ quoteNo' = quoteNo + 1
  /\ UNCHANGED <<jobRows, assignment, visit, charged, proposal>>

SendToCustomer(s) ==
  /\ QuoteLocked(s)
  /\ OnQuote(s, "sent")
  /\ SyncJobStatus(s, "quote_required")
  /\ UNCHANGED <<assignment, visit, charged, proposal>>

CustomerApprove(s) ==
  /\ QuoteLocked(s)
  /\ OnQuote(s, "approved")
  /\ SyncJobStatus(s, "quote_required")
  /\ UNCHANGED <<assignment, visit, charged, proposal>>

\* Mutation: a declined optional estimate always sends the job to work.
RejectMeansWork(s) ==
  /\ OnQuote(s, "rejected")
  /\ SyncJobStatus(s, IF QuoteGated THEN "closed_estimate_declined"
                      ELSE "service_started")
  /\ UNCHANGED <<assignment, visit, charged, proposal>>

\* customer_reject: an estimate that gates the work ends the job; an optional
\* one sends a job whose work had begun back to it.
CustomerReject(s) ==
  /\ OnQuote(s, "rejected")
  /\ IF QuoteGated THEN SyncJobStatus(s, "closed_estimate_declined")
     ELSE IF s.job = "quote_required" /\ s.begun
     THEN SyncJobStatus(s, "service_started")
     ELSE UNCHANGED jobRows
  /\ UNCHANGED <<assignment, visit, charged, proposal>>

CustomerRequestRevision(s) ==
  /\ OnQuote(s, "revision_requested")
  /\ SyncJobStatus(s, "quote_required")
  /\ UNCHANGED <<assignment, visit, charged, proposal>>

CancelQuote(s) ==
  /\ OnQuote(s, "cancelled")
  /\ UNCHANGED <<jobRows, assignment, visit, charged, proposal>>

MarkRevised(s) ==
  /\ OnQuote(s, "revised")
  /\ UNCHANGED <<jobRows, assignment, visit, charged, proposal>>

-----------------------------------------------------------------------------
(* Admin, the stall watchdog and invoicing. *)

\* admin_job_actions.TERMINAL_STATUSES: closed_estimate_declined is not in it.
AdminTerminal == {"completed", "cancelled", "failed", "force_closed", "voided"}

\* override_status to "cancelled".
OverrideCancel(s) ==
  /\ s.job \notin AdminTerminal
  /\ job' = "cancelled"
  /\ UNCHANGED <<booking, assignment, visit, estimate, charged, proposal>>

\* override_status that reopens the job as a new offer.
Reopen(s) ==
  /\ s.job \in {"cancelled", "failed"}
  /\ job' = "pending_assignment"
  /\ booking' = Put(s.booking, booking, "pending_assignment")
  /\ staff' = Put(s.staff, staff, FALSE)
  /\ asg' = IF s.asg = "none" THEN asg ELSE OnAssignment(s, "none")
  /\ UNCHANGED <<asgNo, visit, estimate, charged, proposal>>

ForceClose(s) ==
  /\ s.job \notin AdminTerminal
  /\ job' = "force_closed" /\ booking' = "force_closed"
  /\ UNCHANGED <<assignment, visit, estimate, charged, proposal>>

\* Mutation: the deduction is not looked for.
VoidUnchecked(s) ==
  /\ s.job # "voided"
  /\ job' = "voided" /\ booking' = "voided"
  /\ UNCHANGED <<assignment, visit, estimate, charged, proposal>>

\* void: BLOCK_VOID_AFTER_DEDUCTION.
Void(s) ==
  /\ s.job # "voided"
  /\ ~s.charged
  /\ job' = "voided" /\ booking' = "voided"
  /\ UNCHANGED <<assignment, visit, estimate, charged, proposal>>

\* enforce_stalled_provider_stage past its final deadline, on the row the
\* watchdog's candidate query returned.
StalledStageClose(s) ==
  /\ s.job \in {"reached_site", "inspection_started", "inspection_done",
                "service_started", "work_done"}
  /\ CloseBreached
  /\ UNCHANGED challenge

\* issue_invoice of a draft invoice.
IssueInvoice(s) ==
  /\ job' = "invoice_issued"
  /\ UNCHANGED <<booking, assignment, visit, estimate, charged, proposal>>

-----------------------------------------------------------------------------
QuoteHandlers == {"create_quote", "send_to_customer", "customer_approve",
                  "customer_reject", "customer_request_revision",
                  "cancel_quote", "mark_revised"}

VisitHandlers == {"drop_assignment", "technician_accept_job", "schedule_job",
                  "customer_reschedule_booking", "decide_request"}

AdminHandlers == {"override_cancel", "reopen", "force_close", "void"}

UnlockedHandlers == QuoteHandlers \cup VisitHandlers \cup AdminHandlers
                    \cup {"stalled_stage_close", "issue_invoice"}

LockedHandlers ==
  {"accept_job", "reject_job", "mark_scheduled", "log_customer_contacted",
   "mark_on_the_way", "mark_reached_site", "request_arrival_confirmation",
   "confirm_arrival", "start_inspection", "complete_inspection",
   "start_service", "mark_work_done", "mark_customer_not_available",
   "mark_quote_required", "cancel_job", "complete_job", "false_arrival",
   "deny_arrival", "challenge_expires", "sla_close", "travel_timeout",
   "assign_job", "reassign_job", "customer_cancel_booking",
   "create_request"}

ASSUME ConstantsAssumption ==
  /\ Handlers \subseteq LockedHandlers \cup UnlockedHandlers
  /\ Overlapping \subseteq UnlockedHandlers
  /\ QuoteGated \in BOOLEAN
  /\ ChargeAt \in {"work_started", "work_done", "job_completed"}
  /\ MaxAssignments \in Nat /\ MaxQuotes \in Nat

Locked ==
  \/ "accept_job" \in Handlers /\ AcceptJob
  \/ "reject_job" \in Handlers /\ RejectJob
  \/ "mark_scheduled" \in Handlers /\ MarkScheduled
  \/ "log_customer_contacted" \in Handlers /\ LogCustomerContacted
  \/ "mark_on_the_way" \in Handlers /\ MarkOnTheWay
  \/ "mark_reached_site" \in Handlers /\ MarkReachedSite
  \/ "request_arrival_confirmation" \in Handlers /\ RequestArrivalConfirmation
  \/ "confirm_arrival" \in Handlers /\ ConfirmArrival
  \/ "start_inspection" \in Handlers /\ StartInspection
  \/ "complete_inspection" \in Handlers /\ CompleteInspection
  \/ "start_service" \in Handlers /\ StartService
  \/ "mark_work_done" \in Handlers /\ MarkWorkDone
  \/ "mark_customer_not_available" \in Handlers /\ MarkCustomerNotAvailable
  \/ "mark_quote_required" \in Handlers /\ MarkQuoteRequired
  \/ "cancel_job" \in Handlers /\ CancelJob
  \/ "complete_job" \in Handlers /\ CompleteJob
  \/ "false_arrival" \in Handlers /\ FalseArrival
  \/ "deny_arrival" \in Handlers /\ DenyArrival
  \/ "challenge_expires" \in Handlers /\ ChallengeExpires
  \/ "sla_close" \in Handlers /\ SlaClose
  \/ "travel_timeout" \in Handlers /\ TravelTimeout
  \/ "assign_job" \in Handlers /\ AssignJob
  \/ "reassign_job" \in Handlers /\ ReassignJob
  \/ "customer_cancel_booking" \in Handlers /\ CustomerCancelBooking
  \/ "create_request" \in Handlers /\ CreateRescheduleRequest

\* The effect of an unlocked handler that read s.
Unlocked(op, s) ==
  \/ op = "drop_assignment" /\ DropAssignment(s)
  \/ op = "technician_accept_job" /\ TechnicianAcceptJob(s)
  \/ op = "schedule_job" /\ ScheduleJob(s)
  \/ op = "customer_reschedule_booking" /\ CustomerRescheduleBooking(s)
  \/ op = "decide_request" /\ DecideRescheduleRequest(s)
  \/ op = "create_quote" /\ CreateQuote(s)
  \/ op = "send_to_customer" /\ SendToCustomer(s)
  \/ op = "customer_approve" /\ CustomerApprove(s)
  \/ op = "customer_reject" /\ CustomerReject(s)
  \/ op = "customer_request_revision" /\ CustomerRequestRevision(s)
  \/ op = "cancel_quote" /\ CancelQuote(s)
  \/ op = "mark_revised" /\ MarkRevised(s)
  \/ op = "override_cancel" /\ OverrideCancel(s)
  \/ op = "reopen" /\ Reopen(s)
  \/ op = "force_close" /\ ForceClose(s)
  \/ op = "void" /\ Void(s)
  \/ op = "stalled_stage_close" /\ StalledStageClose(s)
  \/ op = "issue_invoice" /\ IssueInvoice(s)

\* An unlocked handler nobody interferes with.
Alone == \E op \in Handlers \cap UnlockedHandlers : Unlocked(op, Now)

\* The columns an unlocked handler decides on; the rest of its snapshot is blank.
Loaded(op) ==
  LET quoting == op \in QuoteHandlers
      placing == op \in VisitHandlers \cup {"reopen"}
  IN  [job     |-> job,
       booking |-> IF placing THEN booking ELSE "pending_assignment",
       staff   |-> placing /\ staff,
       asg     |-> IF placing THEN asg ELSE "none",
       asgNo   |-> IF placing THEN asgNo ELSE 0,
       quote   |-> IF quoting THEN quote ELSE "none",
       quoteNo |-> IF quoting THEN quoteNo ELSE 0,
       begun   |-> quoting /\ begun,
       charged |-> op = "void" /\ charged]

\* An unlocked handler reads its rows ...
Read(r) ==
  /\ txn[r] = Idle
  /\ \E op \in Handlers \cap Overlapping :
       txn' = [txn EXCEPT ![r] = [op |-> op, saw |-> Loaded(op)]]
  /\ UNCHANGED <<jobRows, assignment, visit, estimate, charged, proposal>>

\* ... and later decides on what it read and commits ...
Write(r) ==
  /\ txn[r] # Idle
  /\ Unlocked(txn[r].op, txn[r].saw)
  /\ txn' = [txn EXCEPT ![r] = Idle]

\* ... or refuses, fails or dies.
Abandon(r) ==
  /\ txn[r] # Idle
  /\ txn' = [txn EXCEPT ![r] = Idle]
  /\ UNCHANGED <<jobRows, assignment, visit, estimate, charged, proposal>>

Next ==
  \/ Locked /\ UNCHANGED txn
  \/ Alone /\ UNCHANGED txn
  \/ \E r \in Requests : Read(r) \/ Write(r) \/ Abandon(r)

Spec == Init /\ [][Next]_vars

-----------------------------------------------------------------------------
\* The types of the rows.
RowTypes ==
  /\ job \in Statuses /\ booking \in Statuses
  /\ staff \in BOOLEAN
  /\ asg \in {"none", "assigned", "accepted"}
  /\ asgNo \in 0 .. MaxAssignments
  /\ arrived \in BOOLEAN /\ challenge \in BOOLEAN
  /\ contacted \in BOOLEAN /\ begun \in BOOLEAN
  /\ quote \in QuoteStatuses /\ quoteNo \in 0 .. MaxQuotes
  /\ charged \in BOOLEAN /\ proposal \in BOOLEAN

\* The types of the variables.
TypeOK ==
  /\ RowTypes
  /\ txn \in [Requests -> {Idle} \cup [op : UnlockedHandlers, saw : Snapshots]]

Working == {"service_started", "work_done", "completed"}

\* "the ONLY place ServiceJob.status is ever mutated ... no path that can
\* bypass this" (_assert_quote_approval_satisfied): on a job whose price is an
\* estimate, work that has started, is done or is completed has a current
\* quote the customer approved, now and not only when the work began.
WorkAuthorised == (QuoteGated /\ job \in Working) => quote = "approved"

\* Nobody is at work, inspecting or quoting at an address the technician's
\* verified arrival does not cover: a reschedule that voids the arrival also
\* takes the job off site, whatever else is open at that moment.
ArrivalBeforeWork ==
  job \in Working \cup {"reached_site", "inspection_started", "inspection_done",
                        "quote_required"} => arrived

\* A completed job, or one at work, once went through the work-start gates: a
\* declined optional estimate never puts a job to work that had not begun.
WorkHadBegun == job \in Working => begun

\* BLOCK_VOID_AFTER_DEDUCTION: a voided job was never charged to the provider.
VoidedNeverCharged == ~(job = "voided" /\ charged)

\* A job in the field has a technician: whoever takes the technician away
\* takes the job out of the field in the same transaction.
InFieldHasTechnician ==
  job \in {"on_the_way", "reached_site", "inspection_started", "inspection_done",
           "quote_required", "service_started", "work_done"} => staff

\* "service_bookings.status is a mirror of service_jobs.status".
BookingMirrorsJob == booking = job

\* "a job that is cancelled must never leave a stale accepted/assigned row
\* behind implying a technician is still on the hook for it".
CancelledReleasesAssignment == job = "cancelled" => asg = "none"

\* An approved estimate is immutable: "an ORDINARY create_quote call may not
\* silently replace a quote the customer already approved", and the graph of
\* quote statuses has no way out of it.
ApprovedQuoteImmutable ==
  [][quote = "approved" => quote' = "approved" /\ quoteNo' = quoteNo]_vars

\* "THE terminal set. Anything here is finished for good": a finished job only
\* ever becomes voided, or is reopened by an admin from cancelled.
FinishedForGood ==
  [][(job \in Terminal /\ job' \notin {job, "voided"})
       => (job = "cancelled" /\ job' = "pending_assignment")]_vars
=============================================================================
