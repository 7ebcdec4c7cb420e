# Fuvay tenant service: a TLA+ verification project

Fuvay is a multi-tenant platform for home services. A FastAPI backend (`src/app`) keeps
everything in PostgreSQL at READ COMMITTED through asynchronous SQLAlchemy sessions, one
transaction per request (`src/app/database.py`), next to cron loops in the same code base
(`src/app/jobs`). This project models the parts of that backend in which several requests,
sweeps and admins write the same rows, checks them with TLC and proves the results that matter
most with TLAPS.

## 1. Inventory

The database rows are the shared state; every component below is a set of handlers that read
some rows (with or without `SELECT ... FOR UPDATE`), decide, and write.

| Component (source) | State it keeps | Operations | Interacts with |
|---|---|---|---|
| Usage credits (`engines/usage_credits`, plus writers in `execution`, `finance_hub`, `customer_credits`, `vertical_catalog`, `vertical_monetization`) | `tenant_billing.credit_balance`, `usage_credit_ledger` | `_post` (adjust, grant, refund, reverse), completed-job deduction, platform-charge recovery, SLA penalty, provider-funded remedy, settlement, manual adjustment, top-up expiry, activation payment | job completion, SLA sweep, top-ups, disputes |
| Job execution (`engines/execution/home_service_service.py`, `admin_job_actions.py`) | `service_jobs.status`, arrival, execution events | accept ... complete, cancel, parts, admin override / force-close / void | booking mirror, quotes, SLA, credits |
| Assignment and visits (`engines/home_service_assignment`) | `service_job_assignments`, schedule, reschedule requests | assign, reassign, technician accept / reject, schedule, customer cancel / reschedule, provider reschedule | job status, booking mirror, slot capacity |
| Booking mirror (`engines/final_records/booking_job_sync.py`) | `service_bookings.status` | two UPDATE helpers | every writer of the job status |
| Quotes (`engines/quote_checklist`) | `service_job_quotes` | create, send, approve, reject, request revision, cancel, revise | job status, work-start gate |
| SLA engine (`engines/execution/sla_breach_service.py`, `jobs/sla_breach.py`, `jobs/travel_timeout.py`) | SLA columns of the job | stamp, stop, daily sweep, no-arrival close, waive | credits, job status |
| Parts and inventory (`execution` parts requests, `engines/inventory`) | parts requests, stock | request, approve, reject, install, cancel | work done, completion, invoice |
| Top-ups and entitlements (`finance_hub/tenant_hs_finance_service.py`, `vertical_catalog/topup_entitlement_service.py`) | top-up orders, entitlements, seats | initiate, confirm, cancel, grant, expire | usage credits |
| Dispute settlement and customer credit (`engines/customer_credits`) | settlements, customer service credits | create, approve, execute, cancel, redeem | usage credits, complaints |
| Platform commerce wallet (`engines/platform_commerce/ledger.py`) | wallets, ledger entries | credit, debit, reconcile | checkout |
| Invoices and direct payments (`engines/invoice_payment`) | invoices, payment records | create, issue, cancel, declare, confirm, dispute | job status, completion |
| Booking drafts and creation (`engines/home_service_booking`, `engines/final_records/creation_service.py`) | drafts, bookings, idempotency keys | draft, match, confirm, expire | slot capacity, assignment |
| Complaints, reviews, trust, compliance (`engines/complaints`, `trust_quality`, `compliance`) | cases, SLA timers | open, respond, escalate, resolve | settlements |
| Messaging gateway and notifications (`engines/messaging_gateway`, `platform_notifications`, `webhook`) | conversations, outbox | handle inbound, send, retry | bookings |
| Auth and tenancy (`engines/auth`, `tenant_engine`, `entitlement`) | users, sessions, OTPs, tenants | login, refresh, invite, activate | everything |
| Catalogue and settings (`engines/admin_catalog`, `settings`) | reference data | admin CRUD | booking, pricing |
| Front ends and mobile apps (`frontend`, `mobile`) | none of their own | API clients | everything |

### What is hard in each component, and what makes it correct

**Usage credits.** Ten code paths (and the waiver of a penalty, see `SlaClock`) write one balance column as an absolute value computed in
Python. Seven read it with `FOR UPDATE`, three do not. Every writer looks its idempotency key
up before any lock, so two retries can both miss it; the unique indexes of migrations 268 and
HS9 are what decides. Correct means: a key is booked once, the ledger rows chain up to the
balance, no floor-checking writer leaves the balance below its floor, every request ends.

**Job execution, assignment, quotes, booking mirror.** Forty-three handlers of five actors
(technician, provider, customer, admin, cron) move one job. The field handlers go through
`_set_status`, which locks the job and walks a transition graph; assignment, quote and admin
handlers assign `job.status` on their own, some after a lock, some on an unlocked read. Four
rows must stay consistent: job, booking, current assignment, current quote. Correct means: work
on an estimated price has an approved current quote; nobody works where no verified arrival
covers the visit; a finished job stays finished; a cancelled job releases its technician; the
booking shows the job's status; a voided job was never charged; an approved quote is immutable.

**SLA, stall watchdog, travel timeout, provider cancellation.** Cron loops race technicians: a
deadline passes while the handler that would meet it is in flight; a job is charged, rescheduled,
reopened, waived and charged again. Correct means: what a missed arrival costs stays within the
policy, cancelling does not avoid it, a job that made progress is not closed, a job nobody
reaches and a stage nobody moves are closed eventually.

**Parts and inventory.** A customer's decision, the provider's and the end of the work race over
one request and one stock count. Correct means: held pieces are on the shelf, and a part leaves
it once per request, in the quantity asked for.

**Top-up orders.** The browser, the webhook and an administrator confirm one payment; a tenant
cancels the checkout meanwhile; money goes back in parts. Correct means: a payment is credited
once, refunds stay within it, money is not returned while its credit is kept.

**Plans, seats and the team.** A plan grants seats and credit that lapse; technicians are
suspended while the credit is exhausted. Correct means: two clicks open one checkout, a payment
grants once, nobody the provider switched off comes back, the team ends up in line with the
balance however late the sweep runs.

**Bookings.** A confirmation is tapped twice, sent from two devices, retried by a bot, while the
draft is still edited. Correct means: one booking per draft, one open booking per problem, the
calendar within its capacity, every confirmation answered.

**Settlements.** An execution may be repeated; it must pay once.

**Messaging, webhooks, outbox.** At-least-once delivery, retries with a limit, dead letters.

**Auth.** Refresh-token rotation and one-time codes: a token or a code is used once.

## 2. Plan

1. `UsageCreditLedger`, `CreditAccount` (done): the account every money path ends in, first
   because an error there costs money. Refinement of an atomic account; proved.
2. `JobLifecycle` (done): the job every other component hangs on; proved.
3. `SlaClock` (done): due dates, charges, watchdog, waiver and the provider's cancellation
   requests; time is a variable, closing is a liveness property; safety proved.
4. `TopupOrder`, `CreditPurchase` (done): orders, confirmations, cancellation, retry, refund.
   Refinement of an abstract purchase; proved.
5. `PlanSeats` (done): plan checkouts, entitlements, seats, credit suspension of the team;
   safety proved.
6. `PartsInventory` (done): parts requests and stock against the end of the work; proved.
7. `BookingConfirmation`, `BookingDesk` (done): confirmation, duplicate lock, number, capacity
   lock, moves of the visit. Refinement of a desk that books in one step; safety proved.
8. Left: `DisputeSettlement` (create, approve, execute, cancel; composed with `CreditAccount`),
   direct payments, complaints, webhook retry, the notification outbox, refresh tokens, the
   arrival challenge with its attempts and expiry.

Every safety property a run checks is proved, the three refinements included. Liveness stays with
TLC. Sums over sets of requests, whose laws would need induction over finite sets, are written as the
cardinality of a set of pieces or seats, which `FiniteSetTheorems` reasons about.

## 3. Modules and how they correspond to the code

| Module | What it is |
|---|---|
| `CreditAccount` | abstract account: a post appends one entry under a fresh key and moves the balance by its delta |
| `UsageCreditLedger` | the transactions on `tenant_billing` and `usage_credit_ledger` |
| `UsageCreditLedgerProofs` | theorems about it |
| `JobLifecycle` | the rows of one job and every handler that writes their status |
| `JobLifecycleProofs` | theorems about it |
| `SlaClock`, `SlaClockProofs` | the SLA columns of jobs, the sweeps, the provider's account and cancellation requests; theorems |
| `CreditPurchase` | abstract purchase of credits: an order is credited once, with an amount its endpoints post; returns take the rounded share of the credits it records back, out of a balance that has them |
| `TopupOrder`, `TopupOrderProofs` | credit top-up orders; theorems |
| `PlanSeats`, `PlanSeatsProofs` | plan checkouts, entitlements, the team of one workspace; theorems |
| `PartsInventory`, `PartsInventoryProofs` | parts requests, reservations and stock; theorems |
| `BookingDesk` | abstract desk: a booking is made in one step, with its draft free, its number new, its problem not open and room in its window |
| `BookingConfirmation`, `BookingConfirmationProofs` | confirmation of drafts and the provider's calendar; theorems |
| `MC...` | operations, handler sets and constant functions of the TLC instances |

### Conventions

* PostgreSQL at READ COMMITTED: a SELECT sees what is committed when it runs; `FOR UPDATE` and
  UPDATE wait for the row; a transaction's writes appear at its commit, together.
* Sessions run with `autoflush=False`, and SQLAlchemy writes a column only if it differs from
  the value the session loaded. `Put(loaded, current, new)` is that rule: a stale session that
  sets a column to what it had loaded leaves the newer committed value in place. Direct UPDATE
  statements (`sync_booking_to_job_status`) always write; `_sync_booking` selects the booking and sets
  it, which writes the same unless the session had loaded the row before.
* In the modules that follow, a handler that decides on an unlocked read is two actions, the read
  and the commit; a handler that holds the row lock from its read on is one.
* In `JobLifecycle` a clock, slot capacity, an admin policy, a checklist, proof and payment preconditions, the
  caller's identity and access rights are not modelled: where one of them refuses, the step is
  not taken. So every safety property holds whatever they answer.

### UsageCreditLedger

One tenant's account. A request is one transaction with a program counter: `CheckKey` (the
idempotency look-up), `LockAndRead` or `ReadUnlocked`, then `EndUnwritten` (refusal, or nothing
to take) or `Flush` (UPDATE and INSERT; a unique index may abort it) and `Commit`; `Rollback`
from any point before that stands for an error or the death of the worker. `Op[r]` says which
writer the request is, its key and its amount. The writers and the code they stand for:

| Writer | Code |
|---|---|
| `post`, `post_strict` | `usage_credits/service.py` `_post`, with and without `allow_negative` |
| `manual` | manual adjustment |
| `penalty` | `sla_breach_service._charge_penalty`, capped by the debt cap |
| `remedy` | provider-funded complaint remedy |
| `settlement` | `execute_settlement`, provider-funded part |
| `expiry` | `topup_entitlement_service.expire_due` |
| `deduction` | `deduct_for_completed_job` (plain SELECT) |
| `recovery` | `deduct_customer_platform_charge_recovery` (plain SELECT) |
| `activation` | activation payment (plain SELECT) |

`DebtCap` stands for `sla_penalty_debt_cap`; the NULL cap (unlimited) is a large number. The
amount of an expiry is the unspent part the entitlement rows say is left; `PlanSeats` computes
it. A settlement reads the balance under the lock in every
path that writes a ledger row. Amounts are integers: the columns are exact decimals.

### JobLifecycle

One job. `job`, `booking`, `staff`, `asg`/`asgNo`, `quote`/`quoteNo` are the status columns of
the four rows; `arrived`, `challenge`, `contacted`, `begun` the visit facts handlers decide on;
`charged` the existence of the deduction row; `proposal` a pending provider reschedule request.

* A handler that holds the job's row lock when it decides is one atomic action (the
  disjuncts of `Locked`). Field handlers read the job before they call `_set_status`, but
  `_set_status` locks the row and refuses (409) when the status is not the one that was read,
  so their decision is as good as one taken under the lock.
* A handler that decides on an unlocked read is an operator of the snapshot `s` it read
  (`Unlocked`). If it is in `Overlapping`, `Read` takes the snapshot, `Write` decides and commits,
  and the others may commit in between; `Abandon` is a refusal, an error or the death of the
  worker. `Alone` runs it on the current rows, undisturbed.
* A handler takes its snapshot at one moment, although it reads its rows one after the other,
  and `customer_reject` and `_sync_job_status` read the job again. The statements in between
  await nothing but the database; a window inside the window is left out.
* `DropAssignment` is `cancel_assignment` and `technician_reject_job`; `AssignJob` is
  also the automatic assignment after an offer times out. Who the technician is does not matter
  to the properties: `staff` says that there is one. `MarkQuoteRequired` is
  also `mark_parts_required`.
* Quote rows superseded by a newer one are history: only the current one is modelled.
  Quote statuses no handler writes (the provider-approval ones) are left out.
* `technician_accept_job` locks assignment then job, `customer_cancel_booking` job then
  assignment: PostgreSQL aborts one of two such transactions, which is an `Abandon`.
* `Charge` is `attempt_charge_at_event`, inside a savepoint: it charges at the configured event
  or fails, and never undoes the field work.

### SlaClock

The jobs of one provider. `job[j]` holds the SLA columns (`sla_due_at`, `sla_next_penalty_at`,
`sla_stopped_at`, the day count, the charged amount, the waiver), the slot and the status classes
the clock distinguishes; `on_site` stands for the provider's stages after arrival, `with_customer`
for the waits the customer owns. `paid` sums the ledger rows of each penalty key, so that what the
job's row says was charged and what was really taken can be told apart.

* `SweepJob` is the body of `sla_breach_service.sweep` for a row it could lock:
  `_reconcile_enforced_deadlines`, then the first charge or the final one and the close. A sweep
  may skip any job (`SKIP LOCKED`) and roll back, so each job is a step of its own.
  `TravelTimeout` and `EnforceStage` are `travel_timeout` and `enforce_stalled_provider_stage`.
* `Withdraw` and `Remedy` are `_charge_penalty` and `issue_provider_funded_customer_credit` under
  their idempotency keys: a replayed key moves nothing, and what the caller is told differs.
* `ProviderCancel`, `RequestCancellation`, `DecideRequest` are `provider_cancellation_service` with
  the settlement `cancel_job` makes. A request that was answered or has expired is not kept.
* `WaivePenalty` also gives credit back to `credit_balance`. It is modelled here and not as a writer of
  `UsageCreditLedger`.
* Handlers here lock the job or recheck its status under the lock, so each is one step; stale
  candidates of the watchdog are in `JobLifecycle`. Messages, claims on badges and health scores,
  what a waiver takes back from the customer and the limits on reschedules are left out.

### TopupOrder

The rows of `credit_topup_orders` and the balance they feed. `confirm_topup_payment` (browser and
webhook), `confirm_purchase` and `cancel_topup` read the order without a lock, so `pending` holds
what they decided between read and commit; a bad signature, `retry_credit_posting` and
`refund_topup` are one step. `Post` is the posting under its key per order: it is what makes the
unlocked reads harmless. Every endpoint finds an order by its gateway id, whoever opened it, and each
posts an amount of its own (`Posting`): the hub `credits_purchased` without the bonus, platform
commerce the package its request body names at what that package gives now (`Packages`), the retry
what the order records. Whichever commits first decides. `Refund` takes back the share of the credit
the order records, bonus included, that the money returned stands for, rounded half up on the
cumulative amount, and is refused when the balance cannot give it. So what is taken back need not be
what was posted; no property says so, and section 5 quotes the comment that does.

### PlanSeats

One workspace. `OpenFunding` and `FinishFunding` are `create_activation_funding_order` under its
advisory lock, `OpenPackage` is `create_credit_package_order`, `CaptureRead` and `CaptureCommit` the
capture by webhook, signed checkout or reconciliation, which reads balance and live seats and writes
absolute values. `Sweep` is one transaction of `expire_topup_entitlements`: `expire_due` in the
order of `expires_at`, then `sync_team_credit_suspension`. After a payment or a deduction that
synchronisation may fail unnoticed (`TrySyncTeam`). A capture calls it before its new balance is
flushed (`autoflush=False`), so it sees the old balance and does not restore a suspended team; the
next sweep does. The team actions are those of
`provider_portal/router.py` that add, activate, deactivate and delete a technician. Other kinds of
staff, invitations and the price of a plan are left out. `off` is a history variable: whom the
provider switched off.

### PartsInventory

`request`, `required` and `place` are the columns of a parts request, `hold` its reservation row at
each location, `onhand` and `reserved` the stock balance, `consumed` what the ledger took. Every
decision of technician, customer and provider reads the request without a lock, and every end of a
hold reads the reservation as active before it locks the stock balance and never looks again; both
write at commit. So each is a `...Read` step, which puts what it read into `pending`, and a commit of
what was decided from it; the stock operation inside holds the balance row and is one step with the
commit. The ends of a hold are:

* `mark_work_done`: `WorkDoneRead` looks for pending requests, `WorkDoneLook` reads the approved ones and
  their holds after `_set_status` has locked the job, `WorkDoneCommit` confirms the holds and marks the
  parts installed;
* the provider's `install_parts_request`: `InstallRead`, `InstallCommit`;
* the inventory screen's confirm and release: `StockroomRead`, `ConfirmCommit`, `ReleaseCommit`.

`End` is what they share: the hold is overwritten and `reserved_qty` lowered whatever the hold is by
then, with the code's floor at zero (`Floor`); `Confirm` adds the ledger row, whose key makes a second
consumption a no-op. The history variable `twice` collects the holds ended by someone who read them
before they had ended: the properties name it as their exception. `Receive`, `Count` and `Transfer` are
the stockroom's. Replenishment orders, prices and reservations made by hand (`POST /reservations`, for a
job reference of the caller's) are left out. `stock_reservation_id` is taken to be set as soon as some
hold of the request exists.

### BookingConfirmation

An attempt is one call of the confirmation. `Open`, `MarkReady` (which commits), `Lookup` and
`AnswerExisting` (the earlier confirmation), `CheckUnique` (advisory lock of customer and problem),
`Number` (the count of the day), `Insert` (unique indexes on draft and number), `Place` (the
capacity lock and the choice of the slot) and `Commit` are its awaits; `Abort` is an error or a
lost connection at any of them. `EditRead` and `EditWrite` are the draft's own handlers, which
read its status and write it later. `Close`, `Reopen`, `Reschedule`, `FirstSlot`,
`Propose`, `Approve` and `Decline` are what later moves the visit. `checked` marks a visit
the calendar had room for when it was placed; the code also places visits without asking. `Reschedule`
always names a slot; a customer's reschedule to a day without a time window takes no capacity lock and
is left out. The
matching of providers, prices, the coaching and property verticals' confirmations are left out.

## 4. Runs

Every run ends by itself; no run is cut off by a depth or state constraint.
The deadlock check is off where requests and jobs may end: an account whose requests
are all answered, a job that is closed. In `plan_seats` the sweep always can run, and it is on.

| Run | Instance | What it shows |
|---|---|---|
| `credit_locked` | six requests of writers that all lock, two of them a retried grant under one key | the transactions implement the abstract account, in which no key is booked twice; the ledger chains to the balance, floors hold, every request ends |
| `credit_mixed` | six requests, four of them of unlocked writers, two deductions of one job | still no key is booked twice: the unique index decides, not the look-up |
| `job_gated` | all 43 handlers, one transaction at a time, price is an estimate | authorisation, technician, void policy and quote immutability hold in every sequence of calls |
| `job_visit_races` | the visit handlers and the stall watchdog on stale reads | work stays authorised and covered by an arrival |
| `job_quote_races` | quote handlers, force-close and the watchdog on stale reads, fixed price | the booking still mirrors the job, and a late decline puts nobody to work whose work had not begun |
| `job_guarded` | the handlers that look at the job's status first | a finished job stays finished, a cancelled job releases its technician |
| `sla_close` | one job with one later slot, four ticks, one reopening | the two charges stay within the policy, cancelling avoids none of it, a job nobody reaches and a parked stage are closed |
| `topup_orders` | a plain order, and one with a bonus that the hub and platform commerce both confirm, its package having changed; prices that do not divide the credit | a payment is credited once whatever the endpoints and the cancellation do; refunds take back exactly the share of the recorded credit they stand for; the orders implement the abstract purchase (that refunds stay within the payment is proved) |
| `plan_seats` | two clicks on one plan valid a day, a credit package, one technician, two days, one deduction | one open checkout, one grant per payment, nobody switched off comes back, the team follows the credit, at the latest with a sweep |
| `parts_inventory` | two requests, one of the older kind, a store with the only piece and a van, at most one piece in each, two decisions or ends of a hold in flight | held pieces are there where no hold was ended twice, `reserved_qty` never says more than is held, a part leaves at most once |
| `booking_confirmed` | a calendar of two places, one taken; two taps on one draft and another draft, of one problem or of different ones, over midnight | one booking per draft, one open booking per problem, calendar within capacity, every confirmation answered, and each of them one step of the abstract desk |
| `booking_overbooked` | the same instance | a violation, see section 5 |

Bounds. Six requests of six kinds put every pair of writers that differ in locking, key or floor
side by side; two requests on one key are the smallest retry. `Opening = 2` with amounts
around it makes each of "enough", "exactly enough" and "not enough" happen, and `DebtCap = 3`
lets a penalty be cut short. Two assignment rows give a technician who was replaced while a
handler of the first was open; two quote rows a quote that was superseded. One
open unlocked transaction at a time: a second one would act between the first one's read and
write, and every unlocked handler that is not overlapping does that as `Alone`.

`MaxTime = 4` of `sla_close` is past the close of the later slot, so both charges, the close and a
second round after a reschedule or a reopening happen; jobs meet only in the balance, which the theorems
cover. Two credits for a price of three make a refund's share a fraction. One technician
is enough where the rules never compare two; a plan valid one day lapses within the two. One
piece makes two requests want the same one, and `MaxInFlight = 2` is the smallest race: it gives two
ends of one hold, and an end against an approval. `Reach` tries the new request at the store only and
the older one at both places, which is enough for two holds of one request. `Endpoints` keeps the hub's
browser confirmation to the plain order and the webhook to the other; they post alike.
Two taps, another draft and one place left make every lock contended. The proofs
need none of these bounds.

The race runs leave the arrival challenge out, which ends in the same moves as
`mark_reached_site` and `false_arrival`, and the steps of inspection and scheduling that only
lengthen the path (the sets are in `MCJobLifecycle`); `job_visit_races` also leaves out admin
actions and all but one way through an estimate. `job_gated` has all of them, and so have the
theorems.

Fairness. `UsageCreditLedger` assumes weak fairness of each request's own steps: the
event loop keeps running a coroutine whose database call returned, and PostgreSQL grants a free
row lock to a waiter. Nothing makes a rollback happen. `SlaClock` assumes that time passes and that
the sweep and the watchdog come to each job that stays due: they are the loops of `app/jobs`,
which log an error and go on. `PlanSeats` assumes the same of its hourly sweep.
`BookingConfirmation` assumes that some confirmation that can take a step takes one; it does not
assume that errors happen, nor that a lock is given in order. The other modules assume none and
state only safety: no code forces a technician, a customer or a tenant to act.

Each property of each passing run has a mutant in PROJECT.json: the definition in
the module marked "Mutation", put in the place of the faithful one, makes TLC find
the property violated.

## 5. Where the code and its own documentation disagree

`booking_overbooked` is the one with a run. `_booked_counts` counts a visit only while its draft is
`confirmed`; a handler of the draft that read it before the confirmation committed writes its status
afterwards. The visit drops off the calendar, its place is given away again, and both visits stand,
although "a provider can never promise more simultaneous visits than its team can deliver"
(`home_service_booking/provider_slot_service.py:6`).

TLC shows the following with the same modules when the property is checked on the handlers named.
They have no run of their own; the passing runs and the theorems name the handlers they exclude.

Account and job:

* `deduct_for_completed_job` overwrites a grant that committed after its plain SELECT
  (`usage_credit_deduction.py:284`): the balance moves by more than its row says, against
  `tenant_engine/models.py:182`.
* Approving a provider's reschedule request after cancelling sets the cancelled job back to scheduled
  (`provider_reschedule_service.py:394`).
* The stall watchdog closes a job that left the stalled stage after the candidate query
  (`sla_breach_service.py:461`).
* An admin's override to cancelled leaves the booking as it was (`admin_job_actions.py:125`).
* A void that looked for the deduction before the completion charged (`admin_job_actions.py:227`).
* `create_quote` supersedes a quote approved after it looked (`quote_service.py:306`).
* A false arrival cancels a completed job (`arrival_verification.py:135`).
* `assign_job` puts a job closed by a declined estimate back to assigned
  (`home_service_assignment/service.py:49`).
* `schedule_job` racing `customer_cancel_booking` leaves booking and job apart
  (`home_service_assignment/service.py:1727`).
* `reject_job` cancels the job and leaves its assignment current (`home_service_service.py:512`).

Met while modelling the other components:

* SLA. A replayed penalty key reports the earlier amount as taken again, so `sla_penalty_charged`
  may exceed what was taken and a waiver returns more than that. The stage clock does not move
  while a handover waits for the customer, so time the customer took is charged as soon as it is
  answered (`sla_breach_service.py:57` excludes it only while it is pending). `travel_timeout` acts
  on a deadline the sweep has not yet reconciled with a new slot. A late arrival before the sweep
  runs is never charged, although "a late sweep reaches the same outcome" (`jobs/sla_breach.py:3`).
  A reopened job keeps its `arrival_verified_at` and is outside the sweep. With a penalty that is
  not the customer's, the debt cap may leave part of the amount untaken: `NoEscapeByCancelling` is
  stated for those that are.
* Top-ups. A retry posts credit for a failed order nobody paid
  (`finance_hub/service.py:297`), although `confirm_topup_payment` is "the ONLY path that posts usable
  credits" (`tenant_hs_finance_service.py:1111`). A cancellation that read the order before the
  confirmation committed overwrites `credited`, which "can never be cancelled from here"
  (`tenant_hs_finance_service.py:1228`); the credit stays posted once. `create_topup` with a package
  raises after its commit. The failed labels of `confirm_purchase` are rolled back with its exception.
  "A full refund always removes the complete original grant" (`finance_hub/service.py:356`): it removes
  what the order records. An order with a bonus that the hub confirmed was posted without it
  (`tenant_hs_finance_service.py:1147`), and one confirmed by platform commerce with whatever the named
  package gives now (`platform_commerce/service.py:287`), so a refund may take more or less than that.
* Plans. "Deactivate everyone, then activate more people than the plan pays for"
  (`provider_portal/router.py:696`) is closed for activation, and still happens when suspended
  technicians are restored after their seats were filled. An expiry counts earlier expiries as
  spending, so less lapses than is unspent. "Paying restores a team suspended for lack of credit, in the
  same transaction as the credit itself" (`activation_payment_service.py:557`): the synchronisation reads
  the balance by SQL (`seat_enforcement.py:232`) before the new one is flushed, and the team comes back
  with the next sweep. The cached seats are stale after two captures at once.
* Parts. "TTL enforced by Celery, never orphaned" (`inventory/models.py:115`), but nothing releases a
  hold that is not resolved. "A repeat call after either decision ... fails safely"
  (`home_service_service.py:1678`) holds of a repeat after the commit: the read is unlocked. An
  approval repeated after the part was installed, or after its hold was released, makes the job's
  completion fail for good. Two approvals of the provider at two locations leave the first hold.
  Two that end one hold (`inventory/service.py:610` and `:629`) both lower `reserved_qty`: pieces held for
  another request are given away, a later consumption may leave the quantity negative, and a release
  may overwrite the confirmation of a part that was consumed. The provider's install of an older
  request read as bought in, overlapping a repeated approval that names a location, leaves it installed
  with a location and nothing consumed. TLC shows each of these when the exception is taken out of the
  property.
* Bookings. The second of two taps may get a conflict or an error rather than the booking, although
  "duplicate submissions return the same result" (`final_records/confirm_router.py:8`). "COUNT(*) + 1
  is safe" (`final_records/number_service.py:6`): two confirmations of a day get one number and the
  unique index fails the second. The credit floor is asked only by `confirm_draft`
  (`home_service_booking/service.py:2071`), which nothing calls. Reopening, and approving a new date,
  place a visit without asking the calendar; so does the fallback to the customer's preferred time.

## 6. Proofs

All theorems hold for every value of the constants under the named assumptions of the module:
`ConstantsAssumption`, `PolicyAssumption`, `OrderAssumption`, `PlanAssumption`,
`PartsAssumption` and `BookingAssumption`. They say what the operations are, that amounts, times and
bounds are numbers, and that orders, requests and attempts are finitely many. TLC evaluates them in
every run.

`UsageCreditLedgerProofs`

* `TypeCorrect`.
* `ExactlyOnce`: `AtMostOncePerKey` for any number of requests of any writers. The look-up
  before the lock proves nothing; the argument is that a flushed request holds the row lock
  and its key is not in the ledger, so nobody else can commit that key before it does. That
  is the inductive strengthening.
* `LockedWritersKeepTheChain`: if every writer locks, `LedgerChain`. Strengthening: between
  read and commit a request holds the lock and what it saw is the balance.
* `FloorsHold`: `FloorRespected` from what `Flush` and `EndUnwritten` let through; it needs no lock,
  because a floor-checking writer commits the value it checked.
* `LockedWritersImplementAccount`: `Init` maps to the abstract `Init`, a commit to a `Post`,
  every other step to a stutter.

`JobLifecycleProofs`

`StepKinds` reduces a step to three kinds: a locked handler, an unlocked handler on a snapshot
(the current rows, unless it overlaps), or a step that leaves the rows alone. Each invariant then
needs one lemma per kind. Which handlers may overlap is a hypothesis of the theorem and says
exactly how far the code's locking carries:

| Theorem | Property | Condition |
|---|---|---|
| `TypeCorrect` | `TypeOK` | none |
| `ApprovedStaysApproved` | `ApprovedQuoteImmutable` | the quote handlers that do not lock the quote do not overlap |
| `WorkStaysAuthorised` | `WorkAuthorised` | the same |
| `ArrivalCoversWork` | `ArrivalBeforeWork` | the quote handlers that move the job do not overlap |
| `BookingStaysAMirror` | `BookingMirrorsJob` | no `override_cancel`, no `issue_invoice`; visit handlers and `reopen` do not overlap |
| `VoidNeverMeetsACharge` | `VoidedNeverCharged` | `void` does not overlap |
| `TechnicianInTheField` | `InFieldHasTechnician` | quote handlers that move the job and `drop_assignment` do not overlap |
| `WorkWasStarted` | `WorkHadBegun` | none |
| `CancelledStaysReleased` | `CancelledReleasesAssignment` | no `reject_job`, no `override_cancel` |
| `FinishedStaysFinished` | `FinishedForGood` | none of the nine handlers that do not look at every final status (`RevivesFinished`); only `void`, `customer_reschedule_booking` and three quote handlers overlap |

`WorkWasStarted` needs the strengthening `BegunWasSeen`: a snapshot that says the work had begun
is never ahead of the rows, since `begun` is never taken back. Dropping a condition of the table
gives a counterexample; the overridden booking, the charged void and the replaced quote of section 5
are three.

`SlaClockProofs`

`IInv` is `TypeOK` and, for each job, `ChargeInv` and `RemedyInv`: what the ledger took under the two
keys of the missed-arrival rule is at most what the row says was charged, nothing was taken before
the first breach, and where the penalty is the customer's a breach recorded its charge and a
close the whole target. That ties the amount the next charge computes (from the row) to the amount
the property bounds (in the ledger). Lemmas classify the actions: those that
touch neither money nor the day count are harmless, each charging action has a lemma of its own.

* `PenaltyBounded`: `PenaltyWithinPolicy`, for any number of jobs on one balance, any policy amounts.
* `NoEscape`: `NoEscapeByCancelling`.

`TopupOrderProofs`

`IInv` adds to the properties that an order labelled credited or partially refunded has its posting
(`LabelledPosted`): a refund looks at the label, and `CashBackCostsCredit` is about the ledger. What the
posting was worth plays no part. The arithmetic is in lemmas about `Target`: it grows with the money
returned and never exceeds the total.

* `CreditsPostedOnce`, `CashBackTakesCredit`, `RefundsWithinPayment`.
* `OrdersImplementPurchase`: `ImplementsPurchase`. `CreditPurchase` knows what an order records, which
  amounts may be posted for it, which orders are credited, what came back in money and credit, and the
  balance; labels and requests in flight are invisible to it. A posting under a fresh key is a sale by
  one of those amounts (`PostIsSale`), a refund a return whose credits keep the fair share
  (`RefundIsReturn`, with `TargetIsFair`: the share rounded half up is within half a credit of the
  exact one, and exact at the end), every other step a stutter.

`PlanSeatsProofs`

`IInv` says what the locks hold: the one checkout past its look-up still has no twin, an open capture
belongs to a paid order that is not captured, and suspended members and those the provider switched
off are inactive and never the same. Amounts play no part in it. `AmountTypes` is the part about
money: what the rows of one sweep take together is a sequence of partial sums, each between zero and
the positive part of the balance, and so is what each row takes.

* `ClicksOpenOneCheckout`, `PaymentGrantsOnce`, `OffStaysOff`.
* `TypeCorrect`: `TypeOK`, from `RowTypes` and `AmountTypes`.
* `LapseSparesSpentCredit`: in any sweep over any number of due rows, what a row takes and what was
  debited since its grant are together within its credit. This is one half of "what lapses is the
  part of the grant the provider never spent"; the other half fails, see section 5.

`PartsInventoryProofs`

`IInv` is `DeskTypes` (requests, holds, decisions in flight), `StockInv`, `InstalledHasLeft` and
`PlaceKnown`. `StockInv` ties the stock to the holds: `HeldStockIsThere`, and a part has left at most once
and shows it (`LeavesAtMostOnce`). `PlaceKnown` says of a technician's request that the place read by
a decision in flight is a location, so that marking it installed goes with a consumption; an older request may be
read as bought in, which is why it is excepted. The count of pieces is a cardinality: `PiecesAdd`,
`PiecesOfOne` and `PiecesWithout` say what one hold, or the holds a job's end confirms, add to it or take
away. One lemma per stock operation follows (`ReserveKeeps`, `EndAtOnePlace`, `ReleaseKeeps`,
`ConfirmKeeps`, and the stockroom's), and each action is a decision on a request together with at most one of
them. In `EndAtOnePlace` the holds that end are those still active and those ended before: if there are
none of the second kind, exactly the pieces of the first come off; otherwise the location is in `twice`
and only "at most what is held" is left to show.

* `TypeCorrect`: `reserved_qty` stays a natural number by its floor; the quantity on hand is only an integer.
* `HeldStockIsThereHolds`, `PartLeavesOnceHolds`, with the exceptions the properties name.

`BookingConfirmationProofs`

`IInv` says what the locks and indexes buy: no two rows, committed or not, clash on an index
(`IndexInv`), and of two attempts with one problem one at a time is past the duplicate check, where
what it saw stays true to its commit (`ProblemLockInv`). `CalendarInv` adds that the attempt holding the capacity lock fits, on top of the committed
visits, in the slot it took; the moves of visits are one step under the same lock. Cardinalities
come from `FiniteSetTheorems`.

* `DraftBookedOnce`, `ProblemBookedOnce`, `CapacityRespected`.
* `ConfirmationsAreAtomic`: `ConfirmsAtomically`. The mapping shows the desk what a transaction has
  committed (`Visible`). A commit is a `Book` because the invariants above say that every answer the
  confirmation got is still true when it commits (`CommitBooks`); a move is a `Move`, a late write to a
  draft a `Forget` of at most one visit (`DraftWritten`), and no other step of a confirmation can be
  seen. What the desk does not promise is what section 5 shows: a forgotten visit keeps its place.

Only model-checked: liveness (`EveryRequestEnds`, `AbandonedJobIsClosed`, `ParkedStageEnds`,
`TeamFollowsCredit`, `EveryConfirmIsAnswered`), because fairness and ENABLED are out of the prover's
reach. No module uses a RECURSIVE operator, which the prover does not support, and nothing rests on
induction over data.

## 7. Not modelled

Payload validation, pricing, formatting, notifications and messages sent after a commit, everywhere.
Of the components that are modelled in part: health scores with suspension and reinstatement of a
provider, replenishment of stock, claims and badges of the commerce wallet, the status of a dispute
settlement and how a customer spends credit, invoices other than the job status `issue_invoice` writes,
payment declarations, limits on reschedules, the ranking of providers and how a roster becomes capacity,
the confirmations of the coaching and property verticals.

Not at all: complaints, trust and compliance (case workflows); the messaging gateway and webhooks
(a dialogue of texts in front of the booking handlers); auth and tenancy (who may call a handler is
an input here); catalogue, settings and analytics (plain CRUD and reporting without a protocol); front
ends and mobile apps (clients that keep no state the backend trusts). They make up most of the
repository's lines and little of its shared control state. Section 2 says which are planned;
PROJECT.json gives the reason for each.
