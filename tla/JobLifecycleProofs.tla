------------------------- MODULE JobLifecycleProofs -------------------------
(* Theorems about JobLifecycle, for every choice of handlers, of the ones     *)
(* that overlap, of how many requests are open, and of both bounds.           *)
EXTENDS JobLifecycle, TLAPS

\* A locked handler keeps the rows typed.
LEMMA LockedTypes ==
  ASSUME ConstantsAssumption, RowTypes, Locked PROVE RowTypes'
<1> USE DEF RowTypes, jobRows, assignment, visit, estimate
<1>1. CASE AcceptJob \/ RejectJob \/ MarkScheduled \/ MarkOnTheWay
  BY <1>1 DEF AcceptJob, RejectJob, MarkScheduled, MarkOnTheWay, SetStatus, Statuses, Terminal
<1>2. CASE LogCustomerContacted \/ RequestArrivalConfirmation \/ ChallengeExpires
           \/ CreateRescheduleRequest
  BY <1>2 DEF LogCustomerContacted, RequestArrivalConfirmation, ChallengeExpires,
              CreateRescheduleRequest
<1>3. CASE MarkReachedSite \/ ConfirmArrival
  BY <1>3 DEF MarkReachedSite, ConfirmArrival, SetStatus, Statuses, Terminal
<1>4. CASE StartInspection \/ CompleteInspection \/ MarkCustomerNotAvailable
           \/ MarkQuoteRequired
  BY <1>4 DEF StartInspection, CompleteInspection, MarkCustomerNotAvailable,
              MarkQuoteRequired, SetStatus, Statuses
<1>5. CASE StartService \/ MarkWorkDone \/ CompleteJob
  BY <1>5 DEF StartService, MarkWorkDone, CompleteJob, SetStatus, Charge, Statuses, Terminal
<1>6. CASE CancelJob \/ CustomerCancelBooking
  BY <1>6 DEF CancelJob, CustomerCancelBooking, Statuses, Terminal
<1>7. CASE FalseArrival \/ DenyArrival \/ SlaClose \/ TravelTimeout
  BY <1>7 DEF FalseArrival, DenyArrival, SlaClose, TravelTimeout, CloseBreached,
              Statuses, Terminal
<1>8. CASE AssignJob \/ ReassignJob
  <2>1. MaxAssignments \in Nat
    BY DEF ConstantsAssumption
  <2>2. NewAssignment
    BY <1>8 DEF AssignJob, ReassignJob
  <2>3. asgNo' \in 0 .. MaxAssignments
    BY <2>1, <2>2 DEF NewAssignment
  <2> QED BY <2>2, <2>3 DEF NewAssignment, Statuses
<1> QED BY <1>1, <1>2, <1>3, <1>4, <1>5, <1>6, <1>7, <1>8 DEF Locked

\* So does an unlocked one, whatever it read.
LEMMA UnlockedTypes ==
  ASSUME ConstantsAssumption, RowTypes, NEW op, NEW s \in Snapshots, Unlocked(op, s)
  PROVE  RowTypes'
<1> USE DEF RowTypes, jobRows, assignment, visit, estimate, Snapshots
<1>1. CASE DropAssignment(s)
  <2>1. staff' \in BOOLEAN
    BY <1>1 DEF DropAssignment, Put
  <2>2. job' \in Statuses /\ booking' \in Statuses
    BY <1>1 DEF DropAssignment, Put, Statuses
  <2>3. asg' \in {"none", "assigned", "accepted"}
    BY <1>1 DEF DropAssignment, OnAssignment
  <2> QED BY <1>1, <2>1, <2>2, <2>3 DEF DropAssignment
<1>10. CASE TechnicianAcceptJob(s) \/ ScheduleJob(s)
  <2>1. job' \in Statuses /\ booking' \in Statuses
    BY <1>10 DEF TechnicianAcceptJob, ScheduleJob, Put, Statuses
  <2>2. asg' \in {"none", "assigned", "accepted"}
    BY <1>10 DEF TechnicianAcceptJob, ScheduleJob, OnAssignment
  <2> QED BY <1>10, <2>1, <2>2 DEF TechnicianAcceptJob, ScheduleJob
<1>2. CASE CustomerRescheduleBooking(s) \/ DecideRescheduleRequest(s)
  <2>1. job' \in Statuses /\ booking' \in Statuses
    BY <1>2 DEF CustomerRescheduleBooking, DecideRescheduleRequest, Put, Statuses
  <2>2. arrived' \in BOOLEAN /\ proposal' \in BOOLEAN
    BY <1>2 DEF CustomerRescheduleBooking, DecideRescheduleRequest
  <2> QED BY <1>2, <2>1, <2>2 DEF CustomerRescheduleBooking, DecideRescheduleRequest
<1>3. CASE CreateQuote(s)
  <2>1. MaxQuotes \in Nat
    BY DEF ConstantsAssumption
  <2>2. quoteNo' \in 0 .. MaxQuotes
    BY <1>3, <2>1 DEF CreateQuote
  <2> QED BY <1>3, <2>2 DEF CreateQuote, QuoteStatuses
<1>4. CASE SendToCustomer(s) \/ CustomerApprove(s) \/ CustomerRequestRevision(s)
  BY <1>4 DEF SendToCustomer, CustomerApprove, CustomerRequestRevision, OnQuote,
              SyncJobStatus, QuoteStatuses, Statuses
<1>5. CASE CustomerReject(s)
  BY <1>5 DEF CustomerReject, OnQuote, SyncJobStatus, QuoteStatuses, Statuses, Terminal
<1>6. CASE CancelQuote(s) \/ MarkRevised(s)
  BY <1>6 DEF CancelQuote, MarkRevised, OnQuote, QuoteStatuses
<1>7. CASE OverrideCancel(s) \/ ForceClose(s) \/ Void(s) \/ IssueInvoice(s)
  BY <1>7 DEF OverrideCancel, ForceClose, Void, IssueInvoice, Statuses, Terminal
<1>8. CASE Reopen(s)
  <2>1. staff' \in BOOLEAN
    BY <1>8 DEF Reopen, Put
  <2>2. job' \in Statuses /\ booking' \in Statuses
    BY <1>8 DEF Reopen, Put, Statuses
  <2>3. asg' \in {"none", "assigned", "accepted"}
    BY <1>8 DEF Reopen, OnAssignment
  <2> QED BY <1>8, <2>1, <2>2, <2>3 DEF Reopen
<1>9. CASE StalledStageClose(s)
  BY <1>9 DEF StalledStageClose, CloseBreached, Statuses, Terminal
<1> QED BY <1>1, <1>2, <1>3, <1>4, <1>5, <1>6, <1>7, <1>8, <1>9, <1>10 DEF Unlocked

\* The rows as they are make a snapshot.
LEMMA NowIsASnapshot == ASSUME RowTypes PROVE Now \in Snapshots
BY DEF RowTypes, Now, Snapshots

\* So does the part of them a handler decides on.
LEMMA LoadedIsASnapshot ==
  ASSUME ConstantsAssumption, RowTypes, NEW op PROVE Loaded(op) \in Snapshots
<1>1. /\ "pending_assignment" \in Statuses /\ "none" \in QuoteStatuses
      /\ 0 \in 0 .. MaxAssignments /\ 0 \in 0 .. MaxQuotes
  BY DEF ConstantsAssumption, Statuses, QuoteStatuses
<1>2. /\ Loaded(op).staff \in BOOLEAN /\ Loaded(op).begun \in BOOLEAN
      /\ Loaded(op).charged \in BOOLEAN
  BY DEF Loaded, RowTypes
<1>3. /\ Loaded(op).job \in Statuses /\ Loaded(op).booking \in Statuses
      /\ Loaded(op).asg \in {"none", "assigned", "accepted"}
      /\ Loaded(op).asgNo \in 0 .. MaxAssignments
      /\ Loaded(op).quote \in QuoteStatuses /\ Loaded(op).quoteNo \in 0 .. MaxQuotes
  BY <1>1 DEF Loaded, RowTypes
<1> QED BY <1>2, <1>3 DEF Loaded, Snapshots

\* Type correctness.  Together with the typing of the open transactions it is
\* what every later proof about a stale snapshot starts from: whatever a
\* handler holds was once a legal state of the rows.
THEOREM TypeCorrect == Spec => []TypeOK
<1>1. Init => TypeOK
  <2> SUFFICES ASSUME Init PROVE TypeOK
    OBVIOUS
  <2>1. MaxAssignments \in Nat /\ MaxQuotes \in Nat
    BY ConstantsAssumption DEF ConstantsAssumption
  <2>2. asgNo \in 0 .. MaxAssignments /\ quoteNo \in 0 .. MaxQuotes
    BY <2>1 DEF Init
  <2>3. RowTypes
    BY <2>2 DEF Init, RowTypes, Statuses, QuoteStatuses
  <2> QED BY <2>3 DEF TypeOK, Init
<1>2. TypeOK /\ [Next]_vars => TypeOK'
  <2> SUFFICES ASSUME TypeOK, [Next]_vars PROVE TypeOK'
    OBVIOUS
  <2> USE ConstantsAssumption
  <2>1. CASE Locked /\ UNCHANGED txn
    BY <2>1, LockedTypes DEF TypeOK
  <2>2. CASE Alone /\ UNCHANGED txn
    BY <2>2, UnlockedTypes, NowIsASnapshot DEF TypeOK, Alone
  <2>3. ASSUME NEW r \in Requests, Read(r) PROVE TypeOK'
    <3>1. RowTypes'
      BY <2>3 DEF Read, TypeOK, RowTypes, jobRows, assignment, visit, estimate
    <3>2. PICK op \in Handlers \cap Overlapping :
             txn' = [txn EXCEPT ![r] = [op |-> op, saw |-> Loaded(op)]]
      BY <2>3 DEF Read
    <3>3. [op |-> op, saw |-> Loaded(op)] \in [op : UnlockedHandlers, saw : Snapshots]
      BY LoadedIsASnapshot, <3>2 DEF TypeOK, ConstantsAssumption
    <3> QED BY <3>1, <3>2, <3>3 DEF TypeOK
  <2>4. ASSUME NEW r \in Requests, Write(r) PROVE TypeOK'
    <3>1. txn[r] \in [op : UnlockedHandlers, saw : Snapshots]
      BY <2>4 DEF Write, TypeOK
    <3>2. RowTypes'
      BY <2>4, <3>1, UnlockedTypes DEF Write, TypeOK
    <3> QED BY <2>4, <3>2 DEF Write, TypeOK
  <2>5. ASSUME NEW r \in Requests, Abandon(r) PROVE TypeOK'
    <3>1. RowTypes'
      BY <2>5 DEF Abandon, TypeOK, RowTypes, jobRows, assignment, visit, estimate
    <3> QED BY <2>5, <3>1 DEF Abandon, TypeOK
  <2>6. CASE UNCHANGED vars
    BY <2>6 DEF vars, TypeOK, RowTypes, jobRows, assignment, visit, estimate
  <2> QED BY <2>1, <2>2, <2>3, <2>4, <2>5, <2>6 DEF Next
<1> QED BY <1>1, <1>2, PTL DEF Spec
-----------------------------------------------------------------------------
(* What a step can be. *)

\* An open transaction belongs to an unlocked handler in play.
OpenTransactions ==
  \A r \in Requests : txn[r] # Idle => txn[r].op \in Handlers \cap Overlapping

\* The rows change by a locked handler, or by an unlocked one that saw some
\* legal state of them: the present one, unless it is overlapping.
LEMMA StepKinds ==
  ASSUME TypeOK, OpenTransactions, [Next]_vars
  PROVE  \/ Locked
         \/ \E op \in Handlers, s \in Snapshots :
              (op \notin Overlapping => s = Now) /\ Unlocked(op, s)
         \/ UNCHANGED <<jobRows, assignment, visit, estimate, charged, proposal>>
<1>1. CASE Alone
  <2>1. PICK op \in Handlers \cap UnlockedHandlers : Unlocked(op, Now)
    BY <1>1 DEF Alone
  <2>2. Now \in Snapshots
    BY NowIsASnapshot DEF TypeOK
  <2> QED BY <2>1, <2>2
<1>2. ASSUME NEW r \in Requests, Write(r)
      PROVE  \E op \in Handlers, s \in Snapshots :
               (op \notin Overlapping => s = Now) /\ Unlocked(op, s)
  <2>1. txn[r] \in [op : UnlockedHandlers, saw : Snapshots]
    BY <1>2 DEF Write, TypeOK
  <2>2. txn[r].op \in Handlers \cap Overlapping
    BY <1>2 DEF Write, OpenTransactions
  <2> QED BY <1>2, <2>1, <2>2 DEF Write
<1>3. ASSUME NEW r \in Requests, Read(r) \/ Abandon(r)
      PROVE  UNCHANGED <<jobRows, assignment, visit, estimate, charged, proposal>>
  BY <1>3 DEF Read, Abandon
<1> QED BY <1>1, <1>2, <1>3 DEF Next, vars

\* Both facts hold throughout.
LEMMA OpenTransactionsKept == Spec => [](TypeOK /\ OpenTransactions)
<1>1. Init => OpenTransactions
  BY DEF Init, OpenTransactions
<1>2. TypeOK /\ OpenTransactions /\ [Next]_vars => OpenTransactions'
  <2> SUFFICES ASSUME TypeOK, OpenTransactions, [Next]_vars PROVE OpenTransactions'
    OBVIOUS
  <2>1. ASSUME NEW r \in Requests, Read(r) PROVE OpenTransactions'
    BY <2>1 DEF Read, OpenTransactions, TypeOK
  <2>2. ASSUME NEW r \in Requests, Write(r) \/ Abandon(r) PROVE OpenTransactions'
    BY <2>2 DEF Write, Abandon, OpenTransactions, TypeOK
  <2>3. CASE UNCHANGED txn
    BY <2>3 DEF OpenTransactions
  <2> QED BY <2>1, <2>2, <2>3 DEF Next, vars
<1> QED BY <1>1, <1>2, TypeCorrect, PTL DEF Spec

-----------------------------------------------------------------------------
(* Estimates. *)

\* The quote handlers that write a row they neither lock nor read again.
StaleQuoteWriters == QuoteHandlers \ {"send_to_customer", "customer_approve"}

\* A step never touches an approved quote, if the handlers that could have
\* read it before it was approved do not overlap with others.
LEMMA ApprovedQuoteKept ==
  ASSUME TypeOK, OpenTransactions, [Next]_vars,
         Overlapping \cap StaleQuoteWriters = {}, quote = "approved"
  PROVE  quote' = "approved" /\ quoteNo' = quoteNo
<1>1. CASE Locked
  <2>1. CASE \/ AcceptJob \/ RejectJob \/ MarkScheduled \/ LogCustomerContacted
             \/ MarkOnTheWay \/ MarkReachedSite \/ RequestArrivalConfirmation
             \/ ConfirmArrival
    BY <2>1 DEF AcceptJob, RejectJob, MarkScheduled, LogCustomerContacted,
         MarkOnTheWay, MarkReachedSite, RequestArrivalConfirmation, ConfirmArrival, estimate
  <2>2. CASE \/ StartInspection \/ CompleteInspection \/ StartService \/ MarkWorkDone
             \/ MarkCustomerNotAvailable \/ MarkQuoteRequired \/ CancelJob \/ CompleteJob
    BY <2>2 DEF StartInspection, CompleteInspection, StartService, MarkWorkDone,
         MarkCustomerNotAvailable, MarkQuoteRequired, CancelJob, CompleteJob, estimate
  <2>3. CASE \/ FalseArrival \/ DenyArrival \/ ChallengeExpires \/ SlaClose \/ TravelTimeout
    BY <2>3 DEF FalseArrival, DenyArrival, ChallengeExpires, SlaClose, TravelTimeout,
         CloseBreached, estimate
  <2>4. CASE \/ AssignJob \/ ReassignJob \/ CustomerCancelBooking
             \/ CreateRescheduleRequest
    BY <2>4 DEF AssignJob, ReassignJob, NewAssignment, CustomerCancelBooking,
         CreateRescheduleRequest, estimate
  <2> QED BY <1>1, <2>1, <2>2, <2>3, <2>4 DEF Locked
<1>2. ASSUME NEW op \in Handlers, NEW s \in Snapshots,
             op \notin Overlapping => s = Now, Unlocked(op, s)
      PROVE  quote' = "approved" /\ quoteNo' = quoteNo
  <2>1. CASE op \in StaleQuoteWriters
    <3>1. s.quote = "approved"
      BY <1>2, <2>1 DEF Now
    <3>2. ~CreateQuote(s) /\ ~CustomerReject(s) /\ ~CustomerRequestRevision(s)
            /\ ~CancelQuote(s) /\ ~MarkRevised(s)
      BY <3>1 DEF CreateQuote, CustomerReject, CustomerRequestRevision, CancelQuote,
           MarkRevised, OnQuote, QuoteCanMove
    <3> QED BY <1>2, <2>1, <3>2 DEF Unlocked, StaleQuoteWriters, QuoteHandlers
  <2>2. ~SendToCustomer(s) /\ ~CustomerApprove(s)
    BY DEF SendToCustomer, CustomerApprove, QuoteLocked, OnQuote, QuoteCanMove
  <2>3. CASE op \notin QuoteHandlers
    BY <1>2, <2>3 DEF Unlocked, QuoteHandlers, DropAssignment, TechnicianAcceptJob,
         ScheduleJob, CustomerRescheduleBooking, DecideRescheduleRequest,
         OverrideCancel, Reopen, ForceClose, Void, StalledStageClose,
         CloseBreached, IssueInvoice, estimate
  <2> QED BY <1>2, <2>1, <2>2, <2>3 DEF StaleQuoteWriters, QuoteHandlers, Unlocked
<1>3. CASE UNCHANGED <<jobRows, assignment, visit, estimate, charged, proposal>>
  BY <1>3 DEF estimate
<1> QED BY <1>1, <1>2, <1>3, StepKinds

\* An approved estimate is immutable, as long as create_quote, customer_reject,
\* customer_request_revision, cancel_quote and mark_revised, which do not lock
\* the quote they decide on, meet no concurrent approval.
THEOREM ApprovedStaysApproved ==
  ASSUME Overlapping \cap StaleQuoteWriters = {}
  PROVE  Spec => ApprovedQuoteImmutable
<1>1. TypeOK /\ OpenTransactions /\ [Next]_vars
        => [quote = "approved" => quote' = "approved" /\ quoteNo' = quoteNo]_vars
  BY ApprovedQuoteKept
<1> QED BY <1>1, OpenTransactionsKept, PTL DEF Spec, ApprovedQuoteImmutable

-----------------------------------------------------------------------------
(* Work and its authorisation. *)

\* The field handlers start work only on an approved estimate.
LEMMA LockedKeepsAuthorised ==
  ASSUME ConstantsAssumption, TypeOK, WorkAuthorised, Locked PROVE WorkAuthorised'
<1> USE DEF WorkAuthorised, Working, jobRows, assignment, visit, estimate
<1>1. CASE AcceptJob \/ RejectJob \/ MarkScheduled \/ LogCustomerContacted \/
           MarkOnTheWay
  BY <1>1 DEF AcceptJob, RejectJob, MarkScheduled, LogCustomerContacted,
       MarkOnTheWay, SetStatus, CanMove, QuoteApprovalSatisfied
<1>2. CASE MarkReachedSite \/ RequestArrivalConfirmation \/ ConfirmArrival \/
           ChallengeExpires
  BY <1>2 DEF MarkReachedSite, RequestArrivalConfirmation, ConfirmArrival,
       ChallengeExpires, SetStatus, CanMove, QuoteApprovalSatisfied
<1>3. CASE StartInspection \/ CompleteInspection \/ MarkCustomerNotAvailable \/
           MarkQuoteRequired
  BY <1>3 DEF StartInspection, CompleteInspection, MarkCustomerNotAvailable,
       MarkQuoteRequired, SetStatus, CanMove, QuoteApprovalSatisfied
<1>4. CASE StartService \/ MarkWorkDone \/ CompleteJob
  BY <1>4 DEF StartService, MarkWorkDone, CompleteJob, SetStatus, Charge,
       CanMove, QuoteApprovalSatisfied
<1>5. CASE CancelJob \/ FalseArrival \/ DenyArrival \/ SlaClose \/ TravelTimeout
  BY <1>5 DEF CancelJob, FalseArrival, DenyArrival, SlaClose, TravelTimeout,
       CloseBreached
<1>6. CASE AssignJob \/ ReassignJob \/ CustomerCancelBooking \/
           CreateRescheduleRequest
  BY <1>6 DEF AssignJob, ReassignJob, CustomerCancelBooking,
       CreateRescheduleRequest, NewAssignment
<1> QED BY <1>1, <1>2, <1>3, <1>4, <1>5, <1>6 DEF Locked

\* The unlocked ones never put a gated job to work, and a quote that covers
\* work in progress is approved, hence out of their reach.
LEMMA UnlockedKeepsAuthorised ==
  ASSUME ConstantsAssumption, TypeOK, WorkAuthorised, NEW op, NEW s \in Snapshots, Unlocked(op, s),
         quote = "approved" => quote' = "approved"
  PROVE  WorkAuthorised'
<1> USE DEF WorkAuthorised, Working, jobRows, assignment, visit, estimate
<1>1. CASE DropAssignment(s) \/ TechnicianAcceptJob(s) \/ ScheduleJob(s)
           \/ CustomerRescheduleBooking(s) \/ DecideRescheduleRequest(s)
  BY <1>1 DEF DropAssignment, TechnicianAcceptJob, ScheduleJob,
       CustomerRescheduleBooking, DecideRescheduleRequest, Put
<1>2. CASE CreateQuote(s) \/ CancelQuote(s) \/ MarkRevised(s)
  BY <1>2 DEF CreateQuote, CancelQuote, MarkRevised
<1>3. CASE SendToCustomer(s) \/ CustomerApprove(s) \/ CustomerRequestRevision(s)
  BY <1>3 DEF SendToCustomer, CustomerApprove, CustomerRequestRevision, SyncJobStatus
<1>4. CASE CustomerReject(s)
  BY <1>4 DEF CustomerReject, SyncJobStatus, ConstantsAssumption
<1>5. CASE OverrideCancel(s) \/ Reopen(s) \/ ForceClose(s) \/ Void(s)
           \/ StalledStageClose(s) \/ IssueInvoice(s)
  BY <1>5 DEF OverrideCancel, Reopen, ForceClose, Void, StalledStageClose,
       CloseBreached, IssueInvoice
<1> QED BY <1>1, <1>2, <1>3, <1>4, <1>5 DEF Unlocked

\* Work on a job whose price is an estimate is covered, while it goes on and
\* once it is over, by a current quote the customer approved, whatever the
\* other unlocked handlers do with what they read long ago.
THEOREM WorkStaysAuthorised ==
  ASSUME Overlapping \cap StaleQuoteWriters = {}
  PROVE  Spec => []WorkAuthorised
<1>1. Init => WorkAuthorised
  BY DEF Init, WorkAuthorised, Working
<1>2. TypeOK /\ OpenTransactions /\ WorkAuthorised /\ [Next]_vars => WorkAuthorised'
  <2> SUFFICES ASSUME TypeOK, OpenTransactions, WorkAuthorised, [Next]_vars
               PROVE  WorkAuthorised'
    OBVIOUS
  <2>1. CASE Locked
    BY <2>1, ConstantsAssumption, LockedKeepsAuthorised
  <2>2. quote = "approved" => quote' = "approved"
    BY ApprovedQuoteKept
  <2>3. ASSUME NEW op \in Handlers, NEW s \in Snapshots, Unlocked(op, s)
        PROVE  WorkAuthorised'
    BY <2>2, <2>3, ConstantsAssumption, UnlockedKeepsAuthorised
  <2>4. CASE UNCHANGED <<jobRows, assignment, visit, estimate, charged, proposal>>
    BY <2>4 DEF WorkAuthorised, jobRows, estimate
  <2> QED BY <2>1, <2>3, <2>4, StepKinds
<1> QED BY <1>1, <1>2, OpenTransactionsKept, PTL DEF Spec

-----------------------------------------------------------------------------
(* Arrival. *)

\* The quote handlers that move the job's status to what their own read allows.
QuoteSyncs == {"send_to_customer", "customer_approve", "customer_reject",
               "customer_request_revision"}

\* The field handlers enter the visit through a verified arrival, and what
\* voids the arrival leaves the visit.
LEMMA LockedKeepsArrival ==
  ASSUME TypeOK, ArrivalBeforeWork, Locked PROVE ArrivalBeforeWork'
<1> USE DEF ArrivalBeforeWork, Working, jobRows, assignment, visit, estimate
<1>1. CASE AcceptJob \/ RejectJob \/ MarkScheduled \/ LogCustomerContacted \/
           MarkOnTheWay
  BY <1>1 DEF AcceptJob, RejectJob, MarkScheduled, LogCustomerContacted,
       MarkOnTheWay, SetStatus, CanMove
<1>2. CASE MarkReachedSite \/ RequestArrivalConfirmation \/ ConfirmArrival \/
           ChallengeExpires
  BY <1>2 DEF MarkReachedSite, RequestArrivalConfirmation, ConfirmArrival,
       ChallengeExpires, SetStatus, CanMove
<1>3. CASE StartInspection \/ CompleteInspection \/ MarkCustomerNotAvailable \/
           MarkQuoteRequired
  BY <1>3 DEF StartInspection, CompleteInspection, MarkCustomerNotAvailable,
       MarkQuoteRequired, SetStatus, CanMove
<1>4. CASE StartService \/ MarkWorkDone \/ CompleteJob
  BY <1>4 DEF StartService, MarkWorkDone, CompleteJob, SetStatus, Charge,
       CanMove
<1>5. CASE CancelJob \/ FalseArrival \/ DenyArrival \/ SlaClose \/ TravelTimeout
  BY <1>5 DEF CancelJob, FalseArrival, DenyArrival, SlaClose, TravelTimeout,
       CloseBreached
<1>6. CASE AssignJob \/ ReassignJob \/ CustomerCancelBooking \/
           CreateRescheduleRequest
  BY <1>6 DEF AssignJob, ReassignJob, CustomerCancelBooking,
       CreateRescheduleRequest, NewAssignment
<1> QED BY <1>1, <1>2, <1>3, <1>4, <1>5, <1>6 DEF Locked

\* So do the unlocked ones, if the quote handlers see the job as it is.
LEMMA UnlockedKeepsArrival ==
  ASSUME TypeOK, ArrivalBeforeWork, NEW op, NEW s \in Snapshots, Unlocked(op, s),
         op \in QuoteSyncs => s = Now
  PROVE  ArrivalBeforeWork'
<1> USE DEF ArrivalBeforeWork, Working, jobRows, assignment, visit, estimate
<1>1. CASE DropAssignment(s) \/ TechnicianAcceptJob(s) \/ ScheduleJob(s)
           \/ CustomerRescheduleBooking(s) \/ DecideRescheduleRequest(s)
  BY <1>1 DEF DropAssignment, TechnicianAcceptJob, ScheduleJob,
       CustomerRescheduleBooking, DecideRescheduleRequest, Put
<1>2. CASE CreateQuote(s) \/ CancelQuote(s) \/ MarkRevised(s)
  BY <1>2 DEF CreateQuote, CancelQuote, MarkRevised
<1>3. CASE op \in QuoteSyncs
  <2>1. s.job = job
    BY <1>3 DEF Now
  <2>2. CASE SendToCustomer(s) \/ CustomerApprove(s) \/ CustomerRequestRevision(s)
    BY <2>1, <2>2 DEF SendToCustomer, CustomerApprove, CustomerRequestRevision,
         SyncJobStatus, CanMove
  <2>3. CASE CustomerReject(s)
    BY <2>1, <2>3 DEF CustomerReject, SyncJobStatus, CanMove
  <2> QED BY <1>3, <2>2, <2>3 DEF Unlocked, QuoteSyncs
<1>4. CASE OverrideCancel(s) \/ Reopen(s) \/ ForceClose(s) \/ Void(s)
           \/ StalledStageClose(s) \/ IssueInvoice(s)
  BY <1>4 DEF OverrideCancel, Reopen, ForceClose, Void, StalledStageClose,
       CloseBreached, IssueInvoice
<1> QED BY <1>1, <1>2, <1>3, <1>4 DEF Unlocked, QuoteSyncs

\* A job inspected, quoted or worked on has a verified arrival, also while
\* reschedules, assignments, admin actions and the watchdog overlap.
THEOREM ArrivalCoversWork ==
  ASSUME Overlapping \cap QuoteSyncs = {}
  PROVE  Spec => []ArrivalBeforeWork
<1>1. Init => ArrivalBeforeWork
  BY DEF Init, ArrivalBeforeWork, Working
<1>2. TypeOK /\ OpenTransactions /\ ArrivalBeforeWork /\ [Next]_vars
        => ArrivalBeforeWork'
  <2> SUFFICES ASSUME TypeOK, OpenTransactions, ArrivalBeforeWork, [Next]_vars
               PROVE  ArrivalBeforeWork'
    OBVIOUS
  <2>1. CASE Locked
    BY <2>1, LockedKeepsArrival
  <2>2. ASSUME NEW op \in Handlers, NEW s \in Snapshots,
               op \notin Overlapping => s = Now, Unlocked(op, s)
        PROVE  ArrivalBeforeWork'
    BY <2>2, UnlockedKeepsArrival
  <2>3. CASE UNCHANGED <<jobRows, assignment, visit, estimate, charged, proposal>>
    BY <2>3 DEF ArrivalBeforeWork, jobRows, visit
  <2> QED BY <2>1, <2>2, <2>3, StepKinds
<1> QED BY <1>1, <1>2, OpenTransactionsKept, PTL DEF Spec

-----------------------------------------------------------------------------
(* The booking, the charge and the technician. *)

\* The handlers that write the job's status and leave the booking's.
JobOnlyWriters == {"override_cancel", "issue_invoice"}

\* The handlers that write the booking's status by what they had loaded of it.
StaleMirrors == VisitHandlers \cup {"reopen"}

\* Under the lock, job and booking move together.
LEMMA LockedKeepsMirror ==
  ASSUME BookingMirrorsJob, Locked PROVE BookingMirrorsJob'
<1> USE DEF BookingMirrorsJob, jobRows, assignment, visit, estimate
<1>1. CASE AcceptJob \/ RejectJob \/ MarkScheduled \/ LogCustomerContacted \/
           MarkOnTheWay
  BY <1>1 DEF AcceptJob, RejectJob, MarkScheduled, LogCustomerContacted,
       MarkOnTheWay, SetStatus
<1>2. CASE MarkReachedSite \/ RequestArrivalConfirmation \/ ConfirmArrival \/
           ChallengeExpires
  BY <1>2 DEF MarkReachedSite, RequestArrivalConfirmation, ConfirmArrival,
       ChallengeExpires, SetStatus
<1>3. CASE StartInspection \/ CompleteInspection \/ MarkCustomerNotAvailable \/
           MarkQuoteRequired
  BY <1>3 DEF StartInspection, CompleteInspection, MarkCustomerNotAvailable,
       MarkQuoteRequired, SetStatus
<1>4. CASE StartService \/ MarkWorkDone \/ CompleteJob
  BY <1>4 DEF StartService, MarkWorkDone, CompleteJob, SetStatus
<1>5. CASE CancelJob \/ FalseArrival \/ DenyArrival \/ SlaClose \/ TravelTimeout
  BY <1>5 DEF CancelJob, FalseArrival, DenyArrival, SlaClose, TravelTimeout,
       CloseBreached
<1>6. CASE AssignJob \/ ReassignJob \/ CustomerCancelBooking \/
           CreateRescheduleRequest
  BY <1>6 DEF AssignJob, ReassignJob, CustomerCancelBooking,
       CreateRescheduleRequest, NewAssignment
<1> QED BY <1>1, <1>2, <1>3, <1>4, <1>5, <1>6 DEF Locked

\* So they do without it, except in the handlers named above.
LEMMA UnlockedKeepsMirror ==
  ASSUME BookingMirrorsJob, NEW op, NEW s \in Snapshots, Unlocked(op, s),
         op \notin JobOnlyWriters, op \in StaleMirrors => s = Now
  PROVE  BookingMirrorsJob'
<1> USE DEF BookingMirrorsJob, jobRows, assignment, visit, estimate
<1>1. CASE op \in StaleMirrors
  <2>1. s.job = job /\ s.booking = booking
    BY <1>1 DEF Now
  <2>2. CASE TechnicianAcceptJob(s) \/ ScheduleJob(s)
    BY <2>1, <2>2 DEF TechnicianAcceptJob, ScheduleJob, Put
  <2>4. CASE DropAssignment(s)
    <3>1. job' = Put(s.job, job, "pending_assignment")
            /\ booking' = "pending_assignment"
      BY <2>4 DEF DropAssignment
    <3> QED BY <2>1, <3>1 DEF Put
  <2>3. CASE DecideRescheduleRequest(s) \/ Reopen(s)
    BY <2>1, <2>3 DEF DecideRescheduleRequest, Reopen, Put
  <2>5. CASE CustomerRescheduleBooking(s)
    BY <2>1, <2>5 DEF CustomerRescheduleBooking, Put
  <2> QED BY <1>1, <2>2, <2>3, <2>4, <2>5 DEF Unlocked, StaleMirrors, VisitHandlers
<1>2. CASE CreateQuote(s) \/ CancelQuote(s) \/ MarkRevised(s)
  BY <1>2 DEF CreateQuote, CancelQuote, MarkRevised
<1>3. CASE SendToCustomer(s) \/ CustomerApprove(s) \/ CustomerRequestRevision(s)
           \/ CustomerReject(s)
  BY <1>3 DEF SendToCustomer, CustomerApprove, CustomerRequestRevision,
       CustomerReject, SyncJobStatus
<1>4. CASE ForceClose(s) \/ Void(s) \/ StalledStageClose(s)
  BY <1>4 DEF ForceClose, Void, StalledStageClose, CloseBreached
<1> QED BY <1>1, <1>2, <1>3, <1>4 DEF Unlocked, StaleMirrors, VisitHandlers,
          JobOnlyWriters

\* The booking shows the status of the job after every step, also while quote
\* handlers, force_close, void and the watchdog act on what they read before,
\* as long as the two handlers that forget the booking are not called.
THEOREM BookingStaysAMirror ==
  ASSUME Handlers \cap JobOnlyWriters = {}, Overlapping \cap StaleMirrors = {}
  PROVE  Spec => []BookingMirrorsJob
<1>1. Init => BookingMirrorsJob
  BY DEF Init, BookingMirrorsJob
<1>2. TypeOK /\ OpenTransactions /\ BookingMirrorsJob /\ [Next]_vars
        => BookingMirrorsJob'
  <2> SUFFICES ASSUME TypeOK, OpenTransactions, BookingMirrorsJob, [Next]_vars
               PROVE  BookingMirrorsJob'
    OBVIOUS
  <2>1. CASE Locked
    BY <2>1, LockedKeepsMirror
  <2>2. ASSUME NEW op \in Handlers, NEW s \in Snapshots,
               op \notin Overlapping => s = Now, Unlocked(op, s)
        PROVE  BookingMirrorsJob'
    BY <2>2, UnlockedKeepsMirror
  <2>3. CASE UNCHANGED <<jobRows, assignment, visit, estimate, charged, proposal>>
    BY <2>3 DEF BookingMirrorsJob, jobRows
  <2> QED BY <2>1, <2>2, <2>3, StepKinds
<1> QED BY <1>1, <1>2, OpenTransactionsKept, PTL DEF Spec

\* The handlers that charge the provider do not leave the job voided.
LEMMA LockedKeepsVoid ==
  ASSUME VoidedNeverCharged, Locked PROVE VoidedNeverCharged'
<1> USE DEF VoidedNeverCharged, jobRows, assignment, visit, estimate
<1>1. CASE AcceptJob \/ RejectJob \/ MarkScheduled \/ LogCustomerContacted \/
           MarkOnTheWay
  BY <1>1 DEF AcceptJob, RejectJob, MarkScheduled, LogCustomerContacted,
       MarkOnTheWay, SetStatus
<1>2. CASE MarkReachedSite \/ RequestArrivalConfirmation \/ ConfirmArrival \/
           ChallengeExpires
  BY <1>2 DEF MarkReachedSite, RequestArrivalConfirmation, ConfirmArrival,
       ChallengeExpires, SetStatus
<1>3. CASE StartInspection \/ CompleteInspection \/ MarkCustomerNotAvailable \/
           MarkQuoteRequired
  BY <1>3 DEF StartInspection, CompleteInspection, MarkCustomerNotAvailable,
       MarkQuoteRequired, SetStatus
<1>4. CASE StartService \/ MarkWorkDone \/ CompleteJob
  BY <1>4 DEF StartService, MarkWorkDone, CompleteJob, SetStatus, Charge
<1>5. CASE CancelJob \/ FalseArrival \/ DenyArrival \/ SlaClose \/ TravelTimeout
  BY <1>5 DEF CancelJob, FalseArrival, DenyArrival, SlaClose, TravelTimeout,
       CloseBreached
<1>6. CASE AssignJob \/ ReassignJob \/ CustomerCancelBooking \/
           CreateRescheduleRequest
  BY <1>6 DEF AssignJob, ReassignJob, CustomerCancelBooking,
       CreateRescheduleRequest, NewAssignment
<1> QED BY <1>1, <1>2, <1>3, <1>4, <1>5, <1>6 DEF Locked

\* void looks for the charge; nobody else voids a job.
LEMMA UnlockedKeepsVoid ==
  ASSUME TypeOK, VoidedNeverCharged, NEW op, NEW s \in Snapshots, Unlocked(op, s),
         op = "void" => s = Now
  PROVE  VoidedNeverCharged'
<1> USE DEF VoidedNeverCharged, jobRows, assignment, visit, estimate
<1>1. CASE DropAssignment(s) \/ TechnicianAcceptJob(s) \/ ScheduleJob(s)
           \/ CustomerRescheduleBooking(s) \/ DecideRescheduleRequest(s)
  BY <1>1 DEF DropAssignment, TechnicianAcceptJob, ScheduleJob,
       CustomerRescheduleBooking, DecideRescheduleRequest, Put
<1>2. CASE CreateQuote(s) \/ CancelQuote(s) \/ MarkRevised(s)
  BY <1>2 DEF CreateQuote, CancelQuote, MarkRevised
<1>3. CASE SendToCustomer(s) \/ CustomerApprove(s) \/ CustomerRequestRevision(s)
           \/ CustomerReject(s)
  BY <1>3 DEF SendToCustomer, CustomerApprove, CustomerRequestRevision,
       CustomerReject, SyncJobStatus
<1>4. CASE OverrideCancel(s) \/ Reopen(s) \/ ForceClose(s)
           \/ StalledStageClose(s) \/ IssueInvoice(s)
  BY <1>4 DEF OverrideCancel, Reopen, ForceClose, StalledStageClose,
       CloseBreached, IssueInvoice
<1>5. CASE op = "void" /\ Void(s)
  <2>1. s.charged = charged
    BY <1>5 DEF Now
  <2> QED BY <1>5, <2>1 DEF Void
<1> QED BY <1>1, <1>2, <1>3, <1>4, <1>5 DEF Unlocked

\* A voided job was never charged, whatever overlaps with whatever, if void
\* itself runs alone between its look at the ledger and its commit.
THEOREM VoidNeverMeetsACharge ==
  ASSUME "void" \notin Overlapping
  PROVE  Spec => []VoidedNeverCharged
<1>1. Init => VoidedNeverCharged
  BY DEF Init, VoidedNeverCharged
<1>2. TypeOK /\ OpenTransactions /\ VoidedNeverCharged /\ [Next]_vars
        => VoidedNeverCharged'
  <2> SUFFICES ASSUME TypeOK, OpenTransactions, VoidedNeverCharged, [Next]_vars
               PROVE  VoidedNeverCharged'
    OBVIOUS
  <2>1. CASE Locked
    BY <2>1, LockedKeepsVoid
  <2>2. ASSUME NEW op \in Handlers, NEW s \in Snapshots,
               op \notin Overlapping => s = Now, Unlocked(op, s)
        PROVE  VoidedNeverCharged'
    BY <2>2, UnlockedKeepsVoid
  <2>3. CASE UNCHANGED <<jobRows, assignment, visit, estimate, charged, proposal>>
    BY <2>3 DEF VoidedNeverCharged, jobRows
  <2> QED BY <2>1, <2>2, <2>3, StepKinds
<1> QED BY <1>1, <1>2, OpenTransactionsKept, PTL DEF Spec

\* The field handlers are called by the technician of the job.
LEMMA LockedKeepsTechnician ==
  ASSUME TypeOK, InFieldHasTechnician, Locked PROVE InFieldHasTechnician'
<1> USE DEF InFieldHasTechnician, jobRows, assignment, visit, estimate
<1>1. CASE AcceptJob \/ RejectJob \/ MarkScheduled \/ LogCustomerContacted \/
           MarkOnTheWay
  BY <1>1 DEF AcceptJob, RejectJob, MarkScheduled, LogCustomerContacted,
       MarkOnTheWay, SetStatus, CanMove
<1>2. CASE MarkReachedSite \/ RequestArrivalConfirmation \/ ConfirmArrival \/
           ChallengeExpires
  BY <1>2 DEF MarkReachedSite, RequestArrivalConfirmation, ConfirmArrival,
       ChallengeExpires, SetStatus, CanMove
<1>3. CASE StartInspection \/ CompleteInspection \/ MarkCustomerNotAvailable \/
           MarkQuoteRequired
  BY <1>3 DEF StartInspection, CompleteInspection, MarkCustomerNotAvailable,
       MarkQuoteRequired, SetStatus, CanMove
<1>4. CASE StartService \/ MarkWorkDone \/ CompleteJob
  BY <1>4 DEF StartService, MarkWorkDone, CompleteJob, SetStatus, Charge,
       CanMove
<1>5. CASE CancelJob \/ FalseArrival \/ DenyArrival \/ SlaClose \/ TravelTimeout
  BY <1>5 DEF CancelJob, FalseArrival, DenyArrival, SlaClose, TravelTimeout,
       CloseBreached
<1>6. CASE AssignJob \/ ReassignJob \/ CustomerCancelBooking \/
           CreateRescheduleRequest
  BY <1>6 DEF AssignJob, ReassignJob, CustomerCancelBooking,
       CreateRescheduleRequest, NewAssignment
<1> QED BY <1>1, <1>2, <1>3, <1>4, <1>5, <1>6 DEF Locked

\* What takes the technician away takes the job out of the field.
LEMMA UnlockedKeepsTechnician ==
  ASSUME TypeOK, InFieldHasTechnician, NEW op, NEW s \in Snapshots, Unlocked(op, s),
         op \in QuoteSyncs \cup {"drop_assignment"} => s = Now
  PROVE  InFieldHasTechnician'
<1> USE DEF InFieldHasTechnician, jobRows, assignment, visit, estimate
<1>1. CASE op = "drop_assignment" /\ DropAssignment(s)
  <2>1. s.job = job
    BY <1>1 DEF Now
  <2>2. job' = "pending_assignment"
    BY <1>1, <2>1 DEF DropAssignment, Put
  <2> QED BY <2>2
<1>2. CASE \/ TechnicianAcceptJob(s) \/ ScheduleJob(s)
           \/ CustomerRescheduleBooking(s) \/ DecideRescheduleRequest(s)
  BY <1>2 DEF TechnicianAcceptJob, ScheduleJob, CustomerRescheduleBooking,
              DecideRescheduleRequest, Put
<1>3. CASE CreateQuote(s) \/ CancelQuote(s) \/ MarkRevised(s)
  BY <1>3 DEF CreateQuote, CancelQuote, MarkRevised
<1>4. CASE op \in QuoteSyncs
  <2>1. s.job = job
    BY <1>4 DEF Now
  <2>2. CASE SendToCustomer(s) \/ CustomerApprove(s) \/ CustomerRequestRevision(s)
    BY <2>1, <2>2 DEF SendToCustomer, CustomerApprove, CustomerRequestRevision,
         SyncJobStatus, CanMove
  <2>3. CASE CustomerReject(s)
    BY <2>1, <2>3 DEF CustomerReject, SyncJobStatus, CanMove
  <2> QED BY <1>4, <2>2, <2>3 DEF Unlocked, QuoteSyncs
<1>5. CASE OverrideCancel(s) \/ Reopen(s) \/ ForceClose(s) \/ Void(s)
           \/ StalledStageClose(s) \/ IssueInvoice(s)
  BY <1>5 DEF OverrideCancel, Reopen, ForceClose, Void, StalledStageClose,
       CloseBreached, IssueInvoice
<1> QED BY <1>1, <1>2, <1>3, <1>4, <1>5 DEF Unlocked, QuoteSyncs

\* A job in the field has a technician, also while accepts, schedules, admin
\* actions and the watchdog overlap.
THEOREM TechnicianInTheField ==
  ASSUME Overlapping \cap (QuoteSyncs \cup {"drop_assignment"}) = {}
  PROVE  Spec => []InFieldHasTechnician
<1>1. Init => InFieldHasTechnician
  BY DEF Init, InFieldHasTechnician
<1>2. TypeOK /\ OpenTransactions /\ InFieldHasTechnician /\ [Next]_vars
        => InFieldHasTechnician'
  <2> SUFFICES ASSUME TypeOK, OpenTransactions, InFieldHasTechnician, [Next]_vars
               PROVE  InFieldHasTechnician'
    OBVIOUS
  <2>1. CASE Locked
    BY <2>1, LockedKeepsTechnician
  <2>2. ASSUME NEW op \in Handlers, NEW s \in Snapshots,
               op \notin Overlapping => s = Now, Unlocked(op, s)
        PROVE  InFieldHasTechnician'
    BY <2>2, UnlockedKeepsTechnician
  <2>3. CASE UNCHANGED <<jobRows, assignment, visit, estimate, charged, proposal>>
    BY <2>3 DEF InFieldHasTechnician, jobRows, assignment
  <2> QED BY <2>1, <2>2, <2>3, StepKinds
<1> QED BY <1>1, <1>2, OpenTransactionsKept, PTL DEF Spec

-----------------------------------------------------------------------------
(* Work that never went through the gates. *)

\* What an open transaction saw begun has begun.
BegunWasSeen ==
  \A r \in Requests : txn[r] # Idle => (txn[r].saw.begun => begun)

\* A work-start event is never removed, and the field handlers reach work_done
\* and completed from service_started only.
LEMMA LockedKeepsBegun ==
  ASSUME TypeOK, WorkHadBegun, Locked PROVE WorkHadBegun' /\ (begun => begun')
<1> USE DEF WorkHadBegun, Working, jobRows, assignment, visit, estimate
<1>1. CASE AcceptJob \/ RejectJob \/ MarkScheduled \/ LogCustomerContacted \/
           MarkOnTheWay
  BY <1>1 DEF AcceptJob, RejectJob, MarkScheduled, LogCustomerContacted,
       MarkOnTheWay, SetStatus, CanMove
<1>2. CASE MarkReachedSite \/ RequestArrivalConfirmation \/ ConfirmArrival \/
           ChallengeExpires
  BY <1>2 DEF MarkReachedSite, RequestArrivalConfirmation, ConfirmArrival,
       ChallengeExpires, SetStatus, CanMove
<1>3. CASE StartInspection \/ CompleteInspection \/ MarkCustomerNotAvailable \/
           MarkQuoteRequired
  BY <1>3 DEF StartInspection, CompleteInspection, MarkCustomerNotAvailable,
       MarkQuoteRequired, SetStatus, CanMove
<1>4. CASE StartService \/ MarkWorkDone \/ CompleteJob
  BY <1>4 DEF StartService, MarkWorkDone, CompleteJob, SetStatus, CanMove
<1>5. CASE CancelJob \/ FalseArrival \/ DenyArrival \/ SlaClose \/ TravelTimeout
  BY <1>5 DEF CancelJob, FalseArrival, DenyArrival, SlaClose, TravelTimeout,
       CloseBreached
<1>6. CASE AssignJob \/ ReassignJob \/ CustomerCancelBooking \/
           CreateRescheduleRequest
  BY <1>6 DEF AssignJob, ReassignJob, CustomerCancelBooking,
       CreateRescheduleRequest, NewAssignment
<1> QED BY <1>1, <1>2, <1>3, <1>4, <1>5, <1>6 DEF Locked

\* Nor do the unlocked handlers send a job to work unless they saw it begun.
LEMMA UnlockedKeepsBegun ==
  ASSUME TypeOK, WorkHadBegun, NEW op, NEW s \in Snapshots, Unlocked(op, s),
         s.begun => begun
  PROVE  WorkHadBegun' /\ (begun => begun')
<1> USE DEF WorkHadBegun, Working, jobRows, assignment, visit, estimate
<1>1. CASE DropAssignment(s) \/ TechnicianAcceptJob(s) \/ ScheduleJob(s)
           \/ CustomerRescheduleBooking(s) \/ DecideRescheduleRequest(s)
  BY <1>1 DEF DropAssignment, TechnicianAcceptJob, ScheduleJob,
       CustomerRescheduleBooking, DecideRescheduleRequest, Put
<1>2. CASE CreateQuote(s) \/ CancelQuote(s) \/ MarkRevised(s)
  BY <1>2 DEF CreateQuote, CancelQuote, MarkRevised
<1>3. CASE SendToCustomer(s) \/ CustomerApprove(s) \/ CustomerRequestRevision(s)
  BY <1>3 DEF SendToCustomer, CustomerApprove, CustomerRequestRevision, SyncJobStatus
<1>4. CASE CustomerReject(s)
  BY <1>4 DEF CustomerReject, SyncJobStatus
<1>5. CASE OverrideCancel(s) \/ Reopen(s) \/ ForceClose(s) \/ Void(s)
           \/ StalledStageClose(s) \/ IssueInvoice(s)
  BY <1>5 DEF OverrideCancel, Reopen, ForceClose, Void, StalledStageClose,
       CloseBreached, IssueInvoice
<1> QED BY <1>1, <1>2, <1>3, <1>4, <1>5 DEF Unlocked

\* No interleaving of any of the handlers, each as stale as it may be, brings a
\* job to work, or to completion, whose work was never started through
\* start_service's gates.  The strengthening is BegunWasSeen: the one handler
\* that resumes work on an old read, customer_reject, relies on an event that
\* nobody ever removes.
THEOREM WorkWasStarted == Spec => []WorkHadBegun
<1> DEFINE IInv == WorkHadBegun /\ BegunWasSeen
<1>1. Init => IInv
  BY DEF Init, WorkHadBegun, Working, BegunWasSeen
<1>2. TypeOK /\ IInv /\ [Next]_vars => IInv'
  <2> SUFFICES ASSUME TypeOK, IInv, [Next]_vars PROVE IInv'
    OBVIOUS
  <2> USE DEF IInv
  <2>1. CASE Locked /\ UNCHANGED txn
    <3>1. WorkHadBegun' /\ (begun => begun')
      BY <2>1, LockedKeepsBegun
    <3> QED BY <2>1, <3>1 DEF BegunWasSeen
  <2>2. CASE Alone /\ UNCHANGED txn
    <3>1. PICK op \in Handlers : Unlocked(op, Now)
      BY <2>2 DEF Alone
    <3>2. Now \in Snapshots /\ Now.begun = begun
      BY NowIsASnapshot DEF TypeOK, Now
    <3>3. WorkHadBegun' /\ (begun => begun')
      BY <3>1, <3>2, UnlockedKeepsBegun
    <3> QED BY <2>2, <3>3 DEF BegunWasSeen
  <2>3. ASSUME NEW r \in Requests, Read(r) PROVE IInv'
    <3>1. WorkHadBegun' /\ begun' = begun
      BY <2>3 DEF Read, WorkHadBegun, jobRows, visit
    <3>2. PICK op \in Handlers \cap Overlapping :
             txn' = [txn EXCEPT ![r] = [op |-> op, saw |-> Loaded(op)]]
      BY <2>3 DEF Read
    <3>3. Loaded(op).begun => begun
      BY DEF Loaded
    <3>4. ASSUME NEW q \in Requests, txn'[q] # Idle, txn'[q].saw.begun PROVE begun
      <4>1. CASE q = r
        BY <3>2, <3>3, <3>4, <4>1 DEF TypeOK
      <4>2. CASE q # r
        BY <3>2, <3>4, <4>2 DEF TypeOK, BegunWasSeen
      <4> QED BY <4>1, <4>2
    <3> QED BY <3>1, <3>4 DEF BegunWasSeen
  <2>4. ASSUME NEW r \in Requests, Write(r) PROVE IInv'
    <3>1. txn[r] \in [op : UnlockedHandlers, saw : Snapshots]
      BY <2>4 DEF Write, TypeOK
    <3>2. txn[r].saw.begun => begun
      BY <2>4 DEF Write, BegunWasSeen
    <3>3. WorkHadBegun' /\ (begun => begun')
      BY <2>4, <3>1, <3>2, UnlockedKeepsBegun DEF Write
    <3> QED BY <2>4, <3>3 DEF Write, BegunWasSeen, TypeOK
  <2>5. ASSUME NEW r \in Requests, Abandon(r) PROVE IInv'
    <3>1. WorkHadBegun' /\ begun' = begun
      BY <2>5 DEF Abandon, WorkHadBegun, jobRows, visit
    <3> QED BY <2>5, <3>1 DEF Abandon, BegunWasSeen, TypeOK
  <2>6. CASE UNCHANGED vars
    BY <2>6 DEF vars, WorkHadBegun, BegunWasSeen, jobRows, visit
  <2> QED BY <2>1, <2>2, <2>3, <2>4, <2>5, <2>6 DEF Next
<1> QED BY <1>1, <1>2, TypeCorrect, PTL DEF Spec
-----------------------------------------------------------------------------
(* Jobs that are over. *)

\* The handlers that cancel the job and leave its assignment as it is.
LeavesAssignment == {"reject_job", "override_cancel"}

\* Whoever cancels a job ends its assignment, and only a job that is assigned
\* again gets a new one.
LEMMA LockedKeepsReleased ==
  ASSUME TypeOK, CancelledReleasesAssignment, Locked,
         Handlers \cap LeavesAssignment = {}
  PROVE  CancelledReleasesAssignment'
<1> USE DEF CancelledReleasesAssignment, jobRows, assignment, visit, estimate
<1>1. CASE AcceptJob \/ MarkScheduled \/ LogCustomerContacted \/ MarkOnTheWay
  BY <1>1 DEF AcceptJob, MarkScheduled, LogCustomerContacted, MarkOnTheWay, SetStatus
<1>2. CASE MarkReachedSite \/ RequestArrivalConfirmation \/ ConfirmArrival \/
           ChallengeExpires
  BY <1>2 DEF MarkReachedSite, RequestArrivalConfirmation, ConfirmArrival,
       ChallengeExpires, SetStatus
<1>3. CASE StartInspection \/ CompleteInspection \/ MarkCustomerNotAvailable \/
           MarkQuoteRequired
  BY <1>3 DEF StartInspection, CompleteInspection, MarkCustomerNotAvailable,
       MarkQuoteRequired, SetStatus
<1>4. CASE StartService \/ MarkWorkDone \/ CompleteJob
  BY <1>4 DEF StartService, MarkWorkDone, CompleteJob, SetStatus
<1>5. CASE CancelJob \/ FalseArrival \/ DenyArrival \/ SlaClose \/ TravelTimeout
  BY <1>5 DEF CancelJob, FalseArrival, DenyArrival, SlaClose, TravelTimeout,
       CloseBreached
<1>6. CASE AssignJob \/ ReassignJob \/ CustomerCancelBooking \/
           CreateRescheduleRequest
  BY <1>6 DEF AssignJob, ReassignJob, CustomerCancelBooking,
       CreateRescheduleRequest, NewAssignment
<1> QED BY <1>1, <1>2, <1>3, <1>4, <1>5, <1>6 DEF Locked, LeavesAssignment

\* A handler on an old read touches an assignment only where there still is one.
LEMMA UnlockedKeepsReleased ==
  ASSUME TypeOK, CancelledReleasesAssignment, NEW op, NEW s \in Snapshots,
         Unlocked(op, s), op \notin LeavesAssignment
  PROVE  CancelledReleasesAssignment'
<1> USE DEF CancelledReleasesAssignment, jobRows, assignment, visit, estimate
<1>1. CASE DropAssignment(s) \/ TechnicianAcceptJob(s) \/ ScheduleJob(s)
           \/ CustomerRescheduleBooking(s) \/ DecideRescheduleRequest(s)
  BY <1>1 DEF DropAssignment, TechnicianAcceptJob, ScheduleJob,
       CustomerRescheduleBooking, DecideRescheduleRequest, Put, OnAssignment
<1>2. CASE CreateQuote(s) \/ CancelQuote(s) \/ MarkRevised(s)
  BY <1>2 DEF CreateQuote, CancelQuote, MarkRevised
<1>3. CASE SendToCustomer(s) \/ CustomerApprove(s) \/ CustomerRequestRevision(s)
  BY <1>3 DEF SendToCustomer, CustomerApprove, CustomerRequestRevision, SyncJobStatus
<1>4. CASE CustomerReject(s)
  BY <1>4 DEF CustomerReject, SyncJobStatus
<1>5. CASE Reopen(s) \/ ForceClose(s) \/ Void(s) \/ StalledStageClose(s)
           \/ IssueInvoice(s)
  BY <1>5 DEF Reopen, ForceClose, Void, StalledStageClose, CloseBreached, IssueInvoice
<1> QED BY <1>1, <1>2, <1>3, <1>4, <1>5 DEF Unlocked, LeavesAssignment

\* "a job that is cancelled must never leave a stale accepted/assigned row
\* behind": of all handlers, each as stale as it may be, only reject_job and the
\* admin's override do.
THEOREM CancelledStaysReleased ==
  ASSUME Handlers \cap LeavesAssignment = {}
  PROVE  Spec => []CancelledReleasesAssignment
<1>1. Init => CancelledReleasesAssignment
  BY DEF Init, CancelledReleasesAssignment
<1>2. TypeOK /\ OpenTransactions /\ CancelledReleasesAssignment /\ [Next]_vars
        => CancelledReleasesAssignment'
  <2> SUFFICES ASSUME TypeOK, OpenTransactions, CancelledReleasesAssignment, [Next]_vars
               PROVE  CancelledReleasesAssignment'
    OBVIOUS
  <2>1. CASE Locked
    BY <2>1, LockedKeepsReleased
  <2>2. ASSUME NEW op \in Handlers, NEW s \in Snapshots,
               op \notin Overlapping => s = Now, Unlocked(op, s)
        PROVE  CancelledReleasesAssignment'
    BY <2>2, UnlockedKeepsReleased
  <2>3. CASE UNCHANGED <<jobRows, assignment, visit, estimate, charged, proposal>>
    BY <2>3 DEF CancelledReleasesAssignment, jobRows, assignment
  <2> QED BY <2>1, <2>2, <2>3, StepKinds
<1> QED BY <1>1, <1>2, OpenTransactionsKept, PTL DEF Spec

\* The handlers that move a job whatever its status, or check a list of final
\* statuses that is not the full one.
RevivesFinished ==
  {"false_arrival", "deny_arrival", "assign_job", "technician_accept_job",
   "drop_assignment", "decide_request", "override_cancel", "force_close",
   "issue_invoice"}

\* The unlocked handlers whose old reads do no harm to a finished job.
HarmlessReads == {"create_quote", "cancel_quote", "mark_revised",
                  "customer_reschedule_booking", "void"}

\* What a step may do to a finished job.  No handler writes "failed".
Stays == /\ job # "failed" => job' # "failed"
         /\ job \in Terminal /\ job # "failed" /\ job' \notin {job, "voided"}
              => job = "cancelled" /\ job' = "pending_assignment"

LEMMA LockedKeepsFinished ==
  ASSUME TypeOK, Locked, Handlers \cap RevivesFinished = {}
  PROVE  Stays
<1> USE DEF Stays, Terminal, jobRows, assignment, visit, estimate
<1>1. CASE AcceptJob \/ RejectJob \/ MarkScheduled \/ LogCustomerContacted \/
           MarkOnTheWay
  BY <1>1 DEF AcceptJob, RejectJob, MarkScheduled, LogCustomerContacted,
       MarkOnTheWay, SetStatus, CanMove
<1>2. CASE MarkReachedSite \/ RequestArrivalConfirmation \/ ConfirmArrival \/
           ChallengeExpires
  BY <1>2 DEF MarkReachedSite, RequestArrivalConfirmation, ConfirmArrival,
       ChallengeExpires, SetStatus, CanMove
<1>3. CASE StartInspection \/ CompleteInspection \/ MarkCustomerNotAvailable \/
           MarkQuoteRequired
  BY <1>3 DEF StartInspection, CompleteInspection, MarkCustomerNotAvailable,
       MarkQuoteRequired, SetStatus, CanMove
<1>4. CASE StartService \/ MarkWorkDone \/ CompleteJob
  BY <1>4 DEF StartService, MarkWorkDone, CompleteJob, SetStatus, CanMove
<1>5. CASE CancelJob \/ SlaClose \/ TravelTimeout
  BY <1>5 DEF CancelJob, SlaClose, TravelTimeout, CloseBreached, CanMove
<1>6. CASE ReassignJob \/ CustomerCancelBooking \/ CreateRescheduleRequest
  BY <1>6 DEF ReassignJob, CustomerCancelBooking, CreateRescheduleRequest, NewAssignment
<1> QED BY <1>1, <1>2, <1>3, <1>4, <1>5, <1>6 DEF Locked, RevivesFinished

LEMMA UnlockedKeepsFinished ==
  ASSUME TypeOK, NEW op, NEW s \in Snapshots, Unlocked(op, s),
         op \notin RevivesFinished, op \in HarmlessReads \/ s = Now
  PROVE  Stays
<1> USE DEF Stays, Terminal, jobRows, assignment, visit, estimate
<1>1. CASE op \in HarmlessReads
  <2>1. CASE CreateQuote(s) \/ CancelQuote(s) \/ MarkRevised(s)
    BY <2>1 DEF CreateQuote, CancelQuote, MarkRevised
  <2>2. CASE CustomerRescheduleBooking(s) \/ Void(s)
    BY <2>2 DEF CustomerRescheduleBooking, Void
  <2> QED BY <1>1, <2>1, <2>2 DEF Unlocked, HarmlessReads
<1>2. CASE op \notin HarmlessReads
  <2>0. s.job = job
    BY <1>2 DEF Now
  <2>1. CASE ScheduleJob(s)
    BY <2>0, <2>1 DEF ScheduleJob, Put
  <2>2. CASE SendToCustomer(s) \/ CustomerApprove(s) \/ CustomerRequestRevision(s)
    BY <2>0, <2>2 DEF SendToCustomer, CustomerApprove, CustomerRequestRevision,
         SyncJobStatus, CanMove
  <2>3. CASE CustomerReject(s)
    BY <2>0, <2>3 DEF CustomerReject, SyncJobStatus, CanMove
  <2>4. CASE Reopen(s) \/ StalledStageClose(s)
    BY <2>0, <2>4 DEF Reopen, StalledStageClose, CloseBreached
  <2> QED BY <1>2, <2>1, <2>2, <2>3, <2>4 DEF Unlocked, HarmlessReads, RevivesFinished
<1> QED BY <1>1, <1>2

\* "Anything here is finished for good": without the handlers that do not look
\* at the whole list of final statuses, and with overlaps only of those that
\* look at the locked row or end in a final status themselves, a finished job
\* is at most voided, or reopened by an admin.
THEOREM FinishedStaysFinished ==
  ASSUME Handlers \cap RevivesFinished = {}, Overlapping \subseteq HarmlessReads
  PROVE  Spec => FinishedForGood
<1>1. Init => job # "failed"
  BY DEF Init
<1>2. TypeOK /\ OpenTransactions /\ [Next]_vars => Stays
  <2> SUFFICES ASSUME TypeOK, OpenTransactions, [Next]_vars PROVE Stays
    OBVIOUS
  <2>1. CASE Locked
    BY <2>1, LockedKeepsFinished
  <2>2. ASSUME NEW op \in Handlers, NEW s \in Snapshots,
               op \notin Overlapping => s = Now, Unlocked(op, s)
        PROVE  Stays
    BY <2>2, UnlockedKeepsFinished
  <2>3. CASE UNCHANGED <<jobRows, assignment, visit, estimate, charged, proposal>>
    BY <2>3 DEF Stays, jobRows
  <2> QED BY <2>1, <2>2, <2>3, StepKinds
<1>3. TypeOK /\ OpenTransactions /\ job # "failed" /\ [Next]_vars => (job # "failed")'
  BY <1>2 DEF Stays
<1>4. TypeOK /\ OpenTransactions /\ job # "failed" /\ [Next]_vars
        => [(job \in Terminal /\ job' \notin {job, "voided"})
              => (job = "cancelled" /\ job' = "pending_assignment")]_vars
  BY <1>2 DEF Stays
<1> QED BY <1>1, <1>3, <1>4, OpenTransactionsKept, PTL DEF Spec, FinishedForGood
=============================================================================
