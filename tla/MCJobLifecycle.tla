--------------------------- MODULE MCJobLifecycle ---------------------------
(* Handler sets for the instances of JobLifecycle. *)
EXTENDS JobLifecycle

AllHandlers == LockedHandlers \cup UnlockedHandlers

\* The arrival challenge of Instagram bookings ends in the same two moves as
\* mark_reached_site and false_arrival; the runs with races leave it out.
ChallengeHandlers == {"request_arrival_confirmation", "confirm_arrival",
                      "deny_arrival", "challenge_expires"}

\* Every writer of the job's status that also writes the booking's.
MirroringHandlers ==
  AllHandlers \ ({"override_cancel", "issue_invoice"} \cup ChallengeHandlers)

\* Without what neither races a quote nor opens another way to it.
QuoteRaceHandlers ==
  MirroringHandlers \ {"create_request", "decide_request", "start_inspection",
                       "complete_inspection", "mark_scheduled", "reopen",
                       "cancel_quote", "mark_revised", "false_arrival"}

\* Unlocked handlers that write job and booking together or not at all.
MirroringOverlap == QuoteHandlers \cup {"force_close", "stalled_stage_close"}

\* One way through the estimate is enough where the visits race.
VisitRaceHandlers ==
  AllHandlers \ ({"issue_invoice", "customer_request_revision", "mark_revised",
                  "cancel_quote", "start_inspection", "complete_inspection",
                  "mark_scheduled", "mark_quote_required", "reject_job", "false_arrival",
                  "customer_reject"}
                 \cup AdminHandlers \cup ChallengeHandlers)

\* Unlocked handlers of visits, and the watchdog.
VisitOverlap == VisitHandlers \cup {"stalled_stage_close"}

\* The handlers that look at the job's status before they move it.
GuardedHandlers ==
  AllHandlers \ {"reject_job", "false_arrival", "deny_arrival", "assign_job",
                 "technician_accept_job", "drop_assignment", "decide_request",
                 "override_cancel", "force_close", "issue_invoice"}

NoHandlers == {}
=============================================================================
