SPECIFICATION Spec
CONSTANTS
  Handlers <- GuardedHandlers
  Overlapping <- NoHandlers
  Requests = {}
  QuoteGated = TRUE
  ChargeAt = "job_completed"
  MaxAssignments = 2
  MaxQuotes = 2
INVARIANTS CancelledReleasesAssignment
PROPERTIES FinishedForGood
CHECK_DEADLOCK FALSE
