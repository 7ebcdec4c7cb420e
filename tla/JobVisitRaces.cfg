SPECIFICATION Spec
CONSTANTS
  Handlers <- VisitRaceHandlers
  Overlapping <- VisitOverlap
  Requests = {"tx"}
  QuoteGated = TRUE
  ChargeAt = "job_completed"
  MaxAssignments = 2
  MaxQuotes = 1
INVARIANTS WorkAuthorised ArrivalBeforeWork
CHECK_DEADLOCK FALSE
