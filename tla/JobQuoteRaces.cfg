SPECIFICATION Spec
CONSTANTS
  Handlers <- QuoteRaceHandlers
  Overlapping <- MirroringOverlap
  Requests = {"tx"}
  QuoteGated = FALSE
  ChargeAt = "job_completed"
  MaxAssignments = 1
  MaxQuotes = 2
INVARIANTS BookingMirrorsJob WorkHadBegun
CHECK_DEADLOCK FALSE
