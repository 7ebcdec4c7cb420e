SPECIFICATION Spec
CONSTANTS
  Handlers <- AllHandlers
  Overlapping <- NoHandlers
  Requests = {}
  QuoteGated = TRUE
  ChargeAt = "work_started"
  MaxAssignments = 2
  MaxQuotes = 2
INVARIANTS TypeOK WorkAuthorised VoidedNeverCharged InFieldHasTechnician
PROPERTIES ApprovedQuoteImmutable
CHECK_DEADLOCK FALSE
