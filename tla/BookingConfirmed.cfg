SPECIFICATION Spec
CONSTANTS
  Drafts = {"earlier", "mine", "other"}
  Attempts = {"earlier", "tap", "tap_again", "other"}
  DraftOf <- MCDraftOf
  Problems <- MCProblems
  Override = {}
  Slots = {1, 2}
  Capacity <- MCCapacity
  DailyLimit = 2
  Offer <- MCOffer
  Existing = {"earlier"}
  Edits <- MCEdits
  Closable = {"earlier"}
  Movable = {"tap"}
  MaxDay = 2
INVARIANTS TypeOK OneBookingPerDraft OneOpenBookingPerProblem CalendarWithinCapacity
PROPERTIES EveryConfirmIsAnswered ConfirmsAtomically
CHECK_DEADLOCK FALSE
