SPECIFICATION Spec
CONSTANTS
  Jobs = {"j1"}
  Reachable = {"j1"}
  FirstSlot = 1
  LaterSlots = {2}
  Reasons = {"asked"}
  ToCustomer = TRUE
  AutoCancel = TRUE
  Initial = 1
  Total = 2
  DebtCap = 2
  Refusals = {"gps"}
  FalsePenalty = 1
  Opening = 1
  CloseAfter = 2
  StageLimit = 1
  ConfirmWithin = 1
  MaxTime = 4
  MaxReopens = 1
INVARIANTS TypeOK PenaltyWithinPolicy NoEscapeByCancelling
PROPERTIES AbandonedJobIsClosed ParkedStageEnds
CHECK_DEADLOCK FALSE
