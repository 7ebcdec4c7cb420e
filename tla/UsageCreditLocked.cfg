SPECIFICATION Spec
CONSTANTS
  Requests = {"grant1", "grant2", "adjust", "penalty", "expiry", "remedy"}
  Op <- LockedOp
  Opening = 2
  DebtCap = 3
  Nobody = Nobody
  Keys = {"topup", "adj", "day1", "remedy"}
  NoKey = NoKey
INVARIANTS TypeOK LedgerChain
PROPERTIES ImplementsAccount FloorRespected EveryRequestEnds
CHECK_DEADLOCK FALSE
