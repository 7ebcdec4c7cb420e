SPECIFICATION Spec
CONSTANTS
  Requests = {"deduct1", "deduct2", "recover", "settle", "manual", "activate"}
  Op <- MixedOp
  Opening = 2
  DebtCap = 3
  Nobody = Nobody
  Keys = {"job", "fee", "settle"}
  NoKey = NoKey
INVARIANTS AtMostOncePerKey
CHECK_DEADLOCK FALSE
