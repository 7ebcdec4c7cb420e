SPECIFICATION Spec
CONSTANTS
  Requests = {"new", "old"}
  Jobs = {"j1"}
  JobOf <- MCJobOf
  Qty <- MCQty
  Legacy = {"old"}
  Locations = {"store", "van"}
  Vans = {"van"}
  Opening <- MCOpening
  NoPlace = "bought_in"
  Reach <- MCReach
  MaxStock = 1
  MaxInFlight = 2
INVARIANTS TypeOK HeldStockIsThere PartLeavesOnce
CHECK_DEADLOCK FALSE
