SPECIFICATION Spec
CONSTANTS
  Orders = {"click1", "click2", "package"}
  Plan <- MCPlan
  Members = {"m1"}
  Opening = 0
  Deduction = 1
  MaxDeductions = 1
  MaxTime = 2
INVARIANTS TypeOK OneOpenCheckout OneGrantPerPayment SwitchedOffStaysOff
PROPERTIES TeamFollowsCredit
