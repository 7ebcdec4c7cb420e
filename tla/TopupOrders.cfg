SPECIFICATION Spec
CONSTANTS
  Orders = {"plain", "package"}
  Price <- MCPrice
  Credits <- MCCredits
  Bonus <- MCBonus
  Packages = {3}
  Endpoints <- MCEndpoints
  Opening = 1
  Spends = {1}
INVARIANTS TypeOK OneGrantPerOrder CashBackCostsCredit
PROPERTIES ImplementsPurchase
CHECK_DEADLOCK FALSE
