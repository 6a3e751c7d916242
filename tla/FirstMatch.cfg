SPECIFICATION PricesSpec
CONSTANTS
  ErpPrices <- ThreePrices
  Purchase = 60000
  Rules <- Discounts
  OwnPrices = {65000, 66000}
  Policies <- ThreePolicies
  MaxRules = 2
  MaxMoves = 1
INVARIANT FirstMatchWins
CHECK_DEADLOCK FALSE
