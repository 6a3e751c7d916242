SPECIFICATION OfficeSpec
CONSTANTS
  i1 = i1
  i2 = i2
  c1 = c1
  c2 = c2
  p1 = p1
  p2 = p2
  d1 = d1
  d2 = d2
  Outsider = Outsider
  Tasks <- TwoOfAKind
  CustomerIds <- TwoCustomers
  Initially <- OneCustomer
  MaxFaults = 1
  Visits <- TwoOfAKind
  Products <- TwoProducts
  OldProducts <- OneProduct
  MaxTime = 2
  ErpPrices <- ThreePrices
  Purchase = 60000
  Rules <- ThreeRules
  OwnPrices = {65000, 66000}
  Policies <- ThreePolicies
  MaxRules = 2
  MaxMoves = 1
  Servers <- TwoOfAKind
  Deliveries <- TwoDeliveries
  LastHalf = 3
  Admins <- TwoOfAKind
  MaxEdits = 3
INVARIANTS
  OfficeTypeOK
  DatabaseFollowsErp
  CachesFollowDatabase
  NoEditLost
  HiddenLeavesTheShop
  DeltaSkipsNothing
  OrderHasRulePrice
  RefusalNeedsCause
  DeliveriesAreReminded
  AccountIsWhole
PROPERTY
  HiddenStaysHidden
CONSTRAINT OfficeClaims
VIEW OfficeView
SYMMETRY OfficeSymmetry
CHECK_DEADLOCK FALSE
