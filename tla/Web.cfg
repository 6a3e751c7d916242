SPECIFICATION WebSpec
CONSTANTS
  i1 = i1
  i2 = i2
  c1 = c1
  u1 = u1
  u2 = u2
  p1 = p1
  p2 = p2
  part = part
  o1 = o1
  o2 = o2
  NoUser = NoUser
  NoCustomer = NoCustomer
  Items <- TwoOfAKind
  MaxRequests = 3
  MaxVisits = 3
  Tabs <- TwoOfAKind
  Users <- TwoUsers
  Products <- TwoProducts
  PartsOf <- PartsOfFirst
  Shelf <- OneProduct
  Customers <- OneCustomer
  Legacy <- OneProduct
  MaxQuantity = 2
  MaxChanges = 3
  Orders <- TwoOrders
  Lists <- TwoOfAKind
  Listed <- ListedOrders
  LastStatus = 2
  MaxMoves = 3
  Admins <- TwoOfAKind
  MaxPictures = 3
  MaxActs = 3
INVARIANTS
  WebTypeOK
  DuplicateNeedsCause
  NothingVanishes
  PartsFollowProducts
  CartsNeverMix
  CartIsKept
  ToldOnce
  ToldTruly
  PictureIsListed
  SinglePicture
VIEW WebView
SYMMETRY WebSymmetry
CHECK_DEADLOCK FALSE
