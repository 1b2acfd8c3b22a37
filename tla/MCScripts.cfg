SPECIFICATION PartSpec
CHECK_DEADLOCK FALSE
CONSTANTS
  l1 = l1  l2 = l2  s1 = s1  b1 = b1  b2 = b2  o1 = o1  o2 = o2  o3 = o3
  Account = {s1, b1}
  Listing = {l1, l2}
  Order = {o1, o2}
  Kind <- PairKind
  Seller <- SameSeller
  NoOrder = NoOrder
  MaxDeliveries = 1
  MaxItems = 1
  CommitmentPolicy = "compat"
  NoListing = NoListing
  InitialListing = {l1}
  Legacy = {}
  FreeListing = {}
  Buyers = 2
  Arrivals = 8
  Rounds = 8
  MaxTries = 3
SYMMETRY OrderSymmetry
INVARIANTS ReplacementExclusive JourneysStand WritesAccounted
