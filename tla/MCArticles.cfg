SPECIFICATION SceneSpec
CONSTANTS
  l1 = l1  l2 = l2  s1 = s1  b1 = b1  b2 = b2  o1 = o1  o2 = o2  o3 = o3
  Account = {s1, b1, b2}
  Listing = {l1, l2}
  Order = {o1, o2, o3}
  Kind <- CartKind
  Seller <- SameSeller
  NoOrder = NoOrder
  NoListing = NoListing
  MaxDeliveries = 2
  MaxItems = 2
  CommitmentPolicy = "compat"
  InitialListing = {l1, l2}
  Legacy = {}
  FreeListing = {}
SYMMETRY CartSymmetry
INVARIANTS StockLedger EscrowMatchesStatus ChildRowsAgree FrozenUnderReview
PROPERTIES ImplementsTrade FrozenOrderStands HandledWasOffered
CHECK_DEADLOCK FALSE
