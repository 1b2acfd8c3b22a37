SPECIFICATION Spec
CONSTANTS
  l1 = l1  l2 = l2  s1 = s1  b1 = b1  b2 = b2  o1 = o1  o2 = o2  o3 = o3
  Account = {s1, b1}
  Listing = {l1}
  Order = {o1, o2}
  Kind <- PhysicalKind
  Seller <- SoleSeller
  NoOrder = NoOrder
  NoListing = NoListing
  MaxDeliveries = 1
  MaxItems = 1
  CommitmentPolicy = "compat"
  InitialListing = {l1}
  Legacy = {}
  FreeListing = {l1}
SYMMETRY OrderSymmetry
INVARIANTS FrozenOrderHasExit
