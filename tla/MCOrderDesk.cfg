SPECIFICATION PartsSpec
CONSTANTS
  l1 = l1  l2 = l2  s1 = s1  b1 = b1  b2 = b2  o1 = o1  o2 = o2  o3 = o3
  Account = {s1, b1}
  Listing = {l1, l2}
  Order = {o1, o2}
  Kind <- MixedKind
  Seller <- SameSeller
  NoOrder = NoOrder
  NoListing = NoListing
  MaxDeliveries = 1
  MaxItems = 2
  CommitmentPolicy = "enforce"
  InitialListing = {l1, l2}
  Legacy = {}
  FreeListing = {l2}
  Rating = {4, 5}
  Unrated = Unrated
  MaxSteps = 2
  MaxPolls = 2
  Unread = Unread
  Failed = Failed
  MaxVersion = 2
  None = None
SYMMETRY OrderSymmetry
INVARIANTS BooksClose HistoryFollows FormsAccepted BoughtAsShown

CHECK_DEADLOCK FALSE
