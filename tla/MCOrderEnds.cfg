SPECIFICATION EndsSpec
CONSTANTS
  n1 = n1
  n2 = n2
  n3 = n3
  a1 = a1
  a2 = a2
  l1 = l1
  l2 = l2
  both = both
  first = first
  action = action
  Node = {n1, n2, n3}
  Command = {first, action}
  NoNode = NoNode
  Account = {a1, a2}
  PageCommand = {both, first, action}
  None = None
  MaxSends = 2
  MaxMounts = 3
  Line = {l1, l2}
  Basket <- Baskets
  MinItems = 2
  MaxItems = 2
  MaxDialog = 2
  Ttl = 4
  MaxFaults = 2
SYMMETRY Names
INVARIANTS ConfirmedKept OneWriter DoubtKept DrillsStand
PROPERTIES OrderedAsConfirmed
CHECK_DEADLOCK FALSE
