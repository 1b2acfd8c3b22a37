SPECIFICATION DrillSpec
CONSTANTS
  Node = {n1, n2, n3}
  Command = {first}
  NoNode = NoNode
  Ttl = 4
  MaxFaults = 2
INVARIANT FrozenFenced
CHECK_DEADLOCK FALSE
