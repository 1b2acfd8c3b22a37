SPECIFICATION Spec
CONSTANTS
  Account = {a1, a2}
  Command = {x1}
  None = None
  MaxSends = 3
  MaxMounts = 4
INVARIANT RefusalIsFinal
CHECK_DEADLOCK FALSE
