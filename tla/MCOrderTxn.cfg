SPECIFICATION LiveSpec
CONSTANTS
  c1 = c1
  c2 = c2
  c3 = c3
  c4 = c4
  k1 = k1
  k2 = k2
  b1 = b1
  b2 = b2
  Call = {c1, c2, c3, c4}
  KeyOf <- Keyed
  BodyOf <- OneOdd
  NoCall = NoCall
  MaxAttempts = 2
INVARIANTS AckedDurable
PROPERTIES Answered ImplementsLog
CHECK_DEADLOCK FALSE
