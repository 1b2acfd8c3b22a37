\* Three orders in pages of two and one API process.
SPECIFICATION Spec
CONSTANTS
  Order = {o1, o2, o3}
  Sweeper = {w1}
  Limit = 2
  NoRow = NoRow
PROPERTIES ScanStartsOver
