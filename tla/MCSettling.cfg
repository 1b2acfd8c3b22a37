SPECIFICATION SettlingSpec
CONSTANTS
  Order = {o1, o2}
  Sweeper = {w1, w2}
  Limit = 1
  NoRow = NoRow
  Request = {p1, p2, live}
  Live = {live}
  Slots = 1
  Call = {cart, cross, rule, edit, publish, retire}
  cart = cart
  cross = cross
  rule = rule
  edit = edit
  publish = publish
  retire = retire
  Command <- Commands
  Images <- Pictures
  MaxAttempts = 1
  Caller = {c1}
  Instance = {i1}
  Filter = {f}
  MaxSnapshots = 2
  MaxPage = 2
INVARIANTS WorkBounded CirclesHaveCause
PROPERTIES CalmDrains CallsEnd PagesShareRates
CHECK_DEADLOCK FALSE
