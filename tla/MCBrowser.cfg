\* The images are one, from its upload to its retirement, with one completion,
\* one order, one worker, and one store call or process that fails.
SPECIFICATION PartsSpec
CONSTANTS
  Account = {a, b}
  s1 = s1
  s2 = s2
  Sessions <- TwoSessions
  MaxCalls = 2
  None = None
  BrowserTab = {t1, t2, t3}
  Favorite = {x, y}
  Unset = Unset
  MaxEvents = 2
  long = long
  short = short
  Reader = {m1, m2}
  Wanted = {long, short}
  Batches <- LongAndShort
  Workers = 2
  MaxJobs = 2
  Asset = {a1}
  Order = {o1}
  Request = {r1}
  Worker = {w1}
  Byte = {bytes}
  Junk = Junk
  MaxFaults = 1
INVARIANTS ShownIsOwn ReloadKept TabsAgree NobodyCutOff ImagesKept
PROPERTIES NoLateSignIn StaleViewEnds LitterSwept ArchivedInTime
CHECK_DEADLOCK FALSE
