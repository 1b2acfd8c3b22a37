SPECIFICATION RacesSpec
CONSTANTS
  Account = {u1, u2}
  Address = {p, pd, q, h}
  Gmail = {p, pd, q}
  KeyOf <- Keys
  MovedTo <- Moves
  Google = {g1, g2}
  MailOf <- Profiles
  Txn = {t1, t2}
  None = None
  Junk = Junk
  p = p
  pd = pd
  q = q
  h = h
  g1 = g1
  g2 = g2
  a1 = a1
  i1 = i1
  m1 = m1
  b1 = b1
  o1 = o1
  w1 = w1
  t1 = t1
  t2 = t2
  u1 = u1
  u2 = u2
  v1 = v1
  v2 = v2
  Signer = {a1}
  Desktop = {b1}
  Submission = {t1, t2}
  Limit <- Limits
  MaxHashes = 1
  MaxResets = 1
  MaxSessions = 2
  Mailbox = {m1}
  Holder = {a1}
  Sender = {t1, t2}
  Attempt = {i1}
  Device = {u1, u2}
  Redirect = {v1, v2}
  MaxTries = 2
  MaxSends = 3
  Tab = {t1, t2}
  Of <- TwoBrowsers
  Linker = {u1, u2}
  WithPassword = {u1, u2}
  Linked = {m1}
  Trip = {}
  Purpose = {"bind"}
  MaxForms = 2
  MaxCodes = 2
  MaxOpened = 3
SYMMETRY Twins
INVARIANTS ClaimsAgree SessionsCurrent ProofsHold
PROPERTIES EvidenceFixed
CHECK_DEADLOCK FALSE
