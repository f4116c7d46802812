\* Two clicks served at once, exceptions and restarts.
CONSTANTS
  p1 = p1
  p2 = p2
  h1 = h1
  w1 = w1
  w2 = w2
  c1 = c1
  c2 = c2
  None = None
  Proposals = {p1, p2}
  Hosts = {h1}
  Calls = {c1, c2}
  Worlds = {w1, w2}
  HostOf <- OneHost
  Kind <- TypedAndReboot
  Blocked <- BlockedIn
  Configurations <- OnOrOff
  MayRaise = {p1}
SYMMETRY Threads
SPECIFICATION Spec
INVARIANTS CommandAuthorised RecheckCurrent AuditTruthful LedgerAgrees SuccessEarned NoOrphans
PROPERTIES TerminalStays SingleUse
