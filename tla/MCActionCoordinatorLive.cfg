\* A process without a RebootCoordinator: approvals are served to their end.
CONSTANTS
  p1 = p1
  p2 = p2
  h1 = h1
  w1 = w1
  w2 = w2
  c1 = c1
  c2 = c2
  None = None
  Proposals = {p1, p2}
  Hosts = {h1}
  Calls = {c1, c2}
  Worlds = {w1}
  HostOf <- OneHost
  Kind <- OperationAndReboot
  Blocked <- BlockedIn
  Configurations <- NoReboot
  MayRaise = {}
SPECIFICATION FairSpec
INVARIANTS RunsAccounted
PROPERTIES Settles
