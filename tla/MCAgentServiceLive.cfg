\* Two turns of any kind, one slot for two hosts: every turn comes to its end.
CONSTANTS
  t1 = t1
  t2 = t2
  t3 = t3
  h1 = h1
  h2 = h2
  None = None
  Turns = {t1, t2}
  Hosts = {h1, h2}
  Kinds = {"investigate", "inspect", "fleet", "fleet_scope", "fleet_traffic", "general", "write", "typed", "cancel"}
  WriteHosts = {}
  MayRaise = {t1}
  Parallel = 1
  Remember = TRUE
SPECIFICATION FairSpec
PROPERTIES TurnsEnd
