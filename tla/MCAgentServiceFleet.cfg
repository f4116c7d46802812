\* A READ of one host meets a READ of the fleet.
CONSTANTS
  t1 = t1
  t2 = t2
  t3 = t3
  h1 = h1
  h2 = h2
  None = None
  Turns = {t1, t2}
  Hosts = {h1, h2}
  Kinds = {"investigate", "fleet_scope"}
  WriteHosts = {}
  MayRaise = {}
  Parallel = 2
  Remember = TRUE
SPECIFICATION Spec
INVARIANTS FleetGivesNoAuthority
