\* Three turns of seven kinds of message on two hosts, with exceptions and restarts.
CONSTANTS
  t1 = t1
  t2 = t2
  t3 = t3
  h1 = h1
  h2 = h2
  None = None
  Turns = {t1, t2, t3}
  Hosts = {h1, h2}
  Kinds = {"investigate", "fleet", "fleet_scope", "general", "write", "typed", "cancel"}
  WriteHosts = {h1, h2}
  MayRaise = {t1, t2, t3}
  Parallel = 2
  Remember = TRUE
SYMMETRY AnyTurnAnyHost
SPECIFICATION Spec
INVARIANTS TypeOK JobsOwned WriteGrounded CancelFindsIt
PROPERTIES JobPromise
