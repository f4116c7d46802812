\* Three requests on two hosts, two threads, one slot for a fleet.  The other
\* kinds differ from these in less: "investigate" has the lock of "fleet" and
\* no slot, "traffic" has the slot and no lock, "bare" has neither.
\* A request is made once, so the system stops when all have been served.
CONSTANTS
  r1 = r1
  r2 = r2
  r3 = r3
  h1 = h1
  h2 = h2
  None = None
  Requests = {r1, r2, r3}
  Hosts = {h1, h2}
  Kinds = {"inspect", "fleet", "write"}
  Workers = 2
  Parallel = 1
SPECIFICATION FairSpec
INVARIANTS NeverWedged
PROPERTIES CallsEnd
CHECK_DEADLOCK FALSE
