\* Two threads that may write, one that keeps coming back to read; one of the
\* writers may be cancelled.
SPECIFICATION FairSpec
CONSTANTS
  r1 = r1
  r2 = r2
  r3 = r3
  Requests = {r1, r2, r3}
  MayWrite = {r1, r2}
  MayCancel = {r2}
  Nobody = Nobody
INVARIANTS
  Exclusion
  CountersMatch
  NoLostWakeup
PROPERTIES
  ImplementsRWLock
  CancelledLeaves
  WriterServed
