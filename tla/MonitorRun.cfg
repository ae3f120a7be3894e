CONSTANTS
  None = None
  l1 = l1
  l2 = l2
  q1 = q1
  m1 = m1
  m2 = m2
  Run = {m1, m2}
  Monitor = {m1, m2}
  Listing = {l1, l2}
  Query = {q1}
  QueryOf <- MCQueryOf
  Quota = 1
SPECIFICATION FairSpec
CHECK_DEADLOCK FALSE
INVARIANTS
  KnownWasAnnounced
  RepeatsOverlapped
  PaidOncePerRun
  PaidIsKept
PROPERTIES
  ImplementsAtomicRuns
  RunsEnd
