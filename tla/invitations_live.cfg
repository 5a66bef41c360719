SPECIFICATION FairSpec
CONSTANTS
  Request = {r1, r2}
  Invitation = {i1, i2}
  Debate = {d1, d2}
  None = None
  PoolSize = 4
  Ops = {"start", "accept", "reject", "leave"}
  Faults = {"crash"}
  MaxRequests = 3
  MaxFaults = 1

INVARIANTS StaleNeverBlocks PendingIsWatched
PROPERTIES PendingSettles
CHECK_DEADLOCK FALSE
