SPECIFICATION Spec
CONSTANTS
  Request = {r1, r2}
  Invitation = {i1, i2}
  Debate = {d1, d2, d3}
  None = None
  PoolSize = 4
  Ops = {"start", "accept", "reject", "post", "end", "delete"}
  Faults = {"crash", "query", "commit", "early"}
  MaxRequests = 5
  MaxFaults = 1
SYMMETRY MCSymmetry
INVARIANTS TypeOK EventsMatchRows CommunityFollowsDebates
PROPERTIES LedgerImplemented
CHECK_DEADLOCK FALSE
