SPECIFICATION Spec
CONSTANTS
  Request = {r1, r2}
  Socket = {s1}
  Member = {host, guest}
  Host = host
  Joined = {host, guest}
  Message = {m1}
  Notice = {n1}
  None = None
  Ops = {"join", "leave", "opinion", "intent", "send", "notice", "delete"}
  Faults = {"crash", "query", "commit"}
  ReplayLimit = 1
  MaxCalls = 3
  MaxSessions = 1
  MaxFaults = 1
SYMMETRY MCSymmetry
INVARIANTS TypeOK CountFollowsRows SentOnce NothingMissed
CHECK_DEADLOCK FALSE
