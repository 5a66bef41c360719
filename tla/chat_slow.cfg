SPECIFICATION Spec
CONSTANTS
  NumTurns <- MCNumTurns
  Command = {c1, c2}
  Message = {m1, m2}
  Text = {m1, m2}
  MessageLimit = 2
  Dead = Dead
  None = None
  Retry = Retry
  Ops = {"restore", "append", "finalize"}
  HttpDrafts = TRUE
  Failures = {"crash", "error"}
  MaxRequests = 2
  MaxExpiries = 1
  MaxFaults = 2

INVARIANTS AnnouncedOnce
CHECK_DEADLOCK FALSE
