SPECIFICATION Spec
CONSTANTS
  NumTurns <- MCNumTurns
  Command = {c1, c2}
  Message = {m1, m2}
  Text = {m1, m2}
  MessageLimit = 2
  Dead = Dead
  None = None
  Retry = Retry
  Ops = {"restore", "start", "append", "finalize", "forfeit"}
  HttpDrafts = TRUE
  Failures = {"crash", "error"}
  MaxRequests = 3
  MaxExpiries = 0
  MaxFaults = 1
PROPERTIES LifecycleImplemented
INVARIANTS TypeOK DraftsKeptOnce SettledOnce
CHECK_DEADLOCK FALSE
