SPECIFICATION FairSpec
CONSTANTS
  NumTurns <- MCNumTurns
  Command = {c1, c2}
  Message = {m1}
  Text = {m1}
  MessageLimit = 1
  Dead = Dead
  None = None
  Retry = Retry
  Ops = {"restore", "start", "append", "finalize", "forfeit"}
  HttpDrafts = FALSE
  Failures = {"crash"}
  MaxRequests = 3
  MaxExpiries = 0
  MaxFaults = 1
PROPERTIES DebateEndsItself
INVARIANTS StartedIsWatched

CHECK_DEADLOCK FALSE
