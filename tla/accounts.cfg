SPECIFICATION Spec
CONSTANTS
  Request = {r1, r2}
  Account = {a1, a2, a3}
  Present = {a1, a2}
  Email = {e1, e2}
  Identity = {i1}
  None = None
  Ops = {"signup", "create", "login", "oauth", "refresh", "logout", "update", "remove", "judge"}
  Faults = {"crash", "query", "expiry"}
  MaxCalls = 3
SYMMETRY MCSymmetry
INVARIANTS TypeOK OneActiveToken SessionsEndForAReason LedgerHolds
CHECK_DEADLOCK FALSE
