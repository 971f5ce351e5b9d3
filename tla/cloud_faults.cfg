SPECIFICATION Spec
CONSTANTS
  r1 = r1
  r2 = r2
  a1 = a1
  a2 = a2
  n1 = n1
  n2 = n2
  Requests = {r1, r2}
  Names = {n1, n2}
  Accounts = {a1, a2}
  Pages = 2
  threads = 1
  Nil = Nil
  Faults = {"cloud", "lost", "crash"}
  Asks <- FaultAsks
  Mortal = {r1}
INVARIANTS SuccessIsDelivered NothingLeftBehind BuildIsOfDepsolve
PROPERTIES RequestSettles
CHECK_DEADLOCK FALSE
