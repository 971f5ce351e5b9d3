SPECIFICATION FairSpec
CONSTANTS
  Jobs = {j1, j2}
  Types = {osbuild}
  Tokens = {k1, k2}
  Results = {ok, null}
  Nil = Nil
  d1 = d1
  d2 = d2
  Dequeuers = {d1, d2}
  Accepts <- AcceptAll
  MaxConns = 3
  Faults = {"timeout", "lost", "query", "rollback", "crash"}
INVARIANTS TypeOK RunningIsWatched
PROPERTIES ImplementsJobQueue ReadyJobStarts StaysAvailable
CHECK_DEADLOCK FALSE
