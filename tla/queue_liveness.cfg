SPECIFICATION FairSpec
CONSTANTS
  Jobs = {j1, j2}
  Types = {build, depsolve}
  Tokens = {k1, k2}
  Results = {null}
  Null = null
  Nil = Nil
  build = build
  depsolve = depsolve
  w1 = w1
  w2 = w2
  Dequeuers = {w1, w2}
  Accepts <- Mixed
  channelSize = 2
  Legacy = {}
  LegacyType = build
  Faults = {}
PROPERTIES ReadyJobStarts
