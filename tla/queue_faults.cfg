SPECIFICATION Spec
CONSTANTS
  Jobs = {j1, j2, j3}
  Types = {build}
  Tokens = {k1, k2, k3}
  Results = {null}
  Null = null
  Nil = Nil
  build = build
  depsolve = depsolve
  w1 = w1
  w2 = w2
  Dequeuers = {w1, w2}
  Accepts <- Same
  channelSize = 1
  Legacy = {j1}
  LegacyType = build
  Faults = {"crash", "torn", "disk"}
SYMMETRY Identical
INVARIANTS TypeOK StartsAfterDependencies NoLostJob RunningIsTracked QueuedOnce TokenLeadsToItsJob
PROPERTIES ImplementsJobQueue
