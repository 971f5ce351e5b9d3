SPECIFICATION FairSpec
CONSTANTS
  Jobs = {j1}
  Tokens = {k1}
  Nil = Nil
  main = main
  w1 = w1
  Slots = {main}
  Process <- Single
  Backend = "fs"
  Remote = {}
  Faults = {"lost", "worker", "disk"}
  MaxRestarts = 1
INVARIANTS ArtifactsInPlace SuccessHasArtifact
PROPERTIES AbandonedJobEnds CanceledWorkerStops
CHECK_DEADLOCK FALSE
