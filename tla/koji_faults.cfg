SPECIFICATION FairSpec
CONSTANTS
  initID = initID
  finalizeID = finalizeID
  b1 = b1
  b2 = b2
  buildIDs <- TwoBuilds
  Nil = Nil
  Mortal <- AllJobs
  Faults = {"koji", "lost", "crash"}
INVARIANTS ImportIsSound SuccessUnlessExpired
PROPERTIES ComposeSettles KojiBuildIsClosed
CHECK_DEADLOCK FALSE
