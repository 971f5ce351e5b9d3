SPECIFICATION BusySpec
CONSTANTS
  Jobs = {j1, j2}
  Tokens = {k1, k2}
  Nil = Nil
  main = main
  w1 = w1
  Slots = {main}
  Process <- Single
  Backend = "fs"
  Remote = {}
  Faults = {}
  MaxRestarts = 0
PROPERTIES QueuedJobIsTaken
CHECK_DEADLOCK FALSE
