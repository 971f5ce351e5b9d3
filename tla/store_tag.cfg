SPECIFICATION Spec
CONSTANTS
  Names = {"a"}
  Contents <- TwoContents
  Versions = {Unset, Bad, 1}
  Unset = Unset
  Bad = Bad
  NoName = NoName
  Commits <- FourCommits
  SourceIDs = {"s", "sys"}
  SystemRepos = {"sys"}
  URLs = {"u"}
  Answers <- SolverAnswers
  Now = 5
  Legacy = FALSE
  Faults = {}
  MaxChanges = 4
INVARIANTS ChangeIsOfItsCommit
CHECK_DEADLOCK FALSE
