SPECIFICATION Spec
CONSTANTS
  Names = {"a"}
  Contents <- TwoContents
  Versions = {Unset, Bad, 1}
  Unset = Unset
  Bad = Bad
  NoName = NoName
  Commits <- FourCommits
  SourceIDs = {"s", "sys"}
  SystemRepos = {"sys"}
  URLs = {"u"}
  Answers <- SolverAnswers
  Now = 5
  Legacy = TRUE
  Faults = {"crash", "write"}
  MaxChanges = 4
INVARIANTS AcknowledgedIsDurable HistoryIsSound QueriesAreExact
PROPERTIES HistoryOnlyGrows
CHECK_DEADLOCK FALSE
