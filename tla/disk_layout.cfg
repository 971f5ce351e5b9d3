SPECIFICATION Spec
CONSTANTS
  r1 = r1
  r2 = r2
  Requests = {r1, r2}
  BaseTables <- Tables
  Asks <- SomeAsks
  Allowed = {"/", "/var"}
  sectorSize = 4
  MegaByte = 8
  FirstSector = 1
  Spare = 1
  defaultSize = 36
  Word = 128
  NoUUID = NoUUID
  Fixed = Fixed
  Restarts = 1
SYMMETRY Symmetry
INVARIANTS LayoutIsSound FilesystemsAgree
CHECK_DEADLOCK FALSE
