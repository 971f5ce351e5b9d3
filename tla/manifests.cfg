SPECIFICATION Spec
CONSTANTS
  Requests <- AllRequests
  Updates <- OnceForKernels
INVARIANTS Buildable Boots InstallerFindsMedia UsersHaveTheirKeys
CHECK_DEADLOCK FALSE
