SPECIFICATION Spec
CONSTANTS
  h1 = h1
  h2 = h2
  Ticker = Ticker
  Nil = Nil
  IDs <- MCIDs
  GaugeVals <- FewGauges
  NonFinite <- OnlyNaN
  HalfRange = 2
  Handlers <- TwoHandlers
  Modes = {"sync", "ticker", "off"}
  Restores = {TRUE, FALSE}
  IOFaults = TRUE
  MaxUpdates = 2
  Requests <- SafetyRequests
SYMMETRY HandlersAlike
INVARIANTS
  TypeOK
  Inv
  SnapshotsAreStates
  AckedOnDisk
PROPERTIES
  BootKeepsAcked
  GracefulExitKeepsFile
  ImplementsPromise
