SPECIFICATION Spec
CONSTANTS
  h1 = h1
  h2 = h2
  Ticker = Ticker
  Nil = Nil
  IDs <- MCIDs
  GaugeVals <- FewGauges
  NonFinite <- OnlyNaN
  HalfRange = 2
  Handlers <- TwoHandlers
  Modes = {"ticker"}
  Restores = {TRUE}
  IOFaults = FALSE
  MaxUpdates = 1
  Requests <- SafetyRequests
PROPERTY
  SavedAtExit
