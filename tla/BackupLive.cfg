SPECIFICATION FairSpec
CONSTANTS
  h1 = h1
  h2 = h2
  Ticker = Ticker
  Nil = Nil
  IDs <- MCIDs
  GaugeVals <- FewGauges
  NonFinite <- OnlyNaN
  HalfRange = 2
  Handlers <- TwoHandlers
  Modes = {"sync", "ticker"}
  Restores = {FALSE}
  IOFaults = FALSE
  MaxUpdates = 2
  Requests <- LivenessRequests
PROPERTIES
  RequestAnswered
  EventuallySaved
