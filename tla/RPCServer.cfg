SPECIFICATION FairSpec
CONSTANTS
  Nil = Nil
  NaN = NaN
  Requests = {}
  IDs <- MCIDs
  GaugeVals <- MCGauges
  NonFinite = {NaN}
  NaNs = {NaN}
  HalfRange = 2
  Sample <- MCSample
  AgentGauges = {"alloc", "free"}
  Foreign <- MCForeign
  Networks = {"net"}
  Addresses = {"inside", "outside"}
  Member <- MCMember
  MaxReports = 3
INVARIANTS
  TypeOK
  Inv
  OneSample
  NoCallKills
  ReadsAreStored
PROPERTIES
  NewestSample
  OnlySuccessChanges
  Stops
CHECK_DEADLOCK FALSE
