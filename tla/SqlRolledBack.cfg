SPECIFICATION Spec
CONSTANTS
  c1 = c1
  c2 = c2
  c3 = c3
  Nil = Nil
  IDs <- MCIDs
  GaugeVals <- MCGauges
  NonFinite = {}
  HalfRange = 2
  Requests <- MCRequests
  Conns <- ThreeConns
  ZeroGauge = "zero"
INVARIANT
  AcknowledgedIsStored
