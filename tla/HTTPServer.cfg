SPECIFICATION Spec
CONSTANTS
  Nil = Nil
  Failed = Failed
  Requests = {}
  IDs <- MCIDs
  GaugeVals <- MCGauges
  NonFinite <- MCNonFinite
  HalfRange = 2
  RSAKeys <- MCRSAKeys
  KeySize <- MCKeySize
  ServerBlock = 5
  Overhead = 2
  HashKeys = {"k1", "k2"}
  Digits <- MCDigits
  Networks = {"net"}
  Addresses = {"inside", "outside"}
  Member <- MCMember
  Deployments <- MCDeployments
  Samples <- MCSamples
  Foreign <- MCForeign
INVARIANTS
  TypeOK
  ReportDelivered
  OnlySuccessChanges
  SignedOnly
  AnswersVerify
