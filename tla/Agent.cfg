SPECIFICATION FairSpec
CONSTANTS
  Nil = Nil
  PollInterval <- Second
  ReportInterval <- TwoSeconds
  MaxClock <- Horizon
INVARIANTS
  TypeOK
  Inv
  WholeSamples
  EveryPollTaken
  ServerWithinPolls
PROPERTIES
  Stops
\* The agent ends after a signal or a panic, or waits for an answer forever.
CHECK_DEADLOCK FALSE
