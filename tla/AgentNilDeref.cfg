SPECIFICATION Spec
CONSTANTS
  Nil = Nil
  PollInterval <- Second
  ReportInterval <- Second
  MaxClock <- Horizon
INVARIANT
  SampleToReport
\* The agent ends after a signal or a panic, or waits for an answer forever.
CHECK_DEADLOCK FALSE
