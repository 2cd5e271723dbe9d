\* A remote scan with --duration under endless traffic, in which main may be
\* slower than the capture and any thread or adapter may fail to start.
CONSTANTS
  Mode = "remote"
  Timeout = 2
  Timeout4 = 1
  ClockModulus = 1024
  Duration = 3
  Lag = 1
  SendTime = 3
  MaxRequests = 1
  Answers = 0
  Horizon = 24
  QueueLimit = 1
  Endless = TRUE
  MayFail = TRUE
SPECIFICATION FairSpec
INVARIANTS
  NoThreadOutlivesJoin
  StopsNotEarly
  OverrunBounded
PROPERTIES StopIsFinal Terminates
