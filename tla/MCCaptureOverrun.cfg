\* The same scan against what README.md says of --duration.
CONSTANTS
  Mode = "remote"
  Timeout = 4
  Timeout4 = 2
  ClockModulus = 1024
  Duration = 5
  Lag = 1
  SendTime = 6
  MaxRequests = 1
  Answers = 0
  Horizon = 28
  QueueLimit = 2
  Endless = TRUE
  MayFail = FALSE
SPECIFICATION Spec
INVARIANT DurationHonoured
