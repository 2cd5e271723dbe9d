\* timeDiff's unsigned subtraction against the comment on loopTimerThread.
CONSTANTS
  Mode = "local"
  Timeout = 4
  Timeout4 = 2
  ClockModulus = 1024
  Duration = 0
  Lag = 2
  SendTime = 1
  MaxRequests = 1
  Answers = 1
  Horizon = 1000
  QueueLimit = 2
  Endless = FALSE
  MayFail = FALSE
SPECIFICATION Spec
PROPERTY NoBreakAfterStamp
