\* A local scan without --duration: all six phases, two answers, and threads
\* that the scheduler may hold up for a tick.
CONSTANTS
  Mode = "local"
  Timeout = 4
  Timeout4 = 2
  ClockModulus = 1024
  Duration = 0
  Lag = 1
  SendTime = 1
  MaxRequests = 1
  Answers = 2
  Horizon = 60
  QueueLimit = 2
  Endless = FALSE
  MayFail = FALSE
SPECIFICATION FairSpec
INVARIANTS TypeOK TimerOwnsOpenHandle
PROPERTIES QuietBreakIsQuiet ListensOneTimeout Terminates
