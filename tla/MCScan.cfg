\* The first two phases of a local scan of two devices.
CONSTANTS
  Timeout = 4
  Timeout4 = 2
  ClockModulus = 1024
  Lag = 1
  SendTime = 1
  MaxRequests = 2
  Horizon = 60
  QueueLimit = 2
  Budget = 3
  Devices = {d1, d2}
  d1 = d1 d2 = d2
  MacOf <- OwnMac
  IpOf <- OwnIp
  NoIpBlock = {}
  NoHandle = NoHandle
  JunkHandle = JunkHandle
  Junk = Junk
  Phases = 2
SPECIFICATION Spec
INVARIANT TimelyAnswersCount
SYMMETRY Swaps
