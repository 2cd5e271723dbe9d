\* The handlers' own end of a local capture against the comment on it.
CONSTANTS
  Mode = "local"
  Devices = {d1, d2}
  d1 = d1 d2 = d2
  MacOf <- OwnMac
  IpOf <- OwnIp
  NoIpBlock = {}
  Targets <- EveryAddress
  NoHandle = NoHandle
  JunkHandle = JunkHandle
  Junk = Junk
SPECIFICATION Spec
INVARIANT BreakMeansAllFinished
