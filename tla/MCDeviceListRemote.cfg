\* A remote scan of the addresses of two devices and of one that is free.
CONSTANTS
  Mode = "remote"
  Devices = {d1, d2}
  d1 = d1 d2 = d2
  MacOf <- RouterMac
  IpOf <- OwnIp
  NoIpBlock = {}
  Targets <- EveryAddress
  NoHandle = NoHandle
  JunkHandle = JunkHandle
  Junk = Junk
SPECIFICATION Spec
INVARIANTS OneNodePerDevice AnswersStayWithSender
PROPERTY Implements
