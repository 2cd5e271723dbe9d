\* The lookups of a remote scan against the comment on their handle.
CONSTANTS
  Mode = "remote"
  Devices = {d1, d2}
  d1 = d1 d2 = d2
  MacOf <- RouterMac
  IpOf <- OwnIp
  NoIpBlock = {}
  Targets <- EveryAddress
  NoHandle = NoHandle
  JunkHandle = JunkHandle
  Junk = Junk
SPECIFICATION Spec
INVARIANT HandleIsDestinations
