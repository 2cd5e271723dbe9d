\* A local scan of three devices; one of them answers DCP without an address.
CONSTANTS
  Mode = "local"
  Devices = {d1, d2, d3}
  d1 = d1 d2 = d2 d3 = d3
  MacOf <- OwnMac
  IpOf <- OwnIp
  NoIpBlock = {d3}
  Targets <- EveryAddress
  NoHandle = NoHandle
  JunkHandle = JunkHandle
  Junk = Junk
SPECIFICATION Spec
INVARIANTS TypeOK OneNodePerDevice AnswersStayWithSender
  LookupCarriesOwnHandle WalkInRange EveryDeviceAsked BreakSparesOnlyFirst
PROPERTY Implements
