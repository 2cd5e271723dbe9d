\* Two default routes, and the chosen adapter is not the first.
CONSTANTS
  NoText = NoText
  Dead = Dead
  Nil = Nil
  Fresh = Fresh
  NoNode = NoNode
  Wild = Wild
  Null = Null
  Absent = Absent
  Stray = Stray
  Unset = Unset
  Torn = Torn
  NoMac = NoMac
  Failed = Failed
  Networks <- SmallNetworks
  MaxPort = 9
  MaxFaults = 1
  Blocks = {2, 4, 5}
  Data = {0, 1, 255}
SPECIFICATION Spec
INVARIANT GatewayIsAdapters
