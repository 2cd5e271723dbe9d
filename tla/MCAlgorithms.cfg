\* Boundary values of every part; topologies with at most one silent and one
\* unnamed port.
CONSTANTS
  NoText = NoText
  Dead = Dead
  Nil = Nil
  Fresh = Fresh
  NoNode = NoNode
  Wild = Wild
  Null = Null
  Absent = Absent
  Stray = Stray
  Unset = Unset
  Torn = Torn
  NoMac = NoMac
  Failed = Failed
  Networks <- SmallNetworks
  MaxPort = 9
  MaxFaults = 1
  Blocks = {0, 5, 14, 65535}
  Data = {0, 1, 255}
SPECIFICATION Spec
INVARIANTS LinkDrawnOnce DevicesNamed LineDrawnWhole ChecksumsVerify
  RequestReadsBack AnnotationRead RecordsRead ScanIsAsked
  FreedOnce FileReadsBack EveryBlockRead TargetsAreTheRange NextHopRight
