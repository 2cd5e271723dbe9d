\* One device answers for its slots twice, at any time.
CONSTANTS
  Count = 2
  Modules <- TwoDevices
  Layer = 3
  Junks = {2}
  MaxTrees <- TwiceOnce
SPECIFICATION Spec
INVARIANTS TypeOK TreeIsPlugged DiesOfLateAnswer EveryPortAsked PortDataKept
