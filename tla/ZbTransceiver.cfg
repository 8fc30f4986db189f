SPECIFICATION HalvesSpec
CONSTANTS
  RxBuffers = 3
  FifoSize = 2
  MaxFrames = 4
  None = None
  MaxScans = 3
INVARIANTS
  TypesOK
  SlotsAccounted
  FramesIntact
  AtMostOneScanBehind
  StateHonest
PROPERTIES
  QueuedIsDelivered
  CallsReturn
