SPECIFICATION ImagesSpec
CONSTANTS
  RejoinIntervalMax = 4
  MaxAlarms = 3
  MaxSignals = 2
  SwitchInterval = 1
  SwitchPlaces = {0, 1, 2, 3}
  SwitchCallbacks = 2
  Bulbs = {b1, b2}
  NoBulb = NoBulb
  Buttons = {"on"}
  MaxFinds = 2
  MaxToggles = 1
  MaxLevel = 2
  DeviceToggles = 2
  MaxTimers = 3
  MaxBuffers = 1
  Options = {"ISO", "OBSERVER"}
  Commands = {"LE_RAND"}
  Reserved = 1
  Discardable = 1
  MaxMessages = 2
  SCAN_Q_DEPTH = 3
  Wrap = 1048576
  Texts <- MCTexts
  BufferSizes = {20, 27, 50, 70, 71, 72, 128}
INVARIANTS
  TypesOK
  BulbKeepsTrying
  SwitchGoesOn
  LitWhileOpen
  BlinkEnds
  ReportsNeverStarve
  HeartBeats
  Reachable
  ActivatedOnlyOnClock
  PayloadInBuffer
PROPERTIES
  TriesAgain
  NoMessageForgotten
CHECK_DEADLOCK FALSE
