SPECIFICATION PartsSpec
CONSTANTS
  Base = 2
  Limit = 18
  Requests = {0, 1, 4}
  LibcSizes = {1, 2}
  Threads = {t1, t2}
  Contexts = {0, 1}
  Timeouts <- MCTimeouts
  TickRate = 1500
  TimerQueue = 1
  MaxElapsed = 2
INVARIANTS
  TypesOK
  FreeListCoalesced
  LostOnlyWhenFull
  NoSleepOverEvent
PROPERTIES
  NullOnlyWhenFull
  ImplementsAllocator
  TimedCallsEnd
