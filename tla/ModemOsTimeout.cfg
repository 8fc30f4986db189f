SPECIFICATION Spec
CONSTANTS
  Threads = {t1}
  Contexts = {0, 1}
  Timeouts <- MCTimeoutsAll
  TickRate = 8192
  TimerQueue = 1
  MaxElapsed = 9
INVARIANTS
  ZeroMeansEvent
