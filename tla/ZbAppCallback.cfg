SPECIFICATION Spec
SYMMETRY Symmetry
CONSTANTS
  t1 = t1
  t2 = t2
  cb1 = cb1
  cb2 = cb2
  al1 = al1
  al2 = al2
  buf = buf
  can = can
  Process = Process
  KindOf <- MCKindOf
  CancelTarget <- MCCancelTarget
  TableSize <- MCTableSize
  Tasks = {t1, t2}
  Requests = {cb1, al1, al2, can}
  QueueLength = 2
  ZbQueueLength = 1
  MaxDeinits = 0
INVARIANTS
  TypeOK
  ProcessScheduledOnce
  NoLostWakeup
  InOrderExactlyOnce
  NoSleepOnWork
PROPERTIES
  ImplementsMailbox
