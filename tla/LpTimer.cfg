SPECIFICATION SidesSpec
CONSTANTS
  MaxNest = 2
  MaxCalls = 2
  ScheduleInside = TRUE
  Channels = {"a", "b"}
  MaxNow = 4
INVARIANTS
  TypeOK
  NeverLeftMasked
  OnlyKnownBreaches
  TaskHonest
PROPERTIES
  DisabledStaysSilent
  ScheduledIsHandled
