SPECIFICATION Spec
CONSTANTS
  MaxNest = 2
  MaxCalls = 2
  ScheduleInside = FALSE
PROPERTIES
  NoHandlerInside
