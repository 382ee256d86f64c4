SPECIFICATION MCSpec
CONSTANTS
  DayLength = 7
  Weekdays = 2
  UtcOffset = 2
  Offerings = {"short", "long"}
  Duration <- MCDuration
  Buffer <- MCBuffer
  Setters = {"s1", "s2"}
  Visitors = {v1}
  Proposals <- Contested
  MaxDay = 1
  MaxRounds = 1
  MaxWindows = 0
INVARIANTS GeneratedSlotIsBookable
CHECK_DEADLOCK FALSE
