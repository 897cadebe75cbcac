CONSTANTS
  DebounceTicks = 2
  HighLimit = 2
  LowLimit <- MCLowLimit
  NetBound = 4
  ButtonDebounce = 2
  long_press_ticks = 1
  short_press_ticks = 1
  TickMod = 3
  Num = 3
SPECIFICATION Spec
INVARIANTS TypeOK DetentsCounted NothingMissed
PROPERTIES LongPressShows
