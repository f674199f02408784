CONSTANTS
  Sleepers = {p1, p2, p3}
  MaxTicks = 4
SPECIFICATION TimerSpec
INVARIANT
  HeadNotDue
PROPERTY AlarmSpec
