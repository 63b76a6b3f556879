CONSTANTS
  Off = Off
  a = a
  b = b
  Timers = {a, b}
  Root = 4
  Node = 2
  Half = 64
  Intervals <- TwoIntervals
  MaxStart <- TwoMaxStart
  MaxJiffies = 140
  MaxBehind = 2
SPECIFICATION WheelSpec
INVARIANTS
  WheelInv
PROPERTY RefinesAlarmClock
