\* Callbacks that re-arm their timer with 0 ticks while level 0 is being drained.
CONSTANTS
  t1 = t1
  t2 = t2
  t3 = t3
  NoFire = NoFire
  Nil = Nil
  Timers <- MCTimers2
  WheelSize = 4
  Level1Div = 2
  MaxLevels = 2
  MinEvents = 1
  StartTicks <- MCStartTicks
  RearmTicks <- MCRearmSameTick
  Width = 16
SPECIFICATION Spec
PROPERTY TickCompletes
