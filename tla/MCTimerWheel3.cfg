\* Three-level wheel: 4 buckets, level1Div 2 (levels advance every 1, 2, 4 ticks).
CONSTANTS
  t1 = t1
  t2 = t2
  t3 = t3
  NoFire = NoFire
  Nil = Nil
  Timers <- MCTimers2
  WheelSize = 4
  Level1Div = 2
  MaxLevels = 3
  MinEvents = 2
  StartTicks <- MCStartTicks3
  RearmTicks <- MCRearmTicks
  Width = 16
SPECIFICATION Spec
INVARIANT NoFireBeforeResolution
INVARIANT NoTimerOverdue
