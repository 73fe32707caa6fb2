\* A one-level wheel (InitTW accepts levels = 1) given timers longer than the wheel.
CONSTANTS
  t1 = t1
  t2 = t2
  t3 = t3
  NoFire = NoFire
  Nil = Nil
  Timers <- MCTimers2
  WheelSize = 4
  Level1Div = 2
  MaxLevels = 1
  MinEvents = 1
  StartTicks <- MCStartTicks
  RearmTicks <- MCRearmTicks
  Width = 16
SPECIFICATION Spec
INVARIANT NoFireBeforeResolution
