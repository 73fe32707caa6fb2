\* Two-level wheel checked against the spec's claim that callbacks for the same expiry tick fire in start order.
CONSTANTS
  t1 = t1
  t2 = t2
  t3 = t3
  NoFire = NoFire
  Nil = Nil
  Timers <- MCTimers2
  WheelSize = 4
  Level1Div = 2
  MaxLevels = 2
  MinEvents = 1
  StartTicks <- MCStartTicks
  RearmTicks <- MCRearmTicks
  Width = 16
SPECIFICATION Spec
INVARIANT FifoSameTick
