\* Two-level wheel (NewTimerW's default shape): 4 buckets, level1Div 2.
CONSTANTS
  t1 = t1
  t2 = t2
  t3 = t3
  NoFire = NoFire
  Nil = Nil
  Timers <- MCTimers2
  WheelSize = 4
  Level1Div = 2
  MaxLevels = 2
  MinEvents = 1
  StartTicks <- MCStartTicks
  RearmTicks <- MCRearmTicks
  Width = 16
SPECIFICATION Spec
INVARIANT TypeOK
INVARIANT BucketRings
INVARIANT ActiveTimersCount
INVARIANT Level0Exact
INVARIANT NoFireBeforeResolution
INVARIANT NoTimerOverdue
INVARIANT FifoLevel0
PROPERTY TickCompletes
PROPERTY TimerServiceRefined
