--------------------------- MODULE MCTimerWheel ----------------------------
(* The timer wheel of timerw.go instantiated small: a wheel of 4 buckets, *)
(* level-1 divisor 2 (so level 1 advances every 2 ticks, level 2 every 4).*)
EXTENDS TimerWheel

CONSTANTS t1, t2, t3

MCTimers2 == {t1, t2}
MCTimers3 == {t1, t2, t3}

(* Start arguments reaching every placement of a 2-level wheel of 4:      *)
(* level 0 (0..3), level 1 with and without the clamp to 2 (4..6) and the *)
(* top level with a ticksLeft remainder (7..9).                           *)
MCStartTicks == {0, 4, 5, 7, 9}
MCRearmTicks == {1, 4}

(* For a 3-level wheel of 4: level 0, level 1, level 2, top with remainder.*)
MCStartTicks3 == {0, 4, 7, 20}

(* Callbacks that re-arm for the tick being processed (ticks = 0).       *)
MCRearmSameTick == {0}

=============================================================================
