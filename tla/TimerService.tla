---------------------------- MODULE TimerService ----------------------------
(***************************************************************************)
(* What the timer wheel of src/emu/core/timerw.go promises its users,     *)
(* with no buckets and no levels: a set of armed timers, each with the     *)
(* number of ticks still to go before the expiry its Start asked for.     *)
(*                                                                         *)
(*  - Start arms a stopped timer for k ticks; Stop disarms it.             *)
(*  - An armed timer fires (its OnEvent runs, once) at any time from       *)
(*    Resolution ticks before its expiry on; the callback may re-arm the   *)
(*    timer or stop another one.                                           *)
(*  - A tick passes only while no armed timer is Resolution or more ticks  *)
(*    overdue: the tick that would leave it later fires it first.          *)
(*  - Ticks keep coming, and with them every armed timer fires unless it   *)
(*    is stopped.                                                          *)
(*                                                                         *)
(* TimerWheel refines this module (TimerWheel!TimerServiceRefined).        *)
(***************************************************************************)
EXTENDS Integers

CONSTANTS
  Timers,      \* the timer objects
  StartTicks,  \* ticks a handler passes to Start
  RearmTicks,  \* ticks a callback passes to Start to re-arm its timer
  Resolution   \* how early or late a timer may fire, in ticks

VARIABLES
  armed,  \* the timers that are running
  due     \* ticks still to go before each timer's requested expiry

avars == <<armed, due>>

(* What a callback may do: nothing, re-arm its timer, stop another one.   *)
Reaction == {[kind |-> "none"]} \cup
            {[kind |-> "rearm", ticks |-> k] : k \in RearmTicks} \cup
            {[kind |-> "stop", timer |-> u] : u \in Timers}

AInit == armed = {} /\ due = [t \in Timers |-> 0]

Arm(t, k) ==
  /\ t \notin armed
  /\ armed' = armed \cup {t}
  /\ due' = [due EXCEPT ![t] = k]

Disarm(t) ==
  /\ armed' = armed \ {t}
  /\ due' = [due EXCEPT ![t] = 0]

(* Timer t expires and its callback reacts with r.                        *)
Fire(t, r) ==
  /\ t \in armed
  /\ due[t] <= Resolution
  /\ r.kind = "stop" => r.timer # t
  /\ CASE r.kind = "rearm" -> /\ armed' = armed
                              /\ due' = [due EXCEPT ![t] = r.ticks]
       [] r.kind = "stop"  -> /\ armed' = armed \ {t, r.timer}
                              /\ due' = [due EXCEPT ![t] = 0, ![r.timer] = 0]
       [] OTHER            -> /\ armed' = armed \ {t}
                              /\ due' = [due EXCEPT ![t] = 0]

(* One tick of time passes for every armed timer.                         *)
Tick ==
  /\ \A t \in armed : due[t] > -Resolution
  /\ due' = [t \in Timers |-> IF t \in armed THEN due[t] - 1 ELSE due[t]]
  /\ UNCHANGED armed

(* Time makes progress: a tick, or the firing that must come before it.   *)
Progress == Tick \/ \E t \in Timers, r \in Reaction : Fire(t, r)

ANext ==
  \/ \E t \in Timers, k \in StartTicks : Arm(t, k)
  \/ \E t \in Timers : Disarm(t)
  \/ Progress

ASpec == AInit /\ [][ANext]_avars /\ WF_avars(Progress)

=============================================================================
