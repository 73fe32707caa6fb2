----------------------------- MODULE TimerWheel -----------------------------
(***************************************************************************)
(* The hierarchical timer wheel CNATimerWheel of src/emu/core/timerw.go,   *)
(* driven by the worker thread that calls OnTick once per tick and, in     *)
(* between ticks, Start and Stop on behalf of rx and rpc handlers.         *)
(*                                                                         *)
(* OnTick is not one atomic step: every event it pops runs the owner's     *)
(* OnEvent callback, and that callback may re-arm its own timer or stop    *)
(* another one while the wheel is half way through a bucket.  The worker   *)
(* therefore walks OnTick one popped event at a time (pc, level, cnt).    *)
(*                                                                         *)
(* Every bucket is an intrusive doubly-linked ring through its own link  *)
(* (the bucket node <<l, b>>) and the links embedded in the timers, with  *)
(* next/prev pointers, a count, and each linked timer's root bucket, as   *)
(* cHTimerWheelLink, cHTimerBucket and CHTimerObj keep them.              *)
(* The write-only fields ticks[] and tickDone are left out: ticks[l] mod   *)
(* WheelSize is bucketIndex[l], and no caller reads the rest.              *)
(*                                                                         *)
(* The auxiliary variables due and lastFire measure time for the           *)
(* properties: due[t] is the number of level-0 ticks still to go before    *)
(* the expiry the caller asked for (negative once it is overdue), and      *)
(* lastFire records the timer, level and due of the callback that the    *)
(* step into the current state ran (NoFire when that step ran none), and *)
(* the timers started before it that were still waiting for the same     *)
(* expiry tick; order lists the running timers in the order of their     *)
(* Start calls.                                                            *)
(***************************************************************************)
EXTENDS Naturals, Integers, Sequences, SequencesExt, FiniteSets

CONSTANTS
  Timers,      \* the CHTimerObj objects embedded in plugins
  WheelSize,   \* size argument of InitTW
  Level1Div,   \* level1Div argument of InitTW
  MaxLevels,   \* levels argument of InitTW
  MinEvents,   \* minEvents argument of OnTick
  StartTicks,  \* ticks that rx and rpc handlers pass to Start
  RearmTicks,  \* ticks that a firing callback passes to Start to re-arm itself
  Width,       \* bit width of the tick arithmetic (uint32: 32)
  NoFire,      \* model value: no callback has run yet
  Nil          \* model value: the nil pointer

(* utlIslog2 and utllog2Shift: is n a power of two, and which one.        *)
RECURSIVE Log2From(_, _)
Log2From(n, i) == IF 2^i >= n \/ i >= 31 THEN i ELSE Log2From(n, i + 1)
utlIslog2(n) == n >= 1 /\ 2^Log2From(n, 0) = n
utllog2Shift(n) == IF utlIslog2(n) THEN Log2From(n, 0) ELSE 0

(* InitTW returns RC_HTW_OK only for these arguments.                     *)
ASSUME /\ utlIslog2(WheelSize) /\ utlIslog2(Level1Div)
       /\ MaxLevels \in 1..4
       /\ Level1Div <= WheelSize
ASSUME StartTicks \cup RearmTicks \subseteq 0..(2^Width - 1)
ASSUME MinEvents \in Nat

Levels == 0..(MaxLevels - 1)
Slots  == 0..(WheelSize - 1)
Modulus == 2^Width

(* Derived fields set by InitTW.                                           *)
wheelLevel1Shift == utllog2Shift(WheelSize) - utllog2Shift(Level1Div)
wheelLevel1Err   == 2^wheelLevel1Shift - 1
cntDiv(l)        == 2^(l * wheelLevel1Shift)        \* exData[l].cntDiv

max(a, b) == IF a < b THEN b ELSE a

(* The link nodes: the head of every bucket, and the link of every timer. *)
BucketNodes == Levels \X Slots
Nodes == BucketNodes \cup Timers

VARIABLES
  tw,        \* the CNATimerWheel together with each CHTimerObj's ticksLeft/wheel
  pc,        \* "idle" | "level0" | "levelEnter" | "levelDrain"
  level,     \* the level onTickLevel is working on
  cnt,       \* events handled so far by the current onTickLevel call
  due,       \* auxiliary: ticks to go before the requested expiry
  lastFire,  \* auxiliary: the callback the last step ran
  order      \* auxiliary: the running timers in the order they were started

vars == <<tw, pc, level, cnt, due, lastFire, order>>

-----------------------------------------------------------------------------
(* Operations on the wheel record: each maps a wheel to a wheel.           *)

(* Mutant: append links the timer right after the bucket head.            *)
LinkAppendAtHead(w, o, obj) ==
  LET n == w.next[o]
  IN [w EXCEPT !.next = [@ EXCEPT ![obj] = n, ![o] = obj],
               !.prev = [@ EXCEPT ![obj] = o, ![n] = obj]]

(* Mutant: o.prev = obj is done before o.prev.next = obj.                 *)
LinkAppendSwapped(w, o, obj) ==
  LET p == w.prev[o]
  IN [w EXCEPT !.next = [@ EXCEPT ![obj] = obj],
               !.prev = [@ EXCEPT ![obj] = p, ![o] = obj]]

(* cHTimerWheelLink.append(obj) on the link o: obj goes in before o,    *)
(* that is at the tail of the ring o heads.                               *)
LinkAppend(w, o, obj) ==
  LET p == w.prev[o]
  IN [w EXCEPT !.next = [@ EXCEPT ![obj] = o, ![p] = obj],
               !.prev = [@ EXCEPT ![obj] = p, ![o] = obj]]

(* cHTimerWheelLink.detach: unlink o from its ring (callers only detach a *)
(* linked timer, so the "next can't zero" panic is not reached).          *)
LinkDetach(w, o) ==
  LET n == w.next[o]
      p == w.prev[o]
  IN [w EXCEPT !.next = [@ EXCEPT ![p] = n, ![o] = Nil],
               !.prev = [@ EXCEPT ![n] = p, ![o] = Nil]]

(* cHTimerBucket.append: link obj at the tail of bucket b and count it.  *)
BucketAppend(w, b, obj) == [LinkAppend(w, b, obj) EXCEPT !.count[b] = @ + 1]

(* cHTimerBucket.decCount; its "counter can't be zero" panic shows as a  *)
(* negative count.                                                         *)
DecCount(w, b) == [w EXCEPT !.count[b] = @ - 1]

(* CHTimerObj.IsRunning: the timer's link is in a ring.                   *)
IsRunning(w, t) == w.next[t] # Nil

(* cHTimerBucket.isSelf: the ring of bucket b is empty.                   *)
IsSelf(w, b) == w.next[b] = b

ActiveBucket(w, l) == <<l, w.bucketIndex[l]>>

(* Mutant: the cursor counted from the bucket after the active one.       *)
PlaceFromNext(w, l, t, ticks) ==
  LET b == <<l, (w.bucketIndex[l] + ticks + 1) % WheelSize>>
  IN [BucketAppend(w, b, t) EXCEPT !.root[t] = b]

(* cHTimerOneWheel.append: link t at offset ticks from the active bucket  *)
(* (cHTimerBucket.append counts it) and make that bucket its root.        *)
Place(w, l, t, ticks) ==
  LET b == <<l, (w.bucketIndex[l] + ticks) % WheelSize>>
  IN [BucketAppend(w, b, t) EXCEPT !.root[t] = b]

(* Mutant: restart without the clamp of nticks to 2.                      *)
RECURSIVE RestartFromNoClamp(_, _, _, _)
RestartFromNoClamp(ticks, index, levelErr, levelShift) ==
  IF index < MaxLevels
  THEN LET nticks == ((ticks + (levelErr - 1)) % Modulus) \div 2^levelShift
       IN IF nticks < WheelSize
          THEN [wheel |-> index, off |-> nticks - 1, left |-> 0]
          ELSE RestartFromNoClamp(ticks, index + 1, levelErr * 2^wheelLevel1Shift,
                                  levelShift + wheelLevel1Shift)
  ELSE [wheel |-> MaxLevels - 1, off |-> WheelSize - 1,
        left |-> (ticks - (WheelSize - 1) * 2^(levelShift - wheelLevel1Shift))
                   % Modulus]

(* Mutant: ticksLeft computed without stepping level_shift back to the    *)
(* top level.                                                              *)
RECURSIVE RestartFromNoShiftBack(_, _, _, _)
RestartFromNoShiftBack(ticks, index, levelErr, levelShift) ==
  IF index < MaxLevels
  THEN LET nticks == ((ticks + (levelErr - 1)) % Modulus) \div 2^levelShift
       IN IF nticks < WheelSize
          THEN [wheel |-> index, off |-> max(nticks, 2) - 1, left |-> 0]
          ELSE RestartFromNoShiftBack(ticks, index + 1, levelErr * 2^wheelLevel1Shift,
                                      levelShift + wheelLevel1Shift)
  ELSE [wheel |-> MaxLevels - 1, off |-> WheelSize - 1,
        left |-> (ticks - (WheelSize - 1) * 2^levelShift) % Modulus]

(* CNATimerWheel.restart: climb levels 1.. until the rounded-up number of *)
(* level ticks fits the wheel; otherwise park on the top level with the   *)
(* remainder in ticksLeft.  Result: level, offset and ticksLeft.          *)
RECURSIVE RestartFrom(_, _, _, _)
RestartFrom(ticks, index, levelErr, levelShift) ==
  IF index < MaxLevels
  THEN LET nticks == ((ticks + (levelErr - 1)) % Modulus) \div 2^levelShift
       IN IF nticks < WheelSize
          THEN [wheel |-> index, off |-> max(nticks, 2) - 1, left |-> 0]
          ELSE RestartFrom(ticks, index + 1, levelErr * 2^wheelLevel1Shift,
                           levelShift + wheelLevel1Shift)
  ELSE [wheel |-> MaxLevels - 1, off |-> WheelSize - 1,
        left |-> (ticks - (WheelSize - 1) * 2^(levelShift - wheelLevel1Shift))
                   % Modulus]

restart(w, t, ticks) ==
  LET p == RestartFrom(ticks, 1, wheelLevel1Err + 1, wheelLevel1Shift)
  IN [Place(w, p.wheel, t, p.off) EXCEPT !.ticksLeft[t] = p.left,
                                         !.wheel[t] = p.wheel]

(* Mutant: Start keeps ticks = wheelSize on level 0.                      *)
StartLe(w, t, ticks) ==
  LET w1 == [w EXCEPT !.totalEvents = @ + 1]
  IN IF ticks <= WheelSize
     THEN [Place(w1, 0, t, ticks) EXCEPT !.ticksLeft[t] = 0, !.wheel[t] = 0]
     ELSE restart(w1, t, ticks)

(* CNATimerWheel.Start (the timer is not running).                        *)
Start(w, t, ticks) ==
  LET w1 == [w EXCEPT !.totalEvents = @ + 1]
  IN IF ticks < WheelSize
     THEN [Place(w1, 0, t, ticks) EXCEPT !.ticksLeft[t] = 0, !.wheel[t] = 0]
     ELSE restart(w1, t, ticks)

(* CHTimerObj.detach: decCount of the root bucket, clear root, unlink.    *)
TimerDetach(w, t) ==
  [LinkDetach(DecCount(w, w.root[t]), t) EXCEPT !.root[t] = Nil]

(* Mutant: Stop decrements totalEvents whether or not the timer runs.     *)
StopUnchecked(w, t) ==
  IF IsRunning(w, t) THEN [TimerDetach(w, t) EXCEPT !.totalEvents = @ - 1]
  ELSE [w EXCEPT !.totalEvents = @ - 1]

(* CNATimerWheel.Stop and cHTimerOneWheel.stop: detach a running timer.   *)
Stop(w, t) ==
  IF IsRunning(w, t) THEN [TimerDetach(w, t) EXCEPT !.totalEvents = @ - 1]
  ELSE w

(* popEvent: detach the first timer of the active bucket (the caller      *)
(* takes it as w.next[ActiveBucket(w, l)] and has checked ~IsSelf).       *)
PopEvent(w, l) == TimerDetach(w, w.next[ActiveBucket(w, l)])

(* Mutant: the cursor wraps one bucket too late.                          *)
NextTickWrapLate(w, l) == [w EXCEPT !.bucketIndex[l] = (@ + 1) % (WheelSize + 1)]

(* nextTick of one level.                                                 *)
NextTick(w, l) == [w EXCEPT !.bucketIndex[l] = (@ + 1) % WheelSize]

(* Mutant: the level advances one tick before its cntDiv ticks are up.   *)
onTickLevelIncEarly(w, l) ==
  IF w.cntState[l] + 2 >= cntDiv(l)
  THEN [NextTick(w, l) EXCEPT !.cntState[l] = 0]
  ELSE [w EXCEPT !.cntState[l] = @ + 1]

(* onTickLevelInc: a level above 0 advances once every cntDiv ticks.      *)
onTickLevelInc(w, l) ==
  IF w.cntState[l] + 1 = cntDiv(l)
  THEN [NextTick(w, l) EXCEPT !.cntState[l] = 0]
  ELSE [w EXCEPT !.cntState[l] = @ + 1]

(* The per-iteration budget fixed when a level enters a new bucket.       *)
PerIteration(left, l) == max((left + cntDiv(l) - 1) \div cntDiv(l), MinEvents)

-----------------------------------------------------------------------------
(* What a plugin's OnEvent may do with the wheel: nothing, re-arm its own *)
(* timer (as DevicesAutoTrigger.OnEvent does), or stop another timer.     *)
Reactions ==
  {[kind |-> "none"]} \cup
  {[kind |-> "rearm", ticks |-> k] : k \in RearmTicks} \cup
  {[kind |-> "stop", timer |-> u] : u \in Timers}

React(w, t, r) ==
  CASE r.kind = "rearm" -> Start(w, t, r.ticks)
    [] r.kind = "stop"  -> Stop(w, r.timer)
    [] OTHER            -> w

DueAfter(t, r) ==
  CASE r.kind = "rearm" -> [due EXCEPT ![t] = r.ticks]
    [] r.kind = "stop"  -> [due EXCEPT ![t] = 0, ![r.timer] = 0]
    [] OTHER            -> [due EXCEPT ![t] = 0]

OrderAfter(t, r) ==
  CASE r.kind = "rearm" -> Append(Remove(order, t), t)
    [] r.kind = "stop"  -> Remove(Remove(order, t), r.timer)
    [] OTHER            -> Remove(order, t)

(* The reactions open to the callback of timer t.                        *)
CallbackReactions(t) == Reactions \ {[kind |-> "stop", timer |-> t]}

(* o.totalEvents-- and event.call() for a popped timer t.                 *)
Callback(w, t, r) == React([w EXCEPT !.totalEvents = @ - 1], t, r)

StartedBefore(u, t) ==
  \E i, j \in 1..Len(order) : i < j /\ order[i] = u /\ order[j] = t

FireRecord(t, l) ==
  [timer |-> t, level |-> l, due |-> due[t],
   ahead |-> {u \in Timers : StartedBefore(u, t) /\ due[u] = due[t]}]

(* After level l: go on with level l + 1, or OnTick returns.              *)
NextLevel(l) ==
  IF l + 1 < MaxLevels
  THEN pc' = "levelEnter" /\ level' = l + 1
  ELSE pc' = "idle" /\ level' = 0

-----------------------------------------------------------------------------
(* Initial state: InitTW on a fresh wheel, no timer running.              *)
Init ==
  /\ tw = [next        |-> [n \in Nodes |-> IF n \in BucketNodes THEN n ELSE Nil],
           prev        |-> [n \in Nodes |-> IF n \in BucketNodes THEN n ELSE Nil],
           count       |-> [b \in BucketNodes |-> 0],
           root        |-> [t \in Timers |-> Nil],
           bucketIndex |-> [l \in Levels |-> 0],
           cntState    |-> [l \in Levels |-> 0],
           cntPerIte   |-> [l \in Levels |-> 0],
           totalEvents |-> 0,
           ticksLeft   |-> [t \in Timers |-> 0],
           wheel       |-> [t \in Timers |-> 0]]
  /\ pc = "idle"
  /\ level = 0
  /\ cnt = 0
  /\ due = [t \in Timers |-> 0]
  /\ lastFire = NoFire
  /\ order = <<>>

(* Start from an rx or rpc handler between ticks; Start panics on a       *)
(* running timer, so callers only start stopped ones.                     *)
StartTimer(t, k) ==
  /\ pc = "idle"
  /\ ~IsRunning(tw, t)
  /\ tw' = Start(tw, t, k)
  /\ due' = [due EXCEPT ![t] = k]
  /\ order' = Append(order, t)
  /\ lastFire' = NoFire
  /\ UNCHANGED <<pc, level, cnt>>

(* Stop from an rx or rpc handler; stopping a stopped timer is a no-op.   *)
StopTimer(t) ==
  /\ pc = "idle"
  /\ tw' = Stop(tw, t)
  /\ due' = [due EXCEPT ![t] = 0]
  /\ order' = Remove(order, t)
  /\ lastFire' = NoFire
  /\ UNCHANGED <<pc, level, cnt>>

(* The main loop calls OnTick.                                            *)
BeginTick ==
  /\ pc = "idle"
  /\ pc' = "level0"
  /\ lastFire' = NoFire
  /\ UNCHANGED <<tw, level, cnt, due, order>>

(* onTickLevel0, loop body: pop the first timer of the active bucket and  *)
(* call it, whatever its ticksLeft.                                       *)
Level0Pop ==
  /\ pc = "level0"
  /\ ~IsSelf(tw, ActiveBucket(tw, 0))
  /\ LET t == tw.next[ActiveBucket(tw, 0)]
     IN \E r \in CallbackReactions(t) :
          /\ tw' = Callback(PopEvent(tw, 0), t, r)
          /\ due' = DueAfter(t, r)
          /\ order' = OrderAfter(t, r)
          /\ lastFire' = FireRecord(t, 0)
  /\ UNCHANGED <<pc, level, cnt>>

(* onTickLevel0, after the loop: nextTick and ticks[0]++; one tick of     *)
(* time passes for every running timer.                                   *)
Level0Done ==
  /\ pc = "level0"
  /\ IsSelf(tw, ActiveBucket(tw, 0))
  /\ tw' = NextTick(tw, 0)
  /\ due' = [t \in Timers |-> IF IsRunning(tw, t) THEN due[t] - 1 ELSE due[t]]
  /\ NextLevel(0)
  /\ lastFire' = NoFire
  /\ UNCHANGED <<cnt, order>>

(* onTickLevel, up to the loop: an empty active bucket only counts the    *)
(* tick; otherwise the first tick of a bucket fixes the budget cntPerIte. *)
LevelEnter ==
  /\ pc = "levelEnter"
  /\ LET left == tw.count[ActiveBucket(tw, level)]
     IN IF left = 0
        THEN /\ tw' = onTickLevelInc(tw, level)
             /\ NextLevel(level)
        ELSE /\ tw' = IF tw.cntState[level] = 0
                      THEN [tw EXCEPT !.cntPerIte[level] = PerIteration(left, level)]
                      ELSE tw
             /\ pc' = "levelDrain"
             /\ UNCHANGED level
  /\ cnt' = 0
  /\ lastFire' = NoFire
  /\ UNCHANGED <<due, order>>

(* Mutant: every popped timer is called, whatever its ticksLeft.          *)
LevelPopIgnoreLeft ==
  /\ pc = "levelDrain"
  /\ ~IsSelf(tw, ActiveBucket(tw, level))
  /\ LET t    == tw.next[ActiveBucket(tw, level)]
         w1   == PopEvent(tw, level)
         done == cnt + 1 = tw.cntPerIte[level]
         Finish(w) == IF done THEN onTickLevelInc(w, level) ELSE w
     IN /\ \E r \in CallbackReactions(t) :
             /\ tw' = Finish(Callback(w1, t, r))
             /\ due' = DueAfter(t, r)
             /\ order' = OrderAfter(t, r)
             /\ lastFire' = FireRecord(t, level)
        /\ IF done THEN NextLevel(level) /\ cnt' = 0
                   ELSE UNCHANGED <<pc, level>> /\ cnt' = cnt + 1

(* onTickLevel, loop body: pop; call a timer whose ticksLeft is 0 or     *)
(* restart it with its ticksLeft; return once cntPerIte events are done.  *)
LevelPop ==
  /\ pc = "levelDrain"
  /\ ~IsSelf(tw, ActiveBucket(tw, level))
  /\ LET t    == tw.next[ActiveBucket(tw, level)]
         w1   == PopEvent(tw, level)
         done == cnt + 1 = tw.cntPerIte[level]
         Finish(w) == IF done THEN onTickLevelInc(w, level) ELSE w
     IN /\ IF tw.ticksLeft[t] = 0
           THEN \E r \in CallbackReactions(t) :
                  /\ tw' = Finish(Callback(w1, t, r))
                  /\ due' = DueAfter(t, r)
                  /\ order' = OrderAfter(t, r)
                  /\ lastFire' = FireRecord(t, level)
           ELSE /\ tw' = Finish(restart(w1, t, w1.ticksLeft[t]))
                /\ lastFire' = NoFire
                /\ UNCHANGED <<due, order>>
        /\ IF done THEN NextLevel(level) /\ cnt' = 0
                   ELSE UNCHANGED <<pc, level>> /\ cnt' = cnt + 1

(* onTickLevel, the loop found the bucket empty.                          *)
LevelEmpty ==
  /\ pc = "levelDrain"
  /\ IsSelf(tw, ActiveBucket(tw, level))
  /\ tw' = onTickLevelInc(tw, level)
  /\ NextLevel(level)
  /\ cnt' = 0
  /\ lastFire' = NoFire
  /\ UNCHANGED <<due, order>>

Next ==
  \/ \E t \in Timers, k \in StartTicks : StartTimer(t, k)
  \/ \E t \in Timers : StopTimer(t)
  \/ BeginTick
  \/ Level0Pop
  \/ Level0Done
  \/ LevelEnter
  \/ LevelPop
  \/ LevelEmpty

(* The worker thread runs OnTick to completion and the main loop calls    *)
(* OnTick on every tick; rx and rpc handlers need not ever run.           *)
Worker == BeginTick \/ Level0Pop \/ Level0Done \/ LevelEnter \/ LevelPop \/ LevelEmpty

Spec == Init /\ [][Next]_vars /\ WF_vars(Worker)

-----------------------------------------------------------------------------
(* Properties.                                                             *)

TypeOK ==
  /\ tw.next \in [Nodes -> Nodes \cup {Nil}]
  /\ tw.prev \in [Nodes -> Nodes \cup {Nil}]
  /\ tw.count \in [BucketNodes -> Nat]
  /\ tw.root \in [Timers -> BucketNodes \cup {Nil}]
  /\ tw.bucketIndex \in [Levels -> Slots]
  /\ \A l \in Levels : tw.cntState[l] \in 0..(cntDiv(l) - 1)
  /\ tw.cntPerIte \in [Levels -> Nat]
  /\ tw.totalEvents \in Nat
  /\ tw.ticksLeft \in [Timers -> 0..(Modulus - 1)]
  /\ tw.wheel \in [Timers -> Levels]
  /\ pc \in {"idle", "level0", "levelEnter", "levelDrain"}
  /\ level \in Levels
  /\ cnt \in Nat
  /\ due \in [Timers -> Int]

(* The timers met walking the ring of bucket b from its head.            *)
RECURSIVE RingFrom(_, _, _)
RingFrom(n, b, k) ==
  IF n = b \/ n = Nil \/ k = 0 THEN <<>> ELSE <<n>> \o RingFrom(tw.next[n], b, k - 1)
Ring(b) == RingFrom(tw.next[b], b, Cardinality(Timers) + 1)

(* The pointer surgery of append and detach, done while callbacks link   *)
(* and unlink timers in the middle of a bucket, keeps every bucket a      *)
(* well-formed ring: prev and next are inverse, the walk from the head    *)
(* comes back to it through distinct timers, count (what onTickLevel      *)
(* reads as left) is the ring's length, and a timer's root is the bucket  *)
(* whose ring holds it (so decCount in detach hits the right bucket).     *)
BucketRings ==
  /\ \A n \in Nodes : tw.next[n] # Nil => tw.prev[tw.next[n]] = n
  /\ \A n \in Nodes : tw.prev[n] # Nil => tw.next[tw.prev[n]] = n
  /\ \A b \in BucketNodes :
       LET r == Ring(b)
       IN /\ IsInjective(r)
          /\ tw.next[IF r = <<>> THEN b ELSE Last(r)] = b
          /\ tw.count[b] = Len(r)
          /\ \A t \in Timers : t \in ToSet(r) <=> tw.root[t] = b
  /\ \A t \in Timers : IsRunning(tw, t) <=> tw.root[t] # Nil

(* ActiveTimers() and the bucket counts agree: through Start, Stop, the   *)
(* pops of OnTick and the callbacks that start or stop timers in the      *)
(* middle of a bucket, totalEvents equals the sum of the bucket counts    *)
(* and the number of running timers.                                      *)
ActiveTimersCount ==
  /\ tw.totalEvents = MapThenSumSet(LAMBDA b : tw.count[b], BucketNodes)
  /\ tw.totalEvents = Cardinality({t \in Timers : IsRunning(tw, t)})

(* A timer that fires from level 0 fires exactly on the tick it was asked *)
(* for, also when it was started by a callback in the middle of OnTick.   *)
Level0Exact ==
  lastFire # NoFire /\ lastFire.level = 0 => lastFire.due = 0

(* The error that the coarser levels allow: restart rounds a timer up to *)
(* a whole level tick (timerw.go:463), and onTickLevel drains the bucket  *)
(* over the cntDiv ticks it is active, from the first (500-522): under    *)
(* two level ticks of the top level.                                      *)
Resolution == 2 * cntDiv(MaxLevels - 1) - 1

(* No callback runs more than the top level's resolution before the tick  *)
(* its Start asked for, across the rounding of restart, the ticksLeft     *)
(* re-insertions from the top level, and the amortised draining.          *)
NoFireBeforeResolution ==
  lastFire # NoFire => lastFire.due <= Resolution

(* No running timer is left waiting more than the resolution past its     *)
(* expiry: onTickLevel drains every bucket within the cntDiv ticks it is  *)
(* active, so no timer is left behind in a bucket the level has passed.   *)
NoTimerOverdue ==
  \A t \in Timers : IsRunning(tw, t) => due[t] >= -Resolution

(* The spec (section 8, property 2) says a timer never fires before the  *)
(* tick its Start asked for; restart's rounding and the amortised drain   *)
(* of the coarser levels make no such promise.                            *)
FiresNotBeforeDue ==
  lastFire # NoFire => lastFire.due <= 0

(* Timer callbacks for the same expiry tick fire in the order their      *)
(* timers were started (spec section 8): when a callback runs, no timer   *)
(* started before it for the same tick is still waiting.                  *)
FifoSameTick ==
  lastFire # NoFire => lastFire.ahead = {}

(* Within a level-0 bucket callbacks fire in FIFO order: append links at *)
(* the tail and popEvent takes the head, so no timer that went into the   *)
(* level-0 wheel for the same tick before the one that fires is still     *)
(* waiting.  (A callback never restarts another timer, so wheel[u] after  *)
(* the step is the one u had while it waited.)                            *)
FifoLevel0 ==
  lastFire # NoFire /\ lastFire.level = 0 =>
    \A u \in lastFire.ahead : tw.wheel[u] # 0

(* Every OnTick call returns: no callback can keep the level-0 loop busy. *)
TickCompletes == pc # "idle" ~> pc = "idle"


(* The wheel implements the timer service: the running timers are the    *)
(* armed ones, Start and Stop arm and disarm, a callback is a firing, the *)
(* level-0 nextTick is a tick, and every other step of OnTick (level      *)
(* entry, re-insertion of a timer with ticksLeft, counting) changes       *)
(* nothing a user of the wheel can see.                                   *)
TS == INSTANCE TimerService WITH armed <- {t \in Timers : IsRunning(tw, t)}

(* Every behaviour of the wheel, callbacks that re-arm or stop timers in  *)
(* the middle of a bucket included, is one of the timer service: no      *)
(* timer fires more than Resolution ticks early, none is left more than   *)
(* Resolution ticks overdue while time passes, and under the worker's     *)
(* fairness ticks keep coming.                                            *)
TimerServiceRefined == TS!ASpec

=============================================================================
