# TLA+ models of trex-emu

This directory holds TLA+ models of the TRex emulation server's core (`src/src/emu/core`)
and the TLC configurations that check them. Each module is translated from the Go source.
`PROJECT.json` maps every modelled definition to the lines of code it stands for.

## The system and its parts

trex-emu runs one worker thread per port. The worker owns everything below, so nothing
here is shared between threads. The concurrency that matters is re-entrancy: callbacks
run in the middle of the wheel's own loops.

| Part | Source | State | Operations | Interacts with |
|---|---|---|---|---|
| Timer wheel `CNATimerWheel` | `core/timerw.go` | per level: buckets of intrusive lists, `bucketIndex`, `cntState`, `cntPerIte`; `totalEvents`; per timer: `ticksLeft`, `wheel` | `InitTW`, `Start`, `Stop`, `OnTick` (`onTickLevel0`, `onTickLevel`, `restart`, `onTickLevelInc`) | plugins' `OnEvent` callbacks, which call `Start`/`Stop` from inside `OnTick` |
| Mbuf pool `MbufPoll` | `core/mbuf.go` | per size: LIFO cache (`mlist`, `cacheSize`), 4 counters | `Init`, `Alloc`, `FreeMbuf`, `ClearCache` | the veth and every plugin that builds packets |
| Mbuf chain `Mbuf` | `core/mbuf.go` | `dataOff`, `dataLen`, `pktLen`, `nbSegs`, dlist ring of segments | `Prepend`, `Append`, `Trim`, `Adj`, `AppendMbuf`, `DetachFirst`, `DetachLast`, `GetContiguous`, `FreeMbuf` | the pool it came from |
| Veth simulator | `core/veth.go` | tx and rx vectors, RPC queue, stats | `Send`, `SendBuffer`, `FlushTx`, `AppendSimuationRPC`, `SimulatorCheckRxQueue` (`handleRpcQueue`, `ProcessTxToRx`, `OnRx`) | mbuf pool (ownership of every mbuf) |
| DevicesAutoTrigger | `plugins/ipfix/ipfix_devices_auto_trigger.go` | `triggeredDevicesNum`, `timerTickNum`, timer | `OnEvent`, `triggerDevices`, `Delete` | timer wheel (re-arms itself), namespace (adds clients) |
| JSON-RPC handler | `external/osamingo/jsonrpc/handler.go` | none (per request); the handlers change worker state | `ServeBytes`, `InvokeMethod` | method repository, API version check |
| Counters | `core/counters.go` | counter records pointing at a component's stats | `Add` at start-up; `MarshalValues` on a counters read | all of the above |

The hard behaviours are the following:
- Timer callbacks run while `OnTick` is half-way through a bucket.
- `restart` rounds timers onto coarser levels, and the amortised drain (`cntPerIte`) spreads a bucket over `cntDiv` ticks.
- `ticksLeft` re-insertions happen from the top level.
- Tick arithmetic is `uint32`.
- For mbufs, chains can mix segments from different pools.
- The cache can be full when a chain is freed.
- Only the head keeps `pktLen`.

## Modules

### `TimerWheel.tla` (instantiated by `MCTimerWheel.tla`)

This module models `CNATimerWheel`. The table shows how the code maps to the model.

| Code | Model |
|---|---|
| the wheel and each timer's `ticksLeft`/`wheel` | the record `tw` |
| intrusive bucket lists (`cHTimerWheelLink`, `cHTimerBucket`) | the fields `next`, `prev` over the nodes (bucket heads `<<l, b>>` and timers), `count` per bucket and `root` per timer, with `Nil` for a nil pointer |
| `OnTick` | a sequence of worker steps, so that callbacks interleave with the drain |

The worker steps of `OnTick` are these:
- `BeginTick`;
- `Level0Pop` (pop and call one timer);
- `Level0Done` (`nextTick` of level 0);
- `LevelEnter` (count the bucket, fix `cntPerIte` on the bucket's first tick);
- `LevelPop` (pop and call, or `restart` with `ticksLeft`, and stop after `cntPerIte`);
- `LevelEmpty`.

Between ticks, `StartTimer` and `StopTimer` stand for rx and rpc handlers.

A popped timer's callback either does nothing, re-arms its own timer with `RearmTicks`, or stops another timer. `DevicesAutoTrigger.OnEvent` is the real example of a timer re-arming itself.

The pure helpers are operators:
- the ring surgery is `LinkAppend` and `LinkDetach` (pointer for pointer, in the code's order), with `BucketAppend`, `DecCount` and `TimerDetach` (`CHTimerObj.detach`) on top;
- `IsRunning` is `next # Nil` and `IsSelf` an empty ring, as in the code;
- `restart` is the recursive `RestartFrom`, which keeps `uint32` wrap via `Modulus`;
- `Place` is `cHTimerOneWheel.append`;
- `onTickLevelInc`;
- `utlIslog2` and `utllog2Shift`.

Two auxiliary variables measure time, and neither affects the wheel:
- `due[t]` counts the level-0 ticks left before the expiry `Start` asked for;
- `lastFire` records which timer the last step called, from which level, at what `due`, and which timers started before it for the same tick were still waiting (`ahead`);
- `order` lists the running timers in the order of their `Start` calls.

The ring representation is a bijection with FIFO sequences of timers: the two-level run has exactly as many states as it had when the buckets were sequences. `Ring(b)` walks a ring back into a sequence for the properties.

### `TimerService.tla` (abstract)

This module states what the wheel promises its users, with no buckets or levels: a set `armed` and each timer's `due`. `Arm` and `Disarm` are `Start` and `Stop`. `Fire(t, r)` may happen once `due[t] <= Resolution`, and the callback reacts with `r` as in the wheel. `Tick` passes only while no armed timer is `Resolution` or more ticks overdue. `ASpec` has weak fairness of `Progress` (a tick or a firing).

`TimerWheel` instantiates it as `TS == INSTANCE TimerService WITH armed <- {t \in Timers : IsRunning(tw, t)}`; `due` maps to itself. `Level0Done` is a `Tick`, every callback is a `Fire`, and the other steps of `OnTick` (level entry, `ticksLeft` re-insertion, counting) are stuttering steps. `TimerServiceRefined == TS!ASpec` is checked as a `PROPERTY`.

### `MbufPool.tla` (instantiated by `MCMbufPool.tla`)

This module models `MbufPoll`, `MbufPollSize` and the `Mbuf` segment operations.

- Mbufs are model values drawn from a finite heap, `Mbufs`.
- An object that is neither reachable nor cached is garbage, and `new(Mbuf)` may return it again.
- A chain is its head followed by `aux[h]`, the segments that the dlist ring links after the head.
- `held` is the set of heads that the worker holds.
- `pktLen` keeps its `uint32` wrap (`U32`, with the bit width scaled to `LenWidth`).
- Byte contents are not modelled: only the offsets and lengths that the code keeps.
- Panics that callers avoid by checking first are guards of the actions: `Prepend`/`Append` without room, `Alloc` of too large a size, and `GetContiguous` on a contiguous mbuf.
- `FreeMbuf` folds `MbufPollSize.FreeMbuf` over the chain, head first.
- The auxiliary set `wasSeg` marks mbufs that `AppendMbuf` chained since their last reset.
- `pollStats` is `MbufPoll.stats`. `GetCdb` is `MbufPoll.GetCdb`, whose `GetStats` runs `PreUpdate`: `Clear`, then `Add` of every pool's stats (`ZeroStats`, `StatsAdd`, `PreUpdate`). `MbufPoll.Cdb` is `NewMbufStatsDb` over `MbufPoll.stats`, so a counters read gets `CdbValues`, its `MarshalValues(false)`. No property is stated over it: right after `GetCdb` it is the sum of the pool counters that `InUsedAccounts` checks. (In this snapshot `MbufPoll.Init` also sets `Cdb.IOpt`, a field that `CCounterDb` in `counters.go` does not have, so the repository does not build as it is. The model leaves the assignment out.)

### `Counters.tla`

This module holds the operators of `core/counters.go` that the databases use. `MbufPool` extends it.

- A counter record is `[name, cnt, dumpZero]`. `cnt` names the field of the owner's stats that the record's `Counter` pointer points at, so a value is read from the owner's current stats.
- `IsZero` and `IsValid` are `CCounterRec.IsZero` and `IsValid`. Every modelled counter is a `*uint64`.
- `NewCCounterDb` and `CounterDbAdd` build a database. `MarshalValues` is `CCounterDb.MarshalValues(zero)`: a map from names to values, where a later record of one name overwrites an earlier one, as the Go map does.

### `VethSim.tla` (instantiated by `MCVethSim.tla`)

This module models the simulator transport `VethIFSimulator` (`core/veth.go`). It `EXTENDS MbufPool`, so the worker's own mbuf operations are all steps of the composed system (`WorkerMbuf`).

| Code | Model |
|---|---|
| `o.vec`, `o.rxvec`, `o.rpcQue` | the sequences `vec`, `rxvec` and `rpcQue` |
| `o.stats` (`VethStats`) | `vstats`, the six counters the simulator updates (`StatFields`). `RxParseErr`, `RxZmqErr` and `RxBatch` belong to the real transport and stay 0 |
| `Send` | counts one packet of `PktLen()` bytes (`CountTx`), then queues a contiguous mbuf. Otherwise it copies the chain with `GetContiguous`, frees the chain and queues the copy, in one step |
| `SendBuffer` | `Alloc` plus `Append`, then either the drop on a missing or unresolved gateway (`FreeMbuf`) or `Send`. `drop` is a free input |
| `FlushTx` | frees every queued mbuf in order. Its contiguity panic is a guard |
| `AppendSimuationRPC` | appends a request to `rpcQue`. Only tests call it, between iterations of the worker's loop |
| `SimulatorCheckRxQueue` | `handleRpcQueue` comes first: one step per request (`HandleReq`, or `HandleReqSend` when the request's handler sends a packet with `SendBuffer`), counted by `rpcDone`. Once every request is handled, `CheckTx(echo)` empties `rpcQue` and runs the DUT loop: `ProcessTxToRx` frees an mbuf (`VethSink`), or, as the `VethIFSim` contract allows, answers with it (the set `echo`). `vec` is then emptied. The `OnRx` loop is one step per answer (`RxNoReply`, `RxReply`); each counts the answer (`CountRx`). The worker runs nothing else while either loop runs (`Busy`) |
| `SimulatorCleanup` | frees `vec` and drops both vectors |

Some things are abstracted:
- `HandleRxPacket` is not in this repository. The rx path is modelled as consuming the mbuf, after a handler that may answer with `SendBuffer`.
- `HandleReq` (the thread's RPC server) is not in this repository either. A request's handler is modelled the same way: it leaves the transport alone or sends one packet with `SendBuffer`.
- The K12 monitor and capture records are output only and are left out.
- The auxiliary `out` counts the packets and bytes that left `vec` (by `FlushTx`, the DUT loop or `SimulatorCleanup`) and the DUT's answers. `rpcIn` counts the requests queued, for the bound on them.
- `MbufPool` counts only the worker's chains as reachable. The composition therefore adds the transport's mbufs (`Live`) and keeps `new(Mbuf)` from returning them.

### `RpcHandler.tla` (instantiated by `MCRpcHandler.tla`)

This module models the JSON-RPC dispatch `MethodRepository.ServeBytes` and `InvokeMethod` (`external/osamingo/jsonrpc/handler.go`).

- `ServeBytes(rs, outs)` is one call for a frame that parses into the requests `rs`. `ServeBytesParseError` is one call for a frame that does not parse.
- `InvokeMethod` is an operator: the lookup (`TakeMethod`), the API check (params that do not unmarshal, or a version other than `GetAPI()`), then the handler and the normalisation of its result and error.
- The parser, the method table and the encoder are not in this repository. A request is abstracted to its method (API-checked, registered with `noApi`, or unknown) and its API field (current, other or garbled).
- The handler's outcome is a free input. Its effect on worker state is the method appended to `applied`.

### `DevicesAutoTrigger.tla` (instantiated by `MCDevicesAutoTrigger.tla`)

This module models the IPFIX plugin's `DevicesAutoTrigger` (`plugins/ipfix/ipfix_devices_auto_trigger.go`).

- `Init` is `NewDevicesAutoTrigger` for any `devices_num`, `rampup_time`, `devices_per_site` and `sites_per_tenant` from small sets. It includes the rate computation. The code computes `devicesNum / rampupTime * 100ms` in float64 and truncates it, or its inverse, with `uint32`. TLC cannot evaluate float64, so `Uint32Quotients` gives the outcomes the build can produce. A quotient that is not a whole number truncates exactly. A whole quotient k ≥ 2 may come out one ulp low and give k − 1: 30 devices over one second give batches of 2, not 3, and 1 device over 2.1 s gets a period of 20, not 21. `Init` chooses `timerTicksTriggerPeriod` and `deviceTriggersPerTimerTick` from these sets (`TimerTicksTriggerPeriods`, `DeviceTriggersPerTimerTicks`), and they stay fixed, as in the code. Time is counted in 100 ms timer intervals, and `rampup_time` is at least 10 of them, because the code raises it to one second.
- The timer wheel is abstracted to the flag `armed`. `OnEvent` runs once per `Start`. `TimerWheel.tla` checks separately that the wheel calls every armed timer.
- `OnEvent` is the whole callback: the early return on a deleted object, the batch on every `timerTickNum % period = 0`, the tick count and the conditional re-arm.
- `triggerDevices` is the recursive `TriggerFrom`, and each `triggerDevice` is `NextIds`, the device/site/tenant roll-over. The set `devices` records the (tenant, site, device) triple each device is given. MAC, IPv4, GUID and the client and its plugin are left out.
- `Delete` only clears `init`. The armed timer still fires once into the deleted object.

## Runs

| Run | Config | Expect | What it shows |
|---|---|---|---|
| `tw_two_level` | `MCTimerWheel.cfg` | pass | Checks a two-level wheel of 4 buckets (`Level1Div` 2) with two timers, `StartTicks` {0,4,5,7,9} and re-arm {1,4}. It shows the following. (1) Every bucket stays a well-formed ring whose `count` is its length and whose timers have it as `root` (`BucketRings`). (2) `totalEvents` equals the sum of the counts and the running timers (`ActiveTimersCount`). (3) Level-0 timers fire exactly on their tick (`Level0Exact`), and in FIFO order within the bucket (`FifoLevel0`). (4) No timer fires more than `2*cntDiv(top)-1` ticks early (`NoFireBeforeResolution`) or is left that late (`NoTimerOverdue`). (5) Every `OnTick` returns (`TickCompletes`). (6) The wheel implements `TimerService` (`TimerServiceRefined`). |
| `tw_three_level` | `MCTimerWheel3.cfg` | pass | Checks the same bounds with three levels, including a 20-tick timer that parks on level 2 with `ticksLeft` and is re-inserted. |
| `tw_spec_no_early_fire` | `MCTimerWheelEarly.cfg` | violation | The spec's "no fires before nᵢ" fails for level-1 timers. |
| `tw_fifo_same_tick` | `MCTimerWheelFifo.cfg` | violation | Two timers asked to expire on the same tick, started one tick apart, fire in the reverse order of their `Start` calls. |
| `tw_rearm_same_tick` | `MCTimerWheelRearm0.cfg` | violation | A callback that re-arms its own timer with 0 ticks keeps `onTickLevel0` busy forever. |
| `tw_one_level` | `MCTimerWheel1.cfg` | violation | With `levels = 1`, a timer longer than the wheel fires after `WheelSize-1` ticks. |
| `mbuf_chain` | `MCMbufChain.cfg` | pass | Covers three objects, pools of 1 and 2 bytes, a one-entry cache, up to 4 pool operations and one-byte data operations. It shows that `InUsed` of each pool equals its reachable mbufs (`InUsedAccounts`), so `ClearCache` panics exactly on a leak, and that no mbuf is cached and live, or in two chains (`NoAliasing`). It also shows that every head that `Alloc` or `GetContiguous` returned keeps `pktLen = Σ dataLen` and `nbSegs = chain length`, with every segment inside its buffer (`ChainConsistent`, spec §8.1). |
| `mbuf_detached_head` | `MCMbufDetach.cfg` | violation | The mbuf that `DetachLast` returns fails `SanityCheck`, because its `pktLen` was not kept while it was a segment. |
| `veth_ownership` | `MCVethSim.cfg` | pass | Covers three heap objects, the two pools, one-byte data operations, up to 6 pool operations and one RPC request. Every mbuf is in exactly one place: a worker chain, `vec`, `rxvec` or a cache (`ExclusiveOwnership`). `InUsed` of each pool equals its live mbufs, so `ClearCache` after `SimulatorCleanup` panics only on a real leak (`LiveAccounts`). `TxPkts`/`TxBytes` equal the packets and data bytes that left `vec` plus those still in it, and `RxPkts`/`RxBytes` plus `rxvec` equal the DUT's answers (`StatsAccounting`). This holds through `Send`'s copy of a chain, whose `PktLen()` is read before the copy, and `SendBuffer`'s drop. |
| `rpc_dispatch` | `MCRpcHandler.cfg` | pass | Covers two frames of up to two requests, with every method kind, API field and handler outcome. Every response is a result or an error, never both (`ResultXorError`). The handlers that run are exactly those of admitted requests, in order, so an unknown method or a wrong API never changes worker state (`ControlErrorNoEffect`, spec §7). |
| `devices_trigger` | `MCDevicesAutoTrigger.cfg` | pass | Covers 1, 3, 5, 10, 12, 25 and 30 devices over ramp-ups of 1 s and 2.1 s, with every period and batch the float64 truncation can produce, with site and tenant roll-over on or off and `Delete` at any point. It shows that every device gets its own (tenant, site, device) triple (`UniqueDeviceIds`). It also shows that unless the object is deleted, the self re-arming timer keeps going until `devicesNum` devices are triggered (`AllTriggered`). |
| `devices_overshoot` | `MCDevicesOvershoot.cfg` | violation | 25 devices over one second give batches of 2, and 26 devices are created. |

### Findings

1. **Early firing (`timerw.go:471`).** `restart` rounds up to level ticks, but a level bucket is drained from the first tick it is active. A level-1 timer can therefore fire up to `2*cntDiv-1` ticks early. This contradicts spec §8.2.
2. **Re-arm with 0 (`timerw.go:422`).** `Start(t, 0)` from a level-0 callback lands in the bucket being drained. One timer doing this is enough to make `OnTick` loop forever. The spec's §4.2 says the timer is deferred to the next tick.
3. **One level (`timerw.go:479`).** `InitTW` accepts `levels = 1`, but `onTickLevel0` ignores `ticksLeft`, so long timers fire after `WheelSize-1` ticks.
4. **Stale `pktLen` (`mbuf.go:471`).** A detached segment keeps a stale `pktLen`. After Alloc, Alloc, AppendMbuf, Append and DetachLast, the returned mbuf has `dataLen 1` and `pktLen 0`.
5. **Overshoot (`ipfix_devices_auto_trigger.go:270`).** `OnEvent` triggers a whole batch without capping it at `devicesNum - triggeredDevicesNum`. The `devicesToTrigger` counter is documented as "Number of devices to trigger".
6. **Same-tick order (`timerw.go:463`).** `restart` places a level-1 timer by its own tick count, whatever the phase of the current level tick. `Start(t1, 5)` and, one tick later, `Start(t2, 4)` ask for the same tick, but t2 goes into an earlier level-1 bucket and fires first. Spec §8 says callbacks for the same expiry tick fire in insertion order. Within one level-0 bucket the order holds (`FifoLevel0`).

## Bounds and why they suffice

**Timer wheel.**
- 4 buckets with `Level1Div` 2 give `cntDiv(1) = 2` and `cntDiv(2) = 4`, so every level holds timers that need rounding and amortisation.
- The start ticks cover level 0 (0), level 1 with and without rounding (4, 5) and the top level with `ticksLeft` (7, 9, 20).
- Two timers are enough for one to start or stop the other from its callback while both sit in one bucket.
- A three-timer run was tried and ran past 5 minutes.
- The tick width is 16 bits in the passing runs, so no wrap happens there. `RestartFrom` keeps the `uint32` wrap of `ticks + (level_err-1)` (`timerw.go:463`). That wrap needs a `Start` argument within `level_err` of 2^32 and is listed as a hazard. No run checks it.
- `MinEvents = 1` makes the amortised budget bite in the two-level run. The three-level run uses `MinEvents = 2`, so a budget can outlast its bucket and `onTickLevel` leaves through the loop-exhausted path (`LevelEmpty`).

**Mbuf pool.**
- Pool sizes 1 and 2 bytes with headroom 1 keep every offset within a few values, while keeping two pools so that chains can mix them.
- A cache of one makes both the cache path and the real-free path reachable after two frees.
- The pool counters only grow, so the pool operations are bounded by a `CONSTRAINT` at 4, enough to fill the cache of one pool and free past it.
- The chain run stops exploring a detached head as soon as its `pktLen` is stale (`StaleBound = 0`). The stale head is still reached, and `mbuf_detached_head` checks it. Exploring further detach cycles from it would only move the error, and it would push the run past its time budget.
- `VIEW MCView` hides the dead fields of cached and garbage mbufs, which `resetMbuf` overwrites before any read.
- The view hides `MbufPoll.stats`. `PreUpdate` overwrites it, and no action or property reads it.
- Symmetry over the interchangeable heap objects is sound, because no property names one.

**Veth.**
- Three objects, the same two pools and a one-entry cache are enough for `Send`'s copy to pop the cache while the chain's free pushes to it.
- They are also enough for an echoed mbuf and a reply to be live together.
- Data operations move one byte (`Lens = {1}`), so the chains `Send` copies carry data and `TxBytes` is tested on them. The worker builds its packets with `Append` and `Trim`. A held mbuf whose headroom `Prepend` or `Adj` moved, or whose `pktLen` is stale (the `mbuf_detached_head` case), is not explored further (`VethConstraint`).
- Pool operations are bounded at 6, and one RPC request is queued. With one request, a queue emptied before the loop reaches the request already loses it. A second request or 8 operations would take the run past its time budget.
- No action reads the counters or the auxiliaries. `StatsAccounting` depends only on their differences, so `MCView` keeps those differences instead of the ever-growing totals.

**RPC.**
- One method of each kind and batches of two are enough: an admitted request and a rejected one can share a frame.
- Two frames show that `applied` records only the last frame's admitted handlers.

**DevicesAutoTrigger.**
- `devices_num` ∈ {1, 3, 5, 10, 12, 25, 30} with ramp-ups of 10 and 21 intervals covers the cases that differ:
  - fewer devices than ticks, with a period (3, 5);
  - exactly one device per tick (10);
  - a truncated rate of one per tick (12), where the ramp-up takes 12 intervals instead of 10. The code documents `rampupTime` only as a counter's help text, so this is listed as a hazard rather than checked;
  - a batch of 2 that does not divide the total (25);
  - a whole rate of 3 per tick that float64 may truncate to 2 (30 over 10), and a whole period of 21 that may truncate to 20 (1 over 21).
- Any other ramp-up only scales these cases.
- `devices_per_site` and `sites_per_tenant` ∈ {0, 2} cover no roll-over, device roll-over and tenant roll-over.

## Fairness

`OnTick` is called by the worker's main loop on every tick, and it runs to completion on the worker thread. `Spec` therefore assumes weak fairness of the worker's steps (`WF_vars(Worker)`). Handlers that call `Start`/`Stop` need not run. `TimerService` asks only for weak fairness of `Progress` (some tick or firing), which the worker's fairness gives: every `OnTick` returns and contains one `Level0Done`. The mbuf model has no liveness property and no fairness. `DevicesAutoTrigger` assumes weak fairness of `OnEvent`: an armed timer is eventually called. The wheel run shows this for every armed timer (`TickCompletes`, `NoTimerOverdue`). `Delete` is an RPC and need not happen.

## Not modelled, and why

- **The rest of `counters.go`, and the CLI.** `CCounterDbVec` is built once at start-up and marshals each of its databases with the same `MarshalValues`. `MarshalMeta`, `Dump` and `GetValAsString` only format. The float kinds of `IsZero` are not used by any modelled database. The CLI is flag parsing and I/O. `NewVethStatsDb` is not modelled. `VethIFSimulator.GetCdb` only returns a database over the live `o.stats`, and it changes no state. The values it reports are the counters that `StatsAccounting` already checks against the traffic.
- **Timer-wheel helpers.** `RefreshTimer` panics "not implemented". `cHTimerOneWheel.detachAll` is never called. The dump and counter helpers only read state.
- **Mbuf bytes.** Byte contents, `DeepClone`, the K12/hex dumps, `DumpStats`/`HitRate` and the per-pool database vector `Cdbv` are not modelled. No property depends on the bytes.
- **`dlist.go`.** The dlist ring code is not in this repository. Detaching a single-segment mbuf depends on it and is left out.
- **Timer-wheel misconfiguration.** `InitTW` with `level1Div > size` or `levels = 0` crashes at once (a division by zero or a bad index). The modules `ASSUME` valid arguments.

## Plan

The list is in order of importance:
1. **Veth ordering.** Check that tx order equals `Send` order (spec §5).
2. **DevicesAutoTrigger with `TimerWheel`.** Compose the plugin with the wheel instead of the `armed` flag.
3. **Tick wrap.** A run with a narrow tick width for the `uint32` wrap of `restart` (`timerw.go:463`); it needs a run of its own.
