------------------------- MODULE DevicesAutoTrigger -------------------------
(***************************************************************************)
(* The IPFIX DevicesAutoTrigger of                                         *)
(* src/emu/plugins/ipfix/ipfix_devices_auto_trigger.go: it ramps up        *)
(* devicesNum emulated devices over rampupTime by re-arming a timer every  *)
(* rampupTimerInterval (100 ms) and triggering a batch of devices on some  *)
(* of those ticks.                                                         *)
(*                                                                         *)
(* Time is counted in timer intervals: Rampup is rampupTime divided by     *)
(* 100 ms (at least 10, as rampupTime is raised to one second).  The timer *)
(* wheel is abstracted to the flag armed: OnEvent runs once per Start.     *)
(* A device is the triple (tenant, site, device) it is given; MAC, IPv4,   *)
(* GUID, the client and its IPFIX plugin are left out.                     *)
(***************************************************************************)
EXTENDS Naturals, FiniteSets

CONSTANTS
  DevicesNums,     \* devices_num values of the init JSON
  Rampups,         \* rampup_time values, in 100 ms timer intervals
  DevicesPerSite,  \* devices_per_site values
  SitesPerTenant   \* sites_per_tenant values

ASSUME /\ DevicesNums \subseteq Nat \ {0}
       /\ Rampups \subseteq Nat /\ \A r \in Rampups : r >= 10
       /\ DevicesPerSite \subseteq Nat /\ SitesPerTenant \subseteq Nat

VARIABLES
  devicesNum, rampup, devicesPerSite, sitesPerTenant,  \* parameters
  timerTicksTriggerPeriod,     \* p.timerTicksTriggerPeriod, set once
  deviceTriggersPerTimerTick,  \* p.deviceTriggersPerTimerTick, set once
  init,                 \* p.init
  armed,                \* p.timer is running in the wheel
  triggeredDevicesNum,
  timerTickNum,
  currTenantId, currSiteId, currDeviceId,
  devices               \* the (tenant, site, device) triples triggered

params == <<devicesNum, rampup, devicesPerSite, sitesPerTenant,
           timerTicksTriggerPeriod, deviceTriggersPerTimerTick>>
vars == <<params, init, armed, triggeredDevicesNum, timerTickNum,
          currTenantId, currSiteId, currDeviceId, devices>>

-----------------------------------------------------------------------------
(* uint32 of the float64 quotient p / q.  devicesNum / rampupTime * 100ms *)
(* is computed in float64 (rampupTime in ns), and the quotient or its     *)
(* inverse can come out one ulp below a whole number k and truncate to    *)
(* k - 1 (30 devices over 1 s give 2, not 3, per tick; 1 device over     *)
(* 2.1 s gives a period of 20, not 21).  A quotient that is not whole is  *)
(* at least 1/q away from one and truncates exactly.                      *)
Uint32Quotients(p, q) ==
  IF p % q = 0 /\ p \div q >= 2 THEN {p \div q, p \div q - 1} ELSE {p \div q}

(* NewDevicesAutoTrigger: below one device per tick, trigger one device  *)
(* every uint32(1/devTriggersPerTick) ticks, otherwise                    *)
(* uint32(devTriggersPerTick) devices on every tick.                      *)
TimerTicksTriggerPeriods(n, r)    == IF n < r THEN Uint32Quotients(r, n) ELSE {1}
DeviceTriggersPerTimerTicks(n, r) == IF n < r THEN {1} ELSE Uint32Quotients(n, r)

(* triggerDevice: the site/tenant counters after one more device.          *)
(* Mutant: the site counter rolls over without advancing the tenant.      *)
NextIdsNoTenant(t, s, d) ==
  IF devicesPerSite # 0 /\ (d + 1) % devicesPerSite = 0
  THEN IF sitesPerTenant # 0 /\ (s + 1) % sitesPerTenant = 0
       THEN <<t, 0, 0>>
       ELSE <<t, s + 1, 0>>
  ELSE <<t, s, d + 1>>

(* Mutant: the device counter rolls over one device late.                 *)
NextIdsLateRoll(t, s, d) ==
  IF devicesPerSite # 0 /\ d % devicesPerSite = 0 /\ d # 0
  THEN IF sitesPerTenant # 0 /\ (s + 1) % sitesPerTenant = 0
       THEN <<t + 1, 0, 0>>
       ELSE <<t, s + 1, 0>>
  ELSE <<t, s, d + 1>>

NextIds(t, s, d) ==
  IF devicesPerSite # 0 /\ (d + 1) % devicesPerSite = 0
  THEN IF sitesPerTenant # 0 /\ (s + 1) % sitesPerTenant = 0
       THEN <<t + 1, 0, 0>>
       ELSE <<t, s + 1, 0>>
  ELSE <<t, s, d + 1>>

(* triggerDevices(k): k calls of triggerDevice, from ids <<t, s, d>>;      *)
(* returns the triples given out and the ids after the last one.          *)
RECURSIVE TriggerFrom(_, _)
TriggerFrom(k, ids) ==
  IF k = 0 THEN [given |-> {}, ids |-> ids]
  ELSE LET rest == TriggerFrom(k - 1, NextIds(ids[1], ids[2], ids[3]))
       IN [given |-> {ids} \cup rest.given, ids |-> rest.ids]

(* Mutant: OnEvent stops re-arming one batch early.                       *)
RearmNeededEarly(triggered) ==
  triggered + deviceTriggersPerTimerTick < devicesNum

(* OnEvent re-arms while fewer than devicesNum devices were triggered.     *)
RearmNeeded(triggered) == triggered < devicesNum

-----------------------------------------------------------------------------
(* NewDevicesAutoTrigger with any valid init JSON: the timer is started.  *)
Init ==
  /\ devicesNum \in DevicesNums
  /\ rampup \in Rampups
  /\ devicesPerSite \in DevicesPerSite
  /\ sitesPerTenant \in SitesPerTenant
  /\ timerTicksTriggerPeriod \in TimerTicksTriggerPeriods(devicesNum, rampup)
  /\ deviceTriggersPerTimerTick \in DeviceTriggersPerTimerTicks(devicesNum, rampup)
  /\ init = TRUE
  /\ armed = TRUE
  /\ triggeredDevicesNum = 0
  /\ timerTickNum = 0
  /\ currTenantId = 0 /\ currSiteId = 0 /\ currDeviceId = 0
  /\ devices = {}

(* The wheel calls OnEvent for the armed timer.                           *)
OnEvent ==
  /\ armed
  /\ IF ~init
     THEN /\ armed' = FALSE
          /\ UNCHANGED <<params, init, triggeredDevicesNum, timerTickNum,
                         currTenantId, currSiteId, currDeviceId, devices>>
     ELSE LET k    == IF timerTickNum % timerTicksTriggerPeriod = 0
                      THEN deviceTriggersPerTimerTick
                      ELSE 0
              r    == TriggerFrom(k, <<currTenantId, currSiteId, currDeviceId>>)
              trig == triggeredDevicesNum + k
          IN /\ triggeredDevicesNum' = trig
             /\ devices' = devices \cup r.given
             /\ currTenantId' = r.ids[1]
             /\ currSiteId' = r.ids[2]
             /\ currDeviceId' = r.ids[3]
             /\ timerTickNum' = timerTickNum + 1
             /\ armed' = RearmNeeded(trig)
             /\ UNCHANGED <<params, init>>

(* Delete only clears init; the timer stays armed.                        *)
Delete ==
  /\ init
  /\ init' = FALSE
  /\ UNCHANGED <<params, armed, triggeredDevicesNum, timerTickNum,
                 currTenantId, currSiteId, currDeviceId, devices>>

Next == OnEvent \/ Delete

Spec == Init /\ [][Next]_vars /\ WF_vars(OnEvent)

-----------------------------------------------------------------------------
(* Properties.                                                             *)

TypeOK ==
  /\ init \in BOOLEAN /\ armed \in BOOLEAN
  /\ timerTicksTriggerPeriod \in Nat \ {0}
  /\ deviceTriggersPerTimerTick \in Nat \ {0}
  /\ triggeredDevicesNum \in Nat /\ timerTickNum \in Nat
  /\ currTenantId \in Nat
  /\ currSiteId \in IF sitesPerTenant = 0 THEN Nat ELSE 0..(sitesPerTenant - 1)
  /\ currDeviceId \in IF devicesPerSite = 0 THEN Nat ELSE 0..(devicesPerSite - 1)
  /\ devices \subseteq Nat \X Nat \X Nat

(* Every device triggerDevice creates gets its own (tenant, site, device) *)
(* triple, through the roll-over of the device and site counters.         *)
UniqueDeviceIds == Cardinality(devices) = triggeredDevicesNum

(* Unless the object is deleted, the re-armed timer keeps firing until    *)
(* devicesNum devices have been triggered.                                *)
AllTriggered == <>(triggeredDevicesNum >= devicesNum \/ ~init)

(* No more devices than devices_num ("Number of devices to trigger") are  *)
(* triggered.                                                              *)
NoOvershoot == triggeredDevicesNum <= devicesNum

====
