------------------------ MODULE MCDevicesAutoTrigger ------------------------
(* Ramp-ups of one second (10 timer intervals) for device counts below,   *)
(* at, and above one device per interval, with and without whole batches, *)
(* a whole rate of three per interval that float64 may truncate to two,   *)
(* a 2.1 s ramp-up whose period of 21 ticks per device may truncate to    *)
(* 20, and site/tenant roll-over after two devices and two sites.         *)
EXTENDS DevicesAutoTrigger

MCDevicesNums == {1, 3, 5, 10, 12, 25, 30}
MCRampups == {10, 21}
MCPerSite == {0, 2}
MCPerTenant == {0, 2}
====
