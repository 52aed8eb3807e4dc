---------------------------- MODULE WatchdogMC ----------------------------
(* The two watchdogs of the firmware, and a third that finds no room. *)
EXTENDS Watchdog

ThreeIds == {"mqtt", "reboot", "spare"}
McKind(id) == IF id = "mqtt" THEN "NETWORK_RESTART" ELSE "REBOOT"
McTimeout(id) == IF id = "mqtt" THEN 2 ELSE 4
Forward == {1}
=============================================================================
