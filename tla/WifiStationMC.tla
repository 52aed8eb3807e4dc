--------------------------- MODULE WifiStationMC ---------------------------
(* Networks for WifiStation: one that can be tested, beside the device's own. *)
EXTENDS WifiStation

Guest      == {"guest"}
Everywhere == {"default", "fallback", "guest"}
=============================================================================
