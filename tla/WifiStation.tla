------------------------------ MODULE WifiStation ------------------------------
(***************************************************************************)
(* The Wi-Fi station of modules/wifi.c: the SDK's events and the delayed    *)
(* reconnection, the background scanner that looks for the fallback         *)
(* network, the test of a new network (wifi_test_ssid_pwd), the temporary   *)
(* fallback access point of user/mqtt_rpc.c, the firmware update that stops *)
(* the scanner (user/ota.c), and the reset by the network watchdog          *)
(* (user/watchdog.c).  The SDK's station is modelled from the      *)
(* calls and the event handler of wifi.c: an event is handled some time     *)
(* after what it reports.                                                   *)
(*                                                                         *)
(* A timer is armed or not, and an armed one may fire at any time, but for  *)
(* two whose seconds outlast the handling of the events before them.        *)
(***************************************************************************)
EXTENDS Naturals, Sequences, FiniteSets

CONSTANTS
  TestSsids,   \* networks a test can be asked for
  Air,         \* networks that can be on the air
  EventMax,    \* bound: SDK events pending
  MaxTests,    \* bound: tests and firmware updates asked for
  MaxRpc,      \* bound: fallback access points and set_ssid_pwd requests
  MaxResets,   \* bound: resets by the watchdog
  MaxFaults    \* bound: what goes wrong on the air and in the SDK

\* sys_cfg.sta_ssid, STA_FALLBACK_SSID, and the empty saved_ssid of a device
\* that has run no test.
Default  == "default"
Fallback == "fallback"
NoSsid   == "none"
Ssids    == {Default, Fallback, NoSsid} \cup TestSsids

ASSUME BoundsAssumption ==
  /\ Air \subseteq Ssids \ {NoSsid} /\ NoSsid \notin TestSsids
  /\ EventMax \in Nat \ {0}
  /\ {MaxTests, MaxRpc, MaxResets, MaxFaults} \subseteq Nat

VARIABLES
  conf,        \* the SSID of wifi_station_get_config
  sta,         \* the SDK's station
  radioOn,     \* the operating mode has the station interface
  events,      \* SDK events not yet handled
  air,         \* the networks on the air
  sdkScan,     \* the SDK's scan: its callback is ours, or was replaced by NULL
  timers,      \* the armed timers
  my_auto_connect, radio_busy,   \* and radio_busy_connecting
  scanning,    \* wifi_scan_runnning
  fb,          \* wifi_fallback_last_present, _active, _mqtt_connected
  misses,      \* fallback_miss_count
  status5,     \* wifi_default_status = STATION_GOT_IP
  test,        \* wifi_test_ctx
  fallback_ap_is_running,
  told,        \* what wifi_cb last told the application: connect or disconnect
  updating,    \* ota_in_progress
  tests, rpcs, resets, faults   \* counters for the bounds

sdk    == <<conf, sta, radioOn, events>>
scan   == <<scanning, sdkScan, fb, misses>>
flags  == <<my_auto_connect, radio_busy>>
report == <<status5, told>>
bounds == <<tests, rpcs, resets, faults>>
vars   == <<sdk, air, updating, scan, timers, flags, report, test, fallback_ap_is_running,
            bounds>>

TimerNames == {"scan", "scanTimeout", "reconnect", "testStart", "testTimeout",
               "wifiReconnect", "fallbackAp", "wifiDefault"}

Fault(b) == IF b THEN faults < MaxFaults /\ faults' = faults + 1
                 ELSE UNCHANGED faults

-----------------------------------------------------------------------------
(* The SDK's station *)

\* wifi_station_disconnect, with q the events pending: it is reported with
\* REASON_ASSOC_LEAVE.
Left(q) == IF sta = "idle" THEN q ELSE Append(q, "leave")

Room(q) == Len(q) < EventMax

\* wifi_station_disconnect, a configuration for ssid, wifi_station_connect.
Rejoin(ssid, q, on) ==
  /\ Room(q) /\ conf' = ssid /\ events' = Left(q)
  /\ sta' = IF on THEN "joining" ELSE "idle"

\* The station found the network and associated.
Associate ==
  /\ sta = "joining" /\ conf \in air /\ Room(events)
  /\ sta' = "associated" /\ events' = Append(events, "connected")
  /\ UNCHANGED <<conf, radioOn, air, updating, scan, timers, flags, report, test,
                 fallback_ap_is_running, bounds>>

\* DHCP gave the station an address, perhaps after its timeout.
GetIp ==
  /\ sta \in {"associated", "noip"} /\ Room(events)
  /\ sta' = "up" /\ events' = Append(events, "gotip")
  /\ UNCHANGED <<conf, radioOn, air, updating, scan, timers, flags, report, test,
                 fallback_ap_is_running, bounds>>

\* The attempt failed or the network went away: EVENT_STAMODE_DISCONNECTED
\* with a reason other than REASON_ASSOC_LEAVE.
LoseNetwork ==
  /\ sta # "idle" /\ Room(events) /\ Fault(conf \in air)
  /\ sta' = "idle" /\ events' = Append(events, "lost")
  /\ UNCHANGED <<conf, radioOn, air, updating, scan, timers, flags, report, test,
                 fallback_ap_is_running, tests, rpcs, resets>>

\* EVENT_STAMODE_DHCP_TIMEOUT
DhcpTimeout ==
  /\ sta = "associated" /\ Room(events) /\ Fault(TRUE)
  /\ sta' = "noip" /\ events' = Append(events, "dhcp")
  /\ UNCHANGED <<conf, radioOn, air, updating, scan, timers, flags, report, test,
                 fallback_ap_is_running, tests, rpcs, resets>>

AirChanges ==
  /\ Fault(TRUE)
  /\ \E n \in Air : air' = IF n \in air THEN air \ {n} ELSE air \cup {n}
  /\ UNCHANGED <<sdk, updating, scan, timers, flags, report, test,
                 fallback_ap_is_running, tests, rpcs, resets>>

-----------------------------------------------------------------------------
(* Switching networks *)

FbReset == [last |-> FALSE, active |-> FALSE, mqtt |-> FALSE]

\* wifi_default and wifi_fallback, on the fallback state f and pending events q.
\* my_auto_connect is false only while they run.
WifiDefault(f, q) ==
  /\ Rejoin(Default, q, TRUE) /\ radioOn' = TRUE
  /\ my_auto_connect' = TRUE /\ radio_busy' = TRUE
  /\ fb' = [f EXCEPT !.active = FALSE, !.mqtt = FALSE]

WifiFallback(f, q) ==
  /\ Rejoin(Fallback, q, TRUE) /\ radioOn' = TRUE
  /\ my_auto_connect' = TRUE /\ radio_busy' = TRUE
  /\ fb' = [f EXCEPT !.active = TRUE, !.mqtt = FALSE]

\* The configuration saved when the test was asked for.
Restored == test.saved

\* A mutation of Resumed: the scanner stays stopped.
ResumedNever == timers \ {"testTimeout"}

\* The scanner starts again unless the fallback access point runs.
Resumed == (timers \ {"testTimeout"})
           \cup (IF fallback_ap_is_running THEN {} ELSE {"scan"})

\* wifi_test_timeout_timer_func, apart from the result.
TestEnd(q) ==
  /\ Rejoin(Restored, q, radioOn) /\ radioOn' = (radioOn \/ fallback_ap_is_running)
  /\ my_auto_connect' = TRUE /\ radio_busy' = TRUE
  /\ timers' = Resumed
  /\ fb' = IF fallback_ap_is_running THEN fb ELSE FbReset

-----------------------------------------------------------------------------
(* wifi_handle_event_cb, on the first event, with q the events after it *)

\* A disconnected station with automatic reconnection: it is disconnected again
\* and connected after a delay.
ReconnectLater(q) ==
  IF my_auto_connect
  THEN /\ sta' = "idle" /\ events' = Left(q) /\ timers' = timers \cup {"reconnect"}
  ELSE UNCHANGED <<sta, timers>> /\ events' = q

OnDisconnected(e, q) ==
  /\ ReconnectLater(q) /\ radio_busy' = FALSE
  /\ status5' \in IF conf # Default THEN {status5}
                  ELSE IF e = "leave" THEN {FALSE} ELSE BOOLEAN
  /\ told' = "disconnect" /\ UNCHANGED <<conf, radioOn, fb, my_auto_connect>>

OnDhcpTimeout(q) ==
  /\ ReconnectLater(q) /\ radio_busy' = FALSE
  /\ status5' \in IF conf = Default THEN BOOLEAN ELSE {status5}
  /\ UNCHANGED <<conf, radioOn, told, fb, my_auto_connect>>

\* disconnected.reason of another event's union is not a reason.
OnConnected(q) ==
  /\ events' = q /\ status5' \in IF conf = Default THEN BOOLEAN ELSE {status5}
  /\ UNCHANGED <<conf, sta, radioOn, timers, flags, told, fb>>

\* A mutation of GotIpTells: only the first connection is announced.
GotIpTellsOnce == told' = told

\* wifi_cb(wifi_status): the status is that of the moment, not of the event.
GotIpTells ==
  told' \in IF sta = "up" THEN {"connect"}
            ELSE IF sta = "idle" THEN {"disconnect", told} ELSE {told}

OnGotIp(q) ==
  /\ events' = q /\ radio_busy' = FALSE /\ GotIpTells
  /\ status5' \in IF conf = Default THEN BOOLEAN ELSE {status5}
  /\ fb' = IF conf = Default THEN [fb EXCEPT !.active = FALSE, !.mqtt = FALSE]
           ELSE IF conf = Fallback THEN [fb EXCEPT !.active = TRUE] ELSE fb
  /\ UNCHANGED <<conf, sta, radioOn, my_auto_connect>>

\* The test's own part of the handler comes first: a GOT_IP is a success that
\* is held for a while, a loss is a failure that ends the test at once.
HandleTestEvent(e, q) ==
  \/ /\ e = "gotip" /\ OnGotIp(q)
     /\ timers' = timers \cup {"testTimeout"}
     /\ test' = [test EXCEPT !.is_testing = FALSE]
  \/ /\ e = "lost" /\ TestEnd(q)
     /\ test' = [test EXCEPT !.is_testing = FALSE]
     /\ UNCHANGED report
  \/ /\ e = "leave" /\ OnDisconnected(e, q)
     /\ UNCHANGED test
  \/ /\ e \in {"connected", "dhcp"} /\ events' = q
     /\ UNCHANGED <<conf, sta, radioOn, timers, flags, report, fb, test>>

HandleEvent(e, q) ==
  \/ e = "connected" /\ OnConnected(q)
  \/ e = "gotip" /\ OnGotIp(q) /\ UNCHANGED timers
  \/ e = "dhcp" /\ OnDhcpTimeout(q)
  \/ e \in {"lost", "leave"} /\ OnDisconnected(e, q)

Event ==
  /\ events # <<>>
  /\ \/ test.is_testing /\ HandleTestEvent(Head(events), Tail(events))
     \/ ~test.is_testing /\ HandleEvent(Head(events), Tail(events)) /\ UNCHANGED test
  /\ UNCHANGED <<air, updating, scanning, sdkScan, misses, fallback_ap_is_running, bounds>>

\* A mutation of Deferred: a scan drops the reconnection.
DeferredNever == timers \ {"reconnect"}

Deferred == timers

\* delayed_reconnect_timer_func.  Connecting a connected station is ignored.  The
\* delay of three seconds outlasts the handling of the events before it.
ReconnectTimer ==
  /\ "reconnect" \in timers /\ events = <<>>
  /\ IF my_auto_connect /\ ~scanning
     THEN /\ timers' = timers \ {"reconnect"} /\ radio_busy' = TRUE
          /\ sta' = IF sta = "idle" /\ radioOn THEN "joining" ELSE sta
     ELSE /\ timers' = IF my_auto_connect THEN Deferred ELSE timers \ {"reconnect"}
          /\ UNCHANGED <<radio_busy, sta>>
  /\ UNCHANGED <<conf, radioOn, events, air, updating, scan, my_auto_connect, report, test,
                 fallback_ap_is_running, bounds>>

-----------------------------------------------------------------------------
(* The background scanner *)

\* wifi_scan_timer_func.  While the SDK scans it refuses another scan, and the
\* wrapper of wifi_station_scan then forgets the callback of the first.  The
\* pause between scans outlasts the handling of events.
ScanTimer ==
  /\ "scan" \in timers /\ events = <<>>
  /\ IF scanning THEN timers' = timers \ {"scan"} /\ UNCHANGED <<scanning, sdkScan, faults>>
     ELSE IF radio_busy THEN UNCHANGED <<timers, scanning, sdkScan, faults>>
     ELSE \/ /\ sdkScan = "none" /\ sdkScan' = "ours" /\ scanning' = TRUE
             /\ timers' = (timers \ {"scan"}) \cup {"scanTimeout"} /\ UNCHANGED faults
          \/ /\ sdkScan' = IF sdkScan = "none" THEN "none" ELSE "orphan"
             /\ Fault(sdkScan = "none")
             /\ timers' = timers \cup {"scanTimeout"} /\ UNCHANGED scanning
  /\ UNCHANGED <<sdk, air, updating, fb, misses, flags, report, test,
                 fallback_ap_is_running, tests, rpcs, resets>>

ScanAgain == (timers \ {"scanTimeout"}) \cup {"scan"}

\* wifi_scan_timeout_timer_func
ScanTimeout ==
  /\ "scanTimeout" \in timers /\ scanning' = FALSE /\ timers' = ScanAgain
  /\ UNCHANGED <<sdk, air, updating, sdkScan, fb, misses, flags, report, test,
                 fallback_ap_is_running, bounds>>

\* The SDK drops a scan without a callback.
ScanLost ==
  /\ sdkScan # "none" /\ sdkScan' = "none" /\ Fault(TRUE)
  /\ UNCHANGED <<sdk, air, updating, scanning, fb, misses, timers, flags, report, test,
                 fallback_ap_is_running, tests, rpcs, resets>>

MissedOut == misses >= 2

\* What wifi_scan_done_cb does with the networks found: join the fallback
\* network when it appears, leave it after three scans without it.
Evaluate(found) ==
  LET present == Fallback \in found /\ ~fb.active
  IN \/ /\ present /\ ~fb.last /\ misses' = 0
        /\ WifiFallback([fb EXCEPT !.last = TRUE], events)
     \/ /\ present /\ fb.last /\ misses' = 0
        /\ IF ~fb.mqtt /\ ~(conf = Fallback /\ sta = "up") THEN WifiFallback(fb, events)
           ELSE UNCHANGED <<sdk, fb, flags>>
     \/ /\ ~present /\ fb.last /\ MissedOut /\ misses' = 0
        /\ WifiDefault([fb EXCEPT !.last = FALSE], events)
     \/ /\ ~present /\ ~(fb.last /\ MissedOut)
        /\ misses' = misses + (IF fb.last THEN 1 ELSE 0)
        /\ UNCHANGED <<sdk, fb, flags>>

\* wifi_scan_done_cb: it is ignored when the scan was given up meanwhile.
ScanDone(found, ok) ==
  /\ sdkScan # "none" /\ sdkScan' = "none"
  /\ IF sdkScan = "orphan" \/ ~scanning
     THEN UNCHANGED <<sdk, scanning, fb, misses, timers, flags>>
     ELSE /\ scanning' = FALSE
          /\ timers' = ScanAgain
          /\ IF ok THEN Evaluate(found) ELSE UNCHANGED <<sdk, fb, misses, flags>>
  /\ UNCHANGED <<air, updating, report, test, fallback_ap_is_running, tests, rpcs, resets>>

\* The SDK calls back with the networks on the air, without one of them, or with
\* an error.
ScanResult ==
  \/ ScanDone(air, TRUE) /\ UNCHANGED faults
  \/ \E n \in air : ScanDone(air \ {n}, TRUE) /\ Fault(TRUE)
  \/ ScanDone({}, FALSE) /\ Fault(TRUE)

-----------------------------------------------------------------------------
(* Requests of mqtt_rpc.c: they arrive over a connection in use *)

Reachable == sta = "up" /\ told = "connect" /\ events = <<>>

\* mqtt_data_cb ignores requests during an update.
TakesRpc == Reachable /\ ~updating

StopScan == scanning' = FALSE

\* wifi_test_ssid_pwd
TestRequest(ssid) ==
  /\ TakesRpc /\ tests < MaxTests /\ tests' = tests + 1
  /\ IF (test.is_testing \/ status5) /\ conf = ssid
     THEN /\ timers' = (timers \ {"testTimeout"})
                       \cup (IF status5 THEN {"testTimeout"} ELSE {})
          /\ UNCHANGED <<scanning, test>>
     ELSE IF test.is_testing THEN UNCHANGED <<timers, scanning, test>>
     ELSE /\ StopScan
          /\ timers' = (timers \ {"scan", "scanTimeout"}) \cup {"testStart"}
          /\ test' = [is_testing |-> TRUE, saved |-> conf, target |-> ssid]
  /\ UNCHANGED <<sdk, air, updating, sdkScan, fb, misses, flags, report,
                 fallback_ap_is_running, rpcs, resets, faults>>

\* A mutation of TestStarted: the test has no timeout.
TestStartedForever == timers \ {"testStart"}

TestStarted == (timers \ {"testStart"}) \cup {"testTimeout"}

\* wifi_test_start_timer_func
TestStart ==
  /\ "testStart" \in timers /\ timers' = TestStarted
  /\ Rejoin(test.target, events, radioOn) /\ UNCHANGED radioOn
  /\ my_auto_connect' = FALSE /\ radio_busy' = TRUE
  /\ UNCHANGED <<air, updating, scan, report, test, fallback_ap_is_running, bounds>>

\* wifi_test_timeout_timer_func
TestTimeout ==
  /\ "testTimeout" \in timers /\ TestEnd(events)
  /\ test' = [test EXCEPT !.is_testing = FALSE]
  /\ UNCHANGED <<air, updating, scanning, sdkScan, misses, report,
                 fallback_ap_is_running, bounds>>

\* fallback_ap_timer_func
FallbackApEnds ==
  /\ fallback_ap_is_running' = FALSE /\ radioOn' = TRUE
  /\ timers' = (timers \ {"fallbackAp"}) \cup {"scan"} /\ UNCHANGED scanning

FallbackApTimer ==
  /\ "fallbackAp" \in timers /\ FallbackApEnds
  /\ UNCHANGED <<conf, sta, events, air, updating, sdkScan, fb, misses, flags, report,
                 test, bounds>>

\* mqtt_rpc_start_fallback_ap: started, stopped (a time of 0) or extended.
FallbackApRequest ==
  /\ TakesRpc /\ rpcs < MaxRpc /\ rpcs' = rpcs + 1
  /\ \/ /\ fallback_ap_is_running /\ FallbackApEnds
     \/ /\ ~fallback_ap_is_running
        /\ fallback_ap_is_running' = TRUE /\ radioOn' = TRUE /\ StopScan
        /\ timers' = (timers \ {"scan", "scanTimeout"}) \cup {"fallbackAp"}
  /\ UNCHANGED <<conf, sta, events, air, updating, sdkScan, fb, misses, flags, report,
                 test, tests, resets, faults>>

\* mqtt_rpc_set_ssid_pwd, once the configuration is saved.
SetSsidPwd ==
  /\ TakesRpc /\ rpcs < MaxRpc /\ rpcs' = rpcs + 1
  /\ timers' = timers \cup {"wifiDefault"}
  /\ UNCHANGED <<sdk, air, updating, scan, flags, report, test, fallback_ap_is_running,
                 tests, resets, faults>>

\* delayed_wifi_default_cb
WifiDefaultTimer ==
  /\ "wifiDefault" \in timers /\ timers' = timers \ {"wifiDefault"}
  /\ WifiDefault(fb, events)
  /\ UNCHANGED <<air, updating, scanning, sdkScan, misses, report, test,
                 fallback_ap_is_running, bounds>>

\* start_ota_update
UpdateStarts ==
  /\ TakesRpc /\ tests < MaxTests /\ tests' = tests + 1
  /\ updating' = TRUE /\ StopScan /\ timers' = timers \ {"scan", "scanTimeout"}
  /\ UNCHANGED <<sdk, air, sdkScan, fb, misses, flags, report, test,
                 fallback_ap_is_running, rpcs, resets, faults>>

\* What the end of an update without a new image leaves alone.
UpdateEnds ==
  /\ updating /\ updating' = FALSE
  /\ UNCHANGED <<sdk, air, scan, flags, report, test, fallback_ap_is_running, bounds>>

\* ota_fail_update.  An update that succeeds restarts the device, which is not
\* followed here.
UpdateFails == UpdateEnds /\ timers' = timers \cup {"scan"}

\* ota_trigger_reconnect with no retry left: it does not start the scanner.
UpdateGivesUp == UpdateEnds /\ UNCHANGED timers

\* mqtt_connected_cb
MqttConnected ==
  /\ Reachable /\ fb' = [fb EXCEPT !.mqtt = fb.active]
  /\ UNCHANGED <<sdk, air, updating, scanning, sdkScan, misses, timers, flags, report, test,
                 fallback_ap_is_running, bounds>>

\* mqtt_disconnected_cb
MqttDisconnected ==
  /\ fb.active /\ fb.mqtt /\ fb' = [fb EXCEPT !.mqtt = FALSE]
  /\ UNCHANGED <<sdk, air, updating, scanning, sdkScan, misses, timers, flags, report,
                 test, fallback_ap_is_running, bounds>>

-----------------------------------------------------------------------------
(* The network watchdog: user/watchdog.c *)

\* force_reset_wifi
ForceReset ==
  /\ Room(events) /\ resets < MaxResets /\ resets' = resets + 1
  /\ StopScan /\ my_auto_connect' = FALSE
  /\ sta' = "idle" /\ events' = Left(events) /\ radioOn' = FALSE
  /\ timers' = (timers \ {"scan", "scanTimeout"}) \cup {"wifiReconnect"}
  /\ UNCHANGED <<conf, air, updating, sdkScan, fb, misses, radio_busy, report, test,
                 fallback_ap_is_running, tests, rpcs, faults>>

\* wifi_default, wifi_fallback_force_reset_state and wifi_start_scan.
ResetEnds ==
  /\ WifiDefault(FbReset, events)
  /\ timers' = (timers \ {"wifiReconnect"}) \cup {"scan"}

\* wifi_reconnect_timer_func, armed again while the scanner runs.
WifiReconnectTimer ==
  /\ "wifiReconnect" \in timers
  /\ IF scanning THEN UNCHANGED <<sdk, fb, timers, flags>> ELSE ResetEnds
  /\ UNCHANGED <<air, updating, scanning, sdkScan, misses, report, test,
                 fallback_ap_is_running, bounds>>

-----------------------------------------------------------------------------
\* wifi_connect, called once the meter has answered.
Init ==
  /\ conf = Default /\ sta = "joining" /\ radioOn = TRUE /\ events = <<>>
  /\ air \in SUBSET Air /\ sdkScan = "none" /\ timers = {"scan"}
  /\ my_auto_connect = TRUE /\ radio_busy = TRUE /\ scanning = FALSE
  /\ fb = FbReset /\ misses = 0 /\ status5 = FALSE
  /\ test = [is_testing |-> FALSE, saved |-> NoSsid, target |-> NoSsid]
  /\ fallback_ap_is_running = FALSE /\ told = "disconnect" /\ updating = FALSE
  /\ tests = 0 /\ rpcs = 0 /\ resets = 0 /\ faults = 0

TimerFires == ReconnectTimer \/ ScanTimer \/ ScanTimeout \/ TestStart \/ TestTimeout
              \/ FallbackApTimer \/ WifiDefaultTimer \/ WifiReconnectTimer

Station == Associate \/ GetIp \/ LoseNetwork \/ DhcpTimeout \/ AirChanges
           \/ ScanLost \/ ScanResult

Requests == FallbackApRequest \/ SetSsidPwd \/ ForceReset \/ MqttConnected
            \/ MqttDisconnected \/ UpdateStarts \/ UpdateFails \/ UpdateGivesUp
            \/ \E ssid \in TestSsids : TestRequest(ssid)

Next == Event \/ TimerFires \/ Station \/ Requests

Spec == Init /\ [][Next]_vars

\* The station gives up on a network that is not on the air.
NotFound == conf \notin air /\ LoseNetwork

\* The SDK handles its events, runs armed timers and finishes its scans; the
\* station joins a network that is on the air, or fails.  A reconnection that a
\* scan holds up looks again every second and the scanner pauses for five; a scan
\* that a connection holds up looks again every second and a reconnection waits
\* for three: each finds the other idle if that happens again and again.  Not
\* every scan lasts longer than its timeout of a minute.  An update comes to an end
\* (OtaUpdate).
Fairness ==
  /\ WF_vars(Event) /\ WF_vars(Associate) /\ WF_vars(sta = "associated" /\ GetIp)
  /\ WF_vars(NotFound)
  /\ SF_vars(~radio_busy /\ ScanTimer)
  /\ SF_vars(~scanning /\ ReconnectTimer) /\ SF_vars(~scanning /\ WifiReconnectTimer)
  /\ WF_vars(ReconnectTimer) /\ WF_vars(ScanTimer) /\ WF_vars(ScanTimeout)
  /\ WF_vars(TestStart) /\ WF_vars(TestTimeout) /\ WF_vars(FallbackApTimer)
  /\ WF_vars(WifiDefaultTimer) /\ WF_vars(ScanResult) /\ SF_vars(scanning /\ ScanResult)
  /\ WF_vars(UpdateFails \/ UpdateGivesUp)

FairSpec == Spec /\ Fairness
-----------------------------------------------------------------------------
(* Properties *)

TypeOK ==
  /\ conf \in Ssids /\ sta \in {"idle", "joining", "associated", "noip", "up"}
  /\ radioOn \in BOOLEAN /\ events \in Seq({"connected", "gotip", "lost", "leave", "dhcp"})
  /\ air \subseteq Air /\ sdkScan \in {"none", "ours", "orphan"}
  /\ timers \subseteq TimerNames
  /\ my_auto_connect \in BOOLEAN /\ radio_busy \in BOOLEAN /\ scanning \in BOOLEAN
  /\ fb \in [last : BOOLEAN, active : BOOLEAN, mqtt : BOOLEAN]
  /\ misses \in 0..2 /\ status5 \in BOOLEAN
  /\ test \in [is_testing : BOOLEAN, saved : Ssids, target : Ssids]
  /\ fallback_ap_is_running \in BOOLEAN /\ told \in {"connect", "disconnect"}
  /\ updating \in BOOLEAN
  /\ tests \in 0..MaxTests /\ rpcs \in 0..MaxRpc
  /\ resets \in 0..MaxResets
  /\ faults \in 0..MaxFaults

\* The scanner runs, or something is under way that starts it again.
Alive ==
  \/ "scan" \in timers
  \/ scanning /\ "scanTimeout" \in timers
  \/ timers \cap {"testStart", "testTimeout", "fallbackAp", "wifiReconnect"} # {}
  \/ updating

\* The scanner does not stop for good, also when a scan's callback never comes or
\* tests, access points and resets overlap, but for one end of an update: the one
\* that has no retry left does not start it again.
ScannerLives == [][Alive /\ ~Alive' => UpdateGivesUp]_vars

\* my_auto_connect is off only during a test and a reset, and a timer is armed
\* that ends it, or that starts the next test: nobody else reconnects a station
\* that lost its network.
AutoConnectReturns ==
  ~my_auto_connect => timers \cap {"testStart", "testTimeout", "wifiReconnect"} # {}

\* Once its events are handled, a station with an address has made the
\* application connect (MQTT_Connect), whatever was reported late.
MqttIsTold == sta = "up" /\ events = <<>> => told = "connect"

\* A station whose test ended on a fallback network that then goes away: the end
\* of the test has forgotten that it joined it (wifi_fallback_force_reset_state),
\* so its scans miss nothing; or an update that gave up has stopped them.  Only
\* the watchdog's reset brings it back.
Stranded == conf = Fallback /\ Fallback \notin air /\ (~fb.last \/ ~Alive)

\* While its own network is on the air, the station has an address again and
\* again and the application knows, whatever the scanner does meanwhile.
UpAgain ==
  <>[](Default \in air /\ ~Stranded) => []<>(sta = "up" /\ told = "connect")

\* A test comes to an end.
TestEnds == test.is_testing ~> ~test.is_testing

=============================================================================
