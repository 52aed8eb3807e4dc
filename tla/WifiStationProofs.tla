--------------------------- MODULE WifiStationProofs ---------------------------
(***************************************************************************)
(* The background scanner is stopped for good by nothing but an update that *)
(* gave up, and automatic reconnection is never off without a timer that    *)
(* turns it on again: proofs for any networks and any number of tests,      *)
(* requests, updates, resets and faults.                                    *)
(***************************************************************************)
EXTENDS WifiStation, TLAPS

EventNames == {"connected", "gotip", "lost", "leave", "dhcp"}

DataOK ==
  /\ events \in Seq(EventNames) /\ conf \in Ssids
  /\ test \in [is_testing : BOOLEAN, saved : Ssids, target : Ssids]

\* What keeps the scanner stopped, or a scan going, has a timer.
StoppersOK ==
  /\ fallback_ap_is_running => "fallbackAp" \in timers
  /\ scanning => "scanTimeout" \in timers

HasGotIp(q) == \E i \in 1 .. Len(q) : q[i] = "gotip"

\* A station under test that has an address has yet to be told: a second request
\* for the same network, which would take the test's timer away, comes before the
\* start of the test or after its success.
UntoldOK ==
  test.is_testing /\ "testStart" \notin timers /\ sta = "up" => HasGotIp(events)

IInv == DataOK /\ StoppersOK /\ UntoldOK /\ AutoConnectReturns

\* What every step does, but for the end of an update that gives up.
Keeps == Alive => Alive'

Goes == IInv' /\ Keeps

-----------------------------------------------------------------------------
(* The pending events *)

LEMMA AppendKeeps ==
  ASSUME NEW q \in Seq(EventNames), NEW e \in EventNames
  PROVE  /\ Append(q, e) \in Seq(EventNames)
         /\ HasGotIp(q) \/ e = "gotip" => HasGotIp(Append(q, e))
<1>1. /\ Append(q, e) \in Seq(EventNames) /\ Len(Append(q, e)) = Len(q) + 1
      /\ \A i \in 1 .. Len(q) : Append(q, e)[i] = q[i]
      /\ Append(q, e)[Len(q) + 1] = e
      /\ Len(q) \in Nat
  OBVIOUS
<1>2. ASSUME HasGotIp(q) PROVE HasGotIp(Append(q, e))
  <2> PICK i \in 1 .. Len(q) : q[i] = "gotip"
    BY <1>2 DEF HasGotIp
  <2>1. i \in 1 .. Len(Append(q, e)) /\ Append(q, e)[i] = "gotip"
    BY <1>1
  <2> QED
    BY <2>1 DEF HasGotIp
<1>3. ASSUME e = "gotip" PROVE HasGotIp(Append(q, e))
  <2>1. Len(q) + 1 \in 1 .. Len(Append(q, e)) /\ Append(q, e)[Len(q) + 1] = "gotip"
    BY <1>1, <1>3
  <2> QED
    BY <2>1 DEF HasGotIp
<1> QED
  BY <1>1, <1>2, <1>3

LEMMA TailKeeps ==
  ASSUME NEW q \in Seq(EventNames), q # <<>>
  PROVE  /\ Head(q) \in EventNames /\ Tail(q) \in Seq(EventNames)
         /\ HasGotIp(q) /\ Head(q) # "gotip" => HasGotIp(Tail(q))
<1>1. /\ Head(q) \in EventNames /\ Tail(q) \in Seq(EventNames)
      /\ Head(q) = q[1] /\ Len(q) \in Nat /\ Len(q) >= 1
      /\ Len(Tail(q)) = Len(q) - 1
      /\ \A i \in 1 .. Len(q) - 1 : Tail(q)[i] = q[i + 1]
  OBVIOUS
<1>2. ASSUME HasGotIp(q), Head(q) # "gotip" PROVE HasGotIp(Tail(q))
  <2> PICK i \in 1 .. Len(q) : q[i] = "gotip"
    BY <1>2 DEF HasGotIp
  <2>1. i - 1 \in 1 .. Len(Tail(q)) /\ Tail(q)[i - 1] = "gotip"
    BY <1>1, <1>2
  <2> QED
    BY <2>1 DEF HasGotIp
<1> QED
  BY <1>1, <1>2

LEMMA LeftKeeps ==
  ASSUME NEW q \in Seq(EventNames)
  PROVE  Left(q) \in Seq(EventNames)
  BY AppendKeeps DEF Left, EventNames

LEMMA SsidsFixed == Default \in Ssids /\ Fallback \in Ssids /\ NoSsid \in Ssids
                    /\ TestSsids \subseteq Ssids
  BY DEF Ssids

-----------------------------------------------------------------------------
(* The steps *)

LEMMA InitOK == Init => IInv
<1> SUFFICES ASSUME Init PROVE IInv
  OBVIOUS
<1>1. /\ conf = Default /\ events = <<>> /\ timers = {"scan"} /\ sta = "joining"
      /\ my_auto_connect = TRUE /\ scanning = FALSE /\ fallback_ap_is_running = FALSE
      /\ test = [is_testing |-> FALSE, saved |-> NoSsid, target |-> NoSsid]
  BY DEF Init
<1>2. DataOK
  BY <1>1, SsidsFixed DEF DataOK
<1>3. StoppersOK /\ UntoldOK /\ AutoConnectReturns
  BY <1>1 DEF StoppersOK, UntoldOK, AutoConnectReturns
<1> QED
  BY <1>2, <1>3 DEF IInv

\* Steps of the SDK that stop nothing and give no address.
LEMMA StationOK ==
  ASSUME IInv, UNCHANGED <<updating, conf, test, timers, scanning, my_auto_connect,
                           fallback_ap_is_running>>,
         \/ UNCHANGED <<sta, events>>
         \/ \E e \in EventNames : /\ events' = Append(events, e)
                                  /\ sta' = "up" => e = "gotip"
  PROVE  Goes
<1>1. DataOK'
  BY AppendKeeps DEF IInv, DataOK
<1>2. UntoldOK'
  <2>1. CASE UNCHANGED <<sta, events>>
    BY <2>1 DEF IInv, UntoldOK
  <2>2. ASSUME NEW e \in EventNames, events' = Append(events, e), sta' = "up" => e = "gotip"
        PROVE  UntoldOK'
    BY <2>2, AppendKeeps DEF IInv, DataOK, UntoldOK
  <2> QED
    BY <2>1, <2>2
<1>3. StoppersOK' /\ Keeps /\ AutoConnectReturns'
  BY DEF IInv, StoppersOK, Keeps, Alive, AutoConnectReturns
<1> QED
  BY <1>1, <1>2, <1>3 DEF IInv, Goes

\* wifi_test_timeout_timer_func, also when an event calls it.
LEMMA TestEndOK ==
  ASSUME IInv, NEW q \in Seq(EventNames), TestEnd(q),
         test' = [test EXCEPT !.is_testing = FALSE],
         UNCHANGED <<updating, scanning, fallback_ap_is_running>>
  PROVE  Goes
<1>1. /\ conf' = test.saved /\ events' = Left(q) /\ my_auto_connect' = TRUE
      /\ timers' = Resumed
  BY DEF TestEnd, Rejoin, Restored
<1>2. DataOK' /\ test'.is_testing = FALSE
  BY <1>1, LeftKeeps DEF IInv, DataOK
<1>3. StoppersOK' /\ Keeps /\ AutoConnectReturns'
  BY <1>1 DEF IInv, StoppersOK, Keeps, Alive, AutoConnectReturns, Resumed
<1> QED
  BY <1>2, <1>3 DEF IInv, Goes, UntoldOK

\* Events that leave the test as it is.
LEMMA KeptOK ==
  ASSUME IInv, events # <<>>, NEW e, e = Head(events), e # "gotip",
         UNCHANGED <<updating, conf, test, scanning, my_auto_connect, fallback_ap_is_running>>,
         timers \subseteq timers', "testStart" \in timers' => "testStart" \in timers,
         \/ sta' = sta /\ events' = Tail(events)
         \/ sta' = "idle" /\ events' = Left(Tail(events))
  PROVE  Goes
<1>1. /\ Tail(events) \in Seq(EventNames)
      /\ HasGotIp(events) => HasGotIp(Tail(events))
  BY TailKeeps DEF IInv, DataOK
<1>2. DataOK'
  BY <1>1, LeftKeeps DEF IInv, DataOK
<1>3. UntoldOK'
  BY <1>1 DEF IInv, UntoldOK
<1>4. StoppersOK' /\ Keeps /\ AutoConnectReturns'
  BY DEF IInv, StoppersOK, Keeps, Alive, AutoConnectReturns
<1> QED
  BY <1>2, <1>3, <1>4 DEF IInv, Goes

LEMMA GotIpOK ==
  ASSUME IInv, events # <<>>, OnGotIp(Tail(events)),
         UNCHANGED <<updating, scanning, fallback_ap_is_running>>,
         timers \subseteq timers', test' \in [is_testing : BOOLEAN, saved : Ssids, target : Ssids],
         test'.is_testing = FALSE
  PROVE  Goes
<1>1. events' = Tail(events) /\ UNCHANGED <<conf, my_auto_connect>>
  BY DEF OnGotIp
<1>2. DataOK'
  BY <1>1, TailKeeps DEF IInv, DataOK
<1>3. StoppersOK' /\ Keeps /\ AutoConnectReturns'
  BY <1>1 DEF IInv, StoppersOK, Keeps, Alive, AutoConnectReturns
<1> QED
  BY <1>2, <1>3 DEF IInv, Goes, UntoldOK

LEMMA DisconnectedOK ==
  ASSUME IInv, events # <<>>, NEW e, e = Head(events), e # "gotip",
         OnDisconnected(e, Tail(events)),
         UNCHANGED <<updating, test, scanning, fallback_ap_is_running>>
  PROVE  Goes
<1>1. UNCHANGED <<conf, my_auto_connect>> /\ ReconnectLater(Tail(events))
  BY DEF OnDisconnected
<1>2. CASE my_auto_connect
  BY <1>1, <1>2, KeptOK DEF ReconnectLater
<1>3. CASE ~my_auto_connect
  BY <1>1, <1>3, KeptOK DEF ReconnectLater
<1> QED
  BY <1>2, <1>3

LEMMA EventOK == IInv /\ Event => Goes
<1> SUFFICES ASSUME IInv, Event PROVE Goes
  OBVIOUS
<1> DEFINE e == Head(events)
           q == Tail(events)
<1>1. events # <<>> /\ UNCHANGED <<updating, scanning, fallback_ap_is_running>>
  BY DEF Event
<1>2. q \in Seq(EventNames)
  BY <1>1, TailKeeps DEF IInv, DataOK
<1>3. CASE test.is_testing /\ HandleTestEvent(e, q)
  <2>1. CASE /\ e = "gotip" /\ OnGotIp(q)
             /\ timers' = timers \cup {"testTimeout"}
             /\ test' = [test EXCEPT !.is_testing = FALSE]
    <3>1. /\ test' \in [is_testing : BOOLEAN, saved : Ssids, target : Ssids]
          /\ test'.is_testing = FALSE /\ timers \subseteq timers'
      BY <2>1 DEF IInv, DataOK
    <3> QED
      BY <1>1, <2>1, <3>1, GotIpOK
  <2>2. CASE e = "lost" /\ TestEnd(q) /\ test' = [test EXCEPT !.is_testing = FALSE]
    BY <1>1, <1>2, <2>2, TestEndOK
  <2>3. CASE e = "leave" /\ OnDisconnected(e, q) /\ UNCHANGED test
    BY <1>1, <2>3, DisconnectedOK
  <2>4. CASE /\ e \in {"connected", "dhcp"} /\ events' = q
             /\ UNCHANGED <<conf, sta, radioOn, timers, flags, report, fb, test>>
    BY <1>1, <2>4, KeptOK DEF flags
  <2> QED
    BY <1>3, <2>1, <2>2, <2>3, <2>4 DEF HandleTestEvent
<1>4. CASE ~test.is_testing /\ HandleEvent(e, q) /\ UNCHANGED test
  <2>1. CASE e = "connected" /\ OnConnected(q)
    BY <1>1, <1>4, <2>1, KeptOK DEF OnConnected, flags
  <2>2. CASE e = "gotip" /\ OnGotIp(q) /\ UNCHANGED timers
    BY <1>1, <1>4, <2>2, GotIpOK DEF IInv, DataOK
  <2>3. CASE e = "dhcp" /\ OnDhcpTimeout(q)
    <3>1. UNCHANGED <<conf, my_auto_connect>> /\ ReconnectLater(q)
      BY <2>3 DEF OnDhcpTimeout
    <3>2. CASE my_auto_connect
      BY <1>1, <1>4, <2>3, <3>1, <3>2, KeptOK DEF ReconnectLater
    <3>3. CASE ~my_auto_connect
      BY <1>1, <1>4, <2>3, <3>1, <3>3, KeptOK DEF ReconnectLater
    <3> QED
      BY <3>2, <3>3
  <2>4. CASE e \in {"lost", "leave"} /\ OnDisconnected(e, q)
    BY <1>1, <1>4, <2>4, DisconnectedOK
  <2> QED
    BY <1>4, <2>1, <2>2, <2>3, <2>4 DEF HandleEvent
<1> QED
  BY <1>3, <1>4 DEF Event

\* A network is joined: the station has no address.
LEMMA RejoinData ==
  ASSUME IInv, NEW ssid \in Ssids, NEW q \in Seq(EventNames), NEW on, Rejoin(ssid, q, on),
         test' \in [is_testing : BOOLEAN, saved : Ssids, target : Ssids]
  PROVE  DataOK' /\ UntoldOK'
<1>1. conf' = ssid /\ events' = Left(q) /\ sta' \in {"joining", "idle"}
  BY DEF Rejoin
<1>2. DataOK'
  BY <1>1, LeftKeeps DEF DataOK
<1> QED
  BY <1>1, <1>2 DEF UntoldOK

LEMMA ReconnectTimerOK == IInv /\ ReconnectTimer => Goes
<1> SUFFICES ASSUME IInv, ReconnectTimer PROVE Goes
  OBVIOUS
<1>1. /\ UNCHANGED <<updating, conf, events, scanning, my_auto_connect, test, fallback_ap_is_running>>
      /\ timers' \in {timers, timers \ {"reconnect"}}
      /\ sta' \in {sta, "joining"}
  BY DEF ReconnectTimer, Deferred, scan
<1>2. DataOK' /\ StoppersOK' /\ Keeps /\ AutoConnectReturns'
  BY <1>1 DEF IInv, DataOK, StoppersOK, Keeps, Alive, AutoConnectReturns
<1>3. UntoldOK'
  BY <1>1 DEF IInv, UntoldOK
<1> QED
  BY <1>2, <1>3 DEF IInv, Goes

\* Only the scanner's own timers move, and one that is stopped is not forgotten.
LEMMA ScannerOK ==
  ASSUME IInv,
         UNCHANGED <<updating, conf, sta, events, test, my_auto_connect, fallback_ap_is_running>>,
         \A t \in TimerNames \ {"scan", "scanTimeout"} : t \in timers' <=> t \in timers,
         \/ "scan" \in timers' /\ ~scanning'
         \/ scanning' /\ "scanTimeout" \in timers'
  PROVE  Goes
<1>1. DataOK' /\ UntoldOK'
  BY DEF IInv, DataOK, UntoldOK, TimerNames
<1>2. StoppersOK' /\ Keeps /\ AutoConnectReturns'
  BY DEF IInv, StoppersOK, Keeps, Alive, AutoConnectReturns, TimerNames
<1> QED
  BY <1>1, <1>2 DEF IInv, Goes

LEMMA ScanTimerOK == IInv /\ ScanTimer => Goes
<1> SUFFICES ASSUME IInv, ScanTimer PROVE Goes
  OBVIOUS
<1>1. /\ UNCHANGED <<updating, conf, sta, events, test, my_auto_connect, fallback_ap_is_running>>
      /\ "scan" \in timers
  BY DEF ScanTimer, sdk, flags
<1>2. CASE scanning
  <2>1. timers' = timers \ {"scan"} /\ scanning' = scanning /\ "scanTimeout" \in timers
    BY <1>2 DEF ScanTimer, IInv, StoppersOK
  <2> QED
    BY <1>1, <1>2, <2>1, ScannerOK DEF TimerNames
<1>3. CASE ~scanning
  <2>1. \/ UNCHANGED <<timers, scanning>>
        \/ scanning' = TRUE /\ timers' = (timers \ {"scan"}) \cup {"scanTimeout"}
        \/ scanning' = scanning /\ timers' = timers \cup {"scanTimeout"}
    BY <1>3 DEF ScanTimer
  <2> QED
    BY <1>1, <1>3, <2>1, ScannerOK DEF TimerNames
<1> QED
  BY <1>2, <1>3

LEMMA ScanTimeoutOK == IInv /\ ScanTimeout => Goes
<1> SUFFICES ASSUME IInv, ScanTimeout PROVE Goes
  OBVIOUS
<1>1. /\ UNCHANGED <<updating, conf, sta, events, test, my_auto_connect, fallback_ap_is_running>>
      /\ scanning' = FALSE /\ timers' = ScanAgain
  BY DEF ScanTimeout, sdk, flags
<1> QED
  BY <1>1, ScannerOK DEF ScanAgain, TimerNames

\* A network is joined, or nothing happens: with automatic reconnection.
Switches ==
  \/ UNCHANGED <<sdk, flags>>
  \/ \E ssid \in {Default, Fallback} : Rejoin(ssid, events, TRUE) /\ my_auto_connect' = TRUE

LEMMA EvaluateSwitches == \A found : Evaluate(found) => Switches
  BY DEF Evaluate, Switches, WifiDefault, WifiFallback

LEMMA ScanResultOK == IInv /\ ScanResult => Goes
<1> SUFFICES ASSUME IInv, NEW found, NEW ok, ScanDone(found, ok) PROVE Goes
  BY DEF ScanResult
<1>1. UNCHANGED <<updating, test, fallback_ap_is_running>>
  BY DEF ScanDone
<1>2. CASE UNCHANGED <<sdk, scanning, timers, flags>>
  BY <1>1, <1>2, StationOK DEF sdk, flags
<1>3. CASE scanning' = FALSE /\ timers' = ScanAgain /\ Switches
  <2>1. CASE UNCHANGED <<sdk, flags>>
    BY <1>1, <1>3, <2>1, ScannerOK DEF ScanAgain, TimerNames, sdk, flags
  <2>2. ASSUME NEW ssid \in {Default, Fallback}, Rejoin(ssid, events, TRUE),
               my_auto_connect' = TRUE
        PROVE  Goes
    <3>1. DataOK' /\ UntoldOK'
      BY <1>1, <2>2, RejoinData, SsidsFixed DEF IInv, DataOK
    <3>2. StoppersOK' /\ Keeps /\ AutoConnectReturns'
      BY <1>1, <1>3, <2>2 DEF IInv, StoppersOK, Keeps, Alive, AutoConnectReturns, ScanAgain
    <3> QED
      BY <3>1, <3>2 DEF IInv, Goes
  <2> QED
    BY <1>3, <2>1, <2>2 DEF Switches
<1>4. \/ UNCHANGED <<sdk, scanning, timers, flags>>
      \/ scanning' = FALSE /\ timers' = ScanAgain /\ Switches
  BY EvaluateSwitches DEF ScanDone, Switches
<1> QED
  BY <1>2, <1>3, <1>4

LEMMA StationStepOK == IInv /\ Station => Goes
<1> SUFFICES ASSUME IInv, Station PROVE Goes
  OBVIOUS
<1>1. CASE Associate
  BY <1>1, StationOK DEF Associate, EventNames, scan, flags
<1>2. CASE GetIp
  BY <1>2, StationOK DEF GetIp, EventNames, scan, flags
<1>3. CASE LoseNetwork
  BY <1>3, StationOK DEF LoseNetwork, EventNames, scan, flags
<1>4. CASE DhcpTimeout
  BY <1>4, StationOK DEF DhcpTimeout, EventNames, scan, flags
<1>5. CASE AirChanges
  BY <1>5, StationOK DEF AirChanges, sdk, scan, flags
<1>6. CASE ScanLost
  BY <1>6, StationOK DEF ScanLost, sdk, flags
<1>7. CASE ScanResult
  BY <1>7, ScanResultOK
<1> QED
  BY <1>1, <1>2, <1>3, <1>4, <1>5, <1>6, <1>7 DEF Station

LEMMA TestStartOK == IInv /\ TestStart => Goes
<1> SUFFICES ASSUME IInv, TestStart PROVE Goes
  OBVIOUS
<1>1. DataOK' /\ UntoldOK'
  BY RejoinData DEF TestStart, IInv, DataOK
<1>2. /\ timers' = (timers \ {"testStart"}) \cup {"testTimeout"}
      /\ UNCHANGED <<updating, scanning, fallback_ap_is_running>>
  BY DEF TestStart, TestStarted, scan
<1>3. StoppersOK' /\ Keeps /\ AutoConnectReturns'
  BY <1>2 DEF IInv, StoppersOK, Keeps, Alive, AutoConnectReturns
<1> QED
  BY <1>1, <1>3 DEF IInv, Goes

LEMMA TestTimeoutOK == IInv /\ TestTimeout => Goes
  BY TestEndOK DEF TestTimeout, IInv, DataOK

\* The end of the fallback access point starts the scanner.
LEMMA FallbackApEndsOK ==
  ASSUME IInv, FallbackApEnds, UNCHANGED <<updating, conf, sta, events, test, my_auto_connect>>
  PROVE  Goes
<1>1. /\ fallback_ap_is_running' = FALSE /\ scanning' = scanning
      /\ timers' = (timers \ {"fallbackAp"}) \cup {"scan"}
  BY DEF FallbackApEnds
<1>2. DataOK' /\ UntoldOK'
  BY <1>1 DEF IInv, DataOK, UntoldOK
<1>3. StoppersOK' /\ Keeps /\ AutoConnectReturns'
  BY <1>1 DEF IInv, StoppersOK, Keeps, Alive, AutoConnectReturns
<1> QED
  BY <1>2, <1>3 DEF IInv, Goes

LEMMA WifiDefaultTimerOK == IInv /\ WifiDefaultTimer => Goes
<1> SUFFICES ASSUME IInv, WifiDefaultTimer PROVE Goes
  OBVIOUS
<1>1. /\ Rejoin(Default, events, TRUE) /\ my_auto_connect' = TRUE
      /\ timers' = timers \ {"wifiDefault"}
      /\ UNCHANGED <<updating, scanning, test, fallback_ap_is_running>>
  BY DEF WifiDefaultTimer, WifiDefault
<1>2. DataOK' /\ UntoldOK'
  BY <1>1, RejoinData, SsidsFixed DEF IInv, DataOK
<1>3. StoppersOK' /\ Keeps /\ AutoConnectReturns'
  BY <1>1 DEF IInv, StoppersOK, Keeps, Alive, AutoConnectReturns
<1> QED
  BY <1>2, <1>3 DEF IInv, Goes

LEMMA WifiReconnectTimerOK == IInv /\ WifiReconnectTimer => Goes
<1> SUFFICES ASSUME IInv, WifiReconnectTimer PROVE Goes
  OBVIOUS
<1>1. UNCHANGED <<updating, scanning, test, fallback_ap_is_running>>
  BY DEF WifiReconnectTimer
<1>2. CASE UNCHANGED <<sdk, timers, flags>>
  BY <1>1, <1>2, StationOK DEF sdk, flags
<1>3. CASE ResetEnds
  <2>1. /\ Rejoin(Default, events, TRUE) /\ my_auto_connect' = TRUE
        /\ timers' = (timers \ {"wifiReconnect"}) \cup {"scan"}
    BY <1>3 DEF ResetEnds, WifiDefault
  <2>2. DataOK' /\ UntoldOK'
    BY <1>1, <2>1, RejoinData, SsidsFixed DEF IInv, DataOK
  <2>3. StoppersOK' /\ Keeps /\ AutoConnectReturns'
    BY <1>1, <2>1 DEF IInv, StoppersOK, Keeps, Alive, AutoConnectReturns
  <2> QED
    BY <2>2, <2>3 DEF IInv, Goes
<1> QED
  BY <1>2, <1>3 DEF WifiReconnectTimer

LEMMA TimerFiresOK == IInv /\ TimerFires => Goes
<1> SUFFICES ASSUME IInv, TimerFires PROVE Goes
  OBVIOUS
<1>1. CASE FallbackApTimer
  BY <1>1, FallbackApEndsOK DEF FallbackApTimer, flags
<1> QED
  BY <1>1, ReconnectTimerOK, ScanTimerOK, ScanTimeoutOK, TestStartOK, TestTimeoutOK,
     WifiDefaultTimerOK, WifiReconnectTimerOK DEF TimerFires

-----------------------------------------------------------------------------
(* The requests *)

LEMMA TestRequestOK ==
  ASSUME IInv, NEW ssid \in TestSsids, TestRequest(ssid)
  PROVE  Goes
<1>1. /\ sta = "up" /\ events = <<>>
      /\ UNCHANGED <<updating, conf, sta, events, my_auto_connect, fallback_ap_is_running>>
  BY DEF TestRequest, TakesRpc, Reachable, sdk, flags
<1>2. test.is_testing => "testStart" \in timers
  BY <1>1 DEF IInv, UntoldOK, HasGotIp
<1>3. CASE (test.is_testing \/ status5) /\ conf = ssid
  <2>1. /\ UNCHANGED <<scanning, test>>
        /\ timers' = (timers \ {"testTimeout"}) \cup (IF status5 THEN {"testTimeout"} ELSE {})
    BY <1>3 DEF TestRequest
  <2>2. "testStart" \in timers \/ "testTimeout" \in timers'
    BY <1>2, <1>3, <2>1
  <2>3. DataOK' /\ UntoldOK'
    BY <1>1, <2>1 DEF IInv, DataOK, UntoldOK
  <2>4. StoppersOK' /\ Keeps /\ AutoConnectReturns'
    BY <1>1, <2>1, <2>2 DEF IInv, StoppersOK, Keeps, Alive, AutoConnectReturns
  <2> QED
    BY <2>3, <2>4 DEF IInv, Goes
<1>4. CASE UNCHANGED <<timers, scanning, test>>
  BY <1>1, <1>4, StationOK
<1>5. CASE /\ StopScan
           /\ timers' = (timers \ {"scan", "scanTimeout"}) \cup {"testStart"}
           /\ test' = [is_testing |-> TRUE, saved |-> conf, target |-> ssid]
  <2>1. DataOK' /\ UntoldOK'
    BY <1>1, <1>5, SsidsFixed DEF IInv, DataOK, UntoldOK
  <2>2. StoppersOK' /\ Keeps /\ AutoConnectReturns'
    BY <1>1, <1>5 DEF IInv, StoppersOK, Keeps, Alive, AutoConnectReturns, StopScan
  <2> QED
    BY <2>1, <2>2 DEF IInv, Goes
<1> QED
  BY <1>3, <1>4, <1>5 DEF TestRequest

LEMMA FallbackApRequestOK == IInv /\ FallbackApRequest => Goes
<1> SUFFICES ASSUME IInv, FallbackApRequest PROVE Goes
  OBVIOUS
<1>1. UNCHANGED <<updating, conf, sta, events, test, my_auto_connect>>
  BY DEF FallbackApRequest, flags
<1>2. CASE FallbackApEnds
  BY <1>1, <1>2, FallbackApEndsOK
<1>3. CASE /\ fallback_ap_is_running' = TRUE /\ StopScan
           /\ timers' = (timers \ {"scan", "scanTimeout"}) \cup {"fallbackAp"}
  <2>1. DataOK' /\ UntoldOK'
    BY <1>1, <1>3 DEF IInv, DataOK, UntoldOK
  <2>2. StoppersOK' /\ Keeps /\ AutoConnectReturns'
    BY <1>1, <1>3 DEF IInv, StoppersOK, Keeps, Alive, AutoConnectReturns, StopScan
  <2> QED
    BY <2>1, <2>2 DEF IInv, Goes
<1> QED
  BY <1>2, <1>3 DEF FallbackApRequest

LEMMA ForceResetOK == IInv /\ ForceReset => Goes
<1> SUFFICES ASSUME IInv, ForceReset PROVE Goes
  OBVIOUS
<1>1. /\ UNCHANGED <<updating, conf, test, fallback_ap_is_running>>
      /\ sta' = "idle" /\ events' = Left(events) /\ StopScan
      /\ timers' = (timers \ {"scan", "scanTimeout"}) \cup {"wifiReconnect"}
  BY DEF ForceReset
<1>2. DataOK' /\ UntoldOK'
  BY <1>1, LeftKeeps DEF IInv, DataOK, UntoldOK
<1>3. StoppersOK' /\ Keeps /\ AutoConnectReturns'
  BY <1>1 DEF IInv, StoppersOK, Keeps, Alive, AutoConnectReturns, StopScan
<1> QED
  BY <1>2, <1>3 DEF IInv, Goes

LEMMA SetSsidPwdOK == IInv /\ SetSsidPwd => Goes
<1> SUFFICES ASSUME IInv, SetSsidPwd PROVE Goes
  OBVIOUS
<1>1. /\ UNCHANGED <<updating, conf, sta, events, test, scanning, my_auto_connect,
                     fallback_ap_is_running>>
      /\ timers' = timers \cup {"wifiDefault"}
  BY DEF SetSsidPwd, sdk, scan, flags
<1>2. DataOK' /\ UntoldOK'
  BY <1>1 DEF IInv, DataOK, UntoldOK
<1>3. StoppersOK' /\ Keeps /\ AutoConnectReturns'
  BY <1>1 DEF IInv, StoppersOK, Keeps, Alive, AutoConnectReturns
<1> QED
  BY <1>2, <1>3 DEF IInv, Goes

LEMMA UpdateStartsOK == IInv /\ UpdateStarts => Goes
<1> SUFFICES ASSUME IInv, UpdateStarts PROVE Goes
  OBVIOUS
<1>1. /\ UNCHANGED <<conf, sta, events, test, my_auto_connect, fallback_ap_is_running>>
      /\ StopScan /\ timers' = timers \ {"scan", "scanTimeout"} /\ updating' = TRUE
  BY DEF UpdateStarts, sdk, flags
<1>2. DataOK' /\ UntoldOK'
  BY <1>1 DEF IInv, DataOK, UntoldOK
<1>3. StoppersOK' /\ Keeps /\ AutoConnectReturns'
  BY <1>1 DEF IInv, StoppersOK, Keeps, Alive, AutoConnectReturns, StopScan
<1> QED
  BY <1>2, <1>3 DEF IInv, Goes

LEMMA UpdateEndsOK ==
  ASSUME IInv, UpdateFails \/ UpdateGivesUp
  PROVE  IInv' /\ (UpdateFails => Keeps)
<1>1. /\ UNCHANGED <<conf, sta, events, test, scanning, my_auto_connect,
                     fallback_ap_is_running>>
      /\ timers' \in {timers, timers \cup {"scan"}}
      /\ UpdateFails => "scan" \in timers'
  BY DEF UpdateFails, UpdateGivesUp, UpdateEnds, sdk, scan, flags
<1>2. DataOK' /\ UntoldOK'
  BY <1>1 DEF IInv, DataOK, UntoldOK
<1>3. StoppersOK' /\ AutoConnectReturns' /\ (UpdateFails => Keeps)
  BY <1>1 DEF IInv, StoppersOK, Keeps, Alive, AutoConnectReturns
<1> QED
  BY <1>2, <1>3 DEF IInv

LEMMA RequestsOK == IInv /\ Requests => IInv' /\ (Keeps \/ UpdateGivesUp)
<1> SUFFICES ASSUME IInv, Requests PROVE Goes \/ (IInv' /\ UpdateGivesUp)
  BY DEF Goes
<1>1. CASE MqttConnected \/ MqttDisconnected
  BY <1>1, StationOK DEF MqttConnected, MqttDisconnected, sdk, flags
<1> QED
  BY <1>1, TestRequestOK, FallbackApRequestOK, SetSsidPwdOK, ForceResetOK,
     UpdateStartsOK, UpdateEndsOK DEF Requests, Goes

LEMMA StepOK == IInv /\ [Next]_vars => IInv' /\ (Keeps \/ UpdateGivesUp)
<1> SUFFICES ASSUME IInv, [Next]_vars PROVE IInv' /\ (Keeps \/ UpdateGivesUp)
  OBVIOUS
<1>1. CASE UNCHANGED vars
  BY <1>1, StationOK DEF vars, sdk, scan, flags, Goes
<1> QED
  BY <1>1, EventOK, TimerFiresOK, StationStepOK, RequestsOK DEF Next, Goes

LEMMA SpecOK == Spec => []IInv
  BY InitOK, StepOK, PTL DEF Spec

-----------------------------------------------------------------------------

\* Whatever stops the background scanner (wifi_stop_scan), something is under way
\* that starts it again (wifi_start_scan), also when a scan's callback never comes,
\* until an update ends with no retry left (ota_trigger_reconnect).
THEOREM ScannerCorrect == Spec => ScannerLives
<1>1. IInv /\ [Next]_vars => [Alive /\ ~Alive' => UpdateGivesUp]_vars
  BY StepOK DEF Keeps
<1> QED
  BY <1>1, SpecOK, PTL DEF Spec, ScannerLives

\* While automatic reconnection is off (my_auto_connect), a timer is armed that
\* turns it on.
THEOREM AutoConnectCorrect == Spec => []AutoConnectReturns
<1>1. IInv => AutoConnectReturns
  BY DEF IInv
<1> QED
  BY <1>1, SpecOK, PTL

-----------------------------------------------------------------------------
(* What the application is told *)

Losses == {"lost", "leave"}

NoLossIn(q) == \A j \in 1 .. Len(q) : q[j] \notin Losses

\* The last of the events pending that tells the application says connect.
Announced(q) ==
  \E i \in 1 .. Len(q) :
    q[i] = "gotip" /\ \A j \in i + 1 .. Len(q) : q[j] \notin Losses

\* A station with an address has told the application, or is about to.
ToldOK ==
  sta = "up" => Announced(events) \/ (told = "connect" /\ NoLossIn(events))

LEMMA GotIpAnnounces == \A q \in Seq(EventNames) : Announced(Append(q, "gotip"))
<1> TAKE q \in Seq(EventNames)
<1>1. /\ Len(Append(q, "gotip")) = Len(q) + 1 /\ Len(q) \in Nat
      /\ Append(q, "gotip")[Len(q) + 1] = "gotip"
  OBVIOUS
<1>2. /\ Len(q) + 1 \in 1 .. Len(Append(q, "gotip"))
      /\ \A j \in Len(q) + 1 + 1 .. Len(Append(q, "gotip")) :
           Append(q, "gotip")[j] \notin Losses
  BY <1>1
<1> QED
  BY <1>1, <1>2 DEF Announced

LEMMA TailTells ==
  ASSUME NEW q \in Seq(EventNames), q # <<>>
  PROVE  /\ NoLossIn(q) => NoLossIn(Tail(q)) /\ Head(q) \notin Losses
         /\ Announced(q) => \/ Announced(Tail(q))
                            \/ Head(q) = "gotip" /\ NoLossIn(Tail(q))
<1>1. /\ Head(q) = q[1] /\ Len(q) \in Nat /\ Len(q) >= 1
      /\ Len(Tail(q)) = Len(q) - 1
      /\ \A i \in 1 .. Len(q) - 1 : Tail(q)[i] = q[i + 1]
  OBVIOUS
<1>2. NoLossIn(q) => NoLossIn(Tail(q)) /\ Head(q) \notin Losses
  BY <1>1 DEF NoLossIn
<1>3. Announced(q) => \/ Announced(Tail(q))
                      \/ Head(q) = "gotip" /\ NoLossIn(Tail(q))
  <2> SUFFICES ASSUME Announced(q)
               PROVE  \/ Announced(Tail(q))
                      \/ Head(q) = "gotip" /\ NoLossIn(Tail(q))
    OBVIOUS
  <2> PICK i \in 1 .. Len(q) :
         q[i] = "gotip" /\ \A j \in i + 1 .. Len(q) : q[j] \notin Losses
    BY DEF Announced
  <2>1. CASE i = 1
    BY <1>1, <2>1 DEF NoLossIn
  <2>2. CASE i > 1
    <3>1. i - 1 \in 1 .. Len(Tail(q)) /\ Tail(q)[i - 1] = "gotip"
      BY <1>1, <2>2
    <3>2. \A j \in (i - 1) + 1 .. Len(Tail(q)) : Tail(q)[j] \notin Losses
      BY <1>1, <2>2
    <3> QED
      BY <3>1, <3>2 DEF Announced
  <2> QED
    BY <2>1, <2>2
<1> QED
  BY <1>2, <1>3

\* Steps after which the station has no address, and those that touch nothing.
LEMMA SilentOK ==
  ASSUME ToldOK, sta' # "up" \/ UNCHANGED <<sta, events, told>>
  PROVE  ToldOK'
  BY DEF ToldOK

\* An event that tells nothing, of a station that keeps its address.
LEMMA PassedOK ==
  ASSUME ToldOK, DataOK, events # <<>>, Head(events) # "gotip",
         events' = Tail(events), sta' = sta,
         told' = told \/ Head(events) \in Losses
  PROVE  ToldOK'
<1> SUFFICES ASSUME sta = "up"
             PROVE  Announced(events') \/ (told' = "connect" /\ NoLossIn(events'))
  BY DEF ToldOK
<1>1. /\ NoLossIn(events) => NoLossIn(events') /\ Head(events) \notin Losses
      /\ Announced(events) => Announced(events')
  BY TailTells DEF DataOK
<1>2. Announced(events) \/ (told = "connect" /\ NoLossIn(events))
  BY DEF ToldOK
<1> QED
  BY <1>1, <1>2

LEMMA GotIpTellsOK ==
  ASSUME ToldOK, DataOK, events # <<>>, OnGotIp(Tail(events))
  PROVE  ToldOK'
<1> SUFFICES ASSUME sta = "up"
             PROVE  Announced(events') \/ (told' = "connect" /\ NoLossIn(events'))
  BY DEF ToldOK, OnGotIp
<1>1. told' = "connect" /\ events' = Tail(events)
  BY DEF OnGotIp, GotIpTells
<1>2. Announced(events') \/ NoLossIn(events')
  BY <1>1, TailTells DEF ToldOK, DataOK
<1> QED
  BY <1>1, <1>2

LEMMA DisconnectTellsOK ==
  ASSUME ToldOK, DataOK, events # <<>>, NEW e, e = Head(events), e # "gotip",
         ReconnectLater(Tail(events)),
         told' = told \/ e \in Losses
  PROVE  ToldOK'
<1>1. CASE my_auto_connect
  BY <1>1, SilentOK DEF ReconnectLater
<1>2. CASE ~my_auto_connect
  BY <1>2, PassedOK DEF ReconnectLater
<1> QED
  BY <1>1, <1>2

LEMMA EventTellsOK == ToldOK /\ DataOK /\ Event => ToldOK'
<1> SUFFICES ASSUME ToldOK, DataOK, Event PROVE ToldOK'
  OBVIOUS
<1> DEFINE e == Head(events)
           q == Tail(events)
<1>1. events # <<>>
  BY DEF Event
<1>2. CASE e = "gotip" /\ OnGotIp(q)
  BY <1>1, <1>2, GotIpTellsOK
<1>3. CASE TestEnd(q)
  BY <1>3, SilentOK DEF TestEnd, Rejoin
<1>4. CASE e \in Losses /\ OnDisconnected(e, q)
  BY <1>1, <1>4, DisconnectTellsOK DEF OnDisconnected, Losses
<1>5. CASE e \in {"connected", "dhcp"} /\ events' = q /\ UNCHANGED <<sta, report>>
  BY <1>1, <1>5, PassedOK DEF report
<1>6. CASE e = "connected" /\ OnConnected(q)
  BY <1>1, <1>6, PassedOK DEF OnConnected
<1>7. CASE e = "dhcp" /\ OnDhcpTimeout(q)
  BY <1>1, <1>7, DisconnectTellsOK DEF OnDhcpTimeout
<1> QED
  BY <1>2, <1>3, <1>4, <1>5, <1>6, <1>7 DEF Event, HandleTestEvent, HandleEvent, Losses

LEMMA TimerTellsOK == ToldOK /\ TimerFires => ToldOK'
<1> SUFFICES ASSUME ToldOK, TimerFires PROVE ToldOK'
  OBVIOUS
<1> USE SilentOK DEF sdk, report, flags, scan
<1>1. CASE ReconnectTimer
  BY <1>1 DEF ReconnectTimer
<1>2. CASE ScanTimer \/ ScanTimeout \/ FallbackApTimer
  BY <1>2 DEF ScanTimer, ScanTimeout, FallbackApTimer
<1>3. CASE TestStart \/ TestTimeout
  BY <1>3 DEF TestStart, TestTimeout, TestEnd, Rejoin
<1>4. CASE WifiDefaultTimer
  BY <1>4 DEF WifiDefaultTimer, WifiDefault, Rejoin
<1>5. CASE WifiReconnectTimer
  BY <1>5 DEF WifiReconnectTimer, ResetEnds, WifiDefault, Rejoin
<1> QED
  BY <1>1, <1>2, <1>3, <1>4, <1>5 DEF TimerFires

LEMMA StationTellsOK == ToldOK /\ DataOK /\ Station => ToldOK'
<1> SUFFICES ASSUME ToldOK, DataOK, Station PROVE ToldOK'
  OBVIOUS
<1> USE SilentOK DEF sdk, report
<1>1. CASE Associate \/ LoseNetwork \/ DhcpTimeout
  BY <1>1 DEF Associate, LoseNetwork, DhcpTimeout
<1>2. CASE GetIp
  BY <1>2, GotIpAnnounces DEF GetIp, ToldOK, DataOK
<1>3. CASE AirChanges \/ ScanLost
  BY <1>3 DEF AirChanges, ScanLost
<1>4. CASE ScanResult
  <2>1. PICK found, ok : ScanDone(found, ok)
    BY <1>4 DEF ScanResult
  <2>2. UNCHANGED told /\ (UNCHANGED <<sdk, flags>> \/ Switches)
    BY <2>1, EvaluateSwitches DEF ScanDone
  <2> QED
    BY <2>2 DEF Switches, Rejoin
<1> QED
  BY <1>1, <1>2, <1>3, <1>4 DEF Station

LEMMA RequestTellsOK == ToldOK /\ Requests => ToldOK'
<1> SUFFICES ASSUME ToldOK, Requests PROVE ToldOK'
  OBVIOUS
<1> USE SilentOK DEF sdk, report
<1>1. ASSUME NEW ssid \in TestSsids, TestRequest(ssid) PROVE ToldOK'
  BY <1>1 DEF TestRequest
<1>2. CASE FallbackApRequest \/ SetSsidPwd \/ ForceReset
  BY <1>2 DEF FallbackApRequest, SetSsidPwd, ForceReset
<1>3. CASE MqttConnected \/ MqttDisconnected
  BY <1>3 DEF MqttConnected, MqttDisconnected
<1>4. CASE UpdateStarts \/ UpdateFails \/ UpdateGivesUp
  BY <1>4 DEF UpdateStarts, UpdateFails, UpdateGivesUp, UpdateEnds
<1> QED
  BY <1>1, <1>2, <1>3, <1>4 DEF Requests

\* Once the SDK's events are handled, a station with an address has made the
\* application connect, whatever was reported late (wifi_handle_event_cb).
THEOREM ToldCorrect == Spec => []MqttIsTold
<1>1. Init => ToldOK
  BY DEF Init, ToldOK
<1>2. IInv /\ ToldOK /\ [Next]_vars => ToldOK'
  <2>1. UNCHANGED vars /\ ToldOK => ToldOK'
    BY SilentOK DEF vars, sdk, report
  <2> QED
    BY <2>1, EventTellsOK, TimerTellsOK, StationTellsOK, RequestTellsOK DEF Next, IInv
<1>3. ToldOK => MqttIsTold
  BY DEF ToldOK, MqttIsTold, Announced
<1> QED
  BY <1>1, <1>2, <1>3, SpecOK, PTL DEF Spec
=============================================================================
