------------------------------- MODULE Watchdog -------------------------------
(***************************************************************************)
(* The software watchdogs of user/watchdog.c and the clock they run on,     *)
(* user/unix_time.c: seconds are counted by a timer until SNTP has the      *)
(* time, and are read from SNTP from then on.  SNTP is not in the           *)
(* repository: its timestamp is zero until the first answer, counts seconds *)
(* modulo 2^32, and is corrected by later answers.                          *)
(*                                                                         *)
(* In every second of real time SNTP's timestamp, the offline counter and   *)
(* the watchdogs' timer each move once, if they run, in any order.          *)
(***************************************************************************)
EXTENDS Integers, Sequences, FiniteSets

CONSTANTS
  Ids,             \* watchdogs
  Kind(_),         \* of a watchdog: "NETWORK_RESTART" or "REBOOT"
  Timeout(_),      \* of a watchdog, in seconds
  WatchdogMax,     \* WATCHDOG_MAX
  Word32, Word64,  \* 2^32 and 2^64
  RolloverFloor,   \* 0xF0000000
  FirstTime,       \* the timestamp of SNTP's first answer
  Corrections,     \* by how much a later answer can correct it
  MaxCorrected,    \* bound: seconds of corrections
  MaxTime          \* bound: seconds of real time

ASSUME ClockAssumption ==
  /\ {WatchdogMax, Word32, Word64, RolloverFloor, FirstTime} \subseteq Nat \ {0}
  /\ FirstTime < Word32 /\ Word32 <= Word64 /\ Corrections \subseteq Int
  /\ {MaxCorrected, MaxTime} \subseteq Nat
  /\ \A id \in Ids : Timeout(id) \in Nat

VARIABLES
  now, due,        \* real time, and what has yet to move in this second
  timestamp,       \* sntp_get_current_timestamp
  last_sntp_raw, epoch_overflow_offset,
  init_time, ntp_offline_second_counter,
  counting,        \* ntp_offline_second_counter_timer is armed
  watchdog_list,
  running,         \* watchdog_timer is armed
  fed,             \* when each watchdog was last added, reset or fired, or 0
  fired,           \* the watchdogs that fired in this second, and their silence
  corrected        \* by how many seconds SNTP's timestamp was corrected

sntp  == <<timestamp, corrected>>
clock == <<last_sntp_raw, epoch_overflow_offset>>
start == <<init_time, ntp_offline_second_counter, counting>>
dogs  == <<watchdog_list, running, fed, fired>>
vars  == <<now, due, sntp, clock, start, dogs>>

Init ==
  /\ now = 0 /\ due = {} /\ timestamp = 0 /\ corrected = 0
  /\ last_sntp_raw = 0 /\ epoch_overflow_offset = 0
  /\ init_time = 0 /\ ntp_offline_second_counter = 0 /\ counting = TRUE
  /\ watchdog_list = <<>> /\ running = TRUE
  /\ fed = [id \in Ids |-> 0] /\ fired = {}

-----------------------------------------------------------------------------
(* The clock *)

\* get_unix_time, with the rollover it detects.
RolledOver == timestamp < last_sntp_raw /\ last_sntp_raw > RolloverFloor

Overflow == epoch_overflow_offset + (IF RolledOver THEN Word32 ELSE 0)

UnixTime == IF timestamp = 0 THEN 0 ELSE Overflow + timestamp

ReadClock ==
  IF timestamp = 0 THEN UNCHANGED clock
  ELSE last_sntp_raw' = timestamp /\ epoch_overflow_offset' = Overflow

\* get_uptime, on 64 bits.
Uptime ==
  IF init_time = 0 THEN ntp_offline_second_counter
  ELSE (UnixTime - init_time + ntp_offline_second_counter) % Word64

\* SNTP's first answer, and one that corrects the time.
SntpAnswer ==
  \/ timestamp = 0 /\ timestamp' = FirstTime /\ UNCHANGED corrected
  \/ /\ timestamp # 0
     /\ \E d \in Corrections :
          /\ timestamp' = (timestamp + d) % Word32
          /\ corrected' = corrected + (IF d < 0 THEN -d ELSE d)
     /\ corrected' <= MaxCorrected

Synchronise == SntpAnswer /\ UNCHANGED <<now, due, clock, start, dogs>>

\* A mutation of CountsOn: the offline counter is not stopped.
CountsOnAlways == TRUE

CountsOn == UnixTime = 0

\* What the offline counter holds is part of the uptime for good.
KeptSeconds == ntp_offline_second_counter

\* sntp_check_timer_func, which arms itself again while there is no time.
SntpCheck ==
  /\ counting /\ UnixTime # 0
  /\ ReadClock /\ counting' = CountsOn
  /\ init_time' = IF init_time = 0 THEN UnixTime ELSE init_time
  /\ ntp_offline_second_counter' = KeptSeconds
  /\ UNCHANGED <<now, due, sntp, dogs>>

\* A second has passed.
Second ==
  /\ due = {} /\ now < MaxTime /\ now' = now + 1
  /\ due' = {"watchdog"} \cup (IF counting THEN {"counter"} ELSE {})
                         \cup (IF timestamp = 0 THEN {} ELSE {"sntp"})
  /\ fired' = {}
  /\ UNCHANGED <<sntp, clock, start, watchdog_list, running, fed>>

SntpSecond ==
  /\ "sntp" \in due /\ due' = due \ {"sntp"}
  /\ timestamp' = (timestamp + 1) % Word32
  /\ UNCHANGED <<now, corrected, clock, start, dogs>>

\* ntp_offline_second_counter_timer_func
CounterSecond ==
  /\ "counter" \in due /\ due' = due \ {"counter"}
  /\ ntp_offline_second_counter' =
       ntp_offline_second_counter + (IF counting THEN 1 ELSE 0)
  /\ UNCHANGED <<now, sntp, clock, init_time, counting, dogs>>

-----------------------------------------------------------------------------
(* The watchdogs *)

\* last_reset has 32 bits.
Stamp == Uptime % Word32

HasRoom == Len(watchdog_list) < WatchdogMax

Watched == {watchdog_list[i].id : i \in DOMAIN watchdog_list}

\* add_watchdog.  sample_mode_timer_func adds them seconds after the boot, when
\* the uptime is neither zero nor, for a correction of the clock, below it.
AddWatchdog(id) ==
  /\ HasRoom
  /\ id \notin Watched
  /\ Uptime \in 1 .. Word32 - 1
  /\ watchdog_list' = Append(watchdog_list, [id |-> id, last_reset |-> Stamp])
  /\ fed' = [fed EXCEPT ![id] = now]
  /\ ReadClock
  /\ UNCHANGED <<now, due, sntp, start, running, fired>>

\* remove_watchdog, which moves those behind it down.
RemoveWatchdog(id) ==
  /\ \E i \in DOMAIN watchdog_list :
       /\ watchdog_list[i].id = id
       /\ watchdog_list' = [k \in 1 .. Len(watchdog_list) - 1 |->
                              watchdog_list[IF k < i THEN k ELSE k + 1]]
  /\ fed' = [fed EXCEPT ![id] = 0]
  /\ UNCHANGED <<now, due, sntp, clock, start, running, fired>>

\* reset_watchdog for all of them, by mqtt_published_cb or mqtt_ping_response_cb.
ResetWatchdogs ==
  /\ watchdog_list' = [i \in DOMAIN watchdog_list |->
                         [watchdog_list[i] EXCEPT !.last_reset = Stamp]]
  /\ fed' = [id \in Ids |-> IF id \in Watched THEN now ELSE 0]
  /\ ReadClock
  /\ UNCHANGED <<now, due, sntp, start, running, fired>>

\* A mutation of Expired: it waits for twice the timeout.
ExpiredLate(e) == (Uptime - e.last_reset) % Word64 > 2 * Timeout(e.id)

Expired(e) ==
  e.last_reset # 0 /\ (Uptime - e.last_reset) % Word64 > Timeout(e.id)

\* watchdog_timer_func: those that are due reset the network or restart the
\* device, which stops the watchdogs, and start again.
WatchdogTimer ==
  LET expired == {i \in DOMAIN watchdog_list : Expired(watchdog_list[i])}
      ids     == {watchdog_list[i].id : i \in expired} IN
  /\ "watchdog" \in due /\ due' = due \ {"watchdog"}
  /\ running /\ ReadClock
  /\ watchdog_list' = [i \in DOMAIN watchdog_list |->
                         IF i \in expired
                         THEN [watchdog_list[i] EXCEPT !.last_reset = Stamp]
                         ELSE watchdog_list[i]]
  /\ fired' = {<<id, now - fed[id]>> : id \in ids}
  /\ fed' = [id \in Ids |-> IF id \in ids THEN now ELSE fed[id]]
  /\ running' = \A id \in ids : Kind(id) # "REBOOT"
  /\ UNCHANGED <<now, sntp, start>>

Next ==
  \/ Synchronise
  \/ SntpCheck
  \/ Second
  \/ SntpSecond
  \/ CounterSecond
  \/ \E id \in Ids : AddWatchdog(id)
  \/ \E id \in Ids : RemoveWatchdog(id)
  \/ ResetWatchdogs
  \/ WatchdogTimer

Spec == Init /\ [][Next]_vars

-----------------------------------------------------------------------------
(* Properties *)

TypeOK ==
  /\ now \in 0 .. MaxTime /\ due \subseteq {"sntp", "counter", "watchdog"}
  /\ {timestamp, last_sntp_raw} \subseteq 0 .. Word32 - 1
  /\ corrected \in 0 .. MaxCorrected
  /\ {epoch_overflow_offset, init_time, ntp_offline_second_counter} \subseteq Nat
  /\ counting \in BOOLEAN /\ running \in BOOLEAN
  /\ watchdog_list \in Seq([id : Ids, last_reset : 0 .. Word32 - 1])
  /\ Len(watchdog_list) <= WatchdogMax
  /\ fed \in [Ids -> 0 .. MaxTime] /\ fired \subseteq Ids \X (0 .. MaxTime)

\* How far the clock was moved, at most: its corrections, a second for the order
\* in which the clock and the watchdogs see a second pass, and another one for
\* that in which the offline counter stops and SNTP takes over.
Slack == 2 + corrected

\* watchdog.c:83 "Use unsigned-safe wraparound check": a watchdog fires only
\* when nothing has reset it for its whole timeout, also while the uptime goes
\* over from the offline counter to SNTP.
FiresWhenSilent == \A f \in fired : f[2] + Slack > Timeout(f[1])

\* A watchdog that nothing resets fires: the timer sees the timeout a second later
\* than it ends, and two more for the orders above.  The corrections, which are
\* forward, only bring it closer.
FiresInTime ==
  running => \A i \in DOMAIN watchdog_list :
    now - fed[watchdog_list[i].id] <= Timeout(watchdog_list[i].id) + 3
=============================================================================
