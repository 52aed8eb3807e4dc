---------------------------- MODULE WatchdogProofs ----------------------------
(* The watchdogs fire after their timeout and not before it, for any number   *)
(* of watchdogs, any timeouts and any time of SNTP's first answer.            *)
EXTENDS Watchdog, SequenceTheorems, TLAPS

\* The assumption on the constants, one constant at a time.
LEMMA ConstantsType ==
  /\ WatchdogMax \in Nat /\ Word32 \in Nat \ {0} /\ Word64 \in Nat \ {0}
  /\ FirstTime \in Nat \ {0} /\ FirstTime < Word32 /\ Word32 <= Word64
  /\ MaxCorrected \in Nat /\ MaxTime \in Nat /\ \A id \in Ids : Timeout(id) \in Nat
  /\ \A d \in Corrections : d \in Int
  BY ClockAssumption DEF ClockAssumption

\* The remainder of a number below the modulus.
LEMMA ModSmall ==
  ASSUME NEW m \in Nat \ {0}, NEW n \in 0 .. m - 1
  PROVE  n % m = n
  OBVIOUS

\* A remainder is below its modulus.
LEMMA ModType ==
  ASSUME NEW m \in Nat \ {0}, NEW n \in Int
  PROVE  n % m \in 0 .. m - 1
  OBVIOUS

-----------------------------------------------------------------------------
(* Types *)

\* Nothing was fed in the future.
FedInv == \A id \in Ids : fed[id] <= now

Entry == [id : Ids, last_reset : 0 .. Word32 - 1]

\* What the uptime is, whatever the clock reads.
LEMMA UptimeType ==
  ASSUME TypeOK
  PROVE  /\ Overflow \in Nat /\ UnixTime \in Nat /\ Uptime \in Nat
         /\ Stamp \in 0 .. Word32 - 1
         /\ ReadClock => last_sntp_raw' \in 0 .. Word32 - 1 /\ epoch_overflow_offset' \in Nat
  <1>1. Overflow \in Nat
    BY ConstantsType DEF Overflow, TypeOK
  <1>2. UnixTime \in Nat
    BY <1>1, ConstantsType DEF UnixTime, TypeOK
  <1>3. Uptime \in Nat
    <2>1. UnixTime - init_time + ntp_offline_second_counter \in Int
      BY <1>2 DEF TypeOK
    <2>2. (UnixTime - init_time + ntp_offline_second_counter) % Word64 \in Nat
      BY <2>1, ModType, ConstantsType
    <2> QED
      BY <2>2 DEF Uptime, TypeOK
  <1>4. Stamp \in 0 .. Word32 - 1
    BY <1>3, ModType, ConstantsType DEF Stamp
  <1>5. ReadClock => last_sntp_raw' \in 0 .. Word32 - 1 /\ epoch_overflow_offset' \in Nat
    BY <1>1 DEF ReadClock, clock, TypeOK
  <1> QED
    BY <1>1, <1>2, <1>3, <1>4, <1>5

\* The list with some entries changed, and with one of them removed.
LEMMA ListType ==
  ASSUME TypeOK
  PROVE  /\ Len(watchdog_list) \in Nat /\ DOMAIN watchdog_list = 1 .. Len(watchdog_list)
         /\ \A i \in DOMAIN watchdog_list : watchdog_list[i] \in Entry
         /\ \A f \in [DOMAIN watchdog_list -> Entry] :
              f \in Seq(Entry) /\ Len(f) = Len(watchdog_list)
  <1>1. /\ watchdog_list \in Seq(Entry) /\ Len(watchdog_list) \in Nat
        /\ DOMAIN watchdog_list = 1 .. Len(watchdog_list)
    BY LenProperties DEF TypeOK, Entry
  <1>2. \A i \in DOMAIN watchdog_list : watchdog_list[i] \in Entry
    BY <1>1, ElementOfSeq
  <1>3. ASSUME NEW f \in [DOMAIN watchdog_list -> Entry]
        PROVE  f \in Seq(Entry) /\ Len(f) = Len(watchdog_list)
    <2>1. f \in Seq(Entry)
      BY <1>1, <1>3, SeqDef
    <2> QED
      BY <1>1, <1>3, <2>1, LenProperties
  <1> QED
    BY <1>1, <1>2, <1>3

\* A removed entry's list: those before it, and those behind it one place further.
LEMMA RemoveType ==
  ASSUME TypeOK, NEW i \in DOMAIN watchdog_list,
         watchdog_list' = [k \in 1 .. Len(watchdog_list) - 1 |->
                             watchdog_list[IF k < i THEN k ELSE k + 1]]
  PROVE  /\ watchdog_list' \in Seq(Entry) /\ Len(watchdog_list') = Len(watchdog_list) - 1
         /\ DOMAIN watchdog_list' = 1 .. Len(watchdog_list) - 1
         /\ \A k \in 1 .. Len(watchdog_list) - 1 :
              /\ (IF k < i THEN k ELSE k + 1) \in DOMAIN watchdog_list \ {i}
              /\ watchdog_list'[k] = watchdog_list[IF k < i THEN k ELSE k + 1]
  <1>1. /\ Len(watchdog_list) \in Nat /\ DOMAIN watchdog_list = 1 .. Len(watchdog_list)
        /\ \A j \in DOMAIN watchdog_list : watchdog_list[j] \in Entry
    BY ListType
  <1>2. Len(watchdog_list) - 1 \in Nat
    BY <1>1
  <1>3. \A k \in 1 .. Len(watchdog_list) - 1 :
          (IF k < i THEN k ELSE k + 1) \in DOMAIN watchdog_list \ {i}
    BY <1>1
  <1>4. watchdog_list' \in [1 .. Len(watchdog_list) - 1 -> Entry]
    BY <1>1, <1>3
  <1>5. watchdog_list' \in Seq(Entry)
    BY <1>2, <1>4, SeqDef
  <1>6. Len(watchdog_list') = Len(watchdog_list) - 1
    BY <1>2, <1>4, <1>5, LenProperties
  <1> QED
    BY <1>3, <1>4, <1>5, <1>6

\* A watchdog is fed now, or is as it was, or is no longer watched.
LEMMA FedType ==
  ASSUME TypeOK, FedInv, UNCHANGED now,
         \/ \E id \in Ids : fed' = [fed EXCEPT ![id] = now] \/ fed' = [fed EXCEPT ![id] = 0]
         \/ \E ids : fed' = [id \in Ids |-> IF id \in ids THEN now ELSE 0]
         \/ \E ids : fed' = [id \in Ids |-> IF id \in ids THEN now ELSE fed[id]]
  PROVE  fed' \in [Ids -> 0 .. MaxTime] /\ FedInv'
  <1>1. /\ now \in 0 .. MaxTime /\ MaxTime \in Nat /\ 0 \in 0 .. MaxTime /\ 0 <= now /\ now <= now
        /\ fed \in [Ids -> 0 .. MaxTime] /\ \A id \in Ids : fed[id] <= now
    BY ConstantsType DEF TypeOK, FedInv
  <1>2. fed' \in [Ids -> 0 .. MaxTime]
    BY <1>1
  <1>3. \A id \in Ids : fed'[id] \in {now, 0, fed[id]}
    BY <1>1
  <1> QED
    BY <1>1, <1>2, <1>3 DEF FedInv

\* The variables keep their types, and no watchdog was fed in the future, whatever
\* SNTP answers.
LEMMA TypeNext == TypeOK /\ FedInv /\ [Next]_vars => TypeOK' /\ FedInv'
  <1> SUFFICES ASSUME TypeOK, FedInv, [Next]_vars PROVE TypeOK' /\ FedInv'
    OBVIOUS
  <1>1. CASE Synchronise
    <2>1. timestamp' \in 0 .. Word32 - 1 /\ corrected' \in 0 .. MaxCorrected
      <3>1. CASE timestamp = 0 /\ timestamp' = FirstTime /\ UNCHANGED corrected
        BY <3>1, ConstantsType DEF TypeOK
      <3>2. CASE timestamp # 0 /\ corrected' <= MaxCorrected
                 /\ \E d \in Corrections :
                      /\ timestamp' = (timestamp + d) % Word32
                      /\ corrected' = corrected + (IF d < 0 THEN -d ELSE d)
        <4>1. PICK d \in Corrections :
                /\ timestamp' = (timestamp + d) % Word32
                /\ corrected' = corrected + (IF d < 0 THEN -d ELSE d)
          BY <3>2
        <4>2. d \in Int /\ timestamp + d \in Int
          BY <4>1, ConstantsType DEF TypeOK
        <4>3. timestamp' \in 0 .. Word32 - 1
          BY <4>1, <4>2, ModType, ConstantsType
        <4>4. corrected \in Nat /\ MaxCorrected \in Nat
          BY ConstantsType DEF TypeOK
        <4>5. corrected' \in 0 .. MaxCorrected
          <5>1. CASE d < 0
            BY <3>2, <4>1, <4>2, <4>4, <5>1
          <5>2. CASE ~(d < 0)
            BY <3>2, <4>1, <4>2, <4>4, <5>2
          <5> QED
            BY <5>1, <5>2
        <4> QED
          BY <4>3, <4>5
      <3> QED
        BY <1>1, <3>1, <3>2 DEF Synchronise, SntpAnswer
    <2> QED
      BY <1>1, <2>1 DEF Synchronise, TypeOK, FedInv, clock, start, dogs
  <1>2. CASE SntpCheck
    BY <1>2, UptimeType DEF SntpCheck, CountsOn, KeptSeconds, TypeOK, FedInv, sntp, dogs
  <1>3. CASE Second
    BY <1>3, ConstantsType DEF Second, TypeOK, FedInv, sntp, clock, start
  <1>4. CASE SntpSecond
    <2>1. timestamp + 1 \in Int
      BY DEF TypeOK
    <2>2. (timestamp + 1) % Word32 \in 0 .. Word32 - 1
      BY <2>1, ModType, ConstantsType
    <2> QED
      BY <1>4, <2>2 DEF SntpSecond, TypeOK, FedInv, clock, start, dogs
  <1>5. CASE CounterSecond
    BY <1>5 DEF CounterSecond, TypeOK, FedInv, sntp, clock, dogs
  <1>6. ASSUME NEW id \in Ids, AddWatchdog(id) PROVE TypeOK' /\ FedInv'
    <2>1. [id |-> id, last_reset |-> Stamp] \in Entry
      BY UptimeType DEF Entry
    <2>2. watchdog_list' \in Seq(Entry) /\ Len(watchdog_list') = Len(watchdog_list) + 1
      BY <1>6, <2>1, AppendProperties DEF AddWatchdog, TypeOK, Entry
    <2>3. Len(watchdog_list') <= WatchdogMax
      BY <1>6, <2>2, ListType, ConstantsType DEF AddWatchdog, HasRoom
    <2>4. fed' \in [Ids -> 0 .. MaxTime] /\ FedInv'
      BY <1>6, FedType DEF AddWatchdog
    <2> QED
      BY <1>6, <2>2, <2>3, <2>4, UptimeType DEF AddWatchdog, TypeOK, Entry, sntp, start
  <1>7. ASSUME NEW id \in Ids, RemoveWatchdog(id) PROVE TypeOK' /\ FedInv'
    <2>1. watchdog_list' \in Seq(Entry) /\ Len(watchdog_list') <= WatchdogMax
      <3>1. watchdog_list' \in Seq(Entry) /\ Len(watchdog_list') = Len(watchdog_list) - 1
        BY <1>7, RemoveType DEF RemoveWatchdog
      <3>2. Len(watchdog_list) <= WatchdogMax
        BY DEF TypeOK
      <3> QED
        BY <3>1, <3>2, ListType, ConstantsType
    <2>2. fed' \in [Ids -> 0 .. MaxTime] /\ FedInv'
      BY <1>7, FedType DEF RemoveWatchdog
    <2> QED
      BY <1>7, <2>1, <2>2 DEF RemoveWatchdog, TypeOK, Entry, sntp, clock, start
  <1>8. CASE ResetWatchdogs
    <2>1. watchdog_list' \in [DOMAIN watchdog_list -> Entry]
      BY <1>8, UptimeType, ListType DEF ResetWatchdogs, Entry
    <2>2. watchdog_list' \in Seq(Entry) /\ Len(watchdog_list') <= WatchdogMax
      BY <2>1, ListType DEF TypeOK
    <2>3. fed' \in [Ids -> 0 .. MaxTime] /\ FedInv'
      BY <1>8, FedType DEF ResetWatchdogs
    <2> QED
      BY <1>8, <2>2, <2>3, UptimeType DEF ResetWatchdogs, TypeOK, Entry, sntp, start
  <1>9. CASE WatchdogTimer
    <2>1. watchdog_list' \in [DOMAIN watchdog_list -> Entry]
      BY <1>9, UptimeType, ListType DEF WatchdogTimer, Entry
    <2>2. watchdog_list' \in Seq(Entry) /\ Len(watchdog_list') <= WatchdogMax
      BY <2>1, ListType DEF TypeOK
    <2>3. fed' \in [Ids -> 0 .. MaxTime] /\ FedInv'
      <3>1. UNCHANGED now /\ \E ids : fed' = [id \in Ids |-> IF id \in ids THEN now ELSE fed[id]]
        BY <1>9 DEF WatchdogTimer
      <3> QED
        BY <3>1, FedType
    <2>4. fired' \subseteq Ids \X (0 .. MaxTime)
      <3>1. PICK ids : /\ ids \subseteq {watchdog_list[i].id : i \in DOMAIN watchdog_list}
                       /\ fired' = {<<id, now - fed[id]>> : id \in ids}
        BY <1>9 DEF WatchdogTimer
      <3>2. ids \subseteq Ids
        BY <3>1, ListType DEF Entry
      <3>3. \A id \in Ids : now - fed[id] \in 0 .. MaxTime
        BY ConstantsType DEF TypeOK, FedInv
      <3> QED
        BY <3>1, <3>2, <3>3
    <2>5. running' \in BOOLEAN /\ due' \subseteq {"sntp", "counter", "watchdog"}
      BY <1>9 DEF WatchdogTimer, TypeOK
    <2> QED
      BY <1>9, <2>2, <2>3, <2>4, <2>5, UptimeType DEF WatchdogTimer, TypeOK, Entry, sntp, start
  <1>10. CASE UNCHANGED vars
    BY <1>10 DEF vars, sntp, clock, start, dogs, TypeOK, FedInv
  <1> QED
    BY <1>1, <1>2, <1>3, <1>4, <1>5, <1>6, <1>7, <1>8, <1>9, <1>10 DEF Next

\* Every variable has its type, and no watchdog was fed in the future.
THEOREM TypeCorrect == Spec => [](TypeOK /\ FedInv)
  <1>1. Init => TypeOK /\ FedInv
    BY ConstantsType DEF Init, TypeOK, FedInv
  <1> QED
    BY <1>1, TypeNext, PTL DEF Spec

-----------------------------------------------------------------------------
(* The invariant: the uptime follows real time *)

\* The clock is never set back, and the run ends before SNTP's timestamp rolls over.
NeverSetBack == Corrections \subseteq Nat
BeforeRollover == FirstTime + MaxTime + MaxCorrected < Word32

\* The second that SNTP, the offline counter and watchdog_timer have yet to see.
SntpDue    == IF "sntp" \in due THEN 1 ELSE 0
CounterDue == IF "counter" \in due THEN 1 ELSE 0
TimerDue   == IF "watchdog" \in due THEN 1 ELSE 0

\* Once SNTP has the time: how far the uptime is ahead of real time at the end of
\* the second.
Lead == timestamp - init_time + ntp_offline_second_counter + SntpDue - now

\* SNTP's timestamp only grows, and what get_unix_time keeps of it is no later.
SntpInv ==
  /\ "sntp" \in due => timestamp # 0
  /\ timestamp # 0 => timestamp + SntpDue <= FirstTime + now + corrected
  /\ last_sntp_raw <= timestamp /\ epoch_overflow_offset = 0

\* The uptime is real time, but for a second's order and the corrections.
UptimeInv ==
  /\ counting <=> init_time = 0
  /\ counting => ntp_offline_second_counter = now - CounterDue
  /\ ~counting => init_time <= timestamp /\ Lead \in -1 .. 1 + corrected

\* How far the uptime was ahead of real time when entry e was last reset.
Ahead(e) == e.last_reset - fed[e.id]

\* Since entry e was last reset, the uptime and real time have advanced by the
\* same, but for two seconds and the corrections.
EntryInv(e) ==
  /\ 1 <= e.last_reset /\ e.last_reset <= Uptime
  /\ counting => Ahead(e) \in -1 .. 0
  /\ ~counting => Lead - Ahead(e) \in -1 .. 2 + corrected
  /\ running => now - fed[e.id] <= Timeout(e.id) + 2 + TimerDue

Entries == {watchdog_list[i] : i \in DOMAIN watchdog_list}

\* A watchdog has one entry.
OneEntry == \A i, j \in DOMAIN watchdog_list : watchdog_list[i].id = watchdog_list[j].id => i = j


\* The inductive invariant of the clock and of the watchdogs.
ClockInv == SntpInv /\ UptimeInv
DogInv   == OneEntry /\ (\A e \in Entries : EntryInv(e)) /\ FiresWhenSilent

-----------------------------------------------------------------------------
(* The clock *)

\* The variables of the clock, one at a time.
LEMMA ClockType ==
  ASSUME TypeOK
  PROVE  /\ now \in Nat /\ timestamp \in Nat /\ init_time \in Nat /\ last_sntp_raw \in Nat
         /\ ntp_offline_second_counter \in Nat /\ corrected \in Nat /\ counting \in BOOLEAN
         /\ SntpDue \in {0, 1} /\ CounterDue \in {0, 1}
         /\ corrected <= MaxCorrected /\ now <= MaxTime /\ timestamp < Word32
         /\ Lead \in Int
  BY ConstantsType DEF TypeOK, SntpDue, CounterDue, Lead

\* A clock that is not set back does not look as if it had rolled over.
LEMMA ClockReads ==
  ASSUME TypeOK, SntpInv
  PROVE  /\ Overflow = 0 /\ UnixTime = timestamp
         /\ ReadClock => epoch_overflow_offset' = 0 /\ last_sntp_raw' \in {last_sntp_raw, timestamp}
  <1>1. Overflow = 0
    BY ClockType DEF SntpInv, Overflow, RolledOver
  <1>2. UnixTime = timestamp
    BY <1>1, ClockType DEF UnixTime
  <1>3. ReadClock => epoch_overflow_offset' = 0 /\ last_sntp_raw' \in {last_sntp_raw, timestamp}
    BY <1>1 DEF ReadClock, SntpInv, clock
  <1> QED
    BY <1>1, <1>2, <1>3

\* The uptime neither wraps nor is truncated to the 32 bits of last_reset.
UptimeRight ==
  /\ Uptime \in 0 .. Word32 - 1 /\ Stamp = Uptime
  /\ counting => Uptime = now - CounterDue
  /\ ~counting => Uptime = now + Lead - SntpDue

\* The invariant of the clock gives the uptime.
LEMMA UptimeIs ==
  ASSUME TypeOK, ClockInv, BeforeRollover
  PROVE  UptimeRight
  <1>1. UnixTime = timestamp
    BY ClockReads DEF ClockInv
  <1>2. FirstTime + MaxTime + MaxCorrected < Word32
    BY DEF BeforeRollover
  <1>3. CASE counting
    <2>1. Uptime = ntp_offline_second_counter /\ Uptime = now - CounterDue
      BY <1>3 DEF ClockInv, UptimeInv, Uptime
    <2>2. Uptime \in 0 .. Word32 - 1
      BY <1>2, <2>1, ClockType, ConstantsType
    <2> QED
      BY <1>3, <2>1, <2>2, ModSmall, ConstantsType DEF Stamp, UptimeRight
  <1>4. CASE ~counting
    <2> DEFINE up == timestamp - init_time + ntp_offline_second_counter
    <2>1. init_time # 0 /\ init_time <= timestamp /\ Lead \in -1 .. 1 + corrected
      BY <1>4 DEF ClockInv, UptimeInv
    <2>2. up = now + Lead - SntpDue /\ up \in Nat
      BY <2>1, ClockType DEF Lead
    <2>3. up < Word32
      BY <1>2, <2>1, <2>2, ClockType, ConstantsType
    <2>4. up \in 0 .. Word32 - 1 /\ up \in 0 .. Word64 - 1
      BY <2>2, <2>3, ConstantsType
    <2>5. Uptime = up % Word64
      BY <1>1, <2>1 DEF Uptime
    <2>6. Uptime = up
      BY <2>4, <2>5, ModSmall, ConstantsType
    <2>7. Stamp = up
      BY <2>4, <2>6, ModSmall, ConstantsType DEF Stamp
    <2> QED
      BY <1>4, <2>2, <2>4, <2>6, <2>7 DEF UptimeRight
  <1> QED
    BY <1>3, <1>4, ClockType

\* And so it does after a step.
LEMMA UptimeNext ==
  ASSUME BeforeRollover
  PROVE  (TypeOK /\ ClockInv => UptimeRight)'
  <1>1. TypeOK /\ ClockInv => UptimeRight
    BY UptimeIs
  <1> QED
    BY <1>1, PTL

\* What a step of the clock leaves of the uptime: it does not go back, and Lead moves
\* with the corrections only.
Advances ==
  /\ Uptime' >= Uptime
  /\ counting' => counting /\ Uptime' - now' \in -1 .. 0
  /\ ~counting' /\ counting => Lead' \in -1 .. 1 /\ corrected' = corrected
  /\ ~counting' /\ ~counting => Lead' >= Lead /\ Lead' - Lead = corrected' - corrected
  /\ corrected' >= corrected

\* SNTP's first answer, and one that sets the clock forward.
LEMMA ClockSynchronise ==
  ASSUME TypeOK, TypeOK', ClockInv, NeverSetBack, BeforeRollover, Synchronise
  PROVE  ClockInv' /\ Advances
  <1>1. /\ UNCHANGED <<now, due, last_sntp_raw, epoch_overflow_offset, init_time,
                       ntp_offline_second_counter, counting>>
        /\ SntpDue' = SntpDue /\ CounterDue' = CounterDue
    BY DEF Synchronise, clock, start, SntpDue, CounterDue
  <1>2. FirstTime + MaxTime + MaxCorrected < Word32
    BY DEF BeforeRollover
  <1>3. PICK d \in Nat : timestamp' = timestamp + d /\ (timestamp # 0 => corrected' = corrected + d)
                         /\ (timestamp = 0 => corrected' = corrected /\ d = FirstTime)
    <2>1. CASE timestamp = 0 /\ timestamp' = FirstTime /\ UNCHANGED corrected
      BY <2>1, ConstantsType
    <2>2. CASE timestamp # 0 /\ corrected' <= MaxCorrected
               /\ \E d \in Corrections :
                    /\ timestamp' = (timestamp + d) % Word32
                    /\ corrected' = corrected + (IF d < 0 THEN -d ELSE d)
      <3>1. PICK d \in Corrections :
              /\ timestamp' = (timestamp + d) % Word32
              /\ corrected' = corrected + (IF d < 0 THEN -d ELSE d)
        BY <2>2
      <3>2. d \in Nat
        BY <3>1 DEF NeverSetBack
      <3>3. corrected' = corrected + d
        BY <3>1, <3>2
      <3>4. timestamp + SntpDue <= FirstTime + now + corrected
        BY <2>2 DEF ClockInv, SntpInv
      <3>5. timestamp + d \in 0 .. Word32 - 1
        BY <1>2, <2>2, <3>2, <3>3, <3>4, ClockType, ConstantsType
      <3>6. timestamp' = timestamp + d
        BY <3>1, <3>5, ModSmall, ConstantsType
      <3> QED
        BY <2>2, <3>2, <3>3, <3>6
    <2> QED
      BY <2>1, <2>2 DEF Synchronise, SntpAnswer
  <1>4. timestamp = 0 => counting /\ SntpDue = 0
    BY ClockType DEF ClockInv, UptimeInv, SntpInv, SntpDue
  <1>5. SntpInv'
    <2>1. "sntp" \in due' => timestamp' # 0
      BY <1>1, <1>3, ClockType DEF ClockInv, SntpInv
    <2>2. timestamp' + SntpDue' <= FirstTime + now' + corrected'
      BY <1>1, <1>3, <1>4, ClockType, ConstantsType DEF ClockInv, SntpInv
    <2>3. last_sntp_raw' <= timestamp'
      BY <1>1, <1>3, ClockType DEF ClockInv, SntpInv
    <2> QED
      BY <1>1, <2>1, <2>2, <2>3 DEF SntpInv, ClockInv
  <1>6. ~counting => Lead' = Lead + d /\ corrected' = corrected + d
    BY <1>1, <1>3, <1>4, ClockType DEF Lead
  <1>7. UptimeInv'
    <2>1. ~counting => init_time' <= timestamp' /\ Lead' \in -1 .. 1 + corrected'
      BY <1>1, <1>3, <1>6, ClockType DEF ClockInv, UptimeInv
    <2> QED
      BY <1>1, <2>1 DEF ClockInv, UptimeInv
  <1>8. ClockInv'
    BY <1>5, <1>7 DEF ClockInv
  <1>9. Advances
    <2>1. /\ counting => Uptime = now - CounterDue /\ Uptime' = now' - CounterDue'
          /\ ~counting => Uptime = now + Lead - SntpDue /\ Uptime' = now' + Lead' - SntpDue'
      BY <1>1, <1>8, UptimeIs, UptimeNext DEF UptimeRight
    <2>2. CASE counting
      BY <1>1, <1>3, <2>1, <2>2, ClockType DEF Advances
    <2>3. CASE ~counting
      BY <1>1, <1>6, <2>1, <2>3, ClockType DEF Advances
    <2> QED
      BY <2>2, <2>3
  <1> QED
    BY <1>8, <1>9

\* sntp_check_timer_func: the uptime goes over from the offline counter to SNTP.
LEMMA ClockSntpCheck ==
  ASSUME TypeOK, TypeOK', ClockInv, BeforeRollover, SntpCheck
  PROVE  ClockInv' /\ Advances
  <1>1. /\ UNCHANGED <<now, due, timestamp, corrected, ntp_offline_second_counter>>
        /\ SntpDue' = SntpDue /\ CounterDue' = CounterDue /\ ReadClock /\ counting
    BY DEF SntpCheck, KeptSeconds, sntp, SntpDue, CounterDue
  <1>2. UnixTime = timestamp /\ timestamp # 0 /\ counting' = FALSE /\ init_time' = timestamp
    BY <1>1, ClockReads DEF SntpCheck, CountsOn, ClockInv, UptimeInv
  <1>3. SntpInv'
    BY <1>1, ClockReads, ClockType DEF ClockInv, SntpInv
  <1>4. Lead' \in -1 .. 1 /\ Lead' = SntpDue - CounterDue
    BY <1>1, <1>2, ClockType DEF Lead, ClockInv, UptimeInv
  <1>5. UptimeInv'
    BY <1>1, <1>2, <1>4, ClockType DEF UptimeInv
  <1>6. ClockInv'
    BY <1>3, <1>5 DEF ClockInv
  <1>7. Uptime = now - CounterDue /\ Uptime' = now' + Lead' - SntpDue'
    BY <1>1, <1>2, <1>6, UptimeIs, UptimeNext DEF UptimeRight
  <1>8. Uptime' = Uptime
    BY <1>1, <1>4, <1>7, ClockType
  <1> QED
    BY <1>1, <1>2, <1>4, <1>6, <1>8, ClockType, UptimeType DEF Advances

\* A second passes: nothing has seen it yet.
LEMMA ClockSecond ==
  ASSUME TypeOK, TypeOK', ClockInv, BeforeRollover, Second
  PROVE  ClockInv' /\ Advances
  <1>1. /\ UNCHANGED <<timestamp, corrected, last_sntp_raw, epoch_overflow_offset, init_time,
                       ntp_offline_second_counter, counting>> /\ now' = now + 1
        /\ SntpDue = 0 /\ CounterDue = 0
        /\ SntpDue' = (IF timestamp = 0 THEN 0 ELSE 1)
        /\ CounterDue' = (IF counting THEN 1 ELSE 0)
        /\ "sntp" \in due' => timestamp # 0
    BY DEF Second, sntp, clock, start, SntpDue, CounterDue
  <1>2. SntpInv'
    BY <1>1, ClockType, ConstantsType DEF ClockInv, SntpInv
  <1>3. ~counting => timestamp # 0 /\ Lead' = Lead
    BY <1>1, ClockType DEF ClockInv, UptimeInv, Lead
  <1>4. UptimeInv'
    BY <1>1, <1>3, ClockType DEF ClockInv, UptimeInv
  <1>5. ClockInv'
    BY <1>2, <1>4 DEF ClockInv
  <1>6. /\ counting => Uptime = now - CounterDue /\ Uptime' = now' - CounterDue'
        /\ ~counting => Uptime = now + Lead - SntpDue /\ Uptime' = now' + Lead' - SntpDue'
    BY <1>1, <1>5, UptimeIs, UptimeNext DEF UptimeRight
  <1> QED
    BY <1>1, <1>3, <1>5, <1>6, ClockType DEF Advances

\* SNTP's timestamp moves on.
LEMMA ClockSntpSecond ==
  ASSUME TypeOK, TypeOK', ClockInv, BeforeRollover, SntpSecond
  PROVE  ClockInv' /\ Advances
  <1>1. /\ UNCHANGED <<now, corrected, last_sntp_raw, epoch_overflow_offset, init_time,
                       ntp_offline_second_counter, counting>>
        /\ SntpDue = 1 /\ SntpDue' = 0 /\ CounterDue' = CounterDue /\ "sntp" \notin due'
        /\ timestamp # 0
    BY DEF SntpSecond, clock, start, SntpDue, CounterDue, ClockInv, SntpInv
  <1>2. timestamp + 1 <= FirstTime + now + corrected
    BY <1>1 DEF ClockInv, SntpInv
  <1>3. timestamp + 1 \in 0 .. Word32 - 1
    BY <1>2, ClockType, ConstantsType DEF BeforeRollover
  <1>4. timestamp' = timestamp + 1
    BY <1>3, ModSmall, ConstantsType DEF SntpSecond
  <1>5. SntpInv'
    BY <1>1, <1>2, <1>4, ClockType, ConstantsType DEF ClockInv, SntpInv
  <1>6. Lead' = Lead
    BY <1>1, <1>4, ClockType DEF Lead
  <1>7. UptimeInv'
    BY <1>1, <1>4, <1>6, ClockType DEF ClockInv, UptimeInv
  <1>8. ClockInv'
    BY <1>5, <1>7 DEF ClockInv
  <1>9. /\ counting => Uptime = now - CounterDue /\ Uptime' = now' - CounterDue'
        /\ ~counting => Uptime = now + Lead - SntpDue /\ Uptime' = now' + Lead' - SntpDue'
    BY <1>1, <1>8, UptimeIs, UptimeNext DEF UptimeRight
  <1> QED
    BY <1>1, <1>6, <1>8, <1>9, ClockType DEF Advances

\* The offline counter moves on, if SNTP has not stopped it.
LEMMA ClockCounterSecond ==
  ASSUME TypeOK, TypeOK', ClockInv, BeforeRollover, CounterSecond
  PROVE  ClockInv' /\ Advances
  <1>1. /\ UNCHANGED <<now, timestamp, corrected, last_sntp_raw, epoch_overflow_offset,
                       init_time, counting>>
        /\ SntpDue' = SntpDue /\ CounterDue = 1 /\ CounterDue' = 0
        /\ due' \subseteq due
        /\ ntp_offline_second_counter' =
             ntp_offline_second_counter + (IF counting THEN 1 ELSE 0)
    BY DEF CounterSecond, sntp, clock, SntpDue, CounterDue
  <1>2. SntpInv'
    BY <1>1 DEF ClockInv, SntpInv
  <1>3. ~counting => Lead' = Lead
    BY <1>1, ClockType DEF Lead
  <1>4. UptimeInv'
    BY <1>1, <1>3, ClockType DEF ClockInv, UptimeInv
  <1>5. ClockInv'
    BY <1>2, <1>4 DEF ClockInv
  <1>6. /\ counting => Uptime = now - CounterDue /\ Uptime' = now' - CounterDue'
        /\ ~counting => Uptime = now + Lead - SntpDue /\ Uptime' = now' + Lead' - SntpDue'
    BY <1>1, <1>5, UptimeIs, UptimeNext DEF UptimeRight
  <1> QED
    BY <1>1, <1>3, <1>5, <1>6, ClockType DEF Advances

\* Reading the clock changes neither the time nor the uptime.
LEMMA ClockRead ==
  ASSUME TypeOK, TypeOK', ClockInv, BeforeRollover, UNCHANGED <<now, sntp, start>>,
         "sntp" \in due' <=> "sntp" \in due, "counter" \in due' <=> "counter" \in due,
         ReadClock \/ UNCHANGED clock
  PROVE  ClockInv' /\ Advances /\ Uptime' = Uptime /\ Lead' = Lead
  <1>1. /\ UNCHANGED <<now, timestamp, corrected, init_time, ntp_offline_second_counter, counting>>
        /\ SntpDue' = SntpDue /\ CounterDue' = CounterDue
    BY DEF sntp, start, SntpDue, CounterDue
  <1>2. epoch_overflow_offset' = 0 /\ last_sntp_raw' \in {last_sntp_raw, timestamp}
    BY ClockReads DEF ClockInv, SntpInv, clock
  <1>3. SntpInv'
    BY <1>1, <1>2, ClockType DEF ClockInv, SntpInv
  <1>4. Lead' = Lead
    BY <1>1 DEF Lead
  <1>5. UptimeInv'
    BY <1>1, <1>4 DEF ClockInv, UptimeInv
  <1>6. ClockInv'
    BY <1>3, <1>5 DEF ClockInv
  <1>7. /\ counting => Uptime = now - CounterDue /\ Uptime' = now' - CounterDue'
        /\ ~counting => Uptime = now + Lead - SntpDue /\ Uptime' = now' + Lead' - SntpDue'
    BY <1>1, <1>6, UptimeIs, UptimeNext DEF UptimeRight
  <1>8. Uptime' = Uptime
    BY <1>1, <1>4, <1>7, ClockType
  <1> QED
    BY <1>1, <1>4, <1>6, <1>7, <1>8, ClockType DEF Advances

-----------------------------------------------------------------------------
(* The watchdogs *)

\* An entry, and what is fed, one at a time.
LEMMA EntryType ==
  ASSUME TypeOK, FedInv, NEW e \in Entry
  PROVE  /\ e.id \in Ids /\ e.last_reset \in Nat /\ e.last_reset < Word32
         /\ fed[e.id] \in Nat /\ fed[e.id] <= now /\ Timeout(e.id) \in Nat
         /\ Ahead(e) \in Int
  <1>1. e.id \in Ids /\ e.last_reset \in Nat /\ e.last_reset < Word32
    BY ConstantsType DEF Entry
  <1>2. fed[e.id] \in Nat /\ fed[e.id] <= now /\ Timeout(e.id) \in Nat
    BY <1>1, ConstantsType DEF TypeOK, FedInv
  <1> QED
    BY <1>1, <1>2 DEF Ahead

\* Since an entry was last reset the uptime has advanced like real time, but for two
\* seconds and the corrections, and the 64 bit difference does not wrap.
LEMMA Drift ==
  ASSUME TypeOK, FedInv, ClockInv, BeforeRollover, NEW e \in Entry, EntryInv(e)
  PROVE  /\ (Uptime - e.last_reset) % Word64 = Uptime - e.last_reset
         /\ Uptime - e.last_reset >= now - fed[e.id] - 2
         /\ Uptime - e.last_reset <= now - fed[e.id] + 2 + corrected
  <1>1. Uptime \in Nat /\ Uptime < Word32 /\ 1 <= e.last_reset /\ e.last_reset <= Uptime
    BY UptimeIs, ConstantsType DEF UptimeRight, EntryInv
  <1>2. (Uptime - e.last_reset) % Word64 = Uptime - e.last_reset
    <2>1. Uptime - e.last_reset \in 0 .. Word64 - 1
      BY <1>1, EntryType, ConstantsType
    <2> QED
      BY <2>1, ModSmall, ConstantsType
  <1>3. CASE counting
    <2>1. Uptime = now - CounterDue /\ Ahead(e) \in -1 .. 0
      BY <1>3, UptimeIs DEF UptimeRight, EntryInv
    <2> QED
      BY <1>2, <2>1, EntryType, ClockType DEF Ahead
  <1>4. CASE ~counting
    <2>1. Uptime = now + Lead - SntpDue /\ Lead - Ahead(e) \in -1 .. 2 + corrected
      BY <1>4, UptimeIs DEF UptimeRight, EntryInv
    <2> QED
      BY <1>2, <2>1, EntryType, ClockType DEF Ahead
  <1> QED
    BY <1>3, <1>4

\* The type of the uptime after a step.
LEMMA UptimeTypeNext == (TypeOK => Uptime \in Nat)'
  <1>1. TypeOK => Uptime \in Nat
    BY UptimeType
  <1> QED
    BY <1>1, PTL

\* What the clock reads after a step, one value at a time.
LEMMA NextType ==
  ASSUME TypeOK, TypeOK'
  PROVE  /\ Uptime' \in Nat /\ Lead' \in Int /\ now' \in Nat /\ corrected' \in Nat
         /\ TimerDue' \in {0, 1} /\ TimerDue \in {0, 1} /\ Uptime \in Nat
  <1>1. Uptime \in Nat
    BY UptimeType
  <1>2. Uptime' \in Nat
    BY UptimeTypeNext
  <1>3. Lead' \in Int /\ now' \in Nat /\ corrected' \in Nat
    <2>1. /\ now' \in Nat /\ timestamp' \in Nat /\ init_time' \in Nat /\ corrected' \in Nat
          /\ ntp_offline_second_counter' \in Nat
      BY ConstantsType DEF TypeOK
    <2>2. SntpDue' \in {0, 1}
      BY DEF SntpDue
    <2> QED
      BY <2>1, <2>2 DEF Lead
  <1>4. TimerDue' \in {0, 1} /\ TimerDue \in {0, 1}
    BY DEF TimerDue
  <1> QED
    BY <1>1, <1>2, <1>3, <1>4

\* An entry that a step of the clock leaves alone.
LEMMA EntryAdvances ==
  ASSUME TypeOK, TypeOK', FedInv, Advances, NEW e \in Entry, EntryInv(e),
         fed'[e.id] = fed[e.id], running' => running, now' - TimerDue' = now - TimerDue
  PROVE  EntryInv(e)'
  <1>1. 1 <= e.last_reset /\ e.last_reset <= Uptime'
    BY NextType, EntryType DEF EntryInv, Advances
  <1>2. Ahead(e)' = Ahead(e)
    BY DEF Ahead
  <1>3. counting' => Ahead(e)' \in -1 .. 0
    BY <1>2 DEF EntryInv, Advances
  <1>4. ~counting' => Lead' - Ahead(e)' \in -1 .. 2 + corrected'
    <2>1. CASE counting
      BY <1>2, <2>1, EntryType, ClockType DEF EntryInv, Advances
    <2>2. CASE ~counting
      BY <1>2, <2>2, EntryType, ClockType, NextType DEF EntryInv, Advances
    <2> QED
      BY <2>1, <2>2
  <1>5. running' => now' - fed'[e.id] <= Timeout(e.id) + 2 + TimerDue'
    BY EntryType, ClockType, NextType DEF EntryInv
  <1> QED
    BY <1>1, <1>3, <1>4, <1>5 DEF EntryInv

\* An entry that was just added, or reset.
LEMMA EntryFed ==
  ASSUME TypeOK, TypeOK', FedInv, ClockInv, BeforeRollover, UNCHANGED <<now, sntp, start>>,
         Uptime' = Uptime, Lead' = Lead, NEW e \in Entry, e.last_reset = Stamp, Uptime >= 1,
         fed'[e.id] = now
  PROVE  EntryInv(e)'
  <1>1. e.last_reset = Uptime
    BY UptimeIs DEF UptimeRight
  <1>2. Ahead(e)' = Uptime - now /\ counting' = counting /\ corrected' = corrected
    BY <1>1 DEF Ahead, sntp, start
  <1>3. counting' => Ahead(e)' \in -1 .. 0
    BY <1>2, UptimeIs, ClockType DEF UptimeRight
  <1>4. ~counting' => Lead' - Ahead(e)' \in -1 .. 2 + corrected'
    BY <1>2, UptimeIs, ClockType DEF UptimeRight
  <1>5. now' - fed'[e.id] <= Timeout(e.id) + 2 + TimerDue'
    BY EntryType, NextType
  <1>6. 1 <= e.last_reset /\ e.last_reset <= Uptime'
    BY <1>1, NextType
  <1> QED
    BY <1>3, <1>4, <1>5, <1>6 DEF EntryInv

\* An entry that watchdog_timer_func finds in time.
LEMMA EntryInTime ==
  ASSUME TypeOK, TypeOK', FedInv, ClockInv, BeforeRollover, UNCHANGED <<now, sntp, start>>,
         Uptime' = Uptime, Lead' = Lead, NEW e \in Entry, EntryInv(e), ~Expired(e),
         fed'[e.id] = fed[e.id]
  PROVE  EntryInv(e)'
  <1>1. Uptime - e.last_reset <= Timeout(e.id)
    <2>1. e.last_reset # 0
      BY EntryType DEF EntryInv
    <2>2. ~((Uptime - e.last_reset) % Word64 > Timeout(e.id))
      BY <2>1 DEF Expired
    <2>3. (Uptime - e.last_reset) % Word64 = Uptime - e.last_reset
      BY Drift
    <2>4. Uptime - e.last_reset \in Int /\ Timeout(e.id) \in Int
      BY EntryType, UptimeType
    <2> QED
      BY <2>2, <2>3, <2>4
  <1>2. now - fed[e.id] <= Timeout(e.id) + 2
    BY <1>1, Drift, EntryType, ClockType, NextType
  <1>3. now' - fed'[e.id] <= Timeout(e.id) + 2 + TimerDue'
    BY <1>2, EntryType, NextType
  <1>4. Ahead(e)' = Ahead(e) /\ counting' = counting /\ corrected' = corrected
    BY DEF Ahead, sntp, start
  <1> QED
    BY <1>3, <1>4 DEF EntryInv

\* A watchdog that fires was silent for its timeout.
LEMMA EntrySilent ==
  ASSUME TypeOK, FedInv, ClockInv, BeforeRollover, NEW e \in Entry, EntryInv(e), Expired(e)
  PROVE  now - fed[e.id] + Slack > Timeout(e.id)
  BY Drift, EntryType, ClockType, NextType, UptimeType DEF Expired, Slack

\* The entries have their type.
LEMMA EntriesType ==
  ASSUME TypeOK
  PROVE  Entries \subseteq Entry /\ \A i \in DOMAIN watchdog_list : watchdog_list[i] \in Entries
  BY ListType DEF Entries

\* What fired stays silent for long enough, until the next second.
LEMMA SilentKept ==
  ASSUME TypeOK, TypeOK', FiresWhenSilent, fired' \in {fired, {}}, corrected' >= corrected
  PROVE  FiresWhenSilent'
  <1> SUFFICES ASSUME NEW f \in fired PROVE f[2] + Slack' > Timeout(f[1])
    BY DEF FiresWhenSilent
  <1>1. f \in Ids \X (0 .. MaxTime) /\ f[2] + Slack > Timeout(f[1])
    BY DEF FiresWhenSilent, TypeOK
  <1>2. f[2] \in Nat /\ Timeout(f[1]) \in Nat
    BY <1>1, ConstantsType
  <1> QED
    BY <1>1, <1>2, ClockType, NextType DEF Slack

\* A step of the clock.
LEMMA DogAdvances ==
  ASSUME TypeOK, TypeOK', FedInv, DogInv, Advances, UNCHANGED <<watchdog_list, running, fed>>,
         fired' \in {fired, {}}, now' - TimerDue' = now - TimerDue
  PROVE  DogInv'
  <1>1. OneEntry' /\ Entries' = Entries
    BY DEF DogInv, OneEntry, Entries
  <1>2. \A e \in Entries : EntryInv(e)'
    BY EntriesType, EntryAdvances DEF DogInv
  <1>3. FiresWhenSilent'
    BY SilentKept DEF DogInv, Advances
  <1> QED
    BY <1>1, <1>2, <1>3 DEF DogInv

\* Every step of the clock keeps the invariant of the watchdogs.
LEMMA DogClock ==
  ASSUME TypeOK, TypeOK', FedInv, DogInv, Advances,
         Synchronise \/ SntpCheck \/ Second \/ SntpSecond \/ CounterSecond
  PROVE  DogInv'
  <1>1. UNCHANGED <<watchdog_list, running, fed>> /\ fired' \in {fired, {}}
    BY DEF Synchronise, SntpCheck, Second, SntpSecond, CounterSecond, dogs
  <1>2. \/ now' = now /\ TimerDue' = TimerDue
        \/ now' = now + 1 /\ TimerDue' = 1 /\ TimerDue = 0
    BY DEF Synchronise, SntpCheck, Second, SntpSecond, CounterSecond, TimerDue
  <1>3. now' - TimerDue' = now - TimerDue
    BY <1>2, ClockType, NextType
  <1> QED
    BY <1>1, <1>3, DogAdvances

\* add_watchdog: the new entry is the only one with its id.
LEMMA DogAdd ==
  ASSUME TypeOK, TypeOK', FedInv, ClockInv, BeforeRollover, DogInv, NEW id \in Ids,
         AddWatchdog(id)
  PROVE  ClockInv' /\ DogInv'
  <1> DEFINE new == [id |-> id, last_reset |-> Stamp]
  <1>1. /\ ClockInv' /\ Advances /\ Uptime' = Uptime /\ Lead' = Lead
        /\ UNCHANGED <<now, due, running, fired>> /\ TimerDue' = TimerDue
    BY ClockRead DEF AddWatchdog, TimerDue
  <1>2. new \in Entry /\ new.id = id /\ new.last_reset = Stamp
    BY UptimeType DEF Entry
  <1>3. id \notin Watched /\ Uptime >= 1 /\ watchdog_list' = Append(watchdog_list, new)
        /\ fed' = [fed EXCEPT ![id] = now]
    BY UptimeType, ConstantsType DEF AddWatchdog
  <1> HIDE DEF new
  <1>4. /\ DOMAIN watchdog_list' = DOMAIN watchdog_list \cup {Len(watchdog_list) + 1}
        /\ Len(watchdog_list) + 1 \notin DOMAIN watchdog_list
        /\ watchdog_list'[Len(watchdog_list) + 1] = new
        /\ \A i \in DOMAIN watchdog_list : watchdog_list'[i] = watchdog_list[i]
    <2>1. watchdog_list \in Seq(Entry)
      BY DEF TypeOK, Entry
    <2>2. /\ watchdog_list' \in Seq(Entry) /\ Len(watchdog_list') = Len(watchdog_list) + 1
          /\ watchdog_list'[Len(watchdog_list) + 1] = new
          /\ \A i \in 1 .. Len(watchdog_list) : watchdog_list'[i] = watchdog_list[i]
      BY <1>2, <1>3, <2>1, AppendProperties
    <2>3. DOMAIN watchdog_list' = 1 .. Len(watchdog_list) + 1
      BY <2>2, LenProperties
    <2> QED
      BY <2>2, <2>3, ListType
  <1>5. \A i \in DOMAIN watchdog_list : watchdog_list[i].id # id
    BY <1>3 DEF Watched
  <1>6. OneEntry'
    BY <1>2, <1>4, <1>5 DEF OneEntry, DogInv
  <1>7. Entries' = Entries \cup {new}
    BY <1>4 DEF Entries
  <1>8. \A e \in Entries : EntryInv(e)'
    <2> TAKE e \in Entries
    <2>1. e \in Entry /\ EntryInv(e) /\ e.id # id
      BY <1>5, EntriesType DEF DogInv, Entries
    <2>2. fed'[e.id] = fed[e.id]
      BY <1>3, <2>1, EntryType DEF TypeOK
    <2> QED
      BY <1>1, <2>1, <2>2, EntryAdvances
  <1>9. \A e \in Entry : e = new => EntryInv(e)'
    <2> SUFFICES ASSUME NEW e \in Entry, e = new PROVE EntryInv(e)'
      OBVIOUS
    <2>1. fed'[e.id] = now
      BY <1>2, <1>3 DEF TypeOK
    <2>2. UNCHANGED <<now, sntp, start>>
      BY DEF AddWatchdog
    <2> QED
      BY <1>1, <1>2, <1>3, <2>1, <2>2, EntryFed
  <1>10. FiresWhenSilent'
    BY <1>1, SilentKept DEF DogInv, Advances
  <1> QED
    BY <1>1, <1>2, <1>6, <1>7, <1>8, <1>9, <1>10 DEF DogInv

\* remove_watchdog: the others keep their entries.
LEMMA DogRemove ==
  ASSUME TypeOK, TypeOK', FedInv, ClockInv, BeforeRollover, DogInv, NEW id \in Ids,
         RemoveWatchdog(id)
  PROVE  ClockInv' /\ DogInv'
  <1>1. /\ ClockInv' /\ Advances
        /\ UNCHANGED <<now, due, running, fired>> /\ TimerDue' = TimerDue
    BY ClockRead DEF RemoveWatchdog, TimerDue
  <1>2. PICK i \in DOMAIN watchdog_list :
          /\ watchdog_list[i].id = id
          /\ watchdog_list' = [k \in 1 .. Len(watchdog_list) - 1 |->
                                 watchdog_list[IF k < i THEN k ELSE k + 1]]
    BY DEF RemoveWatchdog
  <1> DEFINE from(k) == IF k < i THEN k ELSE k + 1
  <1>3. /\ DOMAIN watchdog_list' = 1 .. Len(watchdog_list) - 1
        /\ \A k \in DOMAIN watchdog_list' :
             /\ from(k) \in DOMAIN watchdog_list \ {i}
             /\ watchdog_list'[k] = watchdog_list[from(k)]
    BY <1>2, RemoveType
  <1>4. i \in Int /\ \A j, k \in DOMAIN watchdog_list' : from(j) = from(k) => j = k
    <2>1. i \in Int /\ \A k \in DOMAIN watchdog_list' : k \in Int
      BY <1>3, ListType
    <2> QED
      BY <2>1
  <1> HIDE DEF from
  <1>5. OneEntry'
    BY <1>3, <1>4 DEF OneEntry, DogInv
  <1>6. \A e \in Entries' : e \in Entries /\ e.id # id
    BY <1>2, <1>3 DEF Entries, DogInv, OneEntry
  <1>7. \A e \in Entries' : EntryInv(e)'
    <2> SUFFICES ASSUME NEW e \in Entries' PROVE EntryInv(e)'
      OBVIOUS
    <2>1. e \in Entry /\ EntryInv(e) /\ e.id # id
      BY <1>6, EntriesType DEF DogInv
    <2>2. fed'[e.id] = fed[e.id]
      BY <2>1, EntryType DEF RemoveWatchdog, TypeOK
    <2> QED
      BY <1>1, <2>1, <2>2, EntryAdvances
  <1>8. FiresWhenSilent'
    BY <1>1, SilentKept DEF DogInv, Advances
  <1> QED
    BY <1>1, <1>5, <1>7, <1>8 DEF DogInv

\* reset_watchdog of all of them.
LEMMA DogReset ==
  ASSUME TypeOK, TypeOK', FedInv, ClockInv, BeforeRollover, DogInv, ResetWatchdogs
  PROVE  ClockInv' /\ DogInv'
  <1>1. /\ ClockInv' /\ Advances /\ Uptime' = Uptime /\ Lead' = Lead
        /\ UNCHANGED <<now, due, running, fired, sntp, start>>
    BY ClockRead DEF ResetWatchdogs
  <1>2. /\ DOMAIN watchdog_list' = DOMAIN watchdog_list
        /\ \A i \in DOMAIN watchdog_list :
             watchdog_list'[i] = [id |-> watchdog_list[i].id, last_reset |-> Stamp]
    BY ListType DEF ResetWatchdogs, Entry
  <1>3. OneEntry'
    BY <1>2 DEF OneEntry, DogInv
  <1>4. \A e \in Entries' : EntryInv(e)'
    <2> SUFFICES ASSUME NEW e \in Entries' PROVE EntryInv(e)'
      OBVIOUS
    <2>1. PICK i \in DOMAIN watchdog_list :
            e = [id |-> watchdog_list[i].id, last_reset |-> Stamp]
      BY <1>2 DEF Entries
    <2>2. e \in Entry /\ e.last_reset = Stamp /\ e.id = watchdog_list[i].id /\ e.id \in Ids
      BY <2>1, UptimeType, ListType DEF Entry
    <2>3. fed'[e.id] = now
      BY <2>2 DEF ResetWatchdogs, Watched
    <2>4. Uptime >= 1
      <3>1. EntryInv(watchdog_list[i]) /\ watchdog_list[i] \in Entry
        BY EntriesType DEF DogInv
      <3> QED
        BY <3>1, EntryType, UptimeType DEF EntryInv
    <2> QED
      BY <1>1, <2>2, <2>3, <2>4, EntryFed
  <1>5. FiresWhenSilent'
    BY <1>1, SilentKept DEF DogInv, Advances
  <1> QED
    BY <1>1, <1>3, <1>4, <1>5 DEF DogInv

\* watchdog_timer_func: the watchdogs that were silent for their timeout fire and start
\* again; the others have time left.
LEMMA DogTimer ==
  ASSUME TypeOK, TypeOK', FedInv, ClockInv, BeforeRollover, DogInv, WatchdogTimer
  PROVE  ClockInv' /\ DogInv'
  <1> DEFINE expired == {i \in DOMAIN watchdog_list : Expired(watchdog_list[i])}
             ids     == {watchdog_list[i].id : i \in expired}
  <1>1. /\ ClockInv' /\ Advances /\ Uptime' = Uptime /\ Lead' = Lead
        /\ UNCHANGED <<now, sntp, start>> /\ (running' => running)
    <2>1. UNCHANGED <<now, sntp, start>> /\ ReadClock /\ due' = due \ {"watchdog"} /\ running
      BY DEF WatchdogTimer
    <2> QED
      BY <2>1, ClockRead
  <1>2. /\ DOMAIN watchdog_list' = DOMAIN watchdog_list
        /\ \A i \in DOMAIN watchdog_list :
             watchdog_list'[i] = IF i \in expired
                                 THEN [id |-> watchdog_list[i].id, last_reset |-> Stamp]
                                 ELSE watchdog_list[i]
    BY ListType DEF WatchdogTimer, Entry
  <1>3. \A i \in DOMAIN watchdog_list : watchdog_list[i].id \in ids <=> i \in expired
    BY DEF DogInv, OneEntry
  <1>4. /\ fed' = [id \in Ids |-> IF id \in ids THEN now ELSE fed[id]]
        /\ fired' = {<<id, now - fed[id]>> : id \in ids}
    BY DEF WatchdogTimer
  <1>5. \A i \in DOMAIN watchdog_list :
          /\ watchdog_list[i] \in Entry /\ EntryInv(watchdog_list[i])
          /\ i \in expired <=> Expired(watchdog_list[i])
    BY EntriesType DEF DogInv
  <1> HIDE DEF expired
  <1>6. OneEntry'
    BY <1>2 DEF OneEntry, DogInv
  <1>7. \A e \in Entries' : EntryInv(e)'
    <2> SUFFICES ASSUME NEW e \in Entries' PROVE EntryInv(e)'
      OBVIOUS
    <2>1. PICK i \in DOMAIN watchdog_list :
            e = IF i \in expired THEN [id |-> watchdog_list[i].id, last_reset |-> Stamp]
                ELSE watchdog_list[i]
      BY <1>2 DEF Entries
    <2>2. CASE i \in expired
      <3>1. e \in Entry /\ e.last_reset = Stamp /\ e.id = watchdog_list[i].id /\ e.id \in Ids
        BY <2>1, <2>2, UptimeType, ListType DEF Entry
      <3>2. fed'[e.id] = now
        BY <1>3, <1>4, <2>2, <3>1
      <3>3. Uptime >= 1
        BY <1>5, EntryType, UptimeType DEF EntryInv
      <3> QED
        BY <1>1, <3>1, <3>2, <3>3, EntryFed
    <2>3. CASE i \notin expired
      <3>1. e \in Entry /\ EntryInv(e) /\ ~Expired(e) /\ e.id \notin ids
        BY <1>3, <1>5, <2>1, <2>3
      <3>2. fed'[e.id] = fed[e.id]
        BY <1>4, <3>1, EntryType
      <3> QED
        BY <1>1, <3>1, <3>2, EntryInTime
    <2> QED
      BY <2>2, <2>3
  <1>8. FiresWhenSilent'
    <2> SUFFICES ASSUME NEW i \in expired
                 PROVE  now - fed[watchdog_list[i].id] + Slack' > Timeout(watchdog_list[i].id)
      BY <1>4 DEF FiresWhenSilent
    <2>1. now - fed[watchdog_list[i].id] + Slack > Timeout(watchdog_list[i].id)
      BY <1>5, EntrySilent DEF expired
    <2>2. Slack' = Slack
      BY <1>1 DEF Slack, sntp
    <2> QED
      BY <2>1, <2>2
  <1> QED
    BY <1>1, <1>6, <1>7, <1>8 DEF DogInv

-----------------------------------------------------------------------------
(* The theorems *)

\* The invariant holds in every reachable state.
LEMMA WatchdogInvariant ==
  ASSUME NeverSetBack, BeforeRollover
  PROVE  Spec => [](ClockInv /\ DogInv)
  <1>1. Init => ClockInv /\ DogInv
    <2> SUFFICES ASSUME Init PROVE ClockInv /\ DogInv
      OBVIOUS
    <2>1. SntpInv
      BY DEF Init, SntpInv
    <2>2. UptimeInv
      <3>1. counting /\ init_time = 0 /\ now = 0 /\ ntp_offline_second_counter = 0
            /\ CounterDue = 0
        BY DEF Init, CounterDue
      <3> QED
        BY <3>1 DEF UptimeInv
    <2>3. Entries = {} /\ OneEntry /\ FiresWhenSilent
      BY DEF Init, Entries, OneEntry, FiresWhenSilent
    <2> QED
      BY <2>1, <2>2, <2>3 DEF ClockInv, DogInv
  <1>2. TypeOK /\ TypeOK' /\ FedInv /\ ClockInv /\ DogInv /\ [Next]_vars => ClockInv' /\ DogInv'
    <2> SUFFICES ASSUME TypeOK, TypeOK', FedInv, ClockInv, DogInv, [Next]_vars
                 PROVE  ClockInv' /\ DogInv'
      OBVIOUS
    <2>1. CASE Synchronise
      BY <2>1, ClockSynchronise, DogClock
    <2>2. CASE SntpCheck
      BY <2>2, ClockSntpCheck, DogClock
    <2>3. CASE Second
      BY <2>3, ClockSecond, DogClock
    <2>4. CASE SntpSecond
      BY <2>4, ClockSntpSecond, DogClock
    <2>5. CASE CounterSecond
      BY <2>5, ClockCounterSecond, DogClock
    <2>6. CASE \E id \in Ids : AddWatchdog(id)
      BY <2>6, DogAdd
    <2>7. CASE \E id \in Ids : RemoveWatchdog(id)
      BY <2>7, DogRemove
    <2>8. CASE ResetWatchdogs
      BY <2>8, DogReset
    <2>9. CASE WatchdogTimer
      BY <2>9, DogTimer
    <2>10. CASE UNCHANGED vars
      <3>1. /\ UNCHANGED <<now, due, sntp, clock, start, watchdog_list, running, fed, fired>>
            /\ TimerDue' = TimerDue
        BY <2>10 DEF vars, dogs, TimerDue
      <3>2. ClockInv' /\ Advances
        BY <3>1, ClockRead
      <3> QED
        BY <3>1, <3>2, DogAdvances
    <2> QED
      BY <2>1, <2>2, <2>3, <2>4, <2>5, <2>6, <2>7, <2>8, <2>9, <2>10 DEF Next
  <1> QED
    BY <1>1, <1>2, TypeCorrect, PTL DEF Spec

\* A watchdog fires only when nothing has reset it for its whole timeout, for any number
\* of watchdogs and any timeouts, while the uptime goes over from the offline counter to
\* SNTP and SNTP sets the clock forward.  A clock that is set back below last_reset
\* (watchdog.c:84) and one that reads 0 when the timestamp rolls over are excluded.
THEOREM FiresWhenSilentCorrect ==
  ASSUME NeverSetBack, BeforeRollover
  PROVE  Spec => []FiresWhenSilent
  <1>1. DogInv => FiresWhenSilent
    BY DEF DogInv
  <1> QED
    BY <1>1, WatchdogInvariant, PTL

\* And a watchdog that nothing resets does fire, within three seconds of its timeout:
\* no other watchdog's addition or removal, and no switch of the clock, puts it off.
THEOREM FiresInTimeCorrect ==
  ASSUME NeverSetBack, BeforeRollover
  PROVE  Spec => []FiresInTime
  <1>1. TypeOK /\ FedInv /\ DogInv => FiresInTime
    <2> SUFFICES ASSUME TypeOK, FedInv, DogInv, running, NEW i \in DOMAIN watchdog_list
                 PROVE  now - fed[watchdog_list[i].id] <= Timeout(watchdog_list[i].id) + 3
      BY DEF FiresInTime
    <2>1. watchdog_list[i] \in Entry /\ EntryInv(watchdog_list[i])
      BY EntriesType DEF DogInv
    <2>2. \A e \in Entry : EntryInv(e) => now - fed[e.id] <= Timeout(e.id) + 3
      BY EntryType, ClockType DEF EntryInv, TimerDue
    <2> QED
      BY <2>1, <2>2
  <1> QED
    BY <1>1, TypeCorrect, WatchdogInvariant, PTL
=============================================================================
