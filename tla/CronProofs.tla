------------------------------- MODULE CronProofs -------------------------------
(***************************************************************************)
(* The minute timer of cron never stops by itself and leaves no minute out, *)
(* and its jobs run on the local time, but for the last hour of summer:     *)
(* proofs for a minute of any number of seconds, every schedule, every      *)
(* night, and any number of slips between timer and clock.                  *)
(***************************************************************************)
EXTENDS Cron, TLAPS

\* A timer armed once is armed for a rest, which its next call remembers.
TimerOK ==
  /\ utc \in Nat /\ checked_at \in Nat /\ slips \in Nat
  /\ left \in {Off} \cup -1 .. Minute
  /\ sec_drift \in 0 .. Minute
  /\ sec_drift = 0 => repeats = TRUE

\* The seconds since the last check and those left of the timer make no more than
\* a minute and what has slipped; a timer that is late has slipped.
Accounted ==
  ~missed =>
    /\ left # Off
    /\ utc - checked_at + left <= Minute + slips
    /\ left < 0 => utc - checked_at + left < Minute + slips

IInv == TimerOK /\ Accounted

LEMMA MinutePositive == Minute \in Nat /\ Minute > 0
  BY CronAssumption

LEMMA SecondBounds == \A t \in Nat : Second(t) \in 0 .. Minute - 1
  BY MinutePositive DEF Second

-----------------------------------------------------------------------------

LEMMA InitOK == Init => IInv
<1> SUFFICES ASSUME Init PROVE IInv
  OBVIOUS
<1>1. TimerOK
  <2>1. utc \in Nat /\ checked_at = 0 /\ slips = 0
    BY MinutePositive DEF Init
  <2>2. left = Minute /\ sec_drift = 0 /\ repeats = TRUE
    BY DEF Init
  <2> QED
    BY <2>1, <2>2, MinutePositive DEF TimerOK
<1>2. missed = TRUE
  BY DEF Init
<1> QED
  BY <1>1, <1>2 DEF IInv, Accounted

\* A second passes.
LEMMA TickOK == IInv /\ Tick => IInv'
<1> SUFFICES ASSUME IInv, Tick PROVE IInv'
  OBVIOUS
<1> USE MinutePositive DEF Off
<1>1. UNCHANGED <<repeats, sec_drift, checked_at, missed>>
  BY DEF Tick
<1>2. left' = IF left = Off THEN Off ELSE left - 1
  BY DEF Tick
<1>3. CASE /\ left > 0 \/ left = Off
           /\ utc' = utc + 1 /\ UNCHANGED slips
  BY <1>1, <1>2, <1>3 DEF IInv, TimerOK, Accounted
<1>4. CASE slips' = slips + 1 /\ left > 0 /\ utc' \in {utc, utc + 2}
  <2>1. left' = left - 1 /\ left' >= 0 /\ left' \in -1 .. Minute
    BY <1>2, <1>4 DEF IInv, TimerOK
  <2>2. utc' \in Nat /\ utc' <= utc + 2
    BY <1>4 DEF IInv, TimerOK
  <2>3. TimerOK'
    BY <1>1, <1>4, <2>1, <2>2 DEF IInv, TimerOK
  <2>4. Accounted'
    <3> SUFFICES ASSUME ~missed'
                 PROVE  left' # Off /\ utc' - checked_at' + left' <= Minute + slips'
      BY <2>1 DEF Accounted
    <3>1. ~missed
      BY <1>1
    <3>2. utc - checked_at + left <= Minute + slips
      BY <3>1 DEF IInv, Accounted
    <3>3. utc \in Nat /\ checked_at \in Nat /\ slips \in Nat /\ left \in Int
      BY <1>4 DEF IInv, TimerOK
    <3>4. checked_at' = checked_at /\ slips' = slips + 1
      BY <1>1, <1>4
    <3>5. left' = left - 1 /\ left' # Off
      BY <2>1
    <3>6. ASSUME utc' = utc PROVE utc' - checked_at' + left' <= Minute + slips'
      BY <3>2, <3>3, <3>4, <3>5, <3>6
    <3>7. ASSUME utc' = utc + 2 PROVE utc' - checked_at' + left' <= Minute + slips'
      BY <3>2, <3>3, <3>4, <3>5, <3>7
    <3> QED
      BY <1>4, <3>5, <3>6, <3>7
  <2> QED
    BY <2>3, <2>4 DEF IInv
<1>5. CASE slips' = slips + 1 /\ left = 0 /\ utc' = utc + 1
  BY <1>1, <1>2, <1>5 DEF IInv, TimerOK, Accounted
<1> QED
  BY <1>3, <1>4, <1>5 DEF Tick

\* The timer is armed anew, or goes on if it repeats: within a minute.
LEMMA InStep ==
  ASSUME IInv, Fires, GetInStep
  PROVE  /\ left' \in -1 .. Minute /\ sec_drift' \in 0 .. Minute
         /\ sec_drift' = 0 => repeats' = TRUE
         /\ left' < 0 => left' < Minute
<1> USE MinutePositive DEF Off
<1>1. Second(utc) \in 0 .. Minute - 1
  BY SecondBounds DEF IInv, TimerOK
<1>2. CASE ArmForRest /\ Second(utc) # 0
  <2>1. Minute - Second(utc) \in 1 .. Minute
    BY <1>1, <1>2
  <2>2. left' = Minute - Second(utc) /\ sec_drift' = Minute - Second(utc) /\ repeats' = FALSE
    BY <1>2 DEF ArmForRest, Rest
  <2> QED
    BY <2>1, <2>2
<1>3. CASE ArmEveryMinute
  BY <1>3 DEF ArmEveryMinute
<1>4. CASE Served /\ sec_drift = 0
  BY <1>4 DEF Served, Fires, IInv, TimerOK
<1> QED
  BY <1>2, <1>3, <1>4 DEF GetInStep

LEMMA MinuteTimerOK == IInv /\ MinuteTimer => IInv'
<1> SUFFICES ASSUME IInv, MinuteTimer PROVE IInv'
  OBVIOUS
<1>1. /\ left' \in -1 .. Minute /\ sec_drift' \in 0 .. Minute
      /\ sec_drift' = 0 => repeats' = TRUE
      /\ left' < 0 => left' < Minute
  BY InStep DEF MinuteTimer
<1>2. checked_at' = utc /\ UNCHANGED <<utc, slips>>
  BY DEF MinuteTimer
<1>3. TimerOK'
  BY <1>1, <1>2 DEF IInv, TimerOK
<1>4. Accounted'
  <2>1. utc' - checked_at' = 0
    BY <1>2 DEF IInv, TimerOK
  <2>2. slips' \in Nat
    BY <1>2 DEF IInv, TimerOK
  <2> QED
    BY <1>1, <2>1, <2>2, MinutePositive DEF Accounted, Off
<1> QED
  BY <1>3, <1>4 DEF IInv

LEMMA ReturnsOK == IInv /\ MinuteTimerReturns => IInv'
<1> SUFFICES ASSUME IInv, MinuteTimerReturns PROVE IInv'
  OBVIOUS
<1>1. Served /\ Fires /\ missed' = TRUE
      /\ UNCHANGED <<utc, checked_at, slips>>
  BY DEF MinuteTimerReturns
<1>2. TimerOK'
  BY <1>1, MinutePositive DEF IInv, TimerOK, Served, Fires, Off
<1> QED
  BY <1>1, <1>2 DEF IInv, Accounted

LEMMA StepOK == IInv /\ [Next]_vars => IInv'
<1> SUFFICES ASSUME IInv, [Next]_vars PROVE IInv'
  OBVIOUS
<1>1. CASE Tick
  BY <1>1, TickOK
<1>2. CASE MinuteTimer
  BY <1>2, MinuteTimerOK
<1>3. CASE MinuteTimerReturns
  BY <1>3, ReturnsOK
<1>4. CASE Sync \/ UpdateStarts \/ UpdateFails \/ UNCHANGED vars
  BY <1>4 DEF Sync, UpdateStarts, UpdateFails, vars, timer, history, IInv, TimerOK,
              Accounted
<1> QED
  BY <1>1, <1>2, <1>3, <1>4 DEF Next

LEMMA SpecOK == Spec => []IInv
  BY InitOK, StepOK, PTL DEF Spec

-----------------------------------------------------------------------------

\* Unless it met an update or the lack of a time, the timer has checked the jobs
\* within the last minute and what has slipped (minute_timer_func).
THEOREM PunctualCorrect == Spec => []Punctual
<1>1. IInv => Punctual
  <2> SUFFICES ASSUME IInv, ~missed PROVE utc - checked_at <= Minute + slips
    BY DEF Punctual
  <2> QED
    BY MinutePositive DEF IInv, TimerOK, Accounted, Off
<1> QED
  BY <1>1, SpecOK, PTL

-----------------------------------------------------------------------------
(* No minute is passed over *)

\* The minute after the one of the last check begins at NextMinute.
NextMinute == checked_at - Second(checked_at) + Minute

\* Clock and timer meet there, but for what has slipped.
Aligned ==
  ~missed =>
    /\ utc + left <= NextMinute + slips
    /\ left < 0 => utc + left < NextMinute + slips

SlipsOK == slips \in 0 .. MaxSlips

LEMMA TickAligned == IInv /\ Aligned /\ Tick => Aligned'
<1> SUFFICES ASSUME IInv, Aligned, Tick, ~missed
             PROVE  /\ utc' + left' <= NextMinute + slips'
                    /\ left' < 0 => utc' + left' < NextMinute + slips'
  <2>1. Tick => UNCHANGED <<checked_at, missed>>
    BY DEF Tick, history
  <2>2. Tick => NextMinute' = NextMinute
    BY <2>1 DEF NextMinute, Second
  <2> QED
    BY <2>1, <2>2 DEF Aligned
<1>1. /\ utc \in Nat /\ slips \in Nat /\ left \in -1 .. Minute /\ left # Off
      /\ checked_at \in Nat
  BY DEF IInv, TimerOK, Accounted
<1>2. left' = left - 1
  BY <1>1 DEF Tick
<1>3. NextMinute \in Int
  BY <1>1, SecondBounds, MinutePositive DEF NextMinute
<1>4. utc + left <= NextMinute + slips
  BY DEF Aligned
<1> HIDE DEF NextMinute
<1>5. CASE left > 0 /\ utc' = utc + 1 /\ UNCHANGED slips
  BY <1>1, <1>2, <1>3, <1>4, <1>5, MinutePositive
<1>6. CASE slips' = slips + 1 /\ left > 0 /\ utc' \in {utc, utc + 2}
  <2>1. CASE utc' = utc
    BY <1>1, <1>2, <1>3, <1>4, <1>6, <2>1, MinutePositive
  <2>2. CASE utc' = utc + 2
    BY <1>1, <1>2, <1>3, <1>4, <1>6, <2>2, MinutePositive
  <2> QED
    BY <1>6, <2>1, <2>2
<1>7. CASE slips' = slips + 1 /\ left = 0 /\ utc' = utc + 1
  BY <1>1, <1>2, <1>3, <1>4, <1>7, MinutePositive
<1> QED
  BY <1>1, <1>5, <1>6, <1>7 DEF Tick

\* Whatever second the timer is served in, it is armed for the next minute.
LEMMA CheckAligns == IInv /\ MinuteTimer => Aligned'
<1> SUFFICES ASSUME IInv, MinuteTimer PROVE Aligned'
  OBVIOUS
<1>1. /\ checked_at' = utc /\ utc' = utc /\ slips' = slips
      /\ utc \in Nat /\ slips \in Nat /\ left \in -1 .. 0
      /\ Fires /\ GetInStep
  BY DEF MinuteTimer, IInv, TimerOK, Fires, Off
<1>2. Second(utc) \in 0 .. Minute - 1
  BY <1>1, SecondBounds
<1>3. NextMinute' = utc - Second(utc) + Minute
  BY <1>1 DEF NextMinute, Second
<1>4. left' \in Int /\ left' <= Minute - Second(utc) /\ left' >= 0
  <2>1. CASE Second(utc) # 0
    BY <1>1, <1>2, <2>1, MinutePositive DEF GetInStep, ArmForRest, Rest
  <2>2. CASE Second(utc) = 0 /\ sec_drift # 0
    BY <1>1, <2>2, MinutePositive DEF GetInStep, ArmEveryMinute
  <2>3. CASE Second(utc) = 0 /\ sec_drift = 0
    <3>1. left' = left + Minute
      BY <1>1, <2>3 DEF GetInStep, Served, IInv, TimerOK
    <3> QED
      BY <1>1, <2>3, <3>1, MinutePositive
  <2> QED
    BY <2>1, <2>2, <2>3
<1>5. utc' + left' <= NextMinute' + slips' /\ ~(left' < 0)
  BY <1>1, <1>2, <1>3, <1>4, MinutePositive
<1> QED
  BY <1>5 DEF Aligned

LEMMA AlignedStep ==
  IInv /\ Aligned /\ SlipsOK /\ [Next]_vars => Aligned' /\ SlipsOK'
<1> SUFFICES ASSUME IInv, Aligned, SlipsOK, [Next]_vars PROVE Aligned' /\ SlipsOK'
  OBVIOUS
<1>1. CASE Tick
  <2>1. Aligned'
    BY <1>1, TickAligned
  <2>2. slips' = slips \/ (slips < MaxSlips /\ slips' = slips + 1)
    BY <1>1 DEF Tick
  <2> QED
    BY <2>1, <2>2, CronAssumption DEF SlipsOK
<1>2. CASE MinuteTimer
  BY <1>2, CheckAligns DEF MinuteTimer, SlipsOK
<1>3. CASE MinuteTimerReturns
  BY <1>3 DEF MinuteTimerReturns, Aligned, SlipsOK
<1>4. CASE Sync \/ UpdateStarts \/ UpdateFails \/ UNCHANGED vars
  BY <1>4 DEF Sync, UpdateStarts, UpdateFails, vars, timer, history, Aligned,
              NextMinute, SlipsOK
<1> QED
  BY <1>1, <1>2, <1>3, <1>4 DEF Next

\* A time before the end of the next minute is in this minute or the next one.
LEMMA NextMinuteEnds ==
  ASSUME NEW t \in Nat, NEW u \in Nat, u < t - Second(t) + 2 * Minute
  PROVE  u \div Minute <= t \div Minute + 1
  BY MinutePositive, SMTT(30) DEF Second

\* As long as timer and clock slip by less than a minute in all, two checks in a
\* row are in the same minute or in one and the next, for any length of a minute
\* and whatever second the timer is served in (minute_timer_func's sec_drift).
THEOREM NoMinuteSkippedCorrect ==
  ASSUME MaxSlips < Minute PROVE Spec => NoMinuteSkipped
<1>1. Init => Aligned /\ SlipsOK
  BY CronAssumption DEF Init, Aligned, SlipsOK
<1>2. IInv /\ Aligned /\ SlipsOK /\ [Next]_vars
        => [~missed /\ checked_at' # checked_at
              => checked_at' \div Minute <= checked_at \div Minute + 1]_vars
  <2> SUFFICES ASSUME IInv, Aligned, SlipsOK, [Next]_vars, vars' # vars,
                      ~missed, checked_at' # checked_at
               PROVE  checked_at' \div Minute <= checked_at \div Minute + 1
    OBVIOUS
  <2>1. checked_at' = utc /\ Fires
    BY DEF Next, Tick, MinuteTimer, MinuteTimerReturns, Sync, UpdateStarts,
           UpdateFails, history
  <2>2. /\ utc \in Nat /\ checked_at \in Nat /\ slips \in 0 .. MaxSlips
        /\ left \in -1 .. 0
    BY <2>1 DEF IInv, TimerOK, SlipsOK, Fires, Off
  <2>3. utc <= NextMinute + slips
    BY <2>2, SecondBounds, MinutePositive DEF Aligned, NextMinute
  <2>4. utc < checked_at - Second(checked_at) + 2 * Minute
    BY <2>2, <2>3, SecondBounds, MinutePositive, CronAssumption DEF NextMinute
  <2> QED
    BY <2>1, <2>2, <2>4, NextMinuteEnds
<1> QED
  BY <1>1, <1>2, InitOK, StepOK, AlignedStep, PTL DEF Spec, NoMinuteSkipped

-----------------------------------------------------------------------------
(* The local time *)

\* The first hour, in UTC, of the last Sunday of October: summer time goes on.
LastHourOfSummer(n, t) ==
  LET dt == GmTime(n, t) IN
  dt.mon = 9 /\ dt.wday = 0 /\ dt.mday >= 25 /\ dt.hour = 0

LEMMA HourPositive == Hour \in Nat /\ Hour > 1
  BY MinutePositive DEF Hour

\* An hour and its fraction.
LEMMA HourOf ==
  \A t \in Nat : /\ t \div Hour \in Nat /\ t % Hour \in 0 .. Hour - 1
                 /\ t = Hour * (t \div Hour) + (t % Hour)
  BY HourPositive, SMTT(30)

\* An hour later it is the next hour.
LEMMA NextHour == \A t \in Nat : (t + Hour) \div Hour = t \div Hour + 1
  BY HourPositive, SMTT(30)

\* The hours of two days, and of a day.
LEMMA DayAndHour ==
  ASSUME NEW h \in 0 .. 47
  PROVE  \/ h <= 23 /\ h \div 24 = 0 /\ h % 24 = h
         \/ h >= 24 /\ h \div 24 = 1 /\ h % 24 = h - 24
  OBVIOUS

\* The last Sunday of a month of 31 days, as a day and its day of the week tell it.
LastSunday(mday, wday) == CHOOSE d \in 25 .. 31 : (d - mday + wday) % 7 = 0

\* It is the Sunday on or before the day if that one is the 25th or later; it is
\* still ahead if not.
LEMMA LastSundayIs ==
  ASSUME NEW mday \in 1 .. 31, NEW wday \in 0 .. 6
  PROVE  /\ mday - wday >= 25 => LastSunday(mday, wday) = mday - wday
         /\ mday - wday < 25 => LastSunday(mday, wday) > mday
         /\ LastSunday(mday, wday) \in 25 .. 31
<1>1. \E d \in 25 .. 31 : (d - mday + wday) % 7 = 0
  <2>1. ((mday - wday) - 25) % 7 \in 0 .. 6
    OBVIOUS
  <2>2. 25 + (((mday - wday) - 25) % 7) \in 25 .. 31
    BY <2>1
  <2>3. ((25 + (((mday - wday) - 25) % 7)) - mday + wday) % 7 = 0
    OBVIOUS
  <2> QED
    BY <2>2, <2>3
<1>2. /\ LastSunday(mday, wday) \in 25 .. 31
      /\ (LastSunday(mday, wday) - mday + wday) % 7 = 0
  BY <1>1 DEF LastSunday
<1> HIDE DEF LastSunday
<1>3. ASSUME NEW d \in 25 .. 31, (d - mday + wday) % 7 = 0
      PROVE  /\ mday - wday >= 25 => d = mday - wday
             /\ mday - wday < 25 => d > mday
  BY <1>3
<1> QED
  BY <1>2, <1>3

\* gmtime on the night's day and the next one.
LEMMA GmTimeIs ==
  ASSUME NEW n \in Night, NEW t \in Nat, FromHour + t \div Hour <= 47
  PROVE  LET h == FromHour + t \div Hour
             dt == GmTime(n, t)
             next == IF h <= 23 THEN 0 ELSE 1
         IN /\ dt.mon = n.mon /\ dt.mday = n.mday + next
            /\ dt.wday = IF n.wday + next = 7 THEN 0 ELSE n.wday + next
            /\ dt.hour = IF h <= 23 THEN h ELSE h - 24
            /\ dt.mday \in 1 .. 31 /\ dt.wday \in 0 .. 6 /\ dt.hour \in 0 .. 23
<1> DEFINE h == FromHour + t \div Hour
           next == IF h <= 23 THEN 0 ELSE 1
<1>1. h \in 0 .. 47
  <2>1. t \div Hour \in Nat /\ FromHour \in 0 .. 23
    BY HourOf, CronAssumption
  <2> QED
    BY <2>1
<1>2. n.mon \in 0 .. 11 /\ n.mday \in 1 .. 30 /\ n.wday \in 0 .. 6
  BY DEF Night
<1>3. /\ GmTime(n, t).mon = n.mon /\ GmTime(n, t).mday = n.mday + h \div 24
      /\ GmTime(n, t).wday = (n.wday + h \div 24) % 7 /\ GmTime(n, t).hour = h % 24
  BY DEF GmTime
<1> HIDE DEF h
<1>4. h \div 24 = next /\ h % 24 = IF h <= 23 THEN h ELSE h - 24
  BY <1>1, DayAndHour
<1>5. (n.wday + next) % 7 = IF n.wday + next = 7 THEN 0 ELSE n.wday + next
  BY <1>2
<1> QED
  BY <1>1, <1>2, <1>3, <1>4, <1>5 DEF h

\* The rule of the code (Dst, on the time of the next hour) is that of the European
\* Union but for the last hour of summer: there, and nowhere else, is it wrong.
THEOREM DstExact ==
  ASSUME NEW n \in Night, NEW t \in Nat, FromHour + t \div Hour + 1 <= 47
  PROVE  Dst(GmTime(n, t + Hour)) <=> SummerTime(n, t) /\ ~LastHourOfSummer(n, t)
<1> DEFINE h == FromHour + t \div Hour
           dt == GmTime(n, t)
           dt1 == GmTime(n, t + Hour)
           sunday == LastSunday(dt.mday, dt.wday)
<1>1. h \in 0 .. 46 /\ n.wday \in 0 .. 6 /\ n.mday \in 1 .. 30 /\ n.mon \in 0 .. 11
  <2>1. t \div Hour \in Nat /\ FromHour \in 0 .. 23
    BY HourOf, CronAssumption
  <2>2. h \in 0 .. 46
    BY <2>1
  <2> QED
    BY <2>2 DEF Night
<1>2. t + Hour \in Nat /\ FromHour + (t + Hour) \div Hour = h + 1
  <2>1. t \div Hour \in Nat /\ FromHour \in 0 .. 23
    BY HourOf, CronAssumption
  <2>2. (t + Hour) \div Hour = t \div Hour + 1
    BY NextHour
  <2>3. t + Hour \in Nat
    BY HourPositive
  <2> QED
    BY <2>1, <2>2, <2>3
<1>3. LET next == IF h <= 23 THEN 0 ELSE 1
      IN /\ dt.mon = n.mon /\ dt.mday = n.mday + next
         /\ dt.wday = IF n.wday + next = 7 THEN 0 ELSE n.wday + next
         /\ dt.hour = IF h <= 23 THEN h ELSE h - 24
         /\ dt.mday \in 1 .. 31 /\ dt.wday \in 0 .. 6 /\ dt.hour \in 0 .. 23
  BY <1>1, GmTimeIs
<1>4. LET next == IF h + 1 <= 23 THEN 0 ELSE 1
      IN /\ dt1.mon = n.mon /\ dt1.mday = n.mday + next
         /\ dt1.wday = IF n.wday + next = 7 THEN 0 ELSE n.wday + next
         /\ dt1.hour = IF h + 1 <= 23 THEN h + 1 ELSE h + 1 - 24
  BY <1>1, <1>2, GmTimeIs
<1>5. /\ dt.mday - dt.wday >= 25 => sunday = dt.mday - dt.wday
      /\ dt.mday - dt.wday < 25 => sunday > dt.mday
      /\ sunday \in 25 .. 31
  BY <1>3, LastSundayIs
<1>6. SummerTime(n, t) <=>
        LET reached == \/ dt.mday > sunday
                       \/ dt.mday = sunday /\ dt.hour >= 1
        IN \/ dt.mon \in 3 .. 8
           \/ dt.mon = 2 /\ reached
           \/ dt.mon = 9 /\ ~reached
  BY DEF SummerTime, LastSunday
<1>7. LastHourOfSummer(n, t) <=> dt.mon = 9 /\ dt.wday = 0 /\ dt.mday >= 25 /\ dt.hour = 0
  BY DEF LastHourOfSummer
<1>8. Dst(dt1) <=>
        \/ dt1.mon > 2 /\ dt1.mon < 9
        \/ /\ dt1.mon = 2 /\ dt1.mday - dt1.wday >= 25
           /\ dt1.wday # 0 \/ dt1.hour >= 2
        \/ /\ dt1.mon = 9 /\ dt1.mday - dt1.wday >= 25
           /\ dt1.wday = 0 /\ dt1.hour < 1
        \/ dt1.mon = 9 /\ dt1.mday - dt1.wday < 25
  BY DEF Dst
<1> HIDE DEF h, dt, dt1, sunday
<1>9. ASSUME h <= 22
      PROVE  Dst(dt1) <=> SummerTime(n, t) /\ ~LastHourOfSummer(n, t)
  BY <1>1, <1>3, <1>4, <1>5, <1>6, <1>7, <1>8, <1>9, SMTT(30)
<1>10. ASSUME h = 23
      PROVE  Dst(dt1) <=> SummerTime(n, t) /\ ~LastHourOfSummer(n, t)
  BY <1>1, <1>3, <1>4, <1>5, <1>6, <1>7, <1>8, <1>10, SMTT(30)
<1>11. ASSUME h >= 24
      PROVE  Dst(dt1) <=> SummerTime(n, t) /\ ~LastHourOfSummer(n, t)
  BY <1>1, <1>3, <1>4, <1>5, <1>6, <1>7, <1>8, <1>11, SMTT(30)
<1>12. Dst(dt1) <=> SummerTime(n, t) /\ ~LastHourOfSummer(n, t)
  BY <1>1, <1>9, <1>10, <1>11
<1> QED
  BY <1>12 DEF dt1

\* The clock stops at the bound, and what ran at the last check is what the local
\* time of the code asked for.
RanOK ==
  /\ night \in Nights
  /\ utc \in Nat /\ utc \div Hour <= Hours
  /\ ~missed =>
       /\ checked_at \in Nat /\ checked_at \div Hour <= Hours
       /\ ran = {job \in Jobs : Matches(job, LocalTime(night, checked_at))}

\* A time before the end of an hour is in it or earlier.
LEMMA HourEnds ==
  ASSUME NEW u \in Nat, NEW h \in Nat, u < h * Hour + Hour
  PROVE  u \div Hour <= h
<1>1. u < (h + 1) * Hour
  BY HourPositive
<1>2. u \div Hour \in Nat /\ u % Hour \in 0 .. Hour - 1 /\ u = Hour * (u \div Hour) + (u % Hour)
  BY HourOf
<1>3. ASSUME NEW q \in Nat, Hour * q < (h + 1) * Hour PROVE q < h + 1
  BY <1>3, HourPositive, SMTT(30)
<1>4. Hour * (u \div Hour) < (h + 1) * Hour
  BY <1>1, <1>2, HourPositive
<1> QED
  BY <1>2, <1>3, <1>4

LEMMA InitRan == Init => RanOK
<1> SUFFICES ASSUME Init PROVE RanOK
  OBVIOUS
<1>1. night \in Nights /\ utc \in 0 .. Minute - 1 /\ missed = TRUE
  BY DEF Init
<1>2. Hours \in Nat /\ Hours * Hour \in Nat
  BY CronAssumption, HourPositive
<1>3. utc < Hours * Hour + Hour
  <2>1. Minute < Hour
    BY MinutePositive DEF Hour
  <2> QED
    BY <1>1, <1>2, <2>1, HourPositive, MinutePositive
<1>4. utc \div Hour <= Hours
  BY <1>1, <1>2, <1>3, HourEnds, MinutePositive
<1> QED
  BY <1>1, <1>4, MinutePositive DEF RanOK

LEMMA TickRan == RanOK /\ Tick => RanOK'
<1> SUFFICES ASSUME RanOK, Tick PROVE RanOK'
  OBVIOUS
<1>1. /\ night \in Nights /\ utc \in Nat /\ Hours \in Nat /\ Hours * Hour \in Nat
      /\ utc < Hours * Hour
  BY CronAssumption, HourPositive DEF RanOK, Tick
<1>2. utc' \in Nat /\ utc' <= utc + 2
  BY <1>1 DEF Tick
<1>3. utc' \div Hour <= Hours
  <2>1. utc' < Hours * Hour + Hour
    BY <1>1, <1>2, HourPositive
  <2> QED
    BY <1>1, <1>2, <2>1, HourEnds
<1>4. UNCHANGED <<night, checked_at, ran, missed>>
  BY DEF Tick
<1> QED
  BY <1>1, <1>2, <1>3, <1>4 DEF RanOK

LEMMA RanStep == RanOK /\ [Next]_vars => RanOK'
<1> SUFFICES ASSUME RanOK, [Next]_vars PROVE RanOK'
  OBVIOUS
<1>1. CASE Tick
  BY <1>1, TickRan
<1>2. CASE MinuteTimer
  BY <1>2 DEF MinuteTimer, RanOK
<1>3. CASE MinuteTimerReturns
  BY <1>3 DEF MinuteTimerReturns, RanOK
<1>4. CASE Sync \/ UpdateStarts \/ UpdateFails \/ UNCHANGED vars
  BY <1>4 DEF Sync, UpdateStarts, UpdateFails, vars, history, RanOK
<1> QED
  BY <1>1, <1>2, <1>3, <1>4 DEF Next

\* The jobs that ran are those due by the local time of Copenhagen, on every night
\* that ends before a third day begins, whatever second the timer is served in and
\* for every schedule, unless the run meets the last hour of summer (local_time of
\* cron.c; CronAutumn shows what happens then).
THEOREM RunsOnLocalTimeCorrect ==
  ASSUME FromHour + Hours + 1 <= 47,
         \A n \in Nights : \A t \in Nat :
           t \div Hour <= Hours => ~LastHourOfSummer(n, t)
  PROVE  Spec => []RunsOnLocalTime
<1>1. RanOK => RunsOnLocalTime
  <2> SUFFICES ASSUME RanOK, ~missed
               PROVE  ran = {job \in Jobs : Matches(job, Copenhagen(night, checked_at))}
    BY DEF RunsOnLocalTime
  <2>1. /\ night \in Night /\ checked_at \in Nat /\ checked_at \div Hour <= Hours
        /\ night \in Nights
        /\ ran = {job \in Jobs : Matches(job, LocalTime(night, checked_at))}
    BY CronAssumption DEF RanOK
  <2>2. FromHour + checked_at \div Hour + 1 <= 47
    <3>1. FromHour \in 0 .. 23 /\ checked_at \div Hour \in Nat /\ Hours \in Nat
      BY <2>1, HourOf, CronAssumption
    <3> QED
      BY <2>1, <3>1
  <2>3. Dst(GmTime(night, checked_at + Hour)) <=> SummerTime(night, checked_at)
    BY <2>1, <2>2, DstExact
  <2>4. 1 * Hour = Hour
    BY HourPositive
  <2>5. LocalTime(night, checked_at) = Copenhagen(night, checked_at)
    BY <2>3, <2>4 DEF LocalTime, Copenhagen
  <2> QED
    BY <2>1, <2>5
<1> QED
  BY <1>1, InitRan, RanStep, PTL DEF Spec
=============================================================================
