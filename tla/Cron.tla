---------------------------------- MODULE Cron ----------------------------------
(***************************************************************************)
(* When the cron jobs run: the minute timer of user/cron/cron.c, which gets *)
(* in step with the clock by arming itself once for the rest of a minute,   *)
(* the local time of Copenhagen it works out, and the schedules it compares *)
(* with it.  What the jobs do is in Control.                                *)
(*                                                                         *)
(* The clock is SNTP's: it is 0 until the first answer, and against it the  *)
(* timer may run fast or slow or be served late.  An hour has two minutes    *)
(* here and a day its 24 hours, and a run covers the night between two days.*)
(***************************************************************************)
EXTENDS Integers, FiniteSets

CONSTANTS
  Minute,      \* the seconds of a minute: 60
  Nights,      \* the days the runs begin on
  FromHour,    \* the hour, in UTC, they begin at
  Hours,       \* bound: how many hours they last
  Jobs,        \* the schedules of the jobs
  MaxSlips,    \* bound: how often timer and clock disagree by a second
  MaxUpdates   \* bound: the firmware updates tried

Hour == 2 * Minute

\* "*", or nothing, in a field of a schedule.
Any == -1

Night    == [mon : 0 .. 11, mday : 1 .. 30, wday : 0 .. 6]
Schedule == [minute : Any .. 1, hour : Any .. 23, day_of_month : Any .. 31,
             month : Any .. 12, day_of_week : Any .. 7]

ASSUME CronAssumption ==
  /\ Minute \in Nat \ {0} /\ Nights \subseteq Night
  /\ FromHour \in 0 .. 23 /\ Hours \in Nat
  /\ Jobs \subseteq Schedule
  /\ MaxSlips \in Nat /\ MaxUpdates \in Nat

VARIABLES
  night,            \* the day the run began on
  utc,              \* seconds since then
  synced,           \* get_unix_time is not 0
  ota_in_progress,
  left,             \* minute_timer: seconds left, Off when it is not armed
  repeats,          \* it was armed to repeat
  sec_drift,
  checked_at,       \* history: utc when the jobs were last checked
  ran,              \* history: the jobs that ran then
  missed,           \* history: the timer has found no time, or an update, since
  slipped,          \* history: timer and clock have disagreed since
  slips, updates

timer   == <<left, repeats, sec_drift>>
history == <<checked_at, ran, missed, slipped>>
vars    == <<night, utc, synced, ota_in_progress, timer, history, slips, updates>>

Off == -9
Second(t) == t % Minute

-----------------------------------------------------------------------------
(* Local time *)

\* gmtime, of the hour h since the midnight before the night, at the second t.
GmTime(n, t) ==
  LET h == FromHour + t \div Hour IN
  [mon |-> n.mon, mday |-> n.mday + h \div 24, wday |-> (n.wday + h \div 24) % 7,
   hour |-> h % 24, min |-> (t % Hour) \div Minute, sec |-> Second(t)]

\* The rule of the code; dt is UTC + 1.
Dst(dt) ==
  LET previous_sunday == dt.mday - dt.wday IN
  \/ dt.mon > 2 /\ dt.mon < 9
  \/ /\ dt.mon = 2 /\ previous_sunday >= 25
     /\ dt.wday # 0 \/ dt.hour >= 2
  \/ /\ dt.mon = 9 /\ previous_sunday >= 25
     /\ dt.wday = 0 /\ dt.hour < 1
  \/ dt.mon = 9 /\ previous_sunday < 25

\* A mutation of LocalTime: summer time is not added.
LocalTimeWinter(n, t) == GmTime(n, t + Hour)

LocalTime(n, t) ==
  LET dt == GmTime(n, t + Hour) IN
  IF Dst(dt) THEN GmTime(n, t + 2 * Hour) ELSE dt

\* The rule of the European Union, on UTC: summer time is from 01:00 on the last
\* Sunday of March to 01:00 on the last Sunday of October.
SummerTime(n, t) ==
  LET dt == GmTime(n, t)
      last_sunday == CHOOSE d \in 25 .. 31 : (d - dt.mday + dt.wday) % 7 = 0
      reached == \/ dt.mday > last_sunday
                 \/ dt.mday = last_sunday /\ dt.hour >= 1
  IN \/ dt.mon \in 3 .. 8
     \/ dt.mon = 2 /\ reached
     \/ dt.mon = 9 /\ ~reached
Copenhagen(n, t) == GmTime(n, t + (IF SummerTime(n, t) THEN 2 ELSE 1) * Hour)

FieldMatches(field, value) == field \in {Any, value}

\* The five fields of a job.
Matches(job, dt) ==
  /\ FieldMatches(job.hour, dt.hour)
  /\ FieldMatches(job.minute, dt.min)
  /\ FieldMatches(job.day_of_month, dt.mday)
  /\ FieldMatches(job.month, dt.mon + 1)
  /\ job.day_of_week = Any \/ job.day_of_week % 7 = dt.wday

-----------------------------------------------------------------------------

\* cron_init arms the timer at the boot, at any second of a minute.
Init ==
  /\ night \in Nights /\ utc \in 0 .. Minute - 1
  /\ synced = FALSE /\ ota_in_progress = FALSE
  /\ left = Minute /\ repeats = TRUE /\ sec_drift = 0
  /\ checked_at = 0 /\ ran = {} /\ missed = TRUE /\ slipped = FALSE
  /\ slips = 0 /\ updates = 0

\* A second passes for the timer, and as a rule one for the clock.  A timer that
\* is due is served before, or a second late.
Tick ==
  /\ utc < Hours * Hour
  /\ left' = IF left = Off THEN Off ELSE left - 1
  /\ \/ /\ left > 0 \/ left = Off
        /\ utc' = utc + 1
        /\ UNCHANGED <<slips, slipped>>
     \/ /\ slips < MaxSlips
        /\ slips' = slips + 1 /\ slipped' = TRUE
        /\ \/ left > 0 /\ utc' \in {utc, utc + 2}
           \/ left = 0 /\ utc' = utc + 1
  /\ UNCHANGED <<night, synced, ota_in_progress, repeats, sec_drift,
                 checked_at, ran, missed, updates>>

\* The timer as the system leaves it once it has fired, if it is not armed anew.
Served ==
  /\ left' = IF repeats THEN left + Minute ELSE Off
  /\ UNCHANGED <<repeats, sec_drift>>

\* A mutation of ArmEveryMinute: it is armed once more instead.
ArmForOneMinute ==
  /\ left' = Minute
  /\ repeats' = FALSE
  /\ sec_drift' = 0

ArmEveryMinute ==
  /\ left' = Minute
  /\ repeats' = TRUE
  /\ sec_drift' = 0

\* The seconds left of this minute.
Rest == Minute - Second(utc)

ArmForRest ==
  /\ left' = Rest
  /\ repeats' = FALSE
  /\ sec_drift' = Rest

\* A mutation of GetInStep: the late timer is left as it is.
GetInStepNever == Served

GetInStep ==
  IF Second(utc) # 0 THEN ArmForRest
  ELSE IF sec_drift # 0 THEN ArmEveryMinute
  ELSE Served

Fires == left # Off /\ left <= 0

\* minute_timer_func.
MinuteTimer ==
  /\ Fires /\ synced /\ ~ota_in_progress
  /\ GetInStep
  /\ ran' = {job \in Jobs : Matches(job, LocalTime(night, utc))}
  /\ checked_at' = utc
  /\ missed' = FALSE /\ slipped' = FALSE
  /\ UNCHANGED <<night, utc, synced, ota_in_progress, slips, updates>>

\* Its early returns, which arm nothing.
MinuteTimerReturns ==
  /\ Fires /\ (~synced \/ ota_in_progress)
  /\ Served
  /\ missed' = TRUE /\ slipped' = FALSE
  /\ UNCHANGED <<night, utc, synced, ota_in_progress, checked_at, ran, slips, updates>>

\* SNTP's first answer.
Sync ==
  /\ ~synced
  /\ synced' = TRUE
  /\ UNCHANGED <<night, utc, ota_in_progress, timer, history, slips, updates>>

UpdateStarts ==
  /\ synced /\ ~ota_in_progress /\ updates < MaxUpdates
  /\ ota_in_progress' = TRUE /\ updates' = updates + 1
  /\ UNCHANGED <<night, utc, synced, timer, history, slips>>

UpdateFails ==
  /\ ota_in_progress
  /\ ota_in_progress' = FALSE
  /\ UNCHANGED <<night, utc, synced, timer, history, slips, updates>>

Next ==
  \/ Tick
  \/ MinuteTimer \/ MinuteTimerReturns
  \/ Sync \/ UpdateStarts \/ UpdateFails

Spec == Init /\ [][Next]_vars

-----------------------------------------------------------------------------
(* Properties *)

\* Type correctness.
TypeOK ==
  /\ night \in Nights /\ utc \in Nat
  /\ {synced, ota_in_progress, repeats, missed, slipped} \subseteq BOOLEAN
  /\ left = Off \/ left \in -1 .. Minute
  /\ sec_drift \in 0 .. Minute - 1
  /\ checked_at \in 0 .. utc /\ ran \subseteq Jobs
  /\ slips \in 0 .. MaxSlips /\ updates \in 0 .. MaxUpdates

\* Unless an update, or the lack of a time, was met since, the jobs have been
\* checked within the last minute: the timer never stops by itself and no minute
\* goes unchecked, whatever second it began at and however it slips.
Punctual == ~missed => utc - checked_at <= Minute + slips

\* Two checks in a row are in the same minute or in one and the next: no job's
\* minute is passed over while timer and clock slip against each other.
NoMinuteSkipped ==
  [][~missed /\ checked_at' # checked_at
       => checked_at' \div Minute <= checked_at \div Minute + 1]_vars

\* The jobs that ran are those due by the local time of Copenhagen, through the
\* nights when summer time begins or ends.
RunsOnLocalTime ==
  ~missed => ran = {job \in Jobs : Matches(job, Copenhagen(night, checked_at))}

=============================================================================
