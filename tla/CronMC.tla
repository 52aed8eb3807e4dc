--------------------------------- MODULE CronMC ---------------------------------
(* Nights and schedules for model checking Cron. *)
EXTENDS Cron

Day(mon, mday, wday) == [mon |-> mon, mday |-> mday, wday |-> wday]

\* Ordinary nights in winter and summer; the nights before the last Sunday of March
\* when it is the 31st (2024) and the 25th (2018), and before the Sunday before it;
\* week days with that Sunday ahead and past; and in October (2021 and 2024) nights
\* before the last Sunday and after it.
SpringNights == {Day(0, 6, 6), Day(6, 6, 6), Day(2, 30, 6), Day(2, 24, 6),
                 Day(2, 23, 6), Day(2, 27, 2), Day(2, 27, 3), Day(9, 23, 6),
                 Day(9, 26, 2), Day(9, 29, 2)}

\* The 26th of October 2024, a Saturday.
AutumnNights == {Day(9, 26, 6)}

At(h, m) == [minute |-> m, hour |-> h, day_of_month |-> Any, month |-> Any,
             day_of_week |-> Any]
TestJobs == {At(Any, 0), At(1, 1), At(2, 0), At(3, 1),
             [At(0, Any) EXCEPT !.day_of_week = 7],
             [At(Any, Any) EXCEPT !.day_of_month = 31, !.month = 3]}

=============================================================================
