-------------------------------- MODULE Control --------------------------------
(***************************************************************************)
(* What the server controls: the remote procedures of user/mqtt_rpc.c that  *)
(* change something, the dispatcher of user/user_main.c that calls them,    *)
(* the cron jobs of user/cron/cron.c, the automatic closing of the valve    *)
(* when the meter reaches a limit, the two access points, and the restarts. *)
(*                                                                         *)
(* A callback runs to its end before the next one.  The jobs of one minute  *)
(* run in one callback: due holds the ones still to run, and nothing else   *)
(* happens while there are any.  Commands come through MQTT, the meter      *)
(* answers through its driver; here both are given (see MqttClient,         *)
(* KmpRequest and En61107Request).  Time is counted in seconds while a      *)
(* timer of two or three seconds runs, and not otherwise.                   *)
(***************************************************************************)
EXTENDS Valve, FiniteSets, SequencesExt

CONSTANTS
  Stored,       \* the jobs of which a device in service has one
  Commands,     \* the jobs that set_cron is asked for
  Limits,       \* the arguments of open_until
  Deltas,       \* the arguments of open_until_delta
  CronJobsMax,  \* CRON_JOBS_MAX: 16
  FirstEnergy,  \* what the meter has counted at first
  MaxEnergy,    \* bound: what it counts to
  MaxCalls,     \* bound: the commands sent
  MaxMishaps    \* bound: power failures, firmware updates tried and resets of
                \* the Wi-Fi, together

ASSUME ControlAssumption ==
  /\ Stored \subseteq Jobs /\ Commands \subseteq Jobs
  /\ Limits \subseteq Nat /\ Deltas \subseteq Nat
  /\ {CronJobsMax, FirstEnergy, MaxEnergy, MaxCalls, MaxMishaps} \subseteq Nat

VARIABLES
  started,      \* sample_mode_timer_func has run: MQTT and Wi-Fi are up
  mode,         \* the operation mode of the Wi-Fi
  resetting,    \* wifi_reconnect_timer is armed
  ap_ssid,      \* the network wifi_softap_config was last given
  fallback_ap_is_running,  \* and fallback_ap_timer is armed
  due,          \* the jobs of this minute still to run
  ack_in,       \* mqtt_restart_ack_timer: seconds left, or Off
  restart_in,   \* system_restart_defered_timer: seconds left, or Off
  restarter,    \* what called system_restart_defered: nothing, a command, or the
                \* device (an update or the watchdog)
  serving,      \* MQTT and the meter driver have not been taken down
  connected,    \* mqtt_connected_cb has run, and mqtt_disconnected_cb not since
  asks,         \* who asks the meter: the boot, still unanswered, sample_timer,
                \* or nobody
  received,     \* the meter driver's last reading, 0 after a boot
  meter,        \* what the meter has counted
  calls, mishaps

ap      == <<mode, ap_ssid, fallback_ap_is_running, resetting>>
leave   == <<ack_in, restart_in, restarter, serving>>
mqtt    == <<connected, asks>>
energy  == <<received, meter>>
bounds  == <<calls, mishaps>>
vars    == <<store, valve, ap, leave, mqtt, energy, bounds, started, due>>

\* MQTT_RESTART_DELAY_MS, in seconds.
AckDelay == 2

\* A mutation of RestartDelay: it waits for the last packet only.
RestartDelayShort == 1

\* SYSTEM_RESTART_DELAY_MS, in seconds.
RestartDelay == 3

\* The mode that a setting of ap_enabled asks for.
Mode(on) == IF on THEN "stationap" ELSE "station"

-----------------------------------------------------------------------------
(* The boot *)

\* What a device in service has stored.
InService(job) == [Defaults EXCEPT !.ac_thermo_state = TRUE,
                                   !.offline_close_at = MaxEnergy,
                                   !.cron_jobs = <<job>>,
                                   !.device_id = "serial"]

Init ==
  /\ flash \in {InService(job) : job \in Stored}
  /\ cfg = flash
  /\ save_in = Off
  /\ ota_in_progress = FALSE /\ blocked = FALSE /\ flash_errors = 0
  /\ gpio14 = cfg.ac_thermo_state /\ testing = FALSE /\ off_armed = FALSE
  /\ started = FALSE
  /\ mode = "null" /\ ap_ssid = "none"
  /\ fallback_ap_is_running = FALSE /\ resetting = FALSE
  /\ connected = FALSE /\ asks = "boot"
  /\ due = <<>>
  /\ ack_in = Off /\ restart_in = Off
  /\ restarter = "nothing" /\ serving = TRUE
  /\ received = 0 /\ meter = FirstEnergy
  /\ calls = 0 /\ mishaps = 0

\* user_init: the configuration, the output, no network yet; the meter is asked
\* until it answers.
Boot ==
  /\ IF flash = Damaged
     THEN /\ cfg' = Defaults
          /\ Store(Defaults)
     ELSE /\ cfg' = flash
          /\ UNCHANGED <<flash, flash_errors>>
  /\ blocked' = FALSE /\ ota_in_progress' = FALSE /\ save_in' = Off
  /\ ValveInit(cfg')
  /\ started' = FALSE /\ due' = <<>>
  /\ mode' = "null" /\ ap_ssid' = "none"
  /\ fallback_ap_is_running' = FALSE /\ resetting' = FALSE
  /\ connected' = FALSE /\ asks' = "boot"
  /\ ack_in' = Off /\ restart_in' = Off
  /\ restarter' = "nothing" /\ serving' = TRUE
  /\ received' = 0
  /\ UNCHANGED <<meter, calls>>

Crash ==
  /\ mishaps < MaxMishaps
  /\ mishaps' = mishaps + 1
  /\ Boot

\* system_restart_defered_timer_func.
Reboot ==
  /\ restart_in = 0
  /\ Boot
  /\ UNCHANGED mishaps

\* A callback may start: none is running.
Idle == due = <<>>

\* sample_mode_timer_func reloads the configuration, stores the meter's serial
\* number in it if it changed, and brings up the network (wifi_connect).
SampleMode ==
  /\ Idle /\ ~started
  /\ started' = TRUE
  /\ IF flash # Damaged /\ flash.device_id = "serial"
     THEN CfgLoad
     ELSE \E c \in {IF flash = Damaged THEN Defaults ELSE flash} :
            CfgSaveChecked([c EXCEPT !.device_id = "serial"])
  /\ mode' = Mode(cfg'.ap_enabled)
  /\ ap_ssid' = "mesh"
  /\ UNCHANGED <<save_in, ota_in_progress, valve, fallback_ap_is_running, resetting,
                 leave, mqtt, energy, bounds, due>>

-----------------------------------------------------------------------------
(* The commands *)

\* mqtt_data_cb: what runs a command at all.
Called ==
  /\ Idle /\ started /\ connected /\ serving
  /\ ~ota_in_progress
  /\ calls < MaxCalls
  /\ calls' = calls + 1
  /\ UNCHANGED <<ota_in_progress, started, due, mqtt, energy, restart_in, restarter,
                 serving, mishaps>>

Open  == Called /\ ThermoOpen  /\ UNCHANGED <<ap, ack_in>>
Close == Called /\ ThermoClose /\ UNCHANGED <<ap, ack_in>>

\* Opens, and stores the limit if it differs from what it is compared with.
OpenWith(compared, limit) ==
  /\ IF cfg.offline_close_at = compared
     THEN ThermoOpen
     ELSE /\ gpio14' = TRUE
          /\ save_in' = IF cfg.ac_thermo_state THEN save_in ELSE SaveDelay
          /\ CfgSaveChecked([Opened EXCEPT !.offline_close_at = limit])
          /\ UNCHANGED <<testing, off_armed>>

OpenUntil(value) ==
  /\ Called
  /\ OpenWith(value, value)
  /\ UNCHANGED <<ap, ack_in>>

\* The limit is compared with the difference, not with the sum.
OpenUntilDelta(value) ==
  /\ Called
  /\ OpenWith(value, received + value)
  /\ UNCHANGED <<ap, ack_in>>

Changed(t) == [cfg EXCEPT !.text[t] = 1]

\* set_ssid and set_pwd, with a text that is another one, and set_ssid_pwd; the
\* last also joins the network later, which sets the mode: see WifiDefault.
SetSta ==
  /\ Called
  /\ CfgSaveChecked(Changed("sta"))
  /\ UNCHANGED <<save_in, valve, ap, ack_in>>

\* set_ap_mesh_pwd: an access point that is on is set up again, whichever it is.
SetMesh ==
  /\ Called
  /\ IF cfg.text["mesh"] = 1
     THEN CfgUnchanged /\ UNCHANGED ap_ssid
     ELSE /\ CfgSaveChecked(Changed("mesh"))
          /\ ap_ssid' = IF mode = "stationap" /\ flash_errors' = flash_errors
                        THEN "mesh" ELSE ap_ssid
  /\ UNCHANGED <<save_in, valve, mode, fallback_ap_is_running, resetting, ack_in>>

\* set_key, and set_mqtt_host, which restarts: neither reads the copy back.
SetKey ==
  /\ Called
  /\ CfgSave(Changed("key"))
  /\ UNCHANGED <<save_in, valve, ap, ack_in>>

SetHost ==
  /\ Called
  /\ CfgSave(Changed("host"))
  /\ ack_in' = AckDelay
  /\ UNCHANGED <<save_in, valve, ap>>

Restart ==
  /\ Called
  /\ ack_in' = AckDelay
  /\ CfgUnchanged /\ UNCHANGED <<save_in, valve, ap>>

\* add_cron_job_from_query: nothing is added, or saved, when the list is full.
Room == Len(cfg.cron_jobs) <= CronJobsMax - 1

AddCronJob(job) ==
  IF Room
  THEN CfgSaveDefered([cfg EXCEPT !.cron_jobs = Append(@, job)])
  ELSE CfgUnchanged /\ UNCHANGED save_in

\* A mutation of ClearCronJobs: it is left to the next save.
ClearCronJobsOnly ==
  /\ cfg' = [cfg EXCEPT !.cron_jobs = <<>>]
  /\ UNCHANGED <<flash, blocked, flash_errors, save_in>>

ClearCronJobs == CfgSaveDefered([cfg EXCEPT !.cron_jobs = <<>>])

SetCron(job) == Called /\ AddCronJob(job) /\ UNCHANGED <<valve, ap, ack_in>>
ClearCron    == Called /\ ClearCronJobs   /\ UNCHANGED <<valve, ap, ack_in>>

-----------------------------------------------------------------------------
(* The access points *)

\* The mesh access point is switched and the setting saved if it changed: by a
\* command, which reads it back, or by a job.
SwitchAp(on, readback) ==
  IF mode = Mode(on)
  THEN CfgUnchanged /\ UNCHANGED <<mode, ap_ssid>>
  ELSE /\ mode' = Mode(on)
       /\ ap_ssid' = IF on THEN "mesh" ELSE ap_ssid
       /\ IF cfg.ap_enabled = on
          THEN CfgUnchanged
          ELSE IF readback
          THEN CfgSaveChecked([cfg EXCEPT !.ap_enabled = on])
          ELSE CfgSave([cfg EXCEPT !.ap_enabled = on])

\* start_ap and stop_ap leave the rescue access point alone.
SwitchApCalled(on) ==
  /\ Called
  /\ IF fallback_ap_is_running
     THEN CfgUnchanged /\ UNCHANGED <<mode, ap_ssid>>
     ELSE SwitchAp(on, TRUE)
  /\ UNCHANGED <<save_in, valve, fallback_ap_is_running, resetting, ack_in>>

\* A mutation of RescueEnds: the mode is left as it is.
RescueEndsInPlace ==
  /\ fallback_ap_is_running' = FALSE
  /\ UNCHANGED <<mode, ap_ssid, resetting>>

\* fallback_ap_timer_func: back to what is saved.
RescueEnds ==
  /\ fallback_ap_is_running' = FALSE
  /\ mode' = Mode(cfg.ap_enabled)
  /\ ap_ssid' = IF cfg.ap_enabled THEN "mesh" ELSE ap_ssid
  /\ UNCHANGED resetting

\* start_fallback_ap with a time: starts it, or gives it more time.
StartRescue ==
  /\ Called
  /\ fallback_ap_is_running' = TRUE
  /\ IF fallback_ap_is_running
     THEN UNCHANGED <<mode, ap_ssid>>
     ELSE mode' = "stationap" /\ ap_ssid' = "rescue"
  /\ CfgUnchanged /\ UNCHANGED <<save_in, valve, resetting, ack_in>>

\* start_fallback_ap with no time ends it at once.
StopRescue ==
  /\ Called
  /\ IF fallback_ap_is_running THEN RescueEnds ELSE UNCHANGED ap
  /\ CfgUnchanged /\ UNCHANGED <<save_in, valve, ack_in>>

RescueTimer ==
  /\ Idle /\ fallback_ap_is_running
  /\ RescueEnds
  /\ UNCHANGED <<store, valve, leave, mqtt, energy, bounds, started, due>>

\* The station joins a network again, and sets the mode to what is saved
\* (wifi_default and wifi_fallback).
WifiDefault ==
  /\ Idle /\ started
  /\ mode' = Mode(cfg.ap_enabled)
  /\ UNCHANGED <<store, valve, ap_ssid, fallback_ap_is_running, resetting, leave,
                 mqtt, energy, bounds, started, due>>

\* force_reset_wifi, by the watchdog: the Wi-Fi is off, access points included,
\* for NETWORK_RESTART_DELAY, and for as long as a scan still runs.
ForceReset ==
  /\ Idle /\ started /\ restart_in = Off
  /\ mishaps < MaxMishaps
  /\ mishaps' = mishaps + 1
  /\ mode' = "null"
  /\ resetting' = TRUE
  /\ UNCHANGED <<store, valve, ap_ssid, fallback_ap_is_running, leave, mqtt, energy,
                 calls, started, due>>

\* wifi_reconnect_timer_func.
WifiReconnect ==
  /\ Idle /\ resetting
  /\ resetting' = FALSE
  /\ mode' = Mode(cfg.ap_enabled)
  /\ UNCHANGED <<store, valve, ap_ssid, fallback_ap_is_running, leave, mqtt, energy,
                 bounds, started, due>>

-----------------------------------------------------------------------------
(* Cron *)

\* minute_timer_func, in a minute whose time matches the schedules of some jobs.
\* There is no time before the network is up; an update stops it, and so does
\* cron_destroy.
MinuteTimer ==
  /\ Idle /\ started /\ ~ota_in_progress /\ restart_in = Off
  /\ \E matching \in SUBSET (DOMAIN cfg.cron_jobs) \ {{}} :
       due' = [k \in 1 .. Cardinality(matching) |->
                 cfg.cron_jobs[SetToSortSeq(matching, <)[k]]]
  /\ UNCHANGED <<store, valve, ap, leave, mqtt, energy, bounds, started>>

\* The jobs of the minute that are left, unless the list was emptied.
NextJob == due' = IF cfg'.cron_jobs = <<>> THEN <<>> ELSE Tail(due)

Runs(job) == ~Idle /\ Head(due) = job
Done == NextJob /\ UNCHANGED <<ota_in_progress, leave, mqtt, energy, bounds, started>>

JobOpen  == Runs("open")  /\ ThermoOpen  /\ UNCHANGED ap /\ Done
JobClose == Runs("close") /\ ThermoClose /\ UNCHANGED ap /\ Done
JobTest  == /\ Runs("test") /\ AcTest
            /\ CfgUnchanged /\ UNCHANGED <<save_in, ap>> /\ Done
JobOff   == /\ Runs("off") /\ AcOff
            /\ CfgUnchanged /\ UNCHANGED <<save_in, ap>> /\ Done

JobSetSsidPwd ==
  /\ Runs("set_ssid_pwd")
  /\ CfgSaveChecked(Changed("sta"))
  /\ UNCHANGED <<save_in, valve, ap>> /\ Done

JobClearCron ==
  /\ Runs("clear_cron")
  /\ ClearCronJobs
  /\ UNCHANGED <<valve, ap>> /\ Done

\* start_ap and stop_ap, which do not look at the rescue access point here.
JobSwitchAp(job, on) ==
  /\ Runs(job)
  /\ SwitchAp(on, FALSE)
  /\ UNCHANGED <<save_in, valve, fallback_ap_is_running, resetting>> /\ Done

\* reconnect is MQTT's.
JobReconnect ==
  /\ Runs("reconnect")
  /\ CfgUnchanged /\ UNCHANGED <<save_in, valve, ap>> /\ Done

-----------------------------------------------------------------------------
(* The meter, updates, timers *)

MeterCounts ==
  /\ Idle /\ meter < MaxEnergy
  /\ meter' = meter + 1
  /\ UNCHANGED <<store, valve, ap, leave, mqtt, received, bounds, started, due>>

\* meter_sent_data closes what is open when the limit is reached.
LimitReached(e) == e >= cfg.offline_close_at


\* mqtt_connected_cb, once the serial number is known: sample_timer is armed, or
\* armed again, which puts the next request off.  Nothing else arms it.
MqttConnected ==
  /\ Idle /\ started /\ serving /\ ~connected
  /\ connected' = TRUE /\ asks' = "sample_timer"
  /\ UNCHANGED <<store, valve, ap, leave, energy, bounds, started, due>>

\* mqtt_disconnected_cb, which leaves sample_timer running.
MqttDisconnected ==
  /\ Idle /\ serving /\ connected
  /\ connected' = FALSE
  /\ UNCHANGED <<store, valve, ap, leave, asks, energy, bounds, started, due>>

\* An answer of the meter, which may also come late, during an update.
Reading ==
  /\ Idle /\ serving
  /\ asks # "nobody"
  /\ asks' = IF asks = "boot" THEN "nobody" ELSE asks
  /\ received' = meter
  /\ IF LimitReached(meter) /\ cfg.ac_thermo_state
     THEN ThermoClose
     ELSE CfgUnchanged /\ UNCHANGED <<save_in, valve>>
  /\ UNCHANGED <<ota_in_progress, ap, leave, connected, meter, bounds, started, due>>

\* The command ota_update; the update itself is OtaUpdate.
UpdateStarts ==
  /\ Idle /\ started /\ connected /\ serving
  /\ ~ota_in_progress /\ mishaps < MaxMishaps
  /\ ota_in_progress' = TRUE
  /\ mishaps' = mishaps + 1
  /\ UNCHANGED <<cfg, flash, save_in, blocked, flash_errors, valve, ap, leave,
                 mqtt, energy, calls, started, due>>

\* system_restart_defered, which does nothing the second time: the network and its
\* timers are stopped, MQTT and the meter driver are not.
RestartDefered(caller) ==
  IF restart_in = Off
  THEN /\ restart_in' = RestartDelay
       /\ restarter' = caller
       /\ resetting' = FALSE
  ELSE UNCHANGED <<restart_in, restarter, resetting>>

\* The new firmware is staged.
UpdateSucceeds ==
  /\ Idle /\ ota_in_progress
  /\ ota_in_progress' = FALSE
  /\ RestartDefered("device")
  /\ UNCHANGED <<cfg, flash, save_in, blocked, flash_errors, valve, mode, ap_ssid,
                 fallback_ap_is_running, ack_in, serving, mqtt, energy, bounds,
                 started, due>>

\* watchdog_timer_func, after 24 hours without an acknowledged message.
WatchdogRestarts ==
  /\ Idle /\ started /\ restart_in = Off
  /\ RestartDefered("device")
  /\ UNCHANGED <<store, valve, mode, ap_ssid, fallback_ap_is_running, ack_in,
                 serving, mqtt, energy, bounds, started, due>>

\* The update fails.
UpdateFails ==
  /\ Idle /\ ota_in_progress
  /\ ota_in_progress' = FALSE
  /\ UNCHANGED <<cfg, flash, save_in, blocked, flash_errors, valve, ap, leave,
                 mqtt, energy, bounds, started, due>>

SaveTimer ==
  /\ Idle /\ ConfigSaveTimer
  /\ UNCHANGED <<valve, ap, leave, mqtt, energy, bounds, started, due>>

TestTimer ==
  /\ Idle /\ AcTestTimer
  /\ UNCHANGED <<store, ap, leave, mqtt, energy, bounds, started, due>>

OffTimer ==
  /\ Idle /\ AcOffTimer
  /\ UNCHANGED <<store, ap, leave, mqtt, energy, bounds, started, due>>

\* mqtt_restart_ack_timer_func: no more commands, readings or jobs.
RestartAck ==
  /\ Idle /\ ack_in = 0
  /\ ack_in' = Off
  /\ serving' = FALSE
  /\ RestartDefered("command")
  /\ UNCHANGED <<store, valve, mode, ap_ssid, fallback_ap_is_running, mqtt, energy,
                 bounds, started, due>>

\* A second passes once every timer that is due has run.
Later(t) == IF t = Off THEN Off ELSE t - 1
Tick ==
  /\ Idle
  /\ 0 \notin {save_in, ack_in, restart_in}
  /\ {save_in, ack_in, restart_in} # {Off}
  /\ save_in' = Later(save_in)
  /\ ack_in' = Later(ack_in)
  /\ restart_in' = Later(restart_in)
  /\ UNCHANGED <<cfg, flash, ota_in_progress, blocked, flash_errors, valve, ap,
                 restarter, serving, mqtt, energy, bounds, started, due>>

-----------------------------------------------------------------------------

\* The dispatcher of mqtt_data_cb.
Call ==
  \/ Open \/ Close
  \/ \E v \in Limits : OpenUntil(v)
  \/ \E v \in Deltas : OpenUntilDelta(v)
  \/ SetSta \/ SetMesh \/ SetKey \/ SetHost
  \/ \E on \in BOOLEAN : SwitchApCalled(on)
  \/ StartRescue \/ StopRescue
  \/ \E job \in Commands : SetCron(job)
  \/ ClearCron
  \/ Restart

\* The command of a job in minute_timer_func.
Job ==
  \/ JobOpen \/ JobClose \/ JobTest \/ JobOff
  \/ JobSetSsidPwd \/ JobClearCron \/ JobReconnect
  \/ JobSwitchAp("start_ap", TRUE) \/ JobSwitchAp("stop_ap", FALSE)

Timer == SaveTimer \/ TestTimer \/ OffTimer \/ RescueTimer \/ RestartAck \/ Tick

Next ==
  \/ Call \/ Job \/ Timer \/ MinuteTimer
  \/ SampleMode
  \/ WifiDefault \/ ForceReset \/ WifiReconnect
  \/ MqttConnected \/ MqttDisconnected
  \/ MeterCounts \/ Reading
  \/ UpdateStarts \/ UpdateSucceeds \/ UpdateFails
  \/ WatchdogRestarts
  \/ Crash \/ Reboot

Spec == Init /\ [][Next]_vars

\* Callbacks run, timers fire, and an update ends (its own timers see to that).
\* The meter is asked until it answers after a boot, and every minute once a
\* connection has armed sample_timer; a day without a connection makes the watchdog
\* restart the device.  Both happen however often jobs run in between: a callback
\* has its turn in the queue of the system.  A connection arms sample_timer again,
\* and one that comes and goes keeps both from firing: that this ends is the premise
\* of AutoCloses.
FairSpec ==
  /\ Spec
  /\ WF_vars(Job) /\ WF_vars(SampleMode)
  /\ WF_vars(SaveTimer) /\ WF_vars(OffTimer) /\ WF_vars(RescueTimer)
  /\ WF_vars(RestartAck) /\ WF_vars(Tick) /\ WF_vars(Reboot)
  /\ SF_vars(Reading /\ ~ota_in_progress)
  /\ SF_vars(WatchdogRestarts /\ ~connected)
  /\ WF_vars(UpdateFails \/ UpdateSucceeds)

-----------------------------------------------------------------------------
(* Properties *)

\* Type correctness; the list of jobs never holds more than its array.
TypeOK ==
  /\ StoreTypeOK /\ ValveTypeOK
  /\ Len(cfg.cron_jobs) <= CronJobsMax
  /\ {started, fallback_ap_is_running, resetting, connected} \subseteq BOOLEAN
  /\ mode \in {"null", "station", "stationap"}
  /\ asks \in {"boot", "nobody", "sample_timer"}
  /\ ap_ssid \in {"none", "mesh", "rescue"}
  /\ due \in Seq(Jobs)
  /\ ack_in \in Off .. AckDelay
  /\ restart_in \in Off .. RestartDelay
  /\ restarter \in {"nothing", "command", "device"} /\ serving \in BOOLEAN
  /\ received \in Nat /\ meter \in Nat
  /\ calls \in 0 .. MaxCalls
  /\ mishaps \in 0 .. MaxMishaps

\* Whatever a command, a job or the meter changes in sys_cfg reaches the flash:
\* the two are the same, or a save is still to come, or the last one was refused
\* because of an update (and the next saves that too), or the flash is damaged.
SettingsAreSaved ==
  cfg = flash \/ save_in # Off \/ blocked \/ flash = Damaged

\* While the saved state says closed the valve is closed, whatever tests, jobs,
\* reloads, updates and restarts came before: only a test still running, or the
\* instant after it, drives the output on its own.  (The defaults that a
\* damaged flash leaves say closed too, and close nothing.)
ClosedIsClosed ==
  ~cfg.ac_thermo_state /\ flash_errors = 0 /\ ~testing /\ ~off_armed => ~gpio14

\* The mode follows the setting whenever the rescue access point is not running,
\* however its start and its end, jobs, commands and the resets of the watchdog
\* were mixed; and an access point that is on then is the mesh one.  A reset
\* leaves the Wi-Fi off only while the timer that brings it back is armed, or a
\* restart is.
ApFollowsSetting ==
  started /\ ~fallback_ap_is_running /\ flash_errors = 0
    => \/ mode = "null" /\ (resetting \/ restart_in # Off)
       \/ /\ mode = Mode(cfg.ap_enabled)
          /\ mode = "stationap" => ap_ssid = "mesh"

\* A restart that a command asked for loses no change made before it: the
\* deferred save is always done first.  (One that an update or the watchdog began
\* leaves MQTT and the meter driver running for three seconds more, and the save of
\* what they change then may come too late.)
RestartKeepsSettings ==
  [][Reboot /\ restarter = "command"
       => cfg = flash \/ blocked \/ flash = Damaged]_vars


=============================================================================
