----------------------------- MODULE ControlProofs -----------------------------
(***************************************************************************)
(* No setting is forgotten, a closed valve is closed, the mode follows the  *)
(* setting, and a restart that a command asked for waits for the saves:     *)
(* proofs for any list of jobs, limits, commands, flash errors, power       *)
(* failures, updates and resets of the Wi-Fi.                               *)
(***************************************************************************)
EXTENDS Control, TLAPS

DataOK ==
  /\ cfg \in ConfigType /\ flash \in ConfigType \cup {Damaged}
  /\ flash_errors \in Nat /\ received \in Nat /\ meter \in Nat
  /\ flash = Damaged => flash_errors > 0

\* A save that is to come is before the restart that a command asked for, and
\* nothing that could ask for another one happens in between.
TimesOK ==
  /\ save_in \in Off .. SaveDelay /\ ack_in \in Off .. AckDelay
  /\ restart_in \in Off .. RestartDelay
  /\ restart_in # Off => due = <<>>
  /\ restarter = "command" =>
       restart_in # Off /\ ~serving /\ (save_in # Off => save_in < restart_in)

\* Until sample_mode_timer_func reads the configuration again the output is what
\* either copy says, or closed.
BootOK ==
  /\ due # <<>> => started
  /\ ~started => ~testing /\ ~off_armed
  /\ ~started /\ flash_errors = 0 /\ ~flash.ac_thermo_state => ~gpio14

\* The network that wifi_softap_config was last given is the right one before the
\* mode is set.
NetOK ==
  started /\ ~fallback_ap_is_running /\ flash_errors = 0
    => /\ \/ mode = "null" /\ (resetting \/ restart_in # Off)
          \/ mode = Mode(cfg.ap_enabled)
       /\ cfg.ap_enabled => ap_ssid = "mesh"

IInv == DataOK /\ TimesOK /\ BootOK /\ SettingsAreSaved /\ ClosedIsClosed /\ NetOK

-----------------------------------------------------------------------------
(* The settings *)

LEMMA DefaultsType == Defaults \in ConfigType
<1>1. Defaults.cron_jobs \in Seq(Jobs)
  BY DEF Defaults
<1> QED
  BY <1>1 DEF Defaults, ConfigType

\* Settings that are changed one at a time.
LEMMA Fields ==
  ASSUME NEW c \in ConfigType
  PROVE  /\ \A b \in BOOLEAN :
              /\ [c EXCEPT !.ac_thermo_state = b] \in ConfigType
              /\ [c EXCEPT !.ac_thermo_state = b].ac_thermo_state = b
              /\ [c EXCEPT !.ac_thermo_state = b].ap_enabled = c.ap_enabled
         /\ \A b \in BOOLEAN :
              /\ [c EXCEPT !.ap_enabled = b] \in ConfigType
              /\ [c EXCEPT !.ap_enabled = b].ap_enabled = b
              /\ [c EXCEPT !.ap_enabled = b].ac_thermo_state = c.ac_thermo_state
         /\ \A n \in Nat :
              /\ [c EXCEPT !.offline_close_at = n] \in ConfigType
              /\ [c EXCEPT !.offline_close_at = n].ap_enabled = c.ap_enabled
              /\ [c EXCEPT !.offline_close_at = n].ac_thermo_state = c.ac_thermo_state
         /\ \A jobs \in Seq(Jobs) :
              /\ [c EXCEPT !.cron_jobs = jobs] \in ConfigType
              /\ [c EXCEPT !.cron_jobs = jobs].ap_enabled = c.ap_enabled
              /\ [c EXCEPT !.cron_jobs = jobs].ac_thermo_state = c.ac_thermo_state
         /\ /\ [c EXCEPT !.device_id = "serial"] \in ConfigType
            /\ [c EXCEPT !.device_id = "serial"].ap_enabled = c.ap_enabled
            /\ [c EXCEPT !.device_id = "serial"].ac_thermo_state = c.ac_thermo_state
  BY DEF ConfigType

LEMMA TextField ==
  ASSUME NEW c \in ConfigType, NEW t \in Texts
  PROVE  /\ [c EXCEPT !.text[t] = 1] \in ConfigType
         /\ [c EXCEPT !.text[t] = 1].ap_enabled = c.ap_enabled
         /\ [c EXCEPT !.text[t] = 1].ac_thermo_state = c.ac_thermo_state
<1>1. [c.text EXCEPT ![t] = 1] \in [Texts -> 0 .. 1]
  BY DEF ConfigType
<1> QED
  BY <1>1 DEF ConfigType

LEMMA DefaultFields ==
  /\ Defaults.ap_enabled = TRUE /\ Defaults.ac_thermo_state = FALSE
  /\ Defaults # Damaged
  BY DEF Defaults, Damaged

-----------------------------------------------------------------------------
(* The ways of saving *)

\* What they have in common, when sys_cfg has become c.
Saves(c) ==
  /\ cfg' \in ConfigType /\ flash' \in ConfigType \cup {Damaged}
  /\ flash_errors' \in Nat /\ flash_errors' >= flash_errors
  /\ flash_errors' = 0 => cfg' = c
  /\ flash' = Damaged => flash_errors' > 0
  /\ SettingsAreSaved'

LEMMA KeepSaves ==
  ASSUME DataOK, SettingsAreSaved, CfgUnchanged, UNCHANGED save_in
  PROVE  Saves(cfg)
  BY DEF DataOK, SettingsAreSaved, CfgUnchanged, Saves

LEMMA CfgSaveSaves ==
  ASSUME DataOK, NEW c \in ConfigType, CfgSave(c)
  PROVE  Saves(c)
<1>1. CASE Refuse
  BY <1>1 DEF CfgSave, Refuse, Saves, DataOK, SettingsAreSaved
<1>2. CASE cfg' = c /\ Store(c)
  <2>1. CASE flash' = c /\ UNCHANGED flash_errors
    <3>1. flash' = Damaged => flash_errors' > 0
      BY <2>1 DEF ConfigType, Damaged
    <3> QED
      BY <1>2, <2>1, <3>1 DEF Saves, DataOK, SettingsAreSaved
  <2>2. CASE flash' = Damaged /\ flash_errors' = flash_errors + 1
    BY <1>2, <2>2 DEF Saves, DataOK, SettingsAreSaved
  <2> QED
    BY <1>2, <2>1, <2>2 DEF Store
<1> QED
  BY <1>1, <1>2 DEF CfgSave

LEMMA CheckedSaves ==
  ASSUME DataOK, NEW c \in ConfigType, CfgSaveChecked(c)
  PROVE  Saves(c)
<1>1. CASE cfg' = c /\ Refuse
  BY <1>1 DEF Refuse, Saves, DataOK, SettingsAreSaved
<1>2. CASE cfg' = c /\ flash' = c /\ UNCHANGED flash_errors
  <2>1. flash' = Damaged => flash_errors' > 0
    BY <1>2 DEF ConfigType, Damaged
  <2> QED
    BY <1>2, <2>1 DEF Saves, DataOK, SettingsAreSaved
<1>3. ASSUME NEW n \in 1 .. 2, cfg' = Defaults, flash_errors' = flash_errors + n,
             flash' = IF n = 1 THEN Defaults ELSE Damaged
      PROVE  Saves(c)
  BY <1>3, DefaultsType DEF Saves, DataOK, SettingsAreSaved
<1> QED
  BY <1>1, <1>2, <1>3 DEF CfgSaveChecked

LEMMA DeferedSaves ==
  ASSUME DataOK, NEW c \in ConfigType, CfgSaveDefered(c)
  PROVE  Saves(c)
  BY DEF CfgSaveDefered, Saves, DataOK, SettingsAreSaved, Off, SaveDelay

-----------------------------------------------------------------------------
(* What a command, a job or a reading does *)

Start == IInv /\ started /\ restarter # "command"

\* What such a step leaves alone, and no job follows a restart.
Stays ==
  /\ UNCHANGED <<started, energy, restart_in, restarter, serving>>
  /\ restart_in # Off => due' = <<>>

\* The valve is as sys_cfg says, if it says closed.
ValveRight(c) ==
  flash_errors' = 0 /\ ~c.ac_thermo_state /\ ~testing' /\ ~off_armed' => ~gpio14'

\* The mode is as sys_cfg says, unless the rescue access point runs.
ModeRight(c) ==
  ~fallback_ap_is_running' /\ flash_errors' = 0
    => /\ \/ mode' = "null" /\ (resetting' \/ restart_in' # Off)
          \/ mode' = Mode(c.ap_enabled)
       /\ c.ap_enabled => ap_ssid' = "mesh"

Timely == save_in' \in Off .. SaveDelay /\ ack_in' \in Off .. AckDelay

LEMMA ValveKept ==
  ASSUME Start, NEW c, Saves(c), c.ac_thermo_state = cfg.ac_thermo_state,
         UNCHANGED valve
  PROVE  ValveRight(c)
<1>1. flash_errors' = 0 => flash_errors = 0
  BY DEF Start, IInv, DataOK, Saves
<1> QED
  BY <1>1, Zenon DEF Start, IInv, ClosedIsClosed, ValveRight, valve

LEMMA ModeKept ==
  ASSUME Start, NEW c, Saves(c), c.ap_enabled = cfg.ap_enabled, UNCHANGED ap,
         Stays
  PROVE  ModeRight(c)
<1>1. flash_errors' = 0 => flash_errors = 0
  BY DEF Start, IInv, DataOK, Saves
<1> QED
  BY <1>1, Zenon DEF Start, Stays, IInv, NetOK, ModeRight, ap

\* A step of a device in service keeps the invariant.
LEMMA Effect ==
  ASSUME Start, NEW c, Saves(c), ValveRight(c), ModeRight(c), Timely,
         Stays
  PROVE  IInv'
<1>1. DataOK'
  BY DEF Start, Stays, IInv, DataOK, Saves, energy
<1>2. TimesOK'
  BY DEF Start, Stays, IInv, TimesOK, Timely
<1>3. BootOK'
  BY DEF Start, Stays, BootOK
<1>4. SettingsAreSaved'
  BY DEF Saves
<1>5. ClosedIsClosed'
  BY Zenon DEF ClosedIsClosed, ValveRight, Saves
<1>6. NetOK'
  BY Zenon DEF NetOK, ModeRight, Saves
<1> QED
  BY <1>1, <1>2, <1>3, <1>4, <1>5, <1>6, Zenon DEF IInv

LEMMA OpenSaves ==
  ASSUME Start, ThermoOpen, UNCHANGED ap, Stays
  PROVE  /\ save_in' \in Off .. SaveDelay
         /\ \E c : Saves(c) /\ ValveRight(c) /\ ModeRight(c)
<1>1. CASE cfg.ac_thermo_state
  <2>1. Saves(cfg)
    BY <1>1, KeepSaves DEF ThermoOpen, Start, IInv
  <2>2. ValveRight(cfg) /\ ModeRight(cfg)
    BY <1>1, <2>1, ModeKept, Zenon DEF ValveRight
  <2>3. save_in' \in Off .. SaveDelay
    BY <1>1 DEF ThermoOpen, Start, IInv, TimesOK
  <2> QED
    BY <2>1, <2>2, <2>3
<1>2. CASE ~cfg.ac_thermo_state
  <2>1. Opened \in ConfigType /\ Opened.ac_thermo_state = TRUE
        /\ Opened.ap_enabled = cfg.ap_enabled
    BY Fields DEF Opened, Start, IInv, DataOK
  <2>2. Saves(Opened)
    BY <1>2, <2>1, DeferedSaves DEF ThermoOpen, Start, IInv
  <2>3. ValveRight(Opened) /\ ModeRight(Opened)
    BY <2>1, <2>2, ModeKept, Zenon DEF ValveRight
  <2>4. save_in' \in Off .. SaveDelay
    BY <1>2 DEF ThermoOpen, CfgSaveDefered, Start, IInv, TimesOK, Off, SaveDelay
  <2> QED
    BY <2>2, <2>3, <2>4
<1> QED
  BY <1>1, <1>2

Closed == [cfg EXCEPT !.ac_thermo_state = FALSE]

LEMMA CloseSaves ==
  ASSUME DataOK, SettingsAreSaved, save_in \in Off .. SaveDelay, ThermoClose
  PROVE  /\ save_in' \in Off .. SaveDelay
         /\ gpio14' = FALSE /\ UNCHANGED <<testing, off_armed>>
         /\ \E c \in ConfigType : Saves(c) /\ c.ap_enabled = cfg.ap_enabled
<1>1. CASE ~cfg.ac_thermo_state
  <2>1. Saves(cfg)
    BY <1>1, KeepSaves DEF ThermoClose
  <2> QED
    BY <1>1, <2>1 DEF ThermoClose, DataOK
<1>2. CASE cfg.ac_thermo_state
  <2>1. Closed \in ConfigType /\ Closed.ap_enabled = cfg.ap_enabled
    BY Fields DEF Closed, DataOK
  <2>2. Saves(Closed)
    BY <1>2, <2>1, DeferedSaves DEF ThermoClose, Closed
  <2> QED
    BY <1>2, <2>1, <2>2 DEF ThermoClose, CfgSaveDefered, Off, SaveDelay
<1> QED
  BY <1>1, <1>2

-----------------------------------------------------------------------------
(* The commands *)

LEMMA CalledStarts ==
  ASSUME IInv, Called
  PROVE  Start /\ Stays
  BY DEF Called, Start, Stays, IInv, TimesOK

\* A command that changes neither the valve nor the mode.
LEMMA PlainCall ==
  ASSUME IInv, Called, NEW c, Saves(c), UNCHANGED <<valve, ap>>,
         c.ac_thermo_state = cfg.ac_thermo_state, c.ap_enabled = cfg.ap_enabled,
         save_in' \in Off .. SaveDelay, ack_in' \in Off .. AckDelay
  PROVE  IInv'
<1>1. Start /\ Stays
  BY CalledStarts
<1>2. ValveRight(c)
  BY <1>1, ValveKept
<1>3. ModeRight(c)
  BY <1>1, ModeKept
<1> QED
  BY <1>1, <1>2, <1>3, Effect DEF Timely

LEMMA OpenKeeps == ASSUME IInv, Open PROVE IInv'
<1>1. Start /\ Stays
  BY CalledStarts DEF Open
<1>2. save_in' \in Off .. SaveDelay
      /\ \E c : Saves(c) /\ ValveRight(c) /\ ModeRight(c)
  BY <1>1, OpenSaves DEF Open
<1>3. Timely
  BY <1>1, <1>2 DEF Open, Timely, IInv, TimesOK
<1> QED
  BY <1>1, <1>2, <1>3, Effect

LEMMA CloseKeeps == ASSUME IInv, Close PROVE IInv'
<1>1. Start /\ Stays
  BY CalledStarts DEF Close
<1>2. /\ save_in' \in Off .. SaveDelay
      /\ gpio14' = FALSE /\ UNCHANGED <<testing, off_armed>>
      /\ \E c \in ConfigType : Saves(c) /\ c.ap_enabled = cfg.ap_enabled
  BY CloseSaves DEF Close, IInv, TimesOK
<1>3. Timely
  BY <1>1, <1>2 DEF Close, Timely, IInv, TimesOK
<1>4. PICK c \in ConfigType : Saves(c) /\ c.ap_enabled = cfg.ap_enabled
  BY <1>2
<1>5. ValveRight(c) /\ ModeRight(c)
  BY <1>1, <1>2, <1>4, ModeKept DEF ValveRight, Close
<1> QED
  BY <1>1, <1>3, <1>4, <1>5, Effect

\* open_until and open_until_delta.
LEMMA OpenWithKeeps ==
  ASSUME IInv, Called, NEW compared, NEW limit \in Nat, OpenWith(compared, limit),
         UNCHANGED <<ap, ack_in>>
  PROVE  IInv'
<1> DEFINE c == [Opened EXCEPT !.offline_close_at = limit]
<1>1. Start /\ Stays
  BY CalledStarts
<1>2. save_in' \in Off .. SaveDelay
      /\ \E d : Saves(d) /\ ValveRight(d) /\ ModeRight(d)
  <2>1. CASE ThermoOpen
    BY <1>1, <2>1, OpenSaves
  <2>2. CASE /\ save_in' = IF cfg.ac_thermo_state THEN save_in ELSE SaveDelay
             /\ CfgSaveChecked(c)
    <3>1. Opened \in ConfigType /\ Opened.ac_thermo_state = TRUE
          /\ Opened.ap_enabled = cfg.ap_enabled
      BY Fields DEF Opened, IInv, DataOK
    <3>2. c \in ConfigType /\ c.ac_thermo_state = TRUE
          /\ c.ap_enabled = cfg.ap_enabled
      BY <3>1 DEF ConfigType
    <3>3. Saves(c)
      BY <2>2, <3>2, CheckedSaves DEF IInv
    <3>4. ValveRight(c) /\ ModeRight(c)
      BY <1>1, <3>2, <3>3, ModeKept, Zenon DEF ValveRight
    <3>5. save_in' \in Off .. SaveDelay
      BY <2>2 DEF IInv, TimesOK, Off, SaveDelay
    <3> QED
      BY <3>3, <3>4, <3>5
  <2> QED
    BY <2>1, <2>2 DEF OpenWith
<1>3. Timely
  BY <1>1, <1>2 DEF Timely, IInv, TimesOK
<1> QED
  BY <1>1, <1>2, <1>3, Effect

LEMMA TextKeeps ==
  ASSUME IInv, Called, NEW t \in Texts,
         \/ CfgSave(Changed(t))
         \/ CfgSaveChecked(Changed(t))
         \/ CfgUnchanged,
         UNCHANGED <<save_in, valve, ap>>, ack_in' \in Off .. AckDelay
  PROVE  IInv'
<1>1. Changed(t) \in ConfigType
      /\ Changed(t).ac_thermo_state = cfg.ac_thermo_state
      /\ Changed(t).ap_enabled = cfg.ap_enabled
  BY TextField DEF Changed, IInv, DataOK
<1>2. save_in' \in Off .. SaveDelay
  BY DEF IInv, TimesOK
<1>3. CASE CfgUnchanged
  BY <1>2, <1>3, KeepSaves, PlainCall DEF IInv
<1>4. CASE Saves(Changed(t))
  BY <1>1, <1>2, <1>4, PlainCall
<1> QED
  BY <1>1, <1>3, <1>4, CfgSaveSaves, CheckedSaves DEF IInv

LEMMA SetMeshKeeps == ASSUME IInv, SetMesh PROVE IInv'
<1> DEFINE c == Changed("mesh")
<1>1. CASE cfg.text["mesh"] = 1
  <2>1. CfgUnchanged /\ UNCHANGED ap
    BY <1>1, Zenon DEF SetMesh, ap
  <2> QED
    BY <2>1, TextKeeps DEF SetMesh, Texts, IInv, TimesOK
<1>2. CASE cfg.text["mesh"] # 1
  <2>1. Start /\ Stays
    BY CalledStarts DEF SetMesh
  <2>2. c \in ConfigType /\ c.ac_thermo_state = cfg.ac_thermo_state
        /\ c.ap_enabled = cfg.ap_enabled
    BY TextField DEF Changed, IInv, DataOK, Texts
  <2>3. Saves(c)
    BY <1>2, <2>2, CheckedSaves DEF SetMesh, IInv
  <2>4. ValveRight(c)
    BY <2>1, <2>2, <2>3, ValveKept DEF SetMesh
  <2>5. ModeRight(c)
    <3>1. flash_errors' = 0 => flash_errors = 0
      BY <2>3 DEF IInv, DataOK, Saves
    <3>2. UNCHANGED <<mode, fallback_ap_is_running, resetting, restart_in, started>>
          /\ ap_ssid' \in {"mesh", ap_ssid}
      BY <1>2, <2>1 DEF SetMesh, Stays
    <3> QED
      BY <2>1, <2>2, <3>1, <3>2, Zenon DEF Start, IInv, NetOK, ModeRight
  <2>6. Timely
    BY <2>1 DEF SetMesh, Timely, IInv, TimesOK
  <2> QED
    BY <2>1, <2>3, <2>4, <2>5, <2>6, Effect
<1> QED
  BY <1>1, <1>2

LEMMA AckInRange == AckDelay \in Off .. AckDelay
  BY DEF AckDelay, Off

LEMMA SetStaKeeps == ASSUME IInv, SetSta PROVE IInv'
  BY TextKeeps DEF SetSta, Texts, IInv, TimesOK

LEMMA SetKeyKeeps == ASSUME IInv, SetKey PROVE IInv'
  BY TextKeeps DEF SetKey, Texts, IInv, TimesOK

LEMMA SetHostKeeps == ASSUME IInv, SetHost PROVE IInv'
  BY TextKeeps, AckInRange DEF SetHost, Texts

LEMMA RestartKeeps == ASSUME IInv, Restart PROVE IInv'
  BY TextKeeps, AckInRange DEF Restart, Texts

LEMMA SetCronKeeps == ASSUME IInv, NEW job \in Commands, SetCron(job) PROVE IInv'
<1> DEFINE c == [cfg EXCEPT !.cron_jobs = Append(@, job)]
<1>1. Called /\ UNCHANGED <<valve, ap, ack_in>>
  BY DEF SetCron
<1>2. save_in \in Off .. SaveDelay /\ ack_in \in Off .. AckDelay
  BY DEF IInv, TimesOK
<1>3. CASE Room
  <2>1. Append(cfg.cron_jobs, job) \in Seq(Jobs)
    BY ControlAssumption DEF IInv, DataOK, ConfigType
  <2>2. c \in ConfigType /\ c.ac_thermo_state = cfg.ac_thermo_state
        /\ c.ap_enabled = cfg.ap_enabled
    BY <2>1 DEF IInv, DataOK, ConfigType
  <2>3. CfgSaveDefered(c)
    BY <1>3 DEF SetCron, AddCronJob
  <2>4. Saves(c)
    BY <2>2, <2>3, DeferedSaves DEF IInv
  <2>5. save_in' \in Off .. SaveDelay
    BY <1>2, <2>3 DEF CfgSaveDefered, Off, SaveDelay
  <2> QED
    BY <1>1, <1>2, <2>2, <2>4, <2>5, PlainCall
<1>4. CASE ~Room
  <2>1. CfgUnchanged /\ UNCHANGED save_in
    BY <1>4 DEF SetCron, AddCronJob
  <2>2. Saves(cfg)
    BY <2>1, KeepSaves DEF IInv
  <2> QED
    BY <1>1, <1>2, <2>1, <2>2, PlainCall
<1> QED
  BY <1>3, <1>4

Emptied == [cfg EXCEPT !.cron_jobs = <<>>]

LEMMA ClearSaves ==
  ASSUME IInv, ClearCronJobs
  PROVE  /\ Saves(Emptied)
         /\ Emptied.ac_thermo_state = cfg.ac_thermo_state
         /\ Emptied.ap_enabled = cfg.ap_enabled
         /\ save_in' \in Off .. SaveDelay
<1>1. Emptied \in ConfigType /\ Emptied.ac_thermo_state = cfg.ac_thermo_state
      /\ Emptied.ap_enabled = cfg.ap_enabled
  <2>1. <<>> \in Seq(Jobs)
    OBVIOUS
  <2> QED
    BY <2>1 DEF Emptied, IInv, DataOK, ConfigType
<1>2. CfgSaveDefered(Emptied)
  BY DEF ClearCronJobs, Emptied
<1>3. Saves(Emptied)
  BY <1>1, <1>2, DeferedSaves DEF IInv
<1> QED
  BY <1>1, <1>2, <1>3 DEF CfgSaveDefered, IInv, TimesOK, Off, SaveDelay

LEMMA ClearCronKeeps == ASSUME IInv, ClearCron PROVE IInv'
<1>1. /\ Saves(Emptied)
      /\ Emptied.ac_thermo_state = cfg.ac_thermo_state
      /\ Emptied.ap_enabled = cfg.ap_enabled
      /\ save_in' \in Off .. SaveDelay
  BY ClearSaves DEF ClearCron
<1> QED
  BY <1>1, PlainCall DEF ClearCron, IInv, TimesOK

-----------------------------------------------------------------------------
(* The access points *)

\* Whoever switches the mesh access point.
LEMMA SwitchSaves ==
  ASSUME Start, NEW on \in BOOLEAN, NEW readback \in BOOLEAN,
         SwitchAp(on, readback),
         UNCHANGED <<save_in, valve, fallback_ap_is_running, resetting>>, Stays
  PROVE  \E c : Saves(c) /\ ValveRight(c) /\ ModeRight(c)
<1> DEFINE c == [cfg EXCEPT !.ap_enabled = on]
<1>1. CASE mode = Mode(on) /\ CfgUnchanged /\ UNCHANGED <<mode, ap_ssid>>
  <2>1. Saves(cfg)
    BY <1>1, KeepSaves DEF Start, IInv
  <2>2. ValveRight(cfg) /\ ModeRight(cfg)
    BY <1>1, <2>1, ValveKept, ModeKept DEF ap
  <2> QED
    BY <2>1, <2>2
<1>2. CASE /\ mode # Mode(on) /\ mode' = Mode(on)
           /\ ap_ssid' = IF on THEN "mesh" ELSE ap_ssid
           /\ cfg.ap_enabled = on /\ CfgUnchanged
  <2>1. Saves(cfg)
    BY <1>2, KeepSaves DEF Start, IInv
  <2>2. ValveRight(cfg)
    BY <2>1, ValveKept
  <2>3. ModeRight(cfg)
    BY <1>2, Zenon DEF ModeRight
  <2> QED
    BY <2>1, <2>2, <2>3
<1>3. CASE /\ mode # Mode(on) /\ mode' = Mode(on)
           /\ ap_ssid' = IF on THEN "mesh" ELSE ap_ssid
           /\ CfgSave(c) \/ CfgSaveChecked(c)
  <2>1. c \in ConfigType /\ c.ap_enabled = on
        /\ c.ac_thermo_state = cfg.ac_thermo_state
    BY DEF Start, IInv, DataOK, ConfigType
  <2>2. Saves(c)
    BY <1>3, <2>1, CfgSaveSaves, CheckedSaves DEF Start, IInv
  <2>3. ValveRight(c)
    BY <2>1, <2>2, ValveKept
  <2>4. ModeRight(c)
    BY <1>3, <2>1, Zenon DEF ModeRight
  <2> QED
    BY <2>2, <2>3, <2>4
<1> QED
  BY <1>1, <1>2, <1>3 DEF SwitchAp

LEMMA SwitchKeeps == ASSUME IInv, NEW on \in BOOLEAN, SwitchApCalled(on) PROVE IInv'
<1>1. Start /\ Stays
  BY CalledStarts DEF SwitchApCalled
<1>2. CASE fallback_ap_is_running
  <2>1. CfgUnchanged /\ UNCHANGED <<save_in, valve, ap, ack_in>> /\ Called
    BY <1>2 DEF SwitchApCalled, ap
  <2>2. Saves(cfg)
    BY <2>1, KeepSaves DEF IInv
  <2> QED
    BY <2>1, <2>2, PlainCall DEF IInv, TimesOK
<1>3. CASE ~fallback_ap_is_running
  <2>1. \E c : Saves(c) /\ ValveRight(c) /\ ModeRight(c)
    BY <1>1, <1>3, SwitchSaves DEF SwitchApCalled
  <2>2. Timely
    BY <1>1 DEF SwitchApCalled, Timely, IInv, TimesOK
  <2> QED
    BY <1>1, <2>1, <2>2, Effect
<1> QED
  BY <1>2, <1>3

\* The mode alone is changed.
LEMMA ModeKeeps ==
  ASSUME Start, CfgUnchanged, UNCHANGED <<save_in, valve>>, Stays,
         ack_in' \in Off .. AckDelay, ModeRight(cfg)
  PROVE  IInv'
<1>1. Saves(cfg)
  BY KeepSaves DEF Start, IInv
<1>2. ValveRight(cfg)
  BY <1>1, ValveKept
<1>3. Timely
  BY DEF Timely, Start, IInv, TimesOK
<1> QED
  BY <1>1, <1>2, <1>3, Effect

LEMMA StartRescueKeeps == ASSUME IInv, StartRescue PROVE IInv'
<1>1. Start /\ Stays
  BY CalledStarts DEF StartRescue
<1>2. ModeRight(cfg)
  BY Zenon DEF StartRescue, ModeRight
<1> QED
  BY <1>1, <1>2, ModeKeeps DEF StartRescue, IInv, TimesOK

LEMMA EndsRight == ASSUME RescueEnds PROVE ModeRight(cfg)
  BY Zenon DEF RescueEnds, ModeRight

LEMMA StopRescueKeeps == ASSUME IInv, StopRescue PROVE IInv'
<1>1. Start /\ Stays
  BY CalledStarts DEF StopRescue
<1>2. CASE fallback_ap_is_running
  BY <1>1, <1>2, EndsRight, ModeKeeps DEF StopRescue, IInv, TimesOK
<1>3. CASE UNCHANGED ap
  <2>1. Saves(cfg)
    BY KeepSaves DEF StopRescue, IInv
  <2>2. ModeRight(cfg)
    BY <1>1, <1>3, <2>1, ModeKept
  <2> QED
    BY <1>1, <2>2, ModeKeeps DEF StopRescue, IInv, TimesOK
<1> QED
  BY <1>2, <1>3 DEF StopRescue

\* Any time, restarts included: the timer of the rescue access point, and the
\* station that joins a network.
LEMMA AloneKeeps ==
  ASSUME IInv, UNCHANGED <<store, valve, leave, energy, started, due>>,
         NetOK'
  PROVE  IInv'
<1>1. DataOK' /\ TimesOK' /\ BootOK' /\ SettingsAreSaved' /\ ClosedIsClosed'
  BY Zenon DEF IInv, DataOK, TimesOK, BootOK, SettingsAreSaved, ClosedIsClosed,
     store, valve, leave, energy
<1> QED
  BY <1>1, Zenon DEF IInv

LEMMA RescueTimerKeeps == ASSUME IInv, RescueTimer PROVE IInv'
<1>1. NetOK'
  BY Zenon DEF RescueTimer, RescueEnds, NetOK, store
<1> QED
  BY <1>1, AloneKeeps DEF RescueTimer

LEMMA WifiDefaultKeeps ==
  ASSUME IInv, WifiDefault \/ ForceReset \/ WifiReconnect PROVE IInv'
<1>1. UNCHANGED <<store, valve, ap_ssid, fallback_ap_is_running, leave, energy, started,
                  due>>
      /\ \/ mode' = Mode(cfg.ap_enabled)
         \/ mode' = "null" /\ resetting'
  BY DEF WifiDefault, ForceReset, WifiReconnect
<1>2. NetOK'
  BY <1>1, Zenon DEF IInv, NetOK, store
<1> QED
  BY <1>1, <1>2, AloneKeeps

-----------------------------------------------------------------------------
(* The jobs *)

LEMMA RunsStarts ==
  ASSUME IInv, NEW job, Runs(job), Done
  PROVE  Start /\ Stays /\ UNCHANGED ack_in
  BY DEF Runs, Idle, Done, Start, Stays, IInv, BootOK, TimesOK, leave, Off

LEMMA PlainJob ==
  ASSUME IInv, NEW job, Runs(job), Done, NEW c, Saves(c), UNCHANGED <<valve, ap>>,
         c.ac_thermo_state = cfg.ac_thermo_state, c.ap_enabled = cfg.ap_enabled,
         save_in' \in Off .. SaveDelay
  PROVE  IInv'
<1>1. Start /\ Stays /\ UNCHANGED ack_in
  BY RunsStarts
<1>2. ValveRight(c) /\ ModeRight(c)
  BY <1>1, ValveKept, ModeKept
<1>3. Timely
  BY <1>1 DEF Timely, IInv, TimesOK
<1> QED
  BY <1>1, <1>2, <1>3, Effect

LEMMA JobOpenKeeps == ASSUME IInv, JobOpen PROVE IInv'
<1>1. Start /\ Stays /\ UNCHANGED ack_in
  BY RunsStarts DEF JobOpen
<1>2. save_in' \in Off .. SaveDelay
      /\ \E c : Saves(c) /\ ValveRight(c) /\ ModeRight(c)
  BY <1>1, OpenSaves DEF JobOpen
<1>3. Timely
  BY <1>1, <1>2 DEF Timely, IInv, TimesOK
<1> QED
  BY <1>1, <1>2, <1>3, Effect

LEMMA JobCloseKeeps == ASSUME IInv, JobClose PROVE IInv'
<1>1. Start /\ Stays /\ UNCHANGED ack_in
  BY RunsStarts DEF JobClose
<1>2. /\ save_in' \in Off .. SaveDelay
      /\ gpio14' = FALSE /\ UNCHANGED <<testing, off_armed>>
      /\ \E c \in ConfigType : Saves(c) /\ c.ap_enabled = cfg.ap_enabled
  BY CloseSaves DEF JobClose, IInv, TimesOK
<1>3. Timely
  BY <1>1, <1>2 DEF Timely, IInv, TimesOK
<1>4. PICK c \in ConfigType : Saves(c) /\ c.ap_enabled = cfg.ap_enabled
  BY <1>2
<1>5. ValveRight(c) /\ ModeRight(c)
  BY <1>1, <1>2, <1>4, ModeKept DEF ValveRight, JobClose
<1> QED
  BY <1>1, <1>3, <1>4, <1>5, Effect

\* The output alone, with a timer that runs on.
LEMMA OutputKeeps ==
  ASSUME IInv, NEW job, Runs(job), Done, CfgUnchanged, UNCHANGED <<save_in, ap>>,
         testing' \/ off_armed'
  PROVE  IInv'
<1>1. Start /\ Stays /\ UNCHANGED ack_in
  BY RunsStarts
<1>2. Saves(cfg)
  BY KeepSaves DEF IInv
<1>3. ValveRight(cfg) /\ ModeRight(cfg)
  BY <1>1, <1>2, ModeKept, Zenon DEF ValveRight
<1>4. Timely
  BY <1>1 DEF Timely, IInv, TimesOK
<1> QED
  BY <1>1, <1>2, <1>3, <1>4, Effect

LEMMA JobTestKeeps == ASSUME IInv, JobTest PROVE IInv'
  BY OutputKeeps DEF JobTest, AcTest

LEMMA JobOffKeeps == ASSUME IInv, JobOff PROVE IInv'
  BY OutputKeeps DEF JobOff, AcOff

LEMMA JobSetSsidPwdKeeps == ASSUME IInv, JobSetSsidPwd PROVE IInv'
<1>1. Changed("sta") \in ConfigType
      /\ Changed("sta").ac_thermo_state = cfg.ac_thermo_state
      /\ Changed("sta").ap_enabled = cfg.ap_enabled
  BY TextField DEF Changed, IInv, DataOK, Texts
<1>2. Saves(Changed("sta"))
  BY <1>1, CheckedSaves DEF JobSetSsidPwd, IInv
<1> QED
  BY <1>1, <1>2, PlainJob DEF JobSetSsidPwd, IInv, TimesOK

LEMMA JobClearCronKeeps == ASSUME IInv, JobClearCron PROVE IInv'
<1>1. /\ Saves(Emptied)
      /\ Emptied.ac_thermo_state = cfg.ac_thermo_state
      /\ Emptied.ap_enabled = cfg.ap_enabled
      /\ save_in' \in Off .. SaveDelay
  BY ClearSaves DEF JobClearCron
<1> QED
  BY <1>1, PlainJob DEF JobClearCron

LEMMA JobSwitchKeeps ==
  ASSUME IInv, NEW job, NEW on \in BOOLEAN, JobSwitchAp(job, on)
  PROVE  IInv'
<1>1. Start /\ Stays /\ UNCHANGED ack_in
  BY RunsStarts DEF JobSwitchAp
<1>2. \E c : Saves(c) /\ ValveRight(c) /\ ModeRight(c)
  BY <1>1, SwitchSaves DEF JobSwitchAp
<1>3. Timely
  BY <1>1 DEF JobSwitchAp, Timely, IInv, TimesOK
<1> QED
  BY <1>1, <1>2, <1>3, Effect

LEMMA JobReconnectKeeps == ASSUME IInv, JobReconnect PROVE IInv'
<1>1. Saves(cfg)
  BY KeepSaves DEF JobReconnect, IInv
<1> QED
  BY <1>1, PlainJob DEF JobReconnect, IInv, TimesOK

-----------------------------------------------------------------------------
(* The meter, updates, timers, the boot *)

LEMMA ReadingKeeps == ASSUME IInv, Reading PROVE IInv'
<1>1. flash_errors' = flash_errors /\ Saves(cfg') /\ save_in' \in Off .. SaveDelay
      /\ cfg'.ap_enabled = cfg.ap_enabled
      /\ \/ UNCHANGED <<valve, cfg, flash>>
         \/ gpio14' = FALSE /\ UNCHANGED <<testing, off_armed>>
  <2>1. CASE CfgUnchanged /\ UNCHANGED <<save_in, valve>>
    BY <2>1, KeepSaves DEF IInv, TimesOK, CfgUnchanged
  <2>2. CASE ThermoClose
    <3>1. PICK c \in ConfigType : Saves(c) /\ c.ap_enabled = cfg.ap_enabled
      BY <2>2, CloseSaves DEF IInv, TimesOK
    <3>2. flash_errors' = flash_errors /\ cfg' \in {cfg, Closed}
      BY <2>2 DEF ThermoClose, CfgUnchanged, CfgSaveDefered, Closed
    <3>3. Closed.ap_enabled = cfg.ap_enabled
      BY DEF Closed, IInv, DataOK, ConfigType
    <3>4. save_in' \in Off .. SaveDelay
          /\ gpio14' = FALSE /\ UNCHANGED <<testing, off_armed>>
      BY <2>2, CloseSaves DEF IInv, TimesOK
    <3>5. Saves(cfg')
      BY <3>1 DEF Saves
    <3> QED
      BY <3>2, <3>3, <3>4, <3>5
  <2> QED
    BY <2>1, <2>2 DEF Reading
<1>2. DataOK'
  BY <1>1 DEF Reading, IInv, DataOK, Saves
<1>3. TimesOK'
  BY <1>1 DEF Reading, IInv, TimesOK, leave
<1>4. BootOK'
  <2>1. flash' = flash
    BY DEF Reading, ThermoClose, CfgUnchanged, CfgSaveDefered
  <2>2. CASE UNCHANGED valve
    BY <1>1, <2>1, <2>2, Zenon DEF Reading, IInv, BootOK, valve
  <2>3. CASE gpio14' = FALSE /\ UNCHANGED <<testing, off_armed>>
    BY <2>3, Zenon DEF Reading, IInv, BootOK
  <2> QED
    BY <1>1, <2>2, <2>3
<1>5. SettingsAreSaved'
  BY <1>1 DEF Saves
<1>6. ClosedIsClosed'
  <2>1. CASE UNCHANGED <<valve, cfg, flash>>
    BY <1>1, <2>1, Zenon DEF IInv, ClosedIsClosed, valve
  <2>2. CASE gpio14' = FALSE
    BY <2>2, Zenon DEF ClosedIsClosed
  <2> QED
    BY <1>1, <2>1, <2>2
<1>7. NetOK'
  BY <1>1, Zenon DEF Reading, IInv, NetOK, ap, leave
<1> QED
  BY <1>2, <1>3, <1>4, <1>5, <1>6, <1>7, Zenon DEF IInv

LEMMA SaveTimerKeeps == ASSUME IInv, SaveTimer PROVE IInv'
<1>1. CfgSave(cfg) /\ save_in' = Off
      /\ UNCHANGED <<ota_in_progress, valve, ap, leave, energy, bounds, started, due>>
  BY DEF SaveTimer, ConfigSaveTimer
<1>2. Saves(cfg) /\ cfg' = cfg
  BY <1>1, CfgSaveSaves DEF IInv, DataOK, CfgSave
<1>3. flash_errors' = 0 => flash_errors = 0
  BY <1>2 DEF IInv, DataOK, Saves
<1>4. DataOK'
  BY <1>1, <1>2 DEF IInv, DataOK, Saves, energy
<1>5. TimesOK'
  BY <1>1 DEF IInv, TimesOK, leave, Off, SaveDelay
<1>6. BootOK'
  <2>1. flash' \in {flash, cfg} \/ flash_errors' > 0
    BY <1>1, <1>2 DEF CfgSave, Refuse, Store, IInv, DataOK, Saves
  <2>2. CASE flash' \in {flash, cfg}
    BY <1>1, <1>3, <2>2, Zenon DEF IInv, BootOK, ClosedIsClosed, valve
  <2>3. CASE flash_errors' > 0
    <3>1. flash_errors' # 0
      BY <2>3
    <3> QED
      BY <1>1, <3>1, Zenon DEF IInv, BootOK, valve
  <2> QED
    BY <2>1, <2>2, <2>3
<1>7. SettingsAreSaved'
  BY <1>2 DEF Saves
<1>8. ClosedIsClosed' /\ NetOK'
  BY <1>1, <1>2, <1>3, Zenon DEF IInv, ClosedIsClosed, NetOK, valve, ap, leave
<1> QED
  BY <1>4, <1>5, <1>6, <1>7, <1>8, Zenon DEF IInv

\* The output's timers.
LEMMA ValveTimersKeep == ASSUME IInv, TestTimer \/ OffTimer PROVE IInv'
<1>1. UNCHANGED <<store, ap, leave, energy, bounds, started, due>>
  BY DEF TestTimer, OffTimer
<1>2. DataOK' /\ TimesOK' /\ SettingsAreSaved' /\ NetOK'
  BY <1>1, Zenon DEF IInv, DataOK, TimesOK, SettingsAreSaved, NetOK,
     store, ap, leave, energy
<1>3. BootOK' /\ ClosedIsClosed'
  <2>1. CASE TestTimer
    <3>1. testing /\ UNCHANGED <<testing, started, due>> /\ started
      BY <1>1, <2>1, Zenon DEF TestTimer, AcTestTimer, IInv, BootOK
    <3> QED
      BY <3>1, Zenon DEF BootOK, ClosedIsClosed
  <2>2. CASE OffTimer
    <3>1. off_armed /\ gpio14' = FALSE /\ UNCHANGED <<started, due>> /\ started
      BY <1>1, <2>2, Zenon DEF OffTimer, AcOffTimer, IInv, BootOK
    <3> QED
      BY <3>1, Zenon DEF BootOK, ClosedIsClosed
  <2> QED
    BY <2>1, <2>2
<1> QED
  BY <1>2, <1>3, Zenon DEF IInv

\* What changes neither a setting, nor the output, nor the mode.
LEMMA OtherKeeps ==
  ASSUME IInv, UNCHANGED <<cfg, flash, blocked, flash_errors, valve, ap, started>>,
         received' \in Nat, meter' \in Nat, TimesOK', due' # <<>> => started,
         save_in # Off => save_in' # Off, restart_in # Off => restart_in' # Off
  PROVE  IInv'
<1>1. DataOK'
  BY DEF IInv, DataOK
<1>2. BootOK' /\ ClosedIsClosed' /\ NetOK'
  BY Zenon DEF IInv, BootOK, ClosedIsClosed, NetOK, valve, ap
<1>3. SettingsAreSaved'
  BY DEF IInv, SettingsAreSaved
<1> QED
  BY <1>1, <1>2, <1>3, Zenon DEF IInv

LEMMA MinuteTimerKeeps == ASSUME IInv, MinuteTimer PROVE IInv'
<1>1. UNCHANGED <<store, valve, ap, leave, energy, started>> /\ started
      /\ restart_in = Off
  BY DEF MinuteTimer
<1>2. TimesOK'
  BY <1>1 DEF IInv, TimesOK, store, leave
<1> QED
  BY <1>1, <1>2, OtherKeeps DEF IInv, DataOK, store, energy, leave

LEMMA MeterCountsKeeps == ASSUME IInv, MeterCounts PROVE IInv'
<1>1. UNCHANGED <<store, valve, ap, leave, received, started, due>> /\ due = <<>>
      /\ meter' = meter + 1
  BY DEF MeterCounts, Idle
<1>2. TimesOK'
  BY <1>1 DEF IInv, TimesOK, store, leave
<1> QED
  BY <1>1, <1>2, OtherKeeps DEF IInv, DataOK, store, leave

LEMMA UpdateKeeps == ASSUME IInv, UpdateStarts \/ UpdateFails PROVE IInv'
<1>1. UNCHANGED <<cfg, flash, save_in, blocked, flash_errors, valve, ap, leave,
                  energy, started, due>> /\ due = <<>>
  BY DEF UpdateStarts, UpdateFails, Idle
<1>2. TimesOK'
  BY <1>1 DEF IInv, TimesOK, leave
<1> QED
  BY <1>1, <1>2, OtherKeeps DEF IInv, DataOK, energy, leave

\* The device is about to restart: the Wi-Fi stays as it is.
LEMMA DeferedKeeps ==
  ASSUME IInv, due = <<>>, NEW caller, RestartDefered(caller), ack_in' \in Off .. AckDelay,
         UNCHANGED <<cfg, flash, save_in, blocked, flash_errors, valve, mode, ap_ssid,
                     fallback_ap_is_running, energy, started, due>>,
         restarter' = "command" => ~serving'
  PROVE  IInv'
<1>1. restart_in' \in Off .. RestartDelay /\ restart_in' # Off
      /\ (restart_in = Off => restart_in' = RestartDelay)
      /\ (restart_in # Off => UNCHANGED <<restart_in, restarter, resetting>>)
  BY DEF RestartDefered, IInv, TimesOK, Off, RestartDelay
<1>2. TimesOK'
  BY <1>1 DEF IInv, TimesOK, Off, SaveDelay, RestartDelay
<1>3. DataOK' /\ SettingsAreSaved'
  BY DEF IInv, DataOK, SettingsAreSaved, energy
<1>4. BootOK' /\ ClosedIsClosed'
  BY Zenon DEF IInv, BootOK, ClosedIsClosed, valve
<1>5. NetOK'
  BY <1>1, Zenon DEF IInv, NetOK
<1> QED
  BY <1>2, <1>3, <1>4, <1>5, Zenon DEF IInv

LEMMA RestartAckKeeps == ASSUME IInv, RestartAck PROVE IInv'
<1>1. ack_in' \in Off .. AckDelay /\ due = <<>> /\ ~serving'
  BY DEF RestartAck, Idle, Off, AckDelay
<1> QED
  BY <1>1, DeferedKeeps DEF RestartAck, store

LEMMA DeviceRestartKeeps ==
  ASSUME IInv, UpdateSucceeds \/ WatchdogRestarts PROVE IInv'
<1>1. RestartDefered("device") /\ due = <<>> /\ UNCHANGED <<ack_in, serving>>
      /\ UNCHANGED <<cfg, flash, save_in, blocked, flash_errors, valve, mode, ap_ssid,
                     fallback_ap_is_running, energy, started, due>>
  BY DEF UpdateSucceeds, WatchdogRestarts, Idle, store
<1>2. ack_in' \in Off .. AckDelay
  BY <1>1 DEF IInv, TimesOK
<1>3. restarter' = "command" => ~serving'
  BY <1>1 DEF RestartDefered, IInv, TimesOK
<1> QED
  BY <1>1, <1>2, <1>3, DeferedKeeps

LEMMA MqttKeeps == ASSUME IInv, MqttConnected \/ MqttDisconnected PROVE IInv'
<1>1. UNCHANGED <<store, valve, ap, leave, energy, started, due>>
  BY DEF MqttConnected, MqttDisconnected
<1>2. TimesOK'
  BY <1>1 DEF IInv, TimesOK, store, leave
<1> QED
  BY <1>1, <1>2, OtherKeeps DEF IInv, DataOK, BootOK, store, energy, leave

LEMMA TickKeeps == ASSUME IInv, Tick PROVE IInv'
<1>1. UNCHANGED <<cfg, flash, blocked, flash_errors, valve, ap, energy, started,
                  due>> /\ due = <<>>
  BY DEF Tick, Idle
<1>2. TimesOK' /\ (save_in # Off => save_in' # Off)
      /\ (restart_in # Off => restart_in' # Off)
  BY <1>1 DEF Tick, Later, IInv, TimesOK, Off, SaveDelay, AckDelay, RestartDelay
<1> QED
  BY <1>1, <1>2, OtherKeeps DEF IInv, DataOK, energy

LEMMA SampleModeKeeps == ASSUME IInv, SampleMode PROVE IInv'
<1> DEFINE read == IF flash = Damaged THEN Defaults ELSE flash
           c    == [read EXCEPT !.device_id = "serial"]
<1>1. due = <<>> /\ ~started /\ started' /\ mode' = Mode(cfg'.ap_enabled)
      /\ ap_ssid' = "mesh" /\ UNCHANGED <<save_in, valve, leave, energy, due>>
  BY DEF SampleMode, Idle
<1>2. read \in ConfigType
  BY DefaultsType DEF IInv, DataOK
<1>3. \E d : Saves(d) /\ (flash_errors' = 0 => d.ac_thermo_state = flash.ac_thermo_state)
  <2>1. CASE flash # Damaged /\ CfgLoad
    <3>1. cfg' = flash /\ flash' = flash /\ UNCHANGED flash_errors
      BY <2>1 DEF CfgLoad
    <3>2. Saves(flash)
      BY <2>1, <3>1 DEF Saves, IInv, DataOK, SettingsAreSaved
    <3> QED
      BY <3>2
  <2>2. CASE CfgSaveChecked(c)
    <3> HIDE DEF read
    <3>1. c \in ConfigType /\ c.ac_thermo_state = read.ac_thermo_state
      BY <1>2 DEF ConfigType
    <3>2. Saves(c)
      BY <2>2, <3>1, CheckedSaves DEF IInv
    <3>3. flash_errors' = 0 => read = flash
      BY <3>2 DEF IInv, DataOK, Saves, read
    <3> QED
      BY <3>1, <3>2, <3>3
  <2> QED
    BY <2>1, <2>2 DEF SampleMode
<1>4. PICK d : Saves(d) /\ (flash_errors' = 0 => d.ac_thermo_state = flash.ac_thermo_state)
  BY <1>3
<1>5. DataOK'
  BY <1>1, <1>4 DEF IInv, DataOK, Saves, energy
<1>6. TimesOK'
  BY <1>1 DEF IInv, TimesOK, leave
<1>7. BootOK'
  BY <1>1 DEF BootOK
<1>8. SettingsAreSaved'
  BY <1>4 DEF Saves
<1>9. ClosedIsClosed'
  <2>1. flash_errors' = 0 => flash_errors = 0 /\ cfg' = d
    BY <1>4 DEF IInv, DataOK, Saves
  <2> QED
    BY <1>1, <1>4, <2>1, Zenon DEF IInv, BootOK, ClosedIsClosed, valve
<1>10. NetOK'
  BY <1>1, Zenon DEF NetOK
<1> QED
  BY <1>5, <1>6, <1>7, <1>8, <1>9, <1>10, Zenon DEF IInv

\* A device that has just read its configuration.
Fresh ==
  /\ cfg \in ConfigType /\ gpio14 = cfg.ac_thermo_state
  /\ flash = cfg \/ (flash = Damaged /\ flash_errors > 0)
  /\ flash_errors \in Nat /\ received \in Nat /\ meter \in Nat
  /\ ~started /\ ~testing /\ ~off_armed /\ due = <<>>
  /\ save_in = Off /\ ack_in = Off /\ restart_in = Off /\ restarter = "nothing"

LEMMA FreshCorrect == ASSUME Fresh PROVE IInv
<1>1. flash_errors > 0 => flash_errors # 0
  BY DEF Fresh
<1>2. flash = Damaged => flash_errors > 0
  BY DEF Fresh, ConfigType, Damaged
<1>3. DataOK
  BY <1>2 DEF Fresh, DataOK
<1>4. TimesOK
  BY DEF Fresh, TimesOK, Off, SaveDelay, AckDelay, RestartDelay
<1>5. BootOK /\ SettingsAreSaved /\ ClosedIsClosed /\ NetOK
  BY <1>1, Zenon DEF Fresh, BootOK, SettingsAreSaved, ClosedIsClosed, NetOK
<1> QED
  BY <1>3, <1>4, <1>5 DEF IInv

LEMMA InitCorrect == Init => IInv
<1> SUFFICES ASSUME Init PROVE IInv
  OBVIOUS
<1>1. \A job \in Stored : InService(job) \in ConfigType
  <2> SUFFICES ASSUME NEW job \in Stored PROVE InService(job) \in ConfigType
    OBVIOUS
  <2>1. <<job>> \in Seq(Jobs)
    BY ControlAssumption
  <2>2. MaxEnergy \in Nat
    BY ControlAssumption
  <2> QED
    BY <2>1, <2>2, DefaultsType DEF InService, ConfigType
<1>2. FirstEnergy \in Nat
  BY ControlAssumption
<1>3. Fresh
  BY <1>1, <1>2 DEF Init, Fresh
<1> QED
  BY <1>3, FreshCorrect

LEMMA BootKeeps == ASSUME IInv, Boot PROVE IInv'
<1>1. Fresh'
  <2>1. CASE flash = Damaged
    <3>1. cfg' = Defaults /\ flash_errors > 0
          /\ \/ flash' = Defaults /\ flash_errors' = flash_errors
             \/ flash' = Damaged /\ flash_errors' = flash_errors + 1
      BY <2>1 DEF Boot, Store, IInv, DataOK
    <3> QED
      BY <3>1, DefaultsType DEF Boot, ValveInit, Fresh, IInv, DataOK
  <2>2. CASE flash # Damaged
    BY <2>2 DEF Boot, ValveInit, Fresh, IInv, DataOK
  <2> QED
    BY <2>1, <2>2
<1> QED
  BY <1>1, FreshCorrect, PTL

-----------------------------------------------------------------------------

LEMMA CallKeeps == ASSUME IInv, Call PROVE IInv'
<1>1. ASSUME NEW v \in Limits, OpenUntil(v) PROVE IInv'
  <2>1. v \in Nat
    BY ControlAssumption
  <2> QED
    BY <1>1, <2>1, OpenWithKeeps DEF OpenUntil
<1>2. ASSUME NEW v \in Deltas, OpenUntilDelta(v) PROVE IInv'
  <2>1. received + v \in Nat
    BY ControlAssumption DEF IInv, DataOK
  <2> QED
    BY <1>2, <2>1, OpenWithKeeps DEF OpenUntilDelta
<1> QED
  BY <1>1, <1>2, OpenKeeps, CloseKeeps, SetStaKeeps, SetMeshKeeps, SetKeyKeeps,
     SetHostKeeps, SwitchKeeps, StartRescueKeeps, StopRescueKeeps, SetCronKeeps,
     ClearCronKeeps, RestartKeeps
     DEF Call

LEMMA JobKeeps == ASSUME IInv, Job PROVE IInv'
  BY JobOpenKeeps, JobCloseKeeps, JobTestKeeps, JobOffKeeps, JobSetSsidPwdKeeps,
     JobClearCronKeeps, JobReconnectKeeps, JobSwitchKeeps
     DEF Job

LEMMA StutterKeeps == ASSUME IInv, UNCHANGED vars PROVE IInv'
<1>1. TimesOK'
  BY DEF vars, store, leave, IInv, TimesOK
<1> QED
  BY <1>1, OtherKeeps DEF vars, store, energy, leave, IInv, DataOK, BootOK

\* The invariant is inductive.
LEMMA Inductive == Spec => []IInv
<1>1. Init => IInv
  BY InitCorrect
<1>2. IInv /\ [Next]_vars => IInv'
  <2> SUFFICES ASSUME IInv, [Next]_vars PROVE IInv'
    OBVIOUS
  <2>1. CASE Call
    BY <2>1, CallKeeps
  <2>2. CASE Job
    BY <2>2, JobKeeps
  <2>3. CASE Timer
    BY <2>3, SaveTimerKeeps, ValveTimersKeep, RescueTimerKeeps, RestartAckKeeps,
       TickKeeps DEF Timer
  <2>4. CASE Crash \/ Reboot
    BY <2>4, BootKeeps DEF Crash, Reboot
  <2>5. CASE MinuteTimer \/ SampleMode \/ MeterCounts \/ Reading
             \/ UpdateStarts \/ UpdateSucceeds \/ UpdateFails
    BY <2>5, MinuteTimerKeeps, SampleModeKeeps, MeterCountsKeeps, ReadingKeeps,
       UpdateKeeps, DeviceRestartKeeps
  <2>6. CASE WifiDefault \/ ForceReset \/ WifiReconnect \/ MqttConnected
             \/ MqttDisconnected \/ WatchdogRestarts
    BY <2>6, WifiDefaultKeeps, MqttKeeps, DeviceRestartKeeps
  <2>7. CASE UNCHANGED vars
    BY <2>7, StutterKeeps
  <2> QED
    BY <2>1, <2>2, <2>3, <2>4, <2>5, <2>6, <2>7 DEF Next
<1> QED
  BY <1>1, <1>2, PTL DEF Spec

\* Every setting that a command, a job or the meter changes reaches the flash
\* (cfg_save, cfg_save_defered), whatever the order of commands, restarts and
\* updates.
THEOREM SettingsCorrect == Spec => []SettingsAreSaved
<1>1. IInv => SettingsAreSaved
  BY DEF IInv
<1> QED
  BY <1>1, Inductive, PTL

\* A valve whose saved state is closed is closed (ac_thermo_close, ac_test, ac_off
\* and user_init).
THEOREM ClosedCorrect == Spec => []ClosedIsClosed
<1>1. IInv => ClosedIsClosed
  BY DEF IInv
<1> QED
  BY <1>1, Inductive, PTL

\* The access point mode follows the setting (start_ap, stop_ap, the rescue
\* access point and wifi_default), or the Wi-Fi is off between force_reset_wifi and
\* wifi_reconnect_timer or a restart.
THEOREM ModeCorrect == Spec => []ApFollowsSetting
<1>1. IInv => ApFollowsSetting
  BY DEF IInv, NetOK, ApFollowsSetting, Mode
<1> QED
  BY <1>1, Inductive, PTL

\* A restart that a command asked for comes after the deferred save
\* (system_restart_defered and cfg_save_defered).
THEOREM RestartCorrect == Spec => RestartKeepsSettings
<1>1. IInv /\ [Next]_vars
        => [Reboot /\ restarter = "command"
              => cfg = flash \/ blocked \/ flash = Damaged]_vars
  <2>1. ASSUME IInv, Reboot, restarter = "command" PROVE cfg = flash \/ blocked \/ flash = Damaged
    <3>1. save_in = Off
      BY <2>1 DEF Reboot, IInv, TimesOK, Off, SaveDelay
    <3> QED
      BY <2>1, <3>1 DEF IInv, SettingsAreSaved
  <2> QED
    BY <2>1
<1> QED
  BY <1>1, Inductive, PTL DEF Spec, RestartKeepsSettings
=============================================================================
