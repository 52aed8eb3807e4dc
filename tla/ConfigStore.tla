------------------------------ MODULE ConfigStore ------------------------------
(***************************************************************************)
(* The saved configuration: modules/config.c.                               *)
(*                                                                         *)
(* sys_cfg is one record in RAM, changed in place by whoever handles a      *)
(* command, and stored as a whole: at once (cfg_save), at once and read     *)
(* back (cfg_save with the two CRCs), or two seconds later                  *)
(* (cfg_save_defered).  While a firmware update runs every way of saving    *)
(* does nothing.  A copy whose CRC is wrong is replaced by the defaults.    *)
(*                                                                         *)
(* The operators below describe the part of a step that touches the store;  *)
(* the handlers of Control call them the way the code calls the functions.  *)
(* A text setting is 0 as compiled in and 1 once changed.                   *)
(***************************************************************************)
EXTENDS Integers, Sequences

CONSTANTS
  MaxFlashErrors \* bound: how often the flash keeps something else

ASSUME ConfigAssumption ==
  MaxFlashErrors \in Nat

VARIABLES
  cfg,             \* sys_cfg
  flash,           \* what is stored at CFG_LOCATION
  save_in,         \* config_save_timer: seconds left, or Off
  ota_in_progress,
  blocked,         \* history: the last attempt to save was refused
  flash_errors     \* history: how many writes went wrong

store == <<cfg, flash, save_in, ota_in_progress, blocked, flash_errors>>

Off == -1
\* The settings that are texts: sta_ssid with sta_pwd, ap_mesh_pwd, key, mqtt_host.
Texts == {"sta", "mesh", "key", "host"}

\* The commands of minute_timer_func.
Jobs == {"open", "close", "test", "off", "set_ssid_pwd", "start_ap", "stop_ap",
         "clear_cron", "reconnect"}

\* A copy whose CRC does not match.
Damaged == [ccit_crc16 |-> "wrong"]

\* SAVE_DEFER_TIME, in seconds.
SaveDelay == 2

Defaults == [ac_thermo_state  |-> FALSE,
             offline_close_at |-> 0,
             cron_jobs        |-> <<>>,
             ap_enabled       |-> TRUE,
             device_id        |-> "chip",
             text             |-> [t \in Texts |-> 0]]

-----------------------------------------------------------------------------

\* system_param_save_with_protect stores c, or something else.
Store(c) ==
  \/ /\ flash' = c
     /\ UNCHANGED flash_errors
  \/ /\ flash_errors < MaxFlashErrors
     /\ flash' = Damaged
     /\ flash_errors' = flash_errors + 1

Refuse ==
  /\ blocked' = TRUE
  /\ UNCHANGED <<flash, flash_errors>>

\* cfg_save(NULL, NULL), when sys_cfg has become c.
CfgSave(c) ==
  /\ cfg' = c
  /\ \/ ota_in_progress /\ Refuse
     \/ ~ota_in_progress /\ Store(c) /\ blocked' = FALSE

\* cfg_load, with the CRC that decides between the flash and the defaults.
CfgLoad ==
  IF flash = Damaged
  THEN CfgSave(Defaults)
  ELSE cfg' = flash /\ blocked' = FALSE /\ UNCHANGED <<flash, flash_errors>>

\* cfg_save with the CRCs: a copy that does not read back is lost, and with it
\* sys_cfg, since reading it back stores the defaults.  That second write may
\* go wrong too.
CfgSaveChecked(c) ==
  \/ ota_in_progress /\ cfg' = c /\ Refuse
  \/ /\ ~ota_in_progress
     /\ cfg' = c /\ flash' = c
     /\ blocked' = FALSE
     /\ UNCHANGED flash_errors
  \/ /\ ~ota_in_progress
     /\ cfg' = Defaults
     /\ blocked' = FALSE
     /\ \E n \in 1 .. 2 :
          /\ flash_errors + n <= MaxFlashErrors
          /\ flash_errors' = flash_errors + n
          /\ flash' = IF n = 1 THEN Defaults ELSE Damaged

\* cfg_save_defered, when sys_cfg has become c.
CfgSaveDefered(c) ==
  /\ cfg' = c
  /\ UNCHANGED <<flash, flash_errors>>
  /\ IF ota_in_progress
     THEN blocked' = TRUE /\ UNCHANGED save_in
     ELSE save_in' = SaveDelay /\ UNCHANGED blocked

CfgUnchanged == UNCHANGED <<cfg, flash, blocked, flash_errors>>

\* config_save_timer_func.
ConfigSaveTimer ==
  /\ save_in = 0
  /\ save_in' = Off
  /\ CfgSave(cfg)
  /\ UNCHANGED ota_in_progress

-----------------------------------------------------------------------------

ConfigType ==
  [ac_thermo_state  : BOOLEAN,
   offline_close_at : Nat,
   cron_jobs        : Seq(Jobs),
   ap_enabled       : BOOLEAN,
   device_id        : {"chip", "serial"},
   text             : [Texts -> 0 .. 1]]

StoreTypeOK ==
  /\ cfg \in ConfigType
  /\ flash \in ConfigType \cup {Damaged}
  /\ save_in \in Off .. SaveDelay
  /\ ota_in_progress \in BOOLEAN
  /\ blocked \in BOOLEAN
  /\ flash_errors \in 0 .. MaxFlashErrors

=============================================================================
