--------------------------------- MODULE Valve ---------------------------------
(***************************************************************************)
(* The heating valve on AC output 1: user/ac/ac_out.c, built for a normally *)
(* closed thermal actuator (THERMO_NC), which is open while GPIO14 is high. *)
(*                                                                         *)
(* Opening and closing set the output and the saved state; the test and     *)
(* "off" drive the output alone.  Neither ac_thermo_pwm nor the motor valve *)
(* functions are called.                                                    *)
(***************************************************************************)
EXTENDS ConfigStore

VARIABLES
  gpio14,     \* the output is high
  testing,    \* ac_test_timer is armed
  off_armed   \* ac_out_off_timer is armed, for now

valve == <<gpio14, testing, off_armed>>

Opened == [cfg EXCEPT !.ac_thermo_state = TRUE]

\* The output is always set, the state saved only if it changed.
ThermoOpen ==
  /\ gpio14' = TRUE
  /\ IF cfg.ac_thermo_state
     THEN CfgUnchanged /\ UNCHANGED save_in
     ELSE CfgSaveDefered(Opened)
  /\ UNCHANGED <<testing, off_armed>>

ThermoClose ==
  /\ gpio14' = FALSE
  /\ IF cfg.ac_thermo_state
     THEN CfgSaveDefered([cfg EXCEPT !.ac_thermo_state = FALSE])
     ELSE CfgUnchanged /\ UNCHANGED save_in
  /\ UNCHANGED <<testing, off_armed>>

AcTest ==
  /\ gpio14' = TRUE
  /\ testing' = TRUE
  /\ UNCHANGED off_armed

\* A mutation of AcOff: the output keeps what the test left there.
AcOffTestOnly ==
  /\ testing' = FALSE
  /\ UNCHANGED <<gpio14, off_armed>>

AcOff ==
  /\ testing' = FALSE
  /\ off_armed' = TRUE
  /\ UNCHANGED gpio14

AcTestTimer ==
  /\ testing
  /\ gpio14' = ~gpio14
  /\ UNCHANGED <<testing, off_armed>>

AcOffTimer ==
  /\ off_armed
  /\ off_armed' = FALSE
  /\ gpio14' = FALSE
  /\ UNCHANGED testing

\* user_init sets the output from the saved state.
ValveInit(c) ==
  /\ gpio14' = c.ac_thermo_state
  /\ testing' = FALSE
  /\ off_armed' = FALSE

ValveTypeOK == {gpio14, testing, off_armed} \subseteq BOOLEAN

=============================================================================
