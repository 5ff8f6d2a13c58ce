-------------------------------- MODULE DCC --------------------------------
(***************************************************************************)
(* Device communication control, src/dcc.c: a client may order the device  *)
(* to stop communicating, or only to stop initiating, for some minutes or  *)
(* (duration 0) until told otherwise.  SECONDS_PER_MINUTE is 60 in the     *)
(* code and smaller in the runs.                                           *)
(***************************************************************************)
EXTENDS Naturals

CONSTANT SECONDS_PER_MINUTE

ASSUME DCCConstants == SECONDS_PER_MINUTE \in Nat \ {0}

VARIABLES
    DCC_Enable_Disable,         \* one of Statuses
    DCC_Time_Duration_Seconds   \* 0: expired, or no limit

dccVars == <<DCC_Enable_Disable, DCC_Time_Duration_Seconds>>

Statuses == {"ENABLE", "DISABLE", "DISABLE_INITIATION"}

DCCInit ==
    /\ DCC_Enable_Disable = "ENABLE"
    /\ DCC_Time_Duration_Seconds = 0

dcc_communication_enabled == DCC_Enable_Disable = "ENABLE"
dcc_communication_disabled == DCC_Enable_Disable = "DISABLE"
dcc_communication_initiation_disabled ==
    DCC_Enable_Disable = "DISABLE_INITIATION"

(* apdu_confirmed_dcc_disabled: which confirmed requests are dropped.      *)
ConfirmedRequestDropped(service) ==
    /\ dcc_communication_disabled
    /\ service \notin {"DeviceCommunicationControl", "ReinitializeDevice"}

(* Fault: an order without a limit leaves the limit that runs.             *)
LimitLeftRunning(status, minutes) ==
    /\ DCC_Enable_Disable' = status
    /\ DCC_Time_Duration_Seconds' =
            IF status = "ENABLE" THEN 0
            ELSE IF minutes = 0 THEN DCC_Time_Duration_Seconds
            ELSE minutes * SECONDS_PER_MINUTE

dcc_set_status_duration(status, minutes) ==
    /\ DCC_Enable_Disable' = status
    /\ DCC_Time_Duration_Seconds' =
            IF status = "ENABLE" THEN 0 ELSE minutes * SECONDS_PER_MINUTE

dcc_timer_seconds(seconds) ==
    /\ DCC_Time_Duration_Seconds # 0
    /\ DCC_Time_Duration_Seconds' =
            IF DCC_Time_Duration_Seconds > seconds
            THEN DCC_Time_Duration_Seconds - seconds ELSE 0
    /\ DCC_Enable_Disable' =
            IF DCC_Time_Duration_Seconds' = 0
            THEN "ENABLE" ELSE DCC_Enable_Disable

----------------------------------------------------------------------------
DCCTypeOK ==
    /\ DCC_Enable_Disable \in Statuses
    /\ DCC_Time_Duration_Seconds \in Nat
=============================================================================
