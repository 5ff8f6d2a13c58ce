------------------------------- MODULE Client -------------------------------
(***************************************************************************)
(* The senders of the stack, demo/handler/s_*.c: how a request or a        *)
(* broadcast leaves this device, on top of its transaction table (TSM) and *)
(* of device communication control (DCC).                                  *)
(*                                                                         *)
(* The senders differ in the octets they encode, which Codec is about.     *)
(* Here a PDU is its length, and a destination the longest APDU it takes:  *)
(* 0 when the address cache does not know the device.  Whether the device  *)
(* sends a message of itself in a step is told by "said".                  *)
(***************************************************************************)
EXTENDS TSM, DCC

VARIABLE said       \* "nothing" or "initiated"

(* A sender that gives up after it took an invoke id hands it back.        *)
GiveBack == SendTooLong /\ said' = "nothing"

Request == SendConfirmed /\ said' = "initiated"

(* What the senders of confirmed requests have in common: nothing without  *)
(* communication, a bound device and a free transaction, and an id is kept *)
(* only for a request the device can take.                                 *)
Confirmed(max_apdu, len) ==
    /\ dcc_communication_enabled
    /\ max_apdu # 0
    /\ IF len < max_apdu THEN Request ELSE GiveBack
    /\ UNCHANGED dccVars

(* As the others, but its destination is given, not looked up.             *)
Send_Read_Property_Request_Address(dest, max_apdu, len) ==
    /\ dest # "NULL"
    /\ Confirmed(max_apdu, len)

Send_Read_Property_Request(max_apdu, len) ==
    Send_Read_Property_Request_Address("bound", max_apdu, len)

(* A list that does not fit the caller's buffer of max_pdu octets is given *)
(* up without its invoke id: the slot stays IDLE and taken, and the caller *)
(* is told 0, so that nobody ever frees it.                                *)
Send_Read_Property_Multiple_Request(max_pdu, max_apdu, len) ==
    IF len <= max_pdu
    THEN Confirmed(max_apdu, len)
    ELSE /\ dcc_communication_enabled
         /\ max_apdu # 0
         /\ tsm_transaction_available(TSM_List)
         /\ LET id == FirstUnusedID(TSM_List, Current_Invoke_ID)
            IN  /\ TSM_List' = Reserved(TSM_List, id)
                /\ Current_Invoke_ID' = Following(id)
         /\ said' = "nothing"
         /\ UNCHANGED dccVars

Send_Write_Property_Request_Data(max_apdu, len) == Confirmed(max_apdu, len)

(* A list of values longer than a PDU takes no invoke id.                  *)
Send_Write_Property_Request(max_pdu, max_apdu, len) ==
    /\ len < max_pdu
    /\ Send_Write_Property_Request_Data(max_apdu, len)

(* The one sender that lets a request fill the APDU to its last octet; a   *)
(* file too long to be copied gives the id back as well.                   *)
Send_Atomic_Write_File_Stream(copied, max_apdu, len) ==
    /\ dcc_communication_enabled
    /\ max_apdu # 0
    /\ IF copied /\ len <= max_apdu THEN Request ELSE GiveBack
    /\ UNCHANGED dccVars

Send_ReadRange_Request(max_apdu, len) == Confirmed(max_apdu, len)
Send_Write_Property_Multiple_Request_Data(max_apdu, len) ==
    Confirmed(max_apdu, len)
Send_Atomic_Read_File_Stream(max_apdu, len) == Confirmed(max_apdu, len)
Send_Alarm_Acknowledgement(max_apdu, len) == Confirmed(max_apdu, len)
Send_CEvent_Notify(max_apdu, len) == Confirmed(max_apdu, len)
Send_COV_Subscribe(max_apdu, len) == Confirmed(max_apdu, len)
Send_Life_Safety_Operation_Data(max_apdu, len) == Confirmed(max_apdu, len)
Send_Reinitialize_Device_Request(max_apdu, len) == Confirmed(max_apdu, len)
Send_Device_Communication_Control_Request(max_apdu, len) ==
    Confirmed(max_apdu, len)

(* A request that writes carries the block, one that reads only its number.*)
Send_Private_Transfer_Request(service, max_apdu, len) ==
    Confirmed(max_apdu, IF service = "read" THEN 1 ELSE len)

----------------------------------------------------------------------------
(* Unconfirmed services keep no state: only whether they are sent at all.  *)

Sent == said' = "initiated" /\ UNCHANGED <<tsmVars, dccVars>>

(* Sent only while communication is enabled.                               *)
Broadcast == dcc_communication_enabled /\ Sent

Send_TimeSync_Remote == Broadcast
Send_TimeSyncUTC_Remote == Broadcast
Send_TimeSync == Send_TimeSync_Remote
Send_TimeSyncUTC == Send_TimeSyncUTC_Remote
Send_TimeSync_Device == Send_TimeSync
Send_TimeSyncUTC_Device == Send_TimeSyncUTC
Send_WhoHas_Name == Broadcast
Send_WhoHas_Object == Broadcast
Send_I_Have == Broadcast
Send_UnconfirmedPrivateTransfer == Broadcast

(* The three that ask before they call Send_WhoIs_To_Network.              *)
Send_WhoIs_Global == Broadcast
Send_WhoIs_Local == Broadcast
Send_WhoIs_Remote == Broadcast
Send_WhoIs == Send_WhoIs_Global

(* These are sent whatever a client has ordered: the check of Send_I_Am is *)
(* compiled out, the others never had one.                                 *)
Send_WhoIs_To_Network == Sent
Send_I_Am == Sent
Send_I_Am_Unicast == Sent
Send_UCOV_Notify == Sent
Send_UEvent_Notify == Sent

(* Messages of the network layer; one of another type is not sent.         *)
NetworkMessages ==
    {"WhoIsRouterToNetwork", "IAmRouterToNetwork", "RouterBusyToNetwork",
     "RouterAvailableToNetwork", "RejectMessageToNetwork", "InitRtTable",
     "InitRtTableAck"}

Send_Network_Layer_Message(type) ==
    type \in NetworkMessages /\ Sent

Send_Who_Is_Router_To_Network ==
    Send_Network_Layer_Message("WhoIsRouterToNetwork")
Send_I_Am_Router_To_Network == Send_Network_Layer_Message("IAmRouterToNetwork")
Send_Reject_Message_To_Network ==
    Send_Network_Layer_Message("RejectMessageToNetwork")
Send_Initialize_Routing_Table == Send_Network_Layer_Message("InitRtTable")
Send_Initialize_Routing_Table_Ack ==
    Send_Network_Layer_Message("InitRtTableAck")
=============================================================================
