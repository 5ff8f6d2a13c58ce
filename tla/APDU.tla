-------------------------------- MODULE APDU --------------------------------
(***************************************************************************)
(* The application layer of one device, src/apdu.c: what apdu_handler does *)
(* with each kind of PDU, on top of the transaction table, communication   *)
(* control, the senders (Client) and the handlers of requests (Server).    *)
(*                                                                         *)
(* Other devices send it anything at any time: requests, broadcasts,       *)
(* answers to requests of its own, late or never asked for.  Meanwhile its *)
(* program calls the senders and the timers.                               *)
(***************************************************************************)
EXTENDS Client, Server

CONSTANTS
    MAX_APDUS,      \* longest APDU of a destination, 0: not bound
    LENGTHS,        \* lengths of the requests sent
    MAX_PDUS,       \* buffers the callers of Send_Read_Property_Multiple give
    MINUTES,        \* limits a client sets to communication control
    UINT16,         \* how many values a uint16_t takes, 65536
    SECONDS,        \* elapsed times of the second timer
    WIDE,           \* values that no field of a private block holds
    MyInstance      \* instance number of this device

ASSUME APDUConstants ==
    /\ MAX_APDUS \cup LENGTHS \cup MAX_PDUS \cup MINUTES \subseteq Nat
    /\ SECONDS \subseteq Nat \ {0}
    /\ UINT16 \in Nat \ {0} /\ CHAR \in Nat \ {0}
    /\ WIDE \subseteq Nat \ Values
    /\ MyInstance \in Nat
    /\ Refused \notin Nat /\ Malformed \notin Nat /\ Undecodable \notin Nat
    /\ Refused # Malformed /\ Undecodable \notin {Refused, Malformed}

VARIABLES
    store,      \* the values that other devices write in this one
    ordered,    \* history: the last order about communication obeyed
    elapsed     \* history: seconds since, as far as its limit

history == <<ordered, elapsed>>

vars == <<tsmVars, dccVars, store, said, history>>

(* What a client, or a restart, has said of communication.                 *)
Told(status, minutes) == [status |-> status, minutes |-> minutes]

Limit(order) == order.minutes * SECONDS_PER_MINUTE

Init ==
    /\ TSMInit
    /\ DCCInit
    /\ store \in {[item \in Items |-> v] : v \in Values}
    /\ said = "nothing"
    /\ ordered = Told("ENABLE", 0) /\ elapsed = 0

----------------------------------------------------------------------------
(* The requests other devices send.  Of a segmented one no handler reads   *)
(* more than the header, so that one of them stands for all.               *)

Req(service, forms, writes) ==
    [service : {service}, segmented : {FALSE}, form : forms, writes : writes]
        \cup {[service |-> service, segmented |-> TRUE, form |-> "good",
               writes |-> CHOOSE w \in writes : TRUE]}

Reads ==
    UNION {Req("ReadProperty", {"good", "malformed", "unknown", "long"}, {<<>>}),
           Req("ReadPropertyMultiple",
               {"good", "malformed", "unknown", "long"}, {<<>>}),
           Req("ReadRange", {"good", "malformed", "unknown", "long"}, {<<>>}),
           Req("AtomicReadFile", {"good", "malformed", "object", "unknown",
                                  "record", "long"}, {<<>>}),
           Req("GetEventInformation",
               {"good", "malformed", "long", "failed"}, {<<>>}),
           Req("GetAlarmSummary", {"good", "long"}, {<<>>})}

Notices ==
    UNION {Req("AcknowledgeAlarm", {"good", "malformed", "unknown",
                                    "unsupported", "refused", "failed"}, {<<>>}),
           Req("COVNotification", {"good", "malformed"}, {<<>>}),
           Req("LifeSafetyOperation", {"good", "malformed"}, {<<>>}),
           Req("TextMessage", {"good"}, {<<>>})}

Received == Values \cup {Refused, Malformed}
PropertyWrites(properties) == {Write(p, v) : p \in properties, v \in Received}

(* The number of a block is good, none, or good only after the cast.       *)
BlockNumbers == {0, MY_MAX_BLOCK, CHAR}

(* What is written in a block, each field of its kind or of another.       *)
BlockWrites ==
    {<<Write("cMyByte1", byte), Write("sMyString", string)>> :
        byte \in Values \cup WIDE \cup {Malformed},
        string \in Values \cup WIDE \cup {Undecodable, Malformed}}

AnyWrites == <<Write("cMyByte1", CHAR - 1), Write("sMyString", CHAR - 1)>>

(* A block is read, or written; "kind": its number is of another kind. Of  *)
(* those that come to no block, one write stands for all.                  *)
PrivateTransfers ==
    {r \in [service : {"PrivateTransfer"}, segmented : BOOLEAN,
            form : {"good", "malformed", "vendor", "kind"},
            block : BlockNumbers, writes : {<<>>} \cup BlockWrites] :
        r.segmented \/ r.form # "good"
            => r.block = 0 /\ r.writes = AnyWrites}

Writes ==
    UNION {Req("WriteProperty", {"good"}, {<<w>> : w \in PropertyWrites(Properties)}),
           Req("WritePropertyMultiple", {"good"},
               {<<v, w>> : v \in PropertyWrites({"a"}),
                           w \in PropertyWrites(Properties)}),
           Req("AtomicWriteFile", {"good", "malformed", "object", "unknown",
                                   "record", "unopened"},
               {<<Write("file", v)>> : v \in Values})}

RemoteRequests == Reads \cup Notices \cup Writes \cup PrivateTransfers

(* Requests that order this device about.  The password is wrong, or the   *)
(* order one that the standard does not define.                            *)
Orders ==
    UNION {Req(service, {"good", "malformed", "undefined", "password"}, {<<>>}) :
            service \in {"DeviceCommunicationControl", "ReinitializeDevice"}}

----------------------------------------------------------------------------
(* apdu_handler.                                                           *)

Service(r) ==
    /\ r \in RemoteRequests
    /\ ~ConfirmedRequestDropped(r.service)
    /\ \E bsTemp \in Values : store' = Handled(r, bsTemp, store).store
    /\ said' = "nothing"
    /\ UNCHANGED <<tsmVars, dccVars, history>>

Obeyed(r) == ~r.segmented /\ r.form = "good"

(* An order that is refused: aborted, rejected or answered with an error.  *)
RefuseOrder(r) ==
    /\ ~Obeyed(r)
    /\ said' = "nothing"
    /\ UNCHANGED <<tsmVars, dccVars, store, history>>

(* The limit is decoded into a uint16_t: one of 65536 minutes is none.     *)
(* The acknowledgement is encoded first, but sent all the same when        *)
(* communication is disabled.                                              *)
handler_device_communication_control(r) ==
    \/ RefuseOrder(r)
    \/ /\ Obeyed(r)
       /\ \E status \in Statuses, minutes \in MINUTES :
            /\ dcc_set_status_duration(status, minutes % UINT16)
            /\ ordered' = Told(status, minutes)
       /\ elapsed' = 0
       /\ said' = "nothing"
       /\ UNCHANGED <<tsmVars, store>>

(* Device_Reinitialize: a start of either kind enables communication; the  *)
(* device itself is not restarted here.                                    *)
Device_Reinitialize(start) ==
    IF start
    THEN /\ dcc_set_status_duration("ENABLE", 0)
         /\ ordered' = Told("ENABLE", 0) /\ elapsed' = 0
    ELSE UNCHANGED <<dccVars, history>>

handler_reinitialize_device(r) ==
    \/ RefuseOrder(r)
    \/ /\ Obeyed(r)
       /\ \E start \in BOOLEAN : Device_Reinitialize(start)
       /\ said' = "nothing"
       /\ UNCHANGED <<tsmVars, store>>

Order(r) ==
    /\ r \in Orders
    /\ ~ConfirmedRequestDropped(r.service)
    /\ \/ /\ r.service = "DeviceCommunicationControl"
          /\ handler_device_communication_control(r)
       \/ /\ r.service = "ReinitializeDevice"
          /\ handler_reinitialize_device(r)

(* apdu_unconfirmed_dcc_disabled: only Who-Is gets through when initiation *)
(* alone is disabled.                                                      *)
UnconfirmedDropped(service) ==
    \/ dcc_communication_disabled
    \/ dcc_communication_initiation_disabled /\ service # "WhoIs"

(* limits is <<>> when the request has none.                               *)
handler_who_is(limits) ==
    /\ limits # <<>> => limits[1] <= MyInstance /\ MyInstance <= limits[2]
    /\ said' = "nothing"
    /\ UNCHANGED <<tsmVars, dccVars>>

(* match_name_or_object answers with Send_I_Have.                          *)
handler_who_has(limits, found) ==
    /\ limits # <<>> => limits[1] <= MyInstance /\ MyInstance <= limits[2]
    /\ found
    /\ Send_I_Have

Limits == {<<>>} \cup {<<low, high>> : low \in {0, MyInstance + 1},
                                       high \in {MyInstance, MyInstance + 1}}

Unconfirmed ==
    /\ \/ /\ ~UnconfirmedDropped("WhoIs")
          /\ \E limits \in Limits : handler_who_is(limits)
       \/ /\ ~UnconfirmedDropped("WhoHas")
          /\ \E limits \in Limits, found \in BOOLEAN :
                handler_who_has(limits, found)
    /\ UNCHANGED <<store, history>>

(* An answer of any kind frees the transaction of its invoke id, whoever   *)
(* sent it; an ack does so only if its service is one that is answered by  *)
(* this kind of ack.  The id of a SegmentAck is never read and stays 0.    *)
SimplyAcked == {"WriteProperty"}
ComplexlyAcked == {"ReadProperty"}

AnswerPDUs == {"SimpleAck", "ComplexAck", "SegmentAck", "Error", "Reject",
               "Abort"}

Answer(pdu, service, id) ==
    /\ pdu = "SimpleAck" => service \in SimplyAcked
    /\ pdu = "ComplexAck" => service \in ComplexlyAcked
    /\ tsm_free_invoke_id(IF pdu = "SegmentAck" THEN 0 ELSE id)
    /\ said' = "nothing"
    /\ UNCHANGED <<dccVars, store, history>>

----------------------------------------------------------------------------
(* What the device does of itself.                                         *)

SendRequest(max_apdu, len) ==
    \/ \E dest \in {"NULL", "bound"} :
            Send_Read_Property_Request_Address(dest, max_apdu, len)
    \/ Send_Read_Property_Request(max_apdu, len)
    \/ \E max_pdu \in MAX_PDUS :
            \/ Send_Read_Property_Multiple_Request(max_pdu, max_apdu, len)
            \/ Send_Write_Property_Request(max_pdu, max_apdu, len)
    \/ \E copied \in BOOLEAN :
            Send_Atomic_Write_File_Stream(copied, max_apdu, len)
    \/ \E service \in {"read", "write"} :
            Send_Private_Transfer_Request(service, max_apdu, len)
    \/ Send_ReadRange_Request(max_apdu, len)
    \/ Send_Write_Property_Multiple_Request_Data(max_apdu, len)
    \/ Send_Atomic_Read_File_Stream(max_apdu, len)
    \/ Send_Alarm_Acknowledgement(max_apdu, len)
    \/ Send_CEvent_Notify(max_apdu, len)
    \/ Send_COV_Subscribe(max_apdu, len)
    \/ Send_Life_Safety_Operation_Data(max_apdu, len)
    \/ Send_Reinitialize_Device_Request(max_apdu, len)
    \/ Send_Device_Communication_Control_Request(max_apdu, len)

SendUnconfirmed ==
    \/ Send_TimeSync_Device \/ Send_TimeSyncUTC_Device
    \/ Send_WhoHas_Name \/ Send_WhoHas_Object
    \/ Send_WhoIs \/ Send_WhoIs_Local \/ Send_WhoIs_Remote
    \/ Send_UnconfirmedPrivateTransfer
    \/ Send_WhoIs_To_Network
    \/ Send_I_Am \/ Send_I_Am_Unicast
    \/ Send_UCOV_Notify \/ Send_UEvent_Notify
    \/ Send_Who_Is_Router_To_Network \/ Send_I_Am_Router_To_Network
    \/ Send_Reject_Message_To_Network
    \/ Send_Initialize_Routing_Table \/ Send_Initialize_Routing_Table_Ack

(* What a slot retransmits is initiated, and nobody asks whether it may.   *)
TransactionTimer ==
    /\ \E ms \in TICKS : tsm_timer_milliseconds(ms)
    /\ said' = IF \E i \in Slots :
                     TSM_List'[i].RetryCount > TSM_List[i].RetryCount
               THEN "initiated" ELSE "nothing"
    /\ UNCHANGED <<dccVars, store, history>>

(* Without a limit that still runs the timer does nothing.                 *)
CommunicationTimer ==
    /\ \E seconds \in SECONDS :
        /\ \/ dcc_timer_seconds(seconds)
           \/ DCC_Time_Duration_Seconds = 0 /\ UNCHANGED dccVars
        /\ elapsed' = IF elapsed + seconds < Limit(ordered)
                      THEN elapsed + seconds ELSE Limit(ordered)
    /\ said' = "nothing"
    /\ UNCHANGED <<tsmVars, store, ordered>>

Next ==
    \/ \E r \in RemoteRequests : Service(r)
    \/ \E r \in Orders : Order(r)
    \/ Unconfirmed
    \/ \E pdu \in AnswerPDUs, service \in SimplyAcked \cup ComplexlyAcked,
          id \in 0 .. MAX_INVOKE_ID : Answer(pdu, service, id)
    \/ \E max_apdu \in MAX_APDUS, len \in LENGTHS :
            SendRequest(max_apdu, len) /\ UNCHANGED <<store, history>>
    \/ SendUnconfirmed /\ UNCHANGED <<store, history>>
    \/ TransactionTimer
    \/ CommunicationTimer

(* The main loop calls the timers; nobody owes an answer.                  *)
Spec == Init /\ [][Next]_vars /\ WF_vars(TransactionTimer)

----------------------------------------------------------------------------
(* Properties.                                                             *)

(* "When network communications are completely disabled, [...] no messages *)
(* shall be initiated" (dcc.c): neither a request nor a broadcast, a       *)
(* notification or a retransmission leaves the device.                     *)
NothingInitiated == [][dcc_communication_disabled => said' # "initiated"]_vars

(* Whether the last order still holds.                                     *)
StillHolds ==
    /\ ordered.status # "ENABLE"
    /\ ordered.minutes = 0 \/ elapsed < Limit(ordered)

(* A device is silenced as the last order it obeyed says, and exactly as   *)
(* long: until its limit is over, or until told otherwise if it has none.  *)
(* No order that is refused ends or prolongs it, a new one starts anew,    *)
(* and so it is however often and late the timer is called.  A limit that  *)
(* does not fit a uint16_t is none of these.                               *)
SilenceAsOrdered ==
    ordered.minutes < UINT16 =>
        DCC_Enable_Disable = IF StillHolds THEN ordered.status ELSE "ENABLE"

Acked == {"SimpleAck", "ComplexAck"}

(* Acknowledged though not done: a segmented WritePropertyMultiple, a file *)
(* that is listed but does not open, and in a private transfer a block     *)
(* that is none, and what does not fit its field of the block.             *)
AckedBlindly(r, value) ==
    \/ r.service = "WritePropertyMultiple" /\ r.segmented
    \/ r.service = "AtomicWriteFile" /\ r.form = "unopened"
    \/ /\ r.service = "PrivateTransfer"
       /\ r.block >= MY_MAX_BLOCK \/ value \in WIDE \cup {Undecodable}

(* What remains of a request that is refused.                              *)
Partial == {"WritePropertyMultiple", "PrivateTransfer"}

(* Answers tell the truth of the store, whatever the requests before: an   *)
(* acknowledged request has stored the last value it gives each item, and  *)
(* one that is refused has stored nothing - or, of several values, none of *)
(* those from the first bad one on.  AckedBlindly is the exception.        *)
AnswersAreTrue ==
    \A r \in RemoteRequests, bsTemp \in Values :
        LET h == Handled(r, bsTemp, store)
            Last(i) == \A j \in DOMAIN r.writes :
                            j > i => r.writes[j].item # r.writes[i].item
            Before(item) ==
                {i \in DOMAIN r.writes :
                    /\ r.writes[i].item = item
                    /\ \A j \in 1 .. i :
                            r.writes[j].value \notin {Refused, Malformed}}
        IN  /\ h.answer \in Acked
                => \A i \in DOMAIN r.writes :
                        Last(i) /\ ~AckedBlindly(r, r.writes[i].value)
                        => h.store[r.writes[i].item] = r.writes[i].value
            /\ h.answer \notin Acked
                => \A item \in Items :
                        \/ h.store[item] = store[item]
                        \/ r.service \in Partial /\ Before(item) # {}
=============================================================================
