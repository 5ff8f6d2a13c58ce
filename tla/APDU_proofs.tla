---------------------------- MODULE APDU_proofs ----------------------------
(***************************************************************************)
(* Proofs about the application layer, for every size of the transaction   *)
(* table, all lengths, limits and values: what any request, answer, timer  *)
(* or sender does to the table, and what the handlers' answers say.        *)
(***************************************************************************)
EXTENDS APDU, TSM_proofs, SequenceTheorems

----------------------------------------------------------------------------
(* What the steps do to the transaction table.                             *)

(* Send_Read_Property_Multiple_Request gives up a list that does not fit   *)
(* the caller's buffer, but not its invoke id.                             *)
Abandoned ==
    LET id == FirstUnusedID(TSM_List, Current_Invoke_ID)
    IN  /\ tsm_transaction_available(TSM_List)
        /\ TSM_List' = Reserved(TSM_List, id)
        /\ Current_Invoke_ID' = Following(id)
        /\ said' = "nothing"

(* Every request fits the buffer of its caller.                            *)
RequestsFit == \A len \in LENGTHS, max_pdu \in MAX_PDUS : len <= max_pdu

(* What all the senders of confirmed requests share.                       *)
LEMMA SenderSteps ==
    ASSUME NEW max_apdu, NEW len \in LENGTHS, SendRequest(max_apdu, len)
    PROVE  /\ UNCHANGED dccVars
           /\ Request \/ GiveBack \/ (~RequestsFit /\ Abandoned)
<1>1. ASSUME NEW max, NEW n, Confirmed(max, n)
      PROVE  UNCHANGED dccVars /\ (Request \/ GiveBack)
  BY <1>1 DEF Confirmed
<1>2. ASSUME NEW copied \in BOOLEAN,
             Send_Atomic_Write_File_Stream(copied, max_apdu, len)
      PROVE  UNCHANGED dccVars /\ (Request \/ GiveBack)
  BY <1>2 DEF Send_Atomic_Write_File_Stream
<1>3. ASSUME NEW max_pdu \in MAX_PDUS, ~(len <= max_pdu),
             Send_Read_Property_Multiple_Request(max_pdu, max_apdu, len)
      PROVE  UNCHANGED dccVars /\ ~RequestsFit /\ Abandoned
  BY <1>3 DEF Send_Read_Property_Multiple_Request, Abandoned, RequestsFit
<1>4. \/ \E max, n : Confirmed(max, n)
      \/ \E copied \in BOOLEAN :
            Send_Atomic_Write_File_Stream(copied, max_apdu, len)
      \/ \E max_pdu \in MAX_PDUS :
            /\ ~(len <= max_pdu)
            /\ Send_Read_Property_Multiple_Request(max_pdu, max_apdu, len)
  BY DEF SendRequest, Send_Read_Property_Request_Address,
         Send_Read_Property_Request, Send_Read_Property_Multiple_Request,
         Send_Write_Property_Request, Send_Write_Property_Request_Data,
         Send_Private_Transfer_Request, Send_ReadRange_Request,
         Send_Write_Property_Multiple_Request_Data,
         Send_Atomic_Read_File_Stream, Send_Alarm_Acknowledgement,
         Send_CEvent_Notify, Send_COV_Subscribe, Send_Life_Safety_Operation_Data,
         Send_Reinitialize_Device_Request,
         Send_Device_Communication_Control_Request
<1>5. QED
  BY <1>1, <1>2, <1>3, <1>4

(* Broadcasts and network messages leave the table alone.                  *)
LEMMA BroadcastSteps ==
    ASSUME SendUnconfirmed \/ Unconfirmed
    PROVE  UNCHANGED tsmVars /\ UNCHANGED dccVars
<1>1. ASSUME Broadcast \/ Sent
      PROVE  UNCHANGED tsmVars /\ UNCHANGED dccVars
  BY <1>1 DEF Broadcast, Sent
<1>2. ASSUME SendUnconfirmed
      PROVE  Broadcast \/ Sent
  BY <1>2 DEF SendUnconfirmed, Send_TimeSync_Device, Send_TimeSyncUTC_Device,
     Send_TimeSync, Send_TimeSyncUTC, Send_TimeSync_Remote,
     Send_TimeSyncUTC_Remote, Send_WhoHas_Name, Send_WhoHas_Object, Send_WhoIs,
     Send_WhoIs_Global, Send_WhoIs_Local, Send_WhoIs_Remote,
     Send_UnconfirmedPrivateTransfer, Send_WhoIs_To_Network, Send_I_Am,
     Send_I_Am_Unicast, Send_UCOV_Notify, Send_UEvent_Notify,
     Send_Who_Is_Router_To_Network, Send_I_Am_Router_To_Network,
     Send_Reject_Message_To_Network, Send_Initialize_Routing_Table,
     Send_Initialize_Routing_Table_Ack, Send_Network_Layer_Message
<1>3. ASSUME Unconfirmed
      PROVE  Broadcast \/ (UNCHANGED tsmVars /\ UNCHANGED dccVars)
  BY <1>3 DEF Unconfirmed, handler_who_is, handler_who_has, Send_I_Have
<1>4. QED
  BY <1>1, <1>2, <1>3

(* The kinds of step, as far as the table is concerned.                    *)
LEMMA TableSteps ==
    ASSUME Next
    PROVE  \/ Request \/ GiveBack \/ (~RequestsFit /\ Abandoned)
           \/ UNCHANGED tsmVars
           \/ \E id \in 0 .. MAX_INVOKE_ID : tsm_free_invoke_id(id)
           \/ \E ms \in TICKS : tsm_timer_milliseconds(ms)
<1>1. CASE \/ \E r \in RemoteRequests : Service(r)
           \/ \E r \in Orders : Order(r)
           \/ CommunicationTimer
  BY <1>1 DEF Service, Order, handler_device_communication_control,
              handler_reinitialize_device, RefuseOrder, CommunicationTimer
<1>2. CASE Unconfirmed \/ SendUnconfirmed
  BY <1>2, BroadcastSteps
<1>3. ASSUME NEW pdu \in AnswerPDUs,
             NEW service \in SimplyAcked \cup ComplexlyAcked,
             NEW id \in 0 .. MAX_INVOKE_ID, Answer(pdu, service, id)
      PROVE  \E x \in 0 .. MAX_INVOKE_ID : tsm_free_invoke_id(x)
  BY <1>3, BoundaryValues DEF Answer
<1>4. ASSUME NEW max_apdu \in MAX_APDUS, NEW len \in LENGTHS,
             SendRequest(max_apdu, len)
      PROVE  Request \/ GiveBack \/ (~RequestsFit /\ Abandoned)
  BY <1>4, SenderSteps
<1>5. CASE TransactionTimer
  BY <1>5 DEF TransactionTimer
<1>6. QED
  BY <1>1, <1>2, <1>3, <1>4, <1>5 DEF Next

(* A slot that was taken for a request that is given up fits in the table. *)
LEMMA AbandonedKeepsTable ==
    ASSUME TSMInv, Abandoned
    PROVE  TSMInv'
<1> DEFINE id == FirstUnusedID(TSM_List, Current_Invoke_ID)
           k == Lowest(FreeSlots(TSM_List))
           t == [TSM_List[k] EXCEPT !.InvokeID = id, !.state = "IDLE",
                                    !.RequestTimer = APDU_TIMEOUT]
<1>1. /\ TSM_List \in [Slots -> Transaction]
      /\ TableOK(TSM_List)
      /\ Current_Invoke_ID \in InvokeIDs
      /\ FreeSlots(TSM_List) # {}
  BY DEF TSMInv, TableOK, Abandoned, tsm_transaction_available
<1>2. id \in InvokeIDs \ UsedIDs(TSM_List)
  BY <1>1, FirstUnusedIDIsUnused
<1>3. k \in Slots
  <2>1. FreeSlots(TSM_List) \in SUBSET Nat
    BY BoundaryValues DEF FreeSlots
  <2>2. QED
    BY <1>1, <2>1, LowestIsFirst DEF FreeSlots
<1>4. TSM_List' = [TSM_List EXCEPT ![k] = t]
  BY DEF Abandoned, Reserved
<1>5. Current_Invoke_ID' = Following(id)
  BY DEF Abandoned
<1> HIDE DEF id, k
<1>6. t \in Transaction /\ t.InvokeID = id /\ t.state = "IDLE"
  BY <1>1, <1>2, <1>3, BoundaryValues DEF Transaction
<1> HIDE DEF t
<1>7. TableOK(TSM_List')
  BY <1>1, <1>2, <1>3, <1>4, <1>6, ReplacingOneSlot
<1>8. Current_Invoke_ID' \in InvokeIDs
  BY <1>2, <1>5, TSMConstants DEF Following, InvokeIDs
<1>9. QED
  BY <1>7, <1>8 DEF TSMInv

LEMMA TableInvStep == TSMInv /\ [Next]_vars => TSMInv'
<1> SUFFICES ASSUME TSMInv, [Next]_vars
             PROVE  TSMInv'
  OBVIOUS
<1>1. CASE [TSMNext]_tsmVars
  BY <1>1, TSMInvStep
<1>2. CASE Abandoned
  BY <1>2, AbandonedKeepsTable
<1>3. [TSMNext]_tsmVars \/ Abandoned
  BY TableSteps DEF TSMNext, Request, GiveBack, vars, tsmVars
<1>4. QED
  BY <1>1, <1>2, <1>3

LEMMA TableInvariant == Spec => []TSMInv
<1>1. Init => TSMInv
  BY TSMInvInit DEF Init
<1>2. QED
  BY <1>1, TableInvStep, PTL DEF Spec

(* No answer, late, unasked for or repeated, and no sender, whether it     *)
(* sends, gives its id back or loses it, brings one id into two slots.     *)
THEOREM RequestsHaveIDsOfTheirOwn == Spec => []UniqueInvokeIDs
<1>1. TSMInv => UniqueInvokeIDs
  BY DEF TSMInv, TableOK, UniqueInvokeIDs
<1>2. QED
  BY <1>1, TableInvariant, PTL

(* The application layer implements the abstract transaction service, as   *)
(* far as safety goes, if all requests fit the buffers of their callers:   *)
(* answers release a request at most once, requests start only under free  *)
(* ids.  A list of properties that does not fit takes an id that was never *)
(* pending: that is no step of the service.                                *)
THEOREM RequestsImplementTransactions ==
    ASSUME RequestsFit
    PROVE  Spec => Requests!Init /\ [][Requests!Next]_outcome
<1>1. Init => Requests!Init
  <2> SUFFICES ASSUME TSMInit
               PROVE  Requests!Init
    BY DEF Init
  <2>1. \A id \in InvokeIDs : OutcomeIn(TSM_List, id) = "free"
    BY TSMConstants
      DEF TSMInit, UnusedTransaction, OutcomeIn, SlotsOf, InvokeIDs
  <2>2. QED
    BY <2>1, OutcomeIsOfTable DEF Requests!Init
<1>2. TSMInv /\ TSMInv' /\ [Next]_vars => [Requests!Next]_outcome
  <2> SUFFICES ASSUME TSMInv, TSMInv', [Next]_vars
               PROVE  Requests!Next \/ UNCHANGED outcome
    OBVIOUS
  <2>1. CASE SendConfirmed
    BY <2>1, SendImplementsStart
  <2>2. CASE SendTooLong
    BY <2>2, SendTooLongIsInvisible
  <2>3. ASSUME NEW id \in 0 .. MAX_INVOKE_ID, tsm_free_invoke_id(id)
        PROVE  Requests!Next \/ UNCHANGED outcome
    BY <2>3, FreeImplementsRelease
  <2>4. ASSUME NEW ms \in TICKS, tsm_timer_milliseconds(ms)
        PROVE  Requests!Next \/ UNCHANGED outcome
    BY <2>4, TimerImplementsFail
  <2>5. CASE UNCHANGED tsmVars
    BY <2>5, OutcomeIsOfTable DEF tsmVars
  <2>6. \/ SendConfirmed
        \/ SendTooLong
        \/ \E id \in 0 .. MAX_INVOKE_ID : tsm_free_invoke_id(id)
        \/ \E ms \in TICKS : tsm_timer_milliseconds(ms)
        \/ UNCHANGED tsmVars
    BY TableSteps DEF Request, GiveBack, vars
  <2>7. QED
    BY <2>1, <2>2, <2>3, <2>4, <2>5, <2>6
<1>3. QED
  BY <1>1, <1>2, TableInvariant, PTL DEF Spec

----------------------------------------------------------------------------
(* Communication control.                                                  *)

(* The time left is what the limit of the last order has left.             *)
SilenceInv ==
    /\ DCCTypeOK
    /\ ordered \in [status : Statuses, minutes : Nat]
    /\ Limit(ordered) \in Nat
    /\ ordered.minutes # 0 => Limit(ordered) # 0
    /\ elapsed \in 0 .. Limit(ordered)
    /\ ordered.minutes < UINT16 =>
        /\ DCC_Enable_Disable = IF StillHolds THEN ordered.status ELSE "ENABLE"
        /\ DCC_Time_Duration_Seconds =
                IF StillHolds /\ ordered.minutes # 0
                THEN Limit(ordered) - elapsed ELSE 0

LEMMA LimitsAreNumbers ==
    ASSUME NEW minutes \in Nat
    PROVE  /\ minutes * SECONDS_PER_MINUTE \in Nat
           /\ minutes # 0 => minutes * SECONDS_PER_MINUTE # 0
BY DCCConstants

(* A device that is told anew.                                             *)
TellDevice(status, minutes) ==
    /\ dcc_set_status_duration(status, minutes % UINT16)
    /\ ordered' = Told(status, minutes)
    /\ elapsed' = 0

LEMMA ToldAnew ==
    ASSUME NEW status \in Statuses, NEW minutes \in Nat,
           TellDevice(status, minutes)
    PROVE  SilenceInv'
<1> DEFINE m == minutes % UINT16
<1>1. m \in Nat /\ (minutes < UINT16 => m = minutes)
  BY APDUConstants
<1>2. /\ ordered' = [status |-> status, minutes |-> minutes]
      /\ elapsed' = 0
      /\ DCC_Enable_Disable' = status
      /\ DCC_Time_Duration_Seconds' =
            IF status = "ENABLE" THEN 0 ELSE m * SECONDS_PER_MINUTE
  BY DEF TellDevice, Told, dcc_set_status_duration
<1> HIDE DEF m
<1>3. /\ ordered'.status = status /\ ordered'.minutes = minutes
      /\ Limit(ordered)' = minutes * SECONDS_PER_MINUTE
  BY <1>2 DEF Limit
<1>4. /\ m * SECONDS_PER_MINUTE \in Nat
      /\ minutes * SECONDS_PER_MINUTE \in Nat
      /\ minutes # 0 => minutes * SECONDS_PER_MINUTE # 0
  BY <1>1, LimitsAreNumbers
<1>5. DCCTypeOK'
  BY <1>2, <1>4 DEF DCCTypeOK
<1>6. ASSUME minutes < UINT16
      PROVE  m * SECONDS_PER_MINUTE = minutes * SECONDS_PER_MINUTE
  BY <1>1, <1>6
<1>7. minutes = 0 => minutes * SECONDS_PER_MINUTE = 0
  BY DCCConstants
<1>8. StillHolds' <=> status # "ENABLE"
  BY <1>2, <1>3, <1>4 DEF StillHolds
<1>9. ordered'.minutes < UINT16 =>
        /\ DCC_Enable_Disable' = IF StillHolds' THEN status ELSE "ENABLE"
        /\ DCC_Time_Duration_Seconds' =
                IF StillHolds' /\ minutes # 0
                THEN Limit(ordered)' - elapsed' ELSE 0
  BY <1>2, <1>3, <1>4, <1>6, <1>7, <1>8
<1>10. QED
  BY <1>2, <1>3, <1>4, <1>5, <1>9 DEF SilenceInv

LEMMA TimePasses == SilenceInv /\ CommunicationTimer => SilenceInv'
<1> SUFFICES ASSUME SilenceInv, CommunicationTimer
             PROVE  SilenceInv'
  OBVIOUS
<1>1. PICK seconds \in SECONDS :
        /\ \/ dcc_timer_seconds(seconds)
           \/ DCC_Time_Duration_Seconds = 0 /\ UNCHANGED dccVars
        /\ elapsed' = IF elapsed + seconds < Limit(ordered)
                      THEN elapsed + seconds ELSE Limit(ordered)
  BY DEF CommunicationTimer
<1>2. seconds \in Nat \ {0} /\ UINT16 \in Nat
  BY APDUConstants
<1>3. ordered' = ordered /\ Limit(ordered)' = Limit(ordered)
  BY DEF CommunicationTimer, Limit
<1> DEFINE limit == Limit(ordered)
           left == DCC_Time_Duration_Seconds
<1>4. /\ ordered.status \in Statuses /\ ordered.minutes \in Nat
      /\ limit \in Nat /\ (ordered.minutes # 0 => limit # 0)
      /\ elapsed \in 0 .. limit
      /\ left \in Nat /\ DCC_Enable_Disable \in Statuses
  BY DEF SilenceInv, DCCTypeOK
<1>5. \/ /\ left # 0
         /\ left' = IF left > seconds THEN left - seconds ELSE 0
         /\ DCC_Enable_Disable' =
                IF left' = 0 THEN "ENABLE" ELSE DCC_Enable_Disable
      \/ left = 0 /\ left' = left /\ DCC_Enable_Disable' = DCC_Enable_Disable
  BY <1>1 DEF dcc_timer_seconds, dccVars
<1>6. elapsed' = IF elapsed + seconds < limit THEN elapsed + seconds ELSE limit
  BY <1>1
<1>7. StillHolds' <=> /\ ordered.status # "ENABLE"
                      /\ ordered.minutes = 0 \/ elapsed' < limit
  BY <1>3 DEF StillHolds
<1>8. StillHolds <=> /\ ordered.status # "ENABLE"
                     /\ ordered.minutes = 0 \/ elapsed < limit
  BY DEF StillHolds
<1>9. ordered.minutes < UINT16 =>
        /\ DCC_Enable_Disable = IF StillHolds THEN ordered.status ELSE "ENABLE"
        /\ left = IF StillHolds /\ ordered.minutes # 0
                  THEN limit - elapsed ELSE 0
  BY DEF SilenceInv
<1> HIDE DEF limit, left
<1>10. DCCTypeOK'
  BY <1>2, <1>4, <1>5 DEF DCCTypeOK, Statuses, left
<1>11. elapsed' \in 0 .. limit
  BY <1>2, <1>4, <1>6
<1>12. ordered.minutes < UINT16 =>
        /\ DCC_Enable_Disable' = IF StillHolds' THEN ordered.status ELSE "ENABLE"
        /\ left' = IF StillHolds' /\ ordered.minutes # 0
                   THEN limit - elapsed' ELSE 0
  <2>1. SUFFICES ASSUME ordered.minutes < UINT16
                 PROVE  /\ DCC_Enable_Disable' =
                                IF StillHolds' THEN ordered.status ELSE "ENABLE"
                        /\ left' = IF StillHolds' /\ ordered.minutes # 0
                                   THEN limit - elapsed' ELSE 0
    OBVIOUS
  <2>2. CASE StillHolds /\ ordered.minutes # 0
    BY <1>2, <1>4, <1>5, <1>6, <1>7, <1>8, <1>9, <2>1, <2>2
  <2>3. CASE StillHolds /\ ordered.minutes = 0
    BY <1>2, <1>4, <1>5, <1>6, <1>7, <1>8, <1>9, <2>1, <2>3
  <2>4. CASE ~StillHolds
    BY <1>2, <1>4, <1>5, <1>6, <1>7, <1>8, <1>9, <2>1, <2>4
  <2>5. QED
    BY <2>2, <2>3, <2>4
<1>13. QED
  BY <1>3, <1>4, <1>10, <1>11, <1>12 DEF SilenceInv, limit, left

LEMMA SilenceStep == SilenceInv /\ [Next]_vars => SilenceInv'
<1> SUFFICES ASSUME SilenceInv, [Next]_vars
             PROVE  SilenceInv'
  OBVIOUS
<1>1. CASE UNCHANGED dccVars /\ UNCHANGED history
  BY <1>1 DEF SilenceInv, DCCTypeOK, dccVars, history, Limit, StillHolds
<1>2. MINUTES \subseteq Nat /\ "ENABLE" \in Statuses /\ 0 % UINT16 = 0
  BY APDUConstants DEF Statuses
<1>3. ASSUME NEW r, Order(r)
      PROVE  SilenceInv'
  <2>1. \/ UNCHANGED dccVars /\ UNCHANGED history
        \/ \E status \in Statuses, minutes \in Nat : TellDevice(status, minutes)
    <3>1. CASE handler_device_communication_control(r)
      BY <1>2, <3>1 DEF handler_device_communication_control, RefuseOrder,
         TellDevice
    <3>2. CASE handler_reinitialize_device(r)
      BY <1>2, <3>2 DEF handler_reinitialize_device, RefuseOrder,
         Device_Reinitialize, TellDevice
    <3>3. QED
      BY <1>3, <3>1, <3>2 DEF Order
  <2>2. QED
    BY <1>1, <2>1, ToldAnew
<1>4. CASE \/ \E r \in RemoteRequests : Service(r)
           \/ TransactionTimer
           \/ UNCHANGED vars
           \/ \E pdu \in AnswerPDUs, service \in SimplyAcked \cup ComplexlyAcked,
                 id \in 0 .. MAX_INVOKE_ID : Answer(pdu, service, id)
  BY <1>1, <1>4 DEF Service, TransactionTimer, Answer, vars
<1>5. CASE \E max_apdu \in MAX_APDUS, len \in LENGTHS :
                SendRequest(max_apdu, len) /\ UNCHANGED <<store, history>>
  BY <1>1, <1>5, SenderSteps
<1>6. CASE Unconfirmed \/ (SendUnconfirmed /\ UNCHANGED <<store, history>>)
  <2>1. UNCHANGED history
    BY <1>6 DEF Unconfirmed
  <2>2. QED
    BY <1>1, <1>6, <2>1, BroadcastSteps
<1>7. CASE CommunicationTimer
  BY <1>7, TimePasses
<1>8. QED
  BY <1>3, <1>4, <1>5, <1>6, <1>7 DEF Next

LEMMA SilenceInvariant == Spec => []SilenceInv
<1>1. Init => SilenceInv
  <2>1. 0 * SECONDS_PER_MINUTE = 0
    BY DCCConstants
  <2>2. QED
    BY <2>1 DEF Init, DCCInit, SilenceInv, DCCTypeOK, Statuses, Told, Limit,
       StillHolds
<1>2. QED
  BY <1>1, SilenceStep, PTL DEF Spec

(* Whatever is ordered, refused, asked or sent meanwhile, and however the  *)
(* timer is called: a device is silent as and as long as it was last told. *)
THEOREM SilenceLastsAsOrdered == Spec => []SilenceAsOrdered
<1>1. SilenceInv => SilenceAsOrdered
  BY DEF SilenceInv, SilenceAsOrdered
<1>2. QED
  BY <1>1, SilenceInvariant, PTL

----------------------------------------------------------------------------
(* The requests of other devices.                                          *)

WriteSet == [item : Items, value : Received]

StoreOK(st) == st \in [Items -> Values]

LEMMA ValuesAreNumbers ==
    /\ Values \subseteq Nat /\ 0 \in Values
    /\ Values \cap {Refused, Malformed, Undecodable} = {}
    /\ \A v \in Nat : v % CHAR \in Values
    /\ \A v \in Values : v % CHAR = v
    /\ 0 % CHAR = 0
BY APDUConstants DEF Values

(* A request of one service is whole, or a segment that says no more.      *)
LEMMA RequestOfService ==
    ASSUME NEW service, NEW forms, NEW writes, writes # {},
           NEW r \in Req(service, forms, writes)
    PROVE  /\ r.service = service
           /\ r.segmented \in BOOLEAN
           /\ r.form \in forms \cup {"good"}
           /\ r.writes \in writes
<1> DEFINE any == CHOOSE w \in writes : TRUE
<1>1. any \in writes
  OBVIOUS
<1>2. \/ r \in [service : {service}, segmented : {FALSE}, form : forms,
                writes : writes]
      \/ r = [service |-> service, segmented |-> TRUE, form |-> "good",
              writes |-> any]
  BY DEF Req
<1> HIDE DEF any
<1>3. CASE r \in [service : {service}, segmented : {FALSE}, form : forms,
                 writes : writes]
  BY <1>3
<1>4. CASE r = [service |-> service, segmented |-> TRUE, form |-> "good",
                writes |-> any]
  BY <1>1, <1>4
<1>5. QED
  BY <1>2, <1>3, <1>4

LEMMA LengthOfDomain ==
    ASSUME NEW S, NEW n \in {0, 2}, NEW w \in [1 .. n -> S]
    PROVE  w \in Seq(S) /\ Len(w) = n
<1>1. w \in Seq(S)
  BY SeqDef
<1>2. DOMAIN w = 1 .. Len(w) /\ Len(w) \in Nat
  BY <1>1, LenProperties
<1>3. 1 .. Len(w) = 1 .. n
  BY <1>2
<1>4. \A k \in Nat : 1 .. k = 1 .. n => k = n
  <2>1. SUFFICES ASSUME NEW k \in Nat, 1 .. k = 1 .. n
                 PROVE  k = n
    OBVIOUS
  <2>2. k = 0 \/ k \in 1 .. k
    OBVIOUS
  <2>3. n = 0 \/ n \in 1 .. n
    OBVIOUS
  <2>4. (k = 0 \/ k \in 1 .. n) /\ (n = 0 \/ n \in 1 .. k)
    BY <2>1, <2>2, <2>3, Zenon
  <2>5. QED
    BY <2>4
<1>5. QED
  BY <1>1, <1>2, <1>3, <1>4

(* What is left of the two values written in a block, or of none.          *)
LEMMA BlockCut ==
    ASSUME NEW w \in BlockWrites, NEW bsTemp \in Values
    PROVE  /\ DOMAIN w = 1 .. 2
           /\ LET cut == [i \in DOMAIN w |-> Cut(w[i], bsTemp)]
              IN  /\ cut \in Seq(WriteSet) /\ Len(cut) = 2
                  /\ \A i \in 1 .. 2 :
                        /\ cut[i].item = w[i].item
                        /\ w[i].value \notin WIDE \cup {Undecodable}
                                => cut[i].value = w[i].value
                        /\ cut[i].value \in Values
                                => w[i].value \notin {Refused, Malformed}
<1> DEFINE Given == Values \cup WIDE \cup {Undecodable, Malformed}
           cut == [i \in DOMAIN w |-> Cut(w[i], bsTemp)]
<1>1. PICK byte \in Given, string \in Given :
        w = <<Write("cMyByte1", byte), Write("sMyString", string)>>
  BY DEF BlockWrites
<1>2. DOMAIN w = 1 .. 2
  BY <1>1
<1>3. ASSUME NEW item \in Items, NEW v \in Given
      PROVE  /\ Cut(Write(item, v), bsTemp) \in WriteSet
             /\ Cut(Write(item, v), bsTemp).item = item
             /\ v \notin WIDE \cup {Undecodable} =>
                    Cut(Write(item, v), bsTemp).value = v
             /\ Cut(Write(item, v), bsTemp).value \in Values =>
                    v \notin {Refused, Malformed}
  <2>1. v = Malformed \/ v = Undecodable \/ v \in Nat
    BY APDUConstants, ValuesAreNumbers
  <2>2. CASE v = Malformed
    <3>1. Cut(Write(item, v), bsTemp) = Write(item, v)
      BY <2>2 DEF Cut, Write
    <3>2. QED
      BY <2>2, <3>1, ValuesAreNumbers DEF Write, WriteSet, Received
  <2>3. CASE v = Undecodable
    <3>1. Cut(Write(item, v), bsTemp) = Write(item, bsTemp)
      BY <2>3, APDUConstants DEF Cut, Write
    <3>2. v \notin {Refused, Malformed}
      BY <2>3, APDUConstants
    <3>3. QED
      BY <2>3, <3>1, <3>2 DEF Write, WriteSet, Received
  <2>4. CASE v \in Nat
    <3>1. v \notin {Refused, Malformed, Undecodable}
      BY <2>4, APDUConstants
    <3>2. Cut(Write(item, v), bsTemp) = Write(item, v % CHAR)
      BY <3>1 DEF Cut, Write
    <3>3. v % CHAR \in Values /\ (v \in Values => v % CHAR = v)
      BY <2>4, ValuesAreNumbers
    <3>4. v \notin WIDE \cup {Undecodable} => v \in Values
      BY <3>1
    <3>5. QED
      BY <3>1, <3>2, <3>3, <3>4 DEF Write, WriteSet, Received
  <2>5. QED
    BY <2>1, <2>2, <2>3, <2>4
<1>4. "cMyByte1" \in Items /\ "sMyString" \in Items
  BY DEF Items, DATABLOCK
<1>5. w[1] = Write("cMyByte1", byte) /\ w[2] = Write("sMyString", string)
  BY <1>1
<1>6. /\ cut[1] = Cut(w[1], bsTemp) /\ cut[2] = Cut(w[2], bsTemp)
      /\ cut = [i \in 1 .. 2 |-> cut[i]]
  BY <1>2
<1> HIDE DEF Given, cut
<1>7. /\ cut[1] \in WriteSet /\ cut[2] \in WriteSet
      /\ cut[1].item = "cMyByte1" /\ cut[2].item = "sMyString"
      /\ byte \notin WIDE \cup {Undecodable} => cut[1].value = byte
      /\ string \notin WIDE \cup {Undecodable} => cut[2].value = string
      /\ cut[1].value \in Values => byte \notin {Refused, Malformed}
      /\ cut[2].value \in Values => string \notin {Refused, Malformed}
  BY <1>3, <1>4, <1>5, <1>6
<1>8. \A i \in 1 .. 2 : i = 1 \/ i = 2
  OBVIOUS
<1>9. /\ w[1].item = "cMyByte1" /\ w[1].value = byte
      /\ w[2].item = "sMyString" /\ w[2].value = string
  BY <1>5 DEF Write
<1>10. cut \in Seq(WriteSet) /\ Len(cut) = 2
  <2>1. \A i \in 1 .. 2 : cut[i] \in WriteSet
    BY <1>7, <1>8
  <2>2. cut \in [1 .. 2 -> WriteSet]
    BY <1>6, <2>1
  <2>3. QED
    BY <2>2, LengthOfDomain
<1>11. QED
  BY <1>2, <1>7, <1>8, <1>9, <1>10 DEF cut

LEMMA NothingCut ==
    ASSUME NEW bsTemp
    PROVE  LET cut == [i \in DOMAIN <<>> |-> Cut(<<>>[i], bsTemp)]
           IN  Len(cut) = 0 /\ Bad(cut) = {}
<1> DEFINE cut == [i \in DOMAIN <<>> |-> Cut(<<>>[i], bsTemp)]
<1>1. DOMAIN cut = {} /\ 1 .. 0 = {}
  OBVIOUS
<1>2. cut \in [1 .. 0 -> WriteSet]
  OBVIOUS
<1> HIDE DEF cut
<1>3. Len(cut) = 0
  BY <1>2, LengthOfDomain
<1>4. Bad(cut) = {}
  BY <1>1 DEF Bad
<1>5. QED
  BY <1>3, <1>4 DEF cut

(* What the requests say, by service: what they write, and in which forms. *)
LEMMA RequestShapes ==
    ASSUME NEW r \in RemoteRequests
    PROVE  \/ /\ r.service \notin {"WriteProperty", "WritePropertyMultiple",
                                   "AtomicWriteFile", "PrivateTransfer"}
              /\ r.writes = <<>>
           \/ /\ r.service = "PrivateTransfer"
              /\ r.writes = <<>> \/ r.writes \in BlockWrites
              /\ r.block \in BlockNumbers
           \/ /\ r.service = "WriteProperty"
              /\ \E w \in WriteSet : r.writes = <<w>>
              /\ r.form = "good"
           \/ /\ r.service = "WritePropertyMultiple"
              /\ r.writes \in Seq(WriteSet) /\ Len(r.writes) = 2
           \/ /\ r.service = "AtomicWriteFile"
              /\ \E w \in WriteSet : w.value \in Values /\ r.writes = <<w>>
              /\ r.form \in {"good", "malformed", "object", "unknown",
                             "record", "unopened"}
<1>1. CASE r \in Reads
  <2>1. \E service, forms :
            /\ r \in Req(service, forms, {<<>>})
            /\ service \notin {"WriteProperty", "WritePropertyMultiple",
                               "AtomicWriteFile", "PrivateTransfer"}
    BY <1>1 DEF Reads
  <2>2. {<<>>} # {}
    OBVIOUS
  <2>3. QED
    BY <2>1, <2>2, RequestOfService
<1>2. CASE r \in Notices
  <2>1. \E service, forms :
            /\ r \in Req(service, forms, {<<>>})
            /\ service \notin {"WriteProperty", "WritePropertyMultiple",
                               "AtomicWriteFile", "PrivateTransfer"}
    BY <1>2 DEF Notices
  <2>2. {<<>>} # {}
    OBVIOUS
  <2>3. QED
    BY <2>1, <2>2, RequestOfService
<1>3. CASE r \in Writes
  <2>1. \A properties \in SUBSET Properties :
            PropertyWrites(properties) \subseteq WriteSet
    BY DEF PropertyWrites, WriteSet, Write, Items
  <2>2. {"a"} \in SUBSET Properties /\ "a" \in Properties
    BY DEF Properties
  <2>3. Write("a", Refused) \in PropertyWrites({"a"})
    BY DEF PropertyWrites, Received
  <2>4. Write("a", Refused) \in PropertyWrites(Properties)
    BY <2>2 DEF PropertyWrites, Received
  <2>5. CASE r \in Req("WriteProperty", {"good"},
                       {<<w>> : w \in PropertyWrites(Properties)})
    <3> DEFINE writes == {<<w>> : w \in PropertyWrites(Properties)}
    <3>1. writes # {}
      BY <2>4
    <3>2. \A x \in writes : \E w \in WriteSet : x = <<w>>
      BY <2>1
    <3> HIDE DEF writes
    <3>3. QED
      BY <2>5, <3>1, <3>2, RequestOfService DEF writes
  <2>6. CASE r \in Req("WritePropertyMultiple", {"good"},
                       {<<v, w>> : v \in PropertyWrites({"a"}),
                                   w \in PropertyWrites(Properties)})
    <3> DEFINE writes == {<<v, w>> : v \in PropertyWrites({"a"}),
                                     w \in PropertyWrites(Properties)}
    <3>1. writes # {}
      <4>1. PICK w : w \in PropertyWrites({"a"}) /\ w \in PropertyWrites(Properties)
        BY <2>3, <2>4, Zenon
      <4> DEFINE Two(u, x) == <<u, x>>
      <4>2. writes = {Two(u, x) : u \in PropertyWrites({"a"}),
                                  x \in PropertyWrites(Properties)}
        OBVIOUS
      <4> HIDE DEF Two
      <4>3. Two(w, w) \in writes
        BY <4>1, <4>2
      <4> HIDE DEF writes
      <4>4. QED
        BY <4>3, Zenon
    <3>2. \A x \in writes : x \in Seq(WriteSet) /\ Len(x) = 2
      <4>1. \A v, w \in WriteSet :
                <<v, w>> \in Seq(WriteSet) /\ Len(<<v, w>>) = 2
        OBVIOUS
      <4>2. /\ PropertyWrites({"a"}) \subseteq WriteSet
            /\ PropertyWrites(Properties) \subseteq WriteSet
        BY <2>1, <2>2
      <4>3. \A x \in writes : \E v, w \in WriteSet : x = <<v, w>>
        BY <4>2
      <4> HIDE DEF writes
      <4>4. QED
        BY <4>1, <4>3
    <3> HIDE DEF writes
    <3>3. QED
      BY <2>6, <3>1, <3>2, RequestOfService DEF writes
  <2>8. CASE r \in Req("AtomicWriteFile",
                       {"good", "malformed", "object", "unknown", "record",
                        "unopened"},
                       {<<Write("file", v)>> : v \in Values})
    <3> DEFINE writes == {<<Write("file", v)>> : v \in Values}
    <3>1. writes # {}
      BY ValuesAreNumbers
    <3>2. \A x \in writes : \E w \in WriteSet : w.value \in Values /\ x = <<w>>
      BY DEF Write, WriteSet, Received, Items
    <3> HIDE DEF writes
    <3>3. QED
      BY <2>8, <3>1, <3>2, RequestOfService DEF writes
  <2>9. QED
    BY <1>3, <2>5, <2>6, <2>8 DEF Writes
<1>4. CASE r \in PrivateTransfers
  BY <1>4 DEF PrivateTransfers
<1>5. QED
  BY <1>1, <1>2, <1>3, <1>4 DEF RemoteRequests

----------------------------------------------------------------------------
(* What handlers store.                                                    *)

(* The writes of a request are done in their order: none, one or two.      *)
LEMMA StoredInOrder ==
    ASSUME NEW st, NEW writes, Len(writes) \in 0 .. 2
    PROVE  /\ Len(writes) = 0 => StoredAll(st, writes) = st
           /\ Len(writes) = 1 => StoredAll(st, writes) = Stored(st, writes[1])
           /\ Len(writes) = 2 =>
                StoredAll(st, writes) = Stored(Stored(st, writes[1]), writes[2])
<1> DEFINE Step(f) == [i \in 0 .. Len(writes) |->
                            IF i = 0 THEN st ELSE Stored(f[i - 1], writes[i])]
           After == CHOOSE f : f = Step(f)
           all == [i \in 0 .. Len(writes) |->
                        IF i = 0 THEN st
                        ELSE IF i = 1 THEN Stored(st, writes[1])
                        ELSE Stored(Stored(st, writes[1]), writes[2])]
<1>1. StoredAll(st, writes) = After[Len(writes)]
  BY DEF StoredAll
<1>2. all = Step(all)
  <2>1. ASSUME NEW i \in 0 .. Len(writes)
        PROVE  all[i] = IF i = 0 THEN st ELSE Stored(all[i - 1], writes[i])
    <3>1. CASE i = 0
      BY <3>1
    <3>2. CASE i = 1
      <4>1. i - 1 = 0 /\ 0 \in 0 .. Len(writes)
        BY <3>2
      <4>2. QED
        BY <3>2, <4>1
    <3>3. CASE i = 2
      <4>1. i - 1 = 1 /\ 1 \in 0 .. Len(writes)
        BY <3>3
      <4>2. QED
        BY <3>3, <4>1
    <3>4. QED
      BY <3>1, <3>2, <3>3
  <2> DEFINE Value(i) == IF i = 0 THEN st ELSE Stored(all[i - 1], writes[i])
  <2>2. Step(all) = [i \in 0 .. Len(writes) |-> Value(i)]
    OBVIOUS
  <2>3. all = [i \in 0 .. Len(writes) |-> all[i]]
    OBVIOUS
  <2>4. \A i \in 0 .. Len(writes) : all[i] = Value(i)
    BY <2>1
  <2> HIDE DEF all, Value
  <2>5. QED
    BY <2>2, <2>3, <2>4
<1>3. After = Step(After)
  <2> HIDE DEF Step, all
  <2>1. \E f : f = Step(f)
    BY <1>2
  <2>2. QED
    BY <2>1
<1> HIDE DEF After, all
<1>4. \A i \in 0 .. Len(writes) :
        After[i] = IF i = 0 THEN st ELSE Stored(After[i - 1], writes[i])
  <2> DEFINE g == After
  <2>1. g = [i \in 0 .. Len(writes) |->
                IF i = 0 THEN st ELSE Stored(After[i - 1], writes[i])]
    BY <1>3
  <2>2. \A i \in 0 .. Len(writes) :
            g[i] = IF i = 0 THEN st ELSE Stored(After[i - 1], writes[i])
    <3> HIDE DEF g
    <3>1. QED
      BY <2>1
  <2>3. QED
    BY <2>2
<1>5. After[0] = st
  BY <1>4
<1>6. Len(writes) \in 1 .. 2 => After[1] = Stored(After[0], writes[1])
  <2>1. 1 - 1 = 0
    OBVIOUS
  <2>2. QED
    BY <1>4, <2>1
<1>7. Len(writes) = 2 => After[2] = Stored(After[1], writes[2])
  <2>1. 2 - 1 = 1
    OBVIOUS
  <2>2. QED
    BY <1>4, <2>1
<1> HIDE DEF Step
<1>8. Len(writes) = 0 => StoredAll(st, writes) = st
  BY <1>1, <1>5
<1>9. Len(writes) = 1 => StoredAll(st, writes) = Stored(st, writes[1])
  BY <1>1, <1>5, <1>6
<1>10. Len(writes) = 2 =>
            StoredAll(st, writes) = Stored(Stored(st, writes[1]), writes[2])
  BY <1>1, <1>5, <1>6, <1>7
<1>11. QED
  BY <1>8, <1>9, <1>10

(* A write leaves every other item as it was.                              *)
LEMMA OneItemStored ==
    ASSUME NEW st, StoreOK(st), NEW w \in WriteSet
    PROVE  /\ DOMAIN Stored(st, w) = Items
           /\ Stored(st, w)[w.item] = w.value
           /\ \A item \in Items : item # w.item =>
                    Stored(st, w)[item] = st[item]
           /\ w.value \in Values => StoreOK(Stored(st, w))
BY DEF Stored, StoreOK, WriteSet

(* The first bad write comes before the others.                            *)
LEMMA FirstBadIsFirst ==
    ASSUME NEW writes \in Seq(WriteSet), Len(writes) \in 0 .. 2,
           Bad(writes) # {}
    PROVE  /\ FirstBad(writes) \in 1 .. Len(writes)
           /\ FirstBad(writes) \in Bad(writes)
           /\ \A j \in Bad(writes) : FirstBad(writes) <= j
<1>1. Bad(writes) \subseteq 1 .. Len(writes)
  BY LenProperties DEF Bad
<1>2. \E i \in Bad(writes) : \A j \in Bad(writes) : i <= j
  <2>1. CASE 1 \in Bad(writes)
    BY <1>1, <2>1
  <2>2. CASE 1 \notin Bad(writes)
    <3>1. \A i \in 1 .. Len(writes) : i = 1 \/ i = 2
      <4>1. \A n \in 0 .. 2 : \A i \in 1 .. n : i = 1 \/ i = 2
        OBVIOUS
      <4>2. QED
        BY <4>1
    <3>2. \A i \in Bad(writes) : i = 2
      BY <1>1, <2>2, <3>1
    <3>3. QED
      BY <3>2
  <2>3. QED
    BY <2>1, <2>2
<1>3. FirstBad(writes) \in Bad(writes)
      /\ \A j \in Bad(writes) : FirstBad(writes) <= j
  BY <1>2 DEF FirstBad
<1>4. QED
  BY <1>1, <1>3

(* A value that is not bad is one that items take.                         *)
LEMMA GoodValues ==
    ASSUME NEW writes \in Seq(WriteSet), NEW i \in DOMAIN writes,
           i \notin Bad(writes)
    PROVE  writes[i] \in WriteSet /\ writes[i].value \in Values
<1>1. writes[i] \in WriteSet
  BY ElementOfSeq, LenProperties
<1>2. writes[i].value \in Received /\ writes[i].value \notin {Refused, Malformed}
  BY <1>1 DEF Bad, WriteSet
<1>3. QED
  BY <1>1, <1>2 DEF Received

(* Of two writes that are both good, each item keeps the last.             *)
LEMMA BothStored ==
    ASSUME NEW st, StoreOK(st), NEW writes \in Seq(WriteSet),
           Len(writes) = 2, Bad(writes) = {}
    PROVE  /\ StoreOK(StoredAll(st, writes))
           /\ \A i \in DOMAIN writes :
                (\A j \in DOMAIN writes :
                    j > i => writes[j].item # writes[i].item)
                    => StoredAll(st, writes)[writes[i].item] = writes[i].value
<1>1. DOMAIN writes = 1 .. 2
  BY LenProperties
<1>2. /\ writes[1] \in WriteSet /\ writes[1].value \in Values
      /\ writes[2] \in WriteSet /\ writes[2].value \in Values
  BY <1>1, GoodValues
<1> DEFINE first == Stored(st, writes[1])
           both == Stored(first, writes[2])
<1>3. StoredAll(st, writes) = both
  BY StoredInOrder
<1>4. StoreOK(first) /\ first[writes[1].item] = writes[1].value
  BY <1>2, OneItemStored
<1> HIDE DEF first
<1>5. /\ StoreOK(both) /\ both[writes[2].item] = writes[2].value
      /\ \A item \in Items : item # writes[2].item => both[item] = first[item]
  BY <1>2, <1>4, OneItemStored
<1> HIDE DEF both
<1>6. writes[1].item \in Items
  BY <1>2 DEF WriteSet
<1>7. writes[2].item # writes[1].item => both[writes[1].item] = writes[1].value
  BY <1>4, <1>5, <1>6
<1>8. \A i \in 1 .. 2 : i = 1 \/ i = 2
  OBVIOUS
<1>9. \A i \in DOMAIN writes :
        (\A j \in DOMAIN writes : j > i => writes[j].item # writes[i].item)
            => both[writes[i].item] = writes[i].value
  <2>1. SUFFICES ASSUME NEW i \in 1 .. 2,
                        \A j \in 1 .. 2 : j > i => writes[j].item # writes[i].item
                 PROVE  both[writes[i].item] = writes[i].value
    BY <1>1
  <2>2. CASE i = 1
    <3>1. 2 \in 1 .. 2 /\ 2 > 1
      OBVIOUS
    <3>2. QED
      BY <1>7, <2>1, <2>2, <3>1
  <2>3. CASE i = 2
    BY <1>5, <2>3
  <2>4. QED
    BY <1>8, <2>2, <2>3
<1>10. QED
  BY <1>3, <1>5, <1>9

(* Of two writes the first bad one and what follows it is not done.        *)
LEMMA BadOnesNotStored ==
    ASSUME NEW st, StoreOK(st), NEW writes \in Seq(WriteSet),
           Len(writes) = 2, Bad(writes) # {}
    PROVE  LET done == StoredAll(st, SubSeq(writes, 1, FirstBad(writes) - 1))
           IN  /\ StoreOK(done)
               /\ \A item \in Items :
                    \/ done[item] = st[item]
                    \/ \E i \in DOMAIN writes :
                            /\ writes[i].item = item
                            /\ \A j \in 1 .. i : writes[j].value \in Values
<1> DEFINE n == FirstBad(writes)
           some == SubSeq(writes, 1, n - 1)
<1>1. DOMAIN writes = 1 .. 2
  BY LenProperties
<1>2. n \in 1 .. 2 /\ \A j \in Bad(writes) : n <= j
  <2>1. Len(writes) \in 0 .. 2
    OBVIOUS
  <2>2. n \in 1 .. Len(writes) /\ \A j \in Bad(writes) : n <= j
    BY <2>1, FirstBadIsFirst
  <2>3. QED
    BY <2>2
<1> HIDE DEF n
<1>3. n = 1 \/ n = 2
  BY <1>2
<1>4. CASE n = 1
  <2>1. n - 1 = 0
    BY <1>4
  <2>2. Len(some) = 0
    BY <2>1, SubSeqProperties
  <2> HIDE DEF some
  <2>3. StoredAll(st, some) = st
    <3>1. Len(some) \in 0 .. 2
      BY <2>2
    <3>2. QED
      BY <2>2, <3>1, StoredInOrder
  <2>4. QED
    BY <2>3 DEF n, some
<1>5. CASE n = 2
  <2>1. n - 1 = 1 /\ 1 \in 1 .. 2 /\ 1 \in 1 .. 1 /\ \A j \in 1 .. 1 : j = 1
    BY <1>5
  <2>2. Len(some) = 1 /\ some[1] = writes[1]
    BY <2>1, SubSeqProperties
  <2> HIDE DEF some
  <2>3. StoredAll(st, some) = Stored(st, writes[1])
    <3>1. Len(some) \in 0 .. 2
      BY <2>2
    <3>2. StoredAll(st, some) = Stored(st, some[1])
      BY <2>2, <3>1, StoredInOrder
    <3>3. QED
      BY <2>2, <3>2
  <2>4. 1 \notin Bad(writes)
    BY <1>2, <1>5
  <2>5. writes[1] \in WriteSet /\ writes[1].value \in Values
    BY <1>1, <2>1, <2>4, GoodValues
  <2>6. /\ StoreOK(Stored(st, writes[1]))
        /\ \A item \in Items : item # writes[1].item =>
                Stored(st, writes[1])[item] = st[item]
    BY <2>5, OneItemStored
  <2>7. ASSUME NEW item \in Items, item = writes[1].item
        PROVE  \E i \in DOMAIN writes :
                    /\ writes[i].item = item
                    /\ \A j \in 1 .. i : writes[j].value \in Values
    BY <1>1, <2>1, <2>5, <2>7
  <2>8. QED
    BY <2>3, <2>6, <2>7 DEF n, some
<1>6. QED
  BY <1>3, <1>4, <1>5

(* What AnswersAreTrue says of one request.                                *)
TrueAnswer(r, bsTemp, st) ==
    LET h == Handled(r, bsTemp, st)
        Last(i) == \A j \in DOMAIN r.writes :
                        j > i => r.writes[j].item # r.writes[i].item
        Before(item) ==
            {i \in DOMAIN r.writes :
                /\ r.writes[i].item = item
                /\ \A j \in 1 .. i :
                        r.writes[j].value \notin {Refused, Malformed}}
    IN  /\ h.answer \in Acked
            => \A i \in DOMAIN r.writes :
                    Last(i) /\ ~AckedBlindly(r, r.writes[i].value)
                    => h.store[r.writes[i].item] = r.writes[i].value
        /\ h.answer \notin Acked
            => \A item \in Items :
                    \/ h.store[item] = st[item]
                    \/ r.service \in Partial /\ Before(item) # {}

(* A request that writes nothing leaves the store alone.                   *)
LEMMA NothingWritten ==
    ASSUME NEW st, NEW r, NEW bsTemp, StoreOK(st), r.writes = <<>>,
           Handled(r, bsTemp, st).store = st
    PROVE  TrueAnswer(r, bsTemp, st) /\ StoreOK(Handled(r, bsTemp, st).store)
BY DEF TrueAnswer

(* An unwritten request is refused, or acknowledged blindly.               *)
LEMMA NotWritten ==
    ASSUME NEW st, NEW r, NEW bsTemp, StoreOK(st),
           Handled(r, bsTemp, st).store = st,
           \/ Handled(r, bsTemp, st).answer \notin Acked
           \/ \A value : AckedBlindly(r, value)
    PROVE  TrueAnswer(r, bsTemp, st) /\ StoreOK(Handled(r, bsTemp, st).store)
BY DEF TrueAnswer

(* Two values as they are written, done until one is bad.                  *)
LEMMA TwoWritten ==
    ASSUME NEW st, NEW r, NEW bsTemp, StoreOK(st), r.service \in Partial,
           NEW writes \in Seq(WriteSet), Len(writes) = 2,
           DOMAIN r.writes = 1 .. 2,
           \A i \in 1 .. 2 :
                /\ writes[i].item = r.writes[i].item
                /\ ~AckedBlindly(r, r.writes[i].value)
                        => writes[i].value = r.writes[i].value
                /\ writes[i].value \in Values
                        => r.writes[i].value \notin {Refused, Malformed},
           IF Bad(writes) = {}
           THEN /\ Handled(r, bsTemp, st).answer \in Acked
                /\ Handled(r, bsTemp, st).store = StoredAll(st, writes)
           ELSE /\ Handled(r, bsTemp, st).answer \notin Acked
                /\ Handled(r, bsTemp, st).store =
                    StoredAll(st, SubSeq(writes, 1, FirstBad(writes) - 1))
    PROVE  TrueAnswer(r, bsTemp, st) /\ StoreOK(Handled(r, bsTemp, st).store)
<1> DEFINE h == Handled(r, bsTemp, st)
           Last(i) == \A j \in DOMAIN r.writes :
                            j > i => r.writes[j].item # r.writes[i].item
           Before(item) ==
                {i \in DOMAIN r.writes :
                    /\ r.writes[i].item = item
                    /\ \A j \in 1 .. i :
                            r.writes[j].value \notin {Refused, Malformed}}
<1>1. DOMAIN writes = 1 .. 2
  BY LenProperties
<1>2. CASE Bad(writes) = {}
  <2>1. /\ StoreOK(h.store)
        /\ \A i \in DOMAIN writes :
                (\A j \in DOMAIN writes :
                        j > i => writes[j].item # writes[i].item)
                    => h.store[writes[i].item] = writes[i].value
    BY <1>2, BothStored
  <2>2. ASSUME NEW i \in DOMAIN r.writes, Last(i),
               ~AckedBlindly(r, r.writes[i].value)
        PROVE  h.store[r.writes[i].item] = r.writes[i].value
    <3>1. \A j \in DOMAIN writes : j > i => writes[j].item # writes[i].item
      BY <1>1, <2>2
    <3>2. h.store[writes[i].item] = writes[i].value
      BY <1>1, <2>1, <3>1
    <3>3. QED
      BY <2>2, <3>2
  <2>3. h.answer \in Acked
    BY <1>2
  <2>4. QED
    BY <2>1, <2>2, <2>3 DEF TrueAnswer
<1>3. CASE Bad(writes) # {}
  <2>1. /\ StoreOK(h.store)
        /\ \A item \in Items :
                \/ h.store[item] = st[item]
                \/ \E i \in DOMAIN writes :
                        /\ writes[i].item = item
                        /\ \A j \in 1 .. i : writes[j].value \in Values
    BY <1>3, BadOnesNotStored
  <2>2. ASSUME NEW item \in Items, NEW i \in 1 .. 2, writes[i].item = item,
               \A j \in 1 .. i : writes[j].value \in Values
        PROVE  i \in Before(item)
    <3>1. \A j \in 1 .. i : j \in 1 .. 2
      OBVIOUS
    <3>2. QED
      BY <2>2, <3>1
  <2>3. \A item \in Items : h.store[item] = st[item] \/ Before(item) # {}
    BY <1>1, <2>1, <2>2
  <2>4. h.answer \notin Acked
    BY <1>3
  <2>5. QED
    BY <2>1, <2>3, <2>4 DEF TrueAnswer
<1>4. QED
  BY <1>2, <1>3

(* Of every request, in every state of the store.                          *)
LEMMA EveryAnswerIsTrue ==
    ASSUME NEW st, StoreOK(st), NEW bsTemp \in Values, NEW r \in RemoteRequests
    PROVE  TrueAnswer(r, bsTemp, st) /\ StoreOK(Handled(r, bsTemp, st).store)
<1> USE ValuesAreNumbers, APDUConstants
<1>1. CASE /\ r.service \notin {"WriteProperty", "WritePropertyMultiple",
                                "AtomicWriteFile", "PrivateTransfer"}
           /\ r.writes = <<>>
  <2>1. Handled(r, bsTemp, st).store = st
    BY <1>1 DEF Handled, handler_read_property, handler_read_property_multiple,
       handler_read_range, handler_atomic_read_file, handler_alarm_ack,
       handler_get_event_information, handler_get_alarm_summary,
       handler_ccov_notification, handler_lso, handler_unrecognized_service,
       Answered, Decoded, Result
  <2>2. QED
    BY <1>1, <2>1, NothingWritten
<1>2. CASE /\ r.service = "PrivateTransfer"
           /\ r.writes = <<>> \/ r.writes \in BlockWrites
           /\ r.block \in BlockNumbers
  <2> DEFINE cut == [i \in DOMAIN r.writes |-> Cut(r.writes[i], bsTemp)]
  <2>1. Handled(r, bsTemp, st) = handler_conf_private_trans(r, bsTemp, st)
    BY <1>2 DEF Handled
  <2>2. CASE r.segmented \/ r.form \in {"malformed", "vendor", "kind"}
    <3>1. /\ Handled(r, bsTemp, st).store = st
          /\ Handled(r, bsTemp, st).answer \notin Acked
      BY <2>1, <2>2 DEF handler_conf_private_trans, Decoded, Result, Acked,
         ProcessPT
    <3>2. QED
      BY <3>1, NotWritten
  <2>3. CASE /\ ~(r.segmented \/ r.form \in {"malformed", "vendor", "kind"})
             /\ r.block % CHAR >= MY_MAX_BLOCK
    <3>1. Handled(r, bsTemp, st).store = st
      BY <2>1, <2>3 DEF handler_conf_private_trans, Decoded, Result, ProcessPT
    <3>2. r.block >= MY_MAX_BLOCK
      <4>1. r.block \in Nat
        BY <1>2 DEF BlockNumbers, MY_MAX_BLOCK
      <4>2. r.block # 0
        BY <2>3 DEF MY_MAX_BLOCK
      <4>3. QED
        BY <4>1, <4>2 DEF MY_MAX_BLOCK
    <3>3. \A value : AckedBlindly(r, value)
      BY <1>2, <3>2 DEF AckedBlindly
    <3>4. QED
      BY <3>1, <3>3, NotWritten
  <2>4. CASE /\ ~(r.segmented \/ r.form \in {"malformed", "vendor", "kind"})
             /\ ~(r.block % CHAR >= MY_MAX_BLOCK)
    <3>1. Handled(r, bsTemp, st) =
            IF Bad(cut) = {} THEN Result("ComplexAck", StoredAll(st, cut))
            ELSE Result("Error",
                        StoredAll(st, SubSeq(cut, 1, FirstBad(cut) - 1)))
      BY <2>1, <2>4 DEF handler_conf_private_trans, Decoded, ProcessPT
    <3>2. CASE r.writes = <<>>
      <4>1. Len(cut) = 0 /\ Bad(cut) = {}
        BY <3>2, NothingCut
      <4> HIDE DEF cut
      <4>2. StoredAll(st, cut) = st
        <5>1. Len(cut) \in 0 .. 2
          BY <4>1
        <5>2. QED
          BY <4>1, <5>1, StoredInOrder
      <4>3. Handled(r, bsTemp, st).store = st
        BY <3>1, <4>1, <4>2 DEF Result
      <4>4. QED
        BY <3>2, <4>3, NothingWritten
    <3>3. CASE r.writes \in BlockWrites
      <4>1. /\ DOMAIN r.writes = 1 .. 2
            /\ cut \in Seq(WriteSet) /\ Len(cut) = 2
            /\ \A i \in 1 .. 2 :
                    /\ cut[i].item = r.writes[i].item
                    /\ r.writes[i].value \notin WIDE \cup {Undecodable}
                            => cut[i].value = r.writes[i].value
                    /\ cut[i].value \in Values
                            => r.writes[i].value \notin {Refused, Malformed}
        BY <3>3, BlockCut
      <4> HIDE DEF cut
      <4>2. \A i \in 1 .. 2 : ~AckedBlindly(r, r.writes[i].value)
                                => cut[i].value = r.writes[i].value
        BY <1>2, <4>1 DEF AckedBlindly
      <4>3. r.service \in Partial
        BY <1>2 DEF Partial
      <4>4. IF Bad(cut) = {}
            THEN /\ Handled(r, bsTemp, st).answer \in Acked
                 /\ Handled(r, bsTemp, st).store = StoredAll(st, cut)
            ELSE /\ Handled(r, bsTemp, st).answer \notin Acked
                 /\ Handled(r, bsTemp, st).store =
                        StoredAll(st, SubSeq(cut, 1, FirstBad(cut) - 1))
        BY <3>1 DEF Result, Acked
      <4>5. QED
        BY <4>1, <4>2, <4>3, <4>4, TwoWritten
    <3>4. QED
      BY <1>2, <3>2, <3>3
  <2>5. QED
    BY <2>2, <2>3, <2>4
<1>4. CASE /\ r.service = "WriteProperty"
           /\ \E w \in WriteSet : r.writes = <<w>>
           /\ r.form = "good"
  <2>1. PICK w \in WriteSet : r.writes = <<w>>
    BY <1>4
  <2>2. DOMAIN r.writes = {1} /\ r.writes[1] = w
    BY <2>1
  <2>3. Handled(r, bsTemp, st) = handler_write_property(r, st)
    BY <1>4 DEF Handled
  <2>4. CASE r.segmented \/ w.value \in {Refused, Malformed}
    <3>1. Handled(r, bsTemp, st).store = st /\ Handled(r, bsTemp, st).answer \notin Acked
      BY <1>4, <2>2, <2>3, <2>4 DEF handler_write_property, Decoded, Result, Acked
    <3>2. QED
      BY <3>1, NotWritten
  <2>5. CASE ~r.segmented /\ w.value \notin {Refused, Malformed}
    <3>1. /\ Handled(r, bsTemp, st).store = Stored(st, w)
          /\ Handled(r, bsTemp, st).answer = "SimpleAck"
      BY <1>4, <2>2, <2>3, <2>5 DEF handler_write_property, Decoded, Result
    <3>2. w.value \in Values
      BY <2>5 DEF WriteSet, Received
    <3>3. StoreOK(Stored(st, w)) /\ Stored(st, w)[w.item] = w.value
      BY <3>2, OneItemStored
    <3>4. QED
      BY <2>2, <3>1, <3>3 DEF TrueAnswer, Acked
  <2>6. QED
    BY <2>4, <2>5
<1>5. CASE /\ r.service = "WritePropertyMultiple"
           /\ r.writes \in Seq(WriteSet) /\ Len(r.writes) = 2
  <2>1. Handled(r, bsTemp, st) = handler_write_property_multiple(r, st)
    BY <1>5 DEF Handled
  <2>2. CASE r.segmented
    <3>1. /\ Handled(r, bsTemp, st).store = st
          /\ \A value : AckedBlindly(r, value)
      BY <1>5, <2>1, <2>2 DEF handler_write_property_multiple, Result, AckedBlindly
    <3>2. QED
      BY <3>1, NotWritten
  <2>3. CASE ~r.segmented
    <3>1. Handled(r, bsTemp, st) = WritesUpToTheFirstBad(r.writes, st)
      BY <2>1, <2>3 DEF handler_write_property_multiple
    <3>2. DOMAIN r.writes = 1 .. 2
      BY <1>5, LenProperties
    <3>3. \A i \in 1 .. 2 :
            /\ r.writes[i].item = r.writes[i].item
            /\ ~AckedBlindly(r, r.writes[i].value)
                    => r.writes[i].value = r.writes[i].value
            /\ r.writes[i].value \in Values
                    => r.writes[i].value \notin {Refused, Malformed}
      OBVIOUS
    <3>4. IF Bad(r.writes) = {}
          THEN /\ Handled(r, bsTemp, st).answer \in Acked
               /\ Handled(r, bsTemp, st).store = StoredAll(st, r.writes)
          ELSE /\ Handled(r, bsTemp, st).answer \notin Acked
               /\ Handled(r, bsTemp, st).store =
                    StoredAll(st, SubSeq(r.writes, 1, FirstBad(r.writes) - 1))
      BY <3>1 DEF WritesUpToTheFirstBad, Result, Acked
    <3>5. r.service \in Partial
      BY <1>5 DEF Partial
    <3>6. QED
      BY <1>5, <3>2, <3>3, <3>4, <3>5, TwoWritten
  <2>4. QED
    BY <2>2, <2>3
<1>6. CASE /\ r.service = "AtomicWriteFile"
           /\ \E w \in WriteSet : w.value \in Values /\ r.writes = <<w>>
           /\ r.form \in {"good", "malformed", "object", "unknown",
                          "record", "unopened"}
  <2>1. PICK w \in WriteSet : w.value \in Values /\ r.writes = <<w>>
    BY <1>6
  <2>2. DOMAIN r.writes = {1} /\ r.writes[1] = w
    BY <2>1
  <2>3. Handled(r, bsTemp, st) = handler_atomic_write_file(r, st)
    BY <1>6 DEF Handled
  <2>4. CASE ~r.segmented /\ r.form = "good"
    <3>1. Handled(r, bsTemp, st) = Result("ComplexAck", Stored(st, w))
      BY <2>2, <2>3, <2>4 DEF handler_atomic_write_file, Decoded
    <3>2. StoreOK(Stored(st, w)) /\ Stored(st, w)[w.item] = w.value
      BY <2>1, OneItemStored
    <3>3. QED
      BY <2>2, <3>1, <3>2 DEF TrueAnswer, Acked, Result
  <2>5. CASE ~r.segmented /\ r.form = "unopened"
    <3>1. /\ Handled(r, bsTemp, st).store = st
          /\ \A value : AckedBlindly(r, value)
      BY <1>6, <2>3, <2>5 DEF handler_atomic_write_file, Decoded, Result,
         AckedBlindly
    <3>2. QED
      BY <3>1, NotWritten
  <2>6. CASE r.segmented \/ r.form \in {"malformed", "object", "unknown", "record"}
    <3>1. Handled(r, bsTemp, st).store = st /\ Handled(r, bsTemp, st).answer \notin Acked
      BY <2>3, <2>6 DEF handler_atomic_write_file, Decoded, Result, Acked
    <3>2. QED
      BY <3>1, NotWritten
  <2>7. QED
    BY <1>6, <2>4, <2>5, <2>6
<1>7. QED
  BY <1>1, <1>2, <1>4, <1>5, <1>6, RequestShapes

----------------------------------------------------------------------------
(* The store along a behaviour.                                            *)

StoreInv == StoreOK(store)

LEMMA StoreStep == StoreInv /\ [Next]_vars => StoreInv'
<1> SUFFICES ASSUME StoreInv, [Next]_vars
             PROVE  StoreInv'
  OBVIOUS
<1>1. ASSUME NEW r \in RemoteRequests, Service(r)
      PROVE  StoreInv'
  BY <1>1, EveryAnswerIsTrue DEF Service, StoreInv
<1>2. CASE UNCHANGED store
  BY <1>2 DEF StoreInv, StoreOK
<1>3. CASE \E r \in Orders : Order(r)
  BY <1>2, <1>3 DEF Order, handler_device_communication_control,
     handler_reinitialize_device, RefuseOrder
<1>4. CASE \/ Unconfirmed
           \/ SendUnconfirmed /\ UNCHANGED <<store, history>>
           \/ \E max_apdu \in MAX_APDUS, len \in LENGTHS :
                    SendRequest(max_apdu, len) /\ UNCHANGED <<store, history>>
           \/ TransactionTimer
           \/ CommunicationTimer
  BY <1>2, <1>4 DEF Unconfirmed, TransactionTimer, CommunicationTimer
<1>5. CASE \E pdu \in AnswerPDUs, service \in SimplyAcked \cup ComplexlyAcked,
              id \in 0 .. MAX_INVOKE_ID : Answer(pdu, service, id)
  BY <1>2, <1>5 DEF Answer
<1>6. CASE UNCHANGED vars
  BY <1>2, <1>6 DEF vars
<1>7. QED
  BY <1>1, <1>3, <1>4, <1>5, <1>6 DEF Next

LEMMA StoreInvariant == Spec => []StoreInv
<1>1. Init => StoreInv
  BY DEF Init, StoreInv, StoreOK
<1>2. QED
  BY <1>1, StoreStep, PTL DEF Spec

(* In every state that is reached, the answer to every request any device  *)
(* could send tells the truth of the store: an acknowledged request has    *)
(* stored what it wrote, a refused one nothing from its first bad value on.*)
THEOREM AnswersTellTheTruth == Spec => []AnswersAreTrue
<1>1. StoreInv => AnswersAreTrue
  BY EveryAnswerIsTrue DEF StoreInv, AnswersAreTrue, TrueAnswer
<1>2. QED
  BY <1>1, StoreInvariant, PTL

(* The table, communication control and the store keep their types: no     *)
(* request stores a value that its item refused or could not decode.       *)
THEOREM ApplicationTypes ==
    Spec => [](TSMTypeOK /\ DCCTypeOK /\ store \in [Items -> Values])
<1>1. SilenceInv => DCCTypeOK
  BY DEF SilenceInv
<1>2. TSMInv => TSMTypeOK
  BY DEF TSMInv, TSMTypeOK, TableOK
<1>3. StoreInv => store \in [Items -> Values]
  BY DEF StoreInv, StoreOK
<1>4. QED
  BY <1>1, <1>2, <1>3, TableInvariant, SilenceInvariant, StoreInvariant, PTL
=============================================================================
