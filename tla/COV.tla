-------------------------------- MODULE COV --------------------------------
(***************************************************************************)
(* Change-of-value subscriptions, src/h_cov.c, on top of the transaction   *)
(* table (TSM) and device communication control (DCC).                     *)
(*                                                                         *)
(* Remote clients subscribe, renew and cancel; the subscriber's address is *)
(* kept once in a second, smaller table that subscriptions point into.     *)
(* handler_cov_fsm does one table entry per call, in five phases: idle,    *)
(* MARK (the object changed: a notification is requested), CLEAR (the      *)
(* object's flag), FREE (confirmed notifications that are over) and SEND.  *)
(* Between two calls anything else of the program may run: an object       *)
(* changes, an answer arrives, a timer ticks, a client subscribes.         *)
(*                                                                         *)
(* An entry whose valid flag is false is NoSubscription or NoSource: the   *)
(* code never reads the other fields of such an entry.                     *)
(***************************************************************************)
EXTENDS TSM, DCC

CONSTANTS
    MAX_COV_SUBCRIPTIONS,   \* entries of COV_Subscriptions
    MAX_COV_ADDRESSES,      \* entries of COV_Addresses
    Objects,                \* monitored objects
    Processes,              \* subscriber process identifiers
    Sources,                \* network addresses of subscribers
    LIFETIMES,              \* requested lifetimes in seconds, 0: indefinite
    MINUTES,                \* requested limits of communication control
    SECONDS,                \* elapsed times of the second timers
    SEND_RESULTS,           \* whether datalink_send_pdu reports success
    NoSubscription, NoSource

Subs == 0 .. MAX_COV_SUBCRIPTIONS - 1
Addrs == 0 .. MAX_COV_ADDRESSES - 1

NO_INDEX == 255             \* (uint8_t) -1

Subscription ==
    [issueConfirmedNotifications : BOOLEAN,
     send_requested              : BOOLEAN,
     dest_index                  : Addrs \cup {NO_INDEX},
     invokeID                    : 0 .. MAX_INVOKE_ID,
     process                     : Processes,
     object                      : Objects,
     lifetime                    : Nat]

ASSUME COVConstants ==
    /\ MAX_COV_SUBCRIPTIONS \in Nat \ {0}
    /\ MAX_COV_SUBCRIPTIONS <= MAX_INVOKE_ID
    /\ MAX_COV_ADDRESSES \in 1 .. 255
    /\ LIFETIMES \subseteq Nat
    /\ MINUTES \subseteq Nat
    /\ SECONDS \subseteq Nat \ {0}
    /\ SEND_RESULTS \subseteq BOOLEAN
    /\ NoSubscription \notin Subscription
    /\ NoSource \notin Sources

VARIABLES
    COV_Subscriptions,
    COV_Addresses,
    cov_task_state,         \* phase of handler_cov_fsm
    index,                  \* entry handler_cov_fsm looks at next
    Change_Of_Value,        \* the objects whose change flag is set
    owed                    \* history: entries whose object has changed, or
                            \* that were (re)subscribed, since they were sent

covVars == <<COV_Subscriptions, COV_Addresses, cov_task_state, index,
             Change_Of_Value, owed>>
fsmVars == <<cov_task_state, index>>
vars == <<covVars, tsmVars, dccVars>>

Valid(i) == COV_Subscriptions[i] # NoSubscription

COVInit ==
    /\ TSMInit
    /\ DCCInit
    /\ COV_Subscriptions = [i \in Subs |-> NoSubscription]
    /\ COV_Addresses = [a \in Addrs |-> NoSource]
    /\ cov_task_state = "IDLE"
    /\ index = 0
    /\ Change_Of_Value = {}
    /\ owed = {}

----------------------------------------------------------------------------
(* The address list.                                                       *)

cov_address_get(a) == IF a \in Addrs THEN COV_Addresses[a] ELSE NoSource

AddressesOf(source) == {a \in Addrs : COV_Addresses[a] = source}

(* cov_address_add: where the address is, or goes; NO_INDEX if it is full. *)
AddressIndex(src) ==
    IF AddressesOf(src) # {} THEN Lowest(AddressesOf(src))
    ELSE IF AddressesOf(NoSource) # {} THEN Lowest(AddressesOf(NoSource))
    ELSE NO_INDEX

AddressesWith(src) ==
    [a \in Addrs |-> IF a = AddressIndex(src) THEN src ELSE COV_Addresses[a]]

(* Fault: nothing is removed.                                              *)
AddressesKept(subs) == COV_Addresses

(* cov_address_remove_unused, once the subscriptions are subs.             *)
AddressesUsedBy(subs) ==
    [a \in Addrs |->
        IF \E i \in Subs : subs[i] # NoSubscription /\ subs[i].dest_index = a
        THEN COV_Addresses[a] ELSE NoSource]

----------------------------------------------------------------------------
(* The SubscribeCOV service.                                               *)

(* Fault: the search for an existing entry starts at 1.                    *)
MatchingButFirst(src, object, process) ==
    {i \in Subs \ {0} :
        /\ Valid(i)
        /\ COV_Subscriptions[i].object = object
        /\ COV_Subscriptions[i].process = process
        /\ cov_address_get(COV_Subscriptions[i].dest_index) \in {src, NoSource}}

(* Entries that cov_list_subscribe takes for the requester's own.  One     *)
(* that has no address matches whoever asks.                               *)
Matching(src, object, process) ==
    {i \in Subs :
        /\ Valid(i)
        /\ COV_Subscriptions[i].object = object
        /\ COV_Subscriptions[i].process = process
        /\ cov_address_get(COV_Subscriptions[i].dest_index) \in {src, NoSource}}

InvalidSubs == {i \in Subs : ~Valid(i)}

(* What cov_list_subscribe returns, to a cancellation as well.             *)
SubscribeSucceeds(src, object, process) ==
    Matching(src, object, process) # {} \/ InvalidSubs # {}

(* tsm_free_invoke_id, called only for an id that is not 0.                *)
FreedIfAny(list, id) == IF id = 0 THEN list ELSE Freed(list, id)

NewSubscription(src, object, process, confirmed, lifetime) ==
    [issueConfirmedNotifications |-> confirmed, send_requested |-> TRUE,
     dest_index |-> AddressIndex(src), invokeID |-> 0,
     process |-> process, object |-> object, lifetime |-> lifetime]

Subscribe(src, object, process, confirmed, lifetime) ==
    LET matching == Matching(src, object, process)
        i == Lowest(IF matching # {} THEN matching ELSE InvalidSubs)
    IN  /\ ~ConfirmedRequestDropped("SubscribeCOV")
        /\ SubscribeSucceeds(src, object, process)
        /\ COV_Subscriptions' = [COV_Subscriptions EXCEPT
                ![i] = NewSubscription(src, object, process, confirmed, lifetime)]
        /\ COV_Addresses' = AddressesWith(src)
        /\ TSM_List' = IF matching # {}
                       THEN FreedIfAny(TSM_List, COV_Subscriptions[i].invokeID)
                       ELSE TSM_List
        /\ owed' = owed \cup {i}
        /\ UNCHANGED <<fsmVars, Change_Of_Value, Current_Invoke_ID, dccVars>>

Cancel(src, object, process) ==
    LET matching == Matching(src, object, process)
        i == Lowest(matching)
    IN  /\ ~ConfirmedRequestDropped("SubscribeCOV")
        /\ matching # {}
        /\ COV_Subscriptions' = [COV_Subscriptions EXCEPT ![i] = NoSubscription]
        /\ COV_Addresses' = AddressesUsedBy(COV_Subscriptions')
        /\ TSM_List' = FreedIfAny(TSM_List, COV_Subscriptions[i].invokeID)
        /\ owed' = owed \ {i}
        /\ UNCHANGED <<fsmVars, Change_Of_Value, Current_Invoke_ID, dccVars>>

----------------------------------------------------------------------------
(* Lifetimes.                                                              *)

TimeLeft(s, seconds) ==
    IF s.lifetime >= seconds THEN s.lifetime - seconds ELSE 0

Expiring(seconds) ==
    {i \in Subs : /\ Valid(i)
                  /\ COV_Subscriptions[i].lifetime # 0
                  /\ TimeLeft(COV_Subscriptions[i], seconds) = 0}

(* Fault: an expiring subscription leaves its transaction in the table.    *)
NothingToDrop(expired) == {}

(* The transactions of confirmed subscriptions that expire are dropped.    *)
IDsToDrop(expired) ==
    {COV_Subscriptions[i].invokeID :
        i \in {j \in expired :
                COV_Subscriptions[j].issueConfirmedNotifications}} \ {0}

handler_cov_timer_seconds(seconds) ==
    LET expired == Expiring(seconds)
        ids == IDsToDrop(expired)
    IN  /\ COV_Subscriptions' =
            [i \in Subs |->
                IF i \in expired THEN NoSubscription
                ELSE IF ~Valid(i) THEN NoSubscription
                ELSE [COV_Subscriptions[i] EXCEPT
                        !.lifetime = TimeLeft(COV_Subscriptions[i], seconds)]]
        /\ COV_Addresses' = IF expired = {} THEN COV_Addresses
                            ELSE AddressesUsedBy(COV_Subscriptions')
        /\ TSM_List' =
            [s \in Slots |->
                IF TSM_List[s].InvokeID \in ids
                THEN [TSM_List[s] EXCEPT !.state = "IDLE", !.InvokeID = 0]
                ELSE TSM_List[s]]
        /\ owed' = owed \ expired
        /\ UNCHANGED <<fsmVars, Change_Of_Value, Current_Invoke_ID, dccVars>>

----------------------------------------------------------------------------
(* handler_cov_fsm: one table entry per call.                              *)

(* The next entry; after the last one, the next phase.                     *)
Advance(phase) ==
    IF index + 1 >= MAX_COV_SUBCRIPTIONS
    THEN index' = 0 /\ cov_task_state' = phase
    ELSE index' = index + 1 /\ UNCHANGED cov_task_state

StartPass ==
    /\ cov_task_state = "IDLE"
    /\ index' = 0
    /\ cov_task_state' = "MARK"
    /\ UNCHANGED <<COV_Subscriptions, COV_Addresses, Change_Of_Value, owed,
                   tsmVars, dccVars>>

Mark ==
    LET s == COV_Subscriptions[index]
    IN  /\ cov_task_state = "MARK"
        /\ COV_Subscriptions' =
            IF Valid(index) /\ s.object \in Change_Of_Value
            THEN [COV_Subscriptions EXCEPT ![index].send_requested = TRUE]
            ELSE COV_Subscriptions
        /\ Advance("CLEAR")
        /\ UNCHANGED <<COV_Addresses, Change_Of_Value, owed, tsmVars, dccVars>>

(* Fault: the flag is cleared for entries that were not marked as well.    *)
ClearUnrequested ==
    LET s == COV_Subscriptions[index]
    IN  /\ cov_task_state = "CLEAR"
        /\ Change_Of_Value' =
            IF Valid(index) THEN Change_Of_Value \ {s.object} ELSE Change_Of_Value
        /\ Advance("FREE")
        /\ UNCHANGED <<COV_Subscriptions, COV_Addresses, owed, tsmVars, dccVars>>

Clear ==
    LET s == COV_Subscriptions[index]
    IN  /\ cov_task_state = "CLEAR"
        /\ Change_Of_Value' =
            IF Valid(index) /\ s.send_requested
            THEN Change_Of_Value \ {s.object}
            ELSE Change_Of_Value
        /\ Advance("FREE")
        /\ UNCHANGED <<COV_Subscriptions, COV_Addresses, owed, tsmVars, dccVars>>

(* Fault: a failed transaction is not freed.                               *)
FreeAnsweredOnly ==
    LET s == COV_Subscriptions[index]
        over == /\ Valid(index)
                /\ s.issueConfirmedNotifications
                /\ s.invokeID # 0
                /\ tsm_invoke_id_free(TSM_List, s.invokeID)
    IN  /\ cov_task_state = "FREE"
        /\ COV_Subscriptions' =
            IF over THEN [COV_Subscriptions EXCEPT ![index].invokeID = 0]
            ELSE COV_Subscriptions
        /\ Advance("SEND")
        /\ UNCHANGED <<COV_Addresses, Change_Of_Value, owed, tsmVars, dccVars>>

(* A confirmed notification is over when its id is free, or has failed:    *)
(* then the subscription frees it.                                         *)
Free ==
    LET s == COV_Subscriptions[index]
        confirmed == /\ Valid(index)
                     /\ s.issueConfirmedNotifications
                     /\ s.invokeID # 0
        failed == confirmed /\ tsm_invoke_id_failed(TSM_List, s.invokeID)
        over == confirmed /\ (tsm_invoke_id_free(TSM_List, s.invokeID) \/ failed)
    IN  /\ cov_task_state = "FREE"
        /\ TSM_List' = IF failed THEN Freed(TSM_List, s.invokeID) ELSE TSM_List
        /\ COV_Subscriptions' =
            IF over THEN [COV_Subscriptions EXCEPT ![index].invokeID = 0]
            ELSE COV_Subscriptions
        /\ Advance("SEND")
        /\ UNCHANGED <<COV_Addresses, Change_Of_Value, owed, Current_Invoke_ID,
                       dccVars>>

MaySend(s) ==
    s.issueConfirmedNotifications =>
        s.invokeID = 0 /\ tsm_transaction_available(TSM_List)

(* The guards of cov_send_request before anything is sent.                 *)
CanReach(s) ==
    /\ dcc_communication_enabled
    /\ cov_address_get(s.dest_index) # NoSource

Notifiable(i) ==
    /\ Valid(i)
    /\ COV_Subscriptions[i].send_requested
    /\ MaySend(COV_Subscriptions[i])
    /\ CanReach(COV_Subscriptions[i])

SendNothing ==
    /\ cov_task_state = "SEND"
    /\ ~Notifiable(index)
    /\ Advance("IDLE")
    /\ UNCHANGED <<COV_Subscriptions, COV_Addresses, Change_Of_Value, owed,
                   tsmVars, dccVars>>

(* sent is what the data link reports; a confirmed notification holds its  *)
(* transaction, and will be retransmitted, in either case.                 *)
SendNotification(sent) ==
    LET s == COV_Subscriptions[index]
        id == FirstUnusedID(TSM_List, Current_Invoke_ID)
    IN  /\ cov_task_state = "SEND"
        /\ Notifiable(index)
        /\ COV_Subscriptions' = [COV_Subscriptions EXCEPT
                ![index].send_requested = ~sent,
                ![index].invokeID =
                    IF s.issueConfirmedNotifications THEN id ELSE @]
        /\ IF s.issueConfirmedNotifications
           THEN SendConfirmed
           ELSE UNCHANGED tsmVars
        /\ owed' = IF sent THEN owed \ {index} ELSE owed
        /\ Advance("IDLE")
        /\ UNCHANGED <<COV_Addresses, Change_Of_Value, dccVars>>

handler_cov_fsm ==
    \/ StartPass \/ Mark \/ Clear \/ Free \/ SendNothing
    \/ \E sent \in SEND_RESULTS : SendNotification(sent)

----------------------------------------------------------------------------
(* The rest of the program, as far as it touches this state.               *)

(* Binary_Input_Present_Value_Set, Binary_Input_Out_Of_Service_Set.        *)
ObjectChanges(object) ==
    /\ Change_Of_Value' = Change_Of_Value \cup {object}
    /\ owed' = owed \cup
            {i \in Subs : Valid(i) /\ COV_Subscriptions[i].object = object}
    /\ UNCHANGED <<COV_Subscriptions, COV_Addresses, fsmVars, tsmVars, dccVars>>

(* apdu_handler on an acknowledgement, error, reject or abort.             *)
AnswerArrives(id) == tsm_free_invoke_id(id) /\ UNCHANGED <<covVars, dccVars>>

TransactionTimer ==
    /\ \E ms \in TICKS : tsm_timer_milliseconds(ms)
    /\ UNCHANGED <<covVars, dccVars>>

DeviceCommunicationControl(status, minutes) ==
    /\ dcc_set_status_duration(status, minutes)
    /\ UNCHANGED <<covVars, tsmVars>>

CommunicationTimer ==
    /\ \E seconds \in SECONDS : dcc_timer_seconds(seconds)
    /\ UNCHANGED <<covVars, tsmVars>>

COVNext ==
    \/ handler_cov_fsm
    \/ \E src \in Sources, object \in Objects, process \in Processes :
        \/ \E confirmed \in BOOLEAN, lifetime \in LIFETIMES :
                Subscribe(src, object, process, confirmed, lifetime)
        \/ Cancel(src, object, process)
    \/ \E seconds \in SECONDS : handler_cov_timer_seconds(seconds)
    \/ \E object \in Objects : ObjectChanges(object)
    \/ \E id \in InvokeIDs : AnswerArrives(id)
    \/ TransactionTimer
    \/ \E status \in Statuses, minutes \in MINUTES :
            DeviceCommunicationControl(status, minutes)
    \/ CommunicationTimer

COVSpec == COVInit /\ [][COVNext]_vars

(* The main loop keeps calling the task and the timers; clients, objects   *)
(* and answers owe nothing.                                                *)
COVFairSpec ==
    /\ COVSpec
    /\ WF_vars(handler_cov_fsm)
    /\ WF_vars(TransactionTimer)
    /\ WF_vars(CommunicationTimer)

----------------------------------------------------------------------------
(* Properties.                                                             *)

COVTypeOK ==
    /\ TSMTypeOK
    /\ DCCTypeOK
    /\ COV_Subscriptions \in [Subs -> Subscription \cup {NoSubscription}]
    /\ COV_Addresses \in [Addrs -> Sources \cup {NoSource}]
    /\ cov_task_state \in {"IDLE", "MARK", "CLEAR", "FREE", "SEND"}
    /\ index \in Subs
    /\ Change_Of_Value \subseteq Objects
    /\ owed \subseteq {i \in Subs : Valid(i)}

(* An address stays listed exactly as long as a subscription points at it, *)
(* and is listed once: cov_address_remove_unused, called on each way a     *)
(* subscription ends, neither leaks an entry nor takes one that is needed. *)
AddressesMatchSubscriptions ==
    /\ \A a \in Addrs :
        COV_Addresses[a] # NoSource <=>
            \E i \in Subs : Valid(i) /\ COV_Subscriptions[i].dest_index = a
    /\ \A a, b \in Addrs :
        COV_Addresses[a] = COV_Addresses[b] /\ COV_Addresses[a] # NoSource
            => a = b

(* Every transaction in the table belongs to a live confirmed subscription *)
(* that will free it: no cancellation, renewal, expiry, answer or timeout  *)
(* leaves a slot that nobody frees.                                        *)
NoTransactionLeak ==
    \A s \in Slots :
        TSM_List[s].InvokeID # 0 =>
            \E i \in Subs :
                /\ Valid(i)
                /\ COV_Subscriptions[i].issueConfirmedNotifications
                /\ COV_Subscriptions[i].invokeID = TSM_List[s].InvokeID

(* No two subscriptions hold the same invoke id, even when one of them     *)
(* has not yet noticed that its transaction is over: otherwise one would   *)
(* wait for, or free, the other's notification.                            *)
InvokeIDsNotShared ==
    \A i, j \in Subs :
        /\ Valid(i) /\ Valid(j)
        /\ COV_Subscriptions[i].invokeID # 0
        /\ COV_Subscriptions[i].invokeID = COV_Subscriptions[j].invokeID
        => i = j

(* A client has one subscription per object and process: a repeated        *)
(* request renews it ("existing? - match Object ID and Process ID and      *)
(* address", h_cov.c).                                                     *)
NoDuplicateSubscription ==
    \A i, j \in Subs :
        /\ Valid(i) /\ Valid(j)
        /\ COV_Subscriptions[i].object = COV_Subscriptions[j].object
        /\ COV_Subscriptions[i].process = COV_Subscriptions[j].process
        /\ cov_address_get(COV_Subscriptions[i].dest_index) =
                cov_address_get(COV_Subscriptions[j].dest_index)
        => i = j

(* A subscription that is owed a notification will get it: it is requested *)
(* already, or the object's flag still says that it must be ("mark any     *)
(* subscriptions where the value has changed", handler_cov_fsm).           *)
NoLostNotification ==
    \A i \in owed :
        \/ COV_Subscriptions[i].send_requested
        \/ COV_Subscriptions[i].object \in Change_Of_Value

(* "When network communications are completely disabled [...] no messages  *)
(* shall be initiated" (dcc.c): nothing is retransmitted meanwhile.        *)
SilentWhileDisabled ==
    [][(\E s \in Slots : TSM_List'[s].RetryCount > TSM_List[s].RetryCount)
            => ~dcc_communication_disabled]_vars

(* While communication stays enabled, what is owed to a subscription is    *)
(* sent, unless the subscription ends first.                               *)
OwedIsSent ==
    <>[]dcc_communication_enabled =>
        \A i \in Subs : (i \in owed) ~> (i \notin owed)
=============================================================================
