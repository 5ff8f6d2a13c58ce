------------------------------- MODULE Alarms -------------------------------
(***************************************************************************)
(* Analog Input and Analog Value with intrinsic reporting, and the         *)
(* notification class their alarms go through (ai.c, av.c, nc.c, built     *)
(* with INTRINSIC_REPORTING).  Moments are counted in seconds; of a date   *)
(* and a time only the weekday and the moment of the day matter.           *)
(***************************************************************************)
EXTENDS Points, SequencesExt

CONSTANTS
    DAY,                    \* seconds of a day
    NC_MAX_RECIPIENTS       \* 10

ASSUME AlarmsConstants ==
    /\ DAY \in Nat \ {0}
    /\ NC_MAX_RECIPIENTS \in Nat \ {0}

Transitions == <<"TO_OFFNORMAL", "TO_FAULT", "TO_NORMAL">>
TransitionOf(eventState) ==
    CASE eventState = "NORMAL" -> "TO_NORMAL"
      [] eventState = "FAULT" -> "TO_FAULT"
      [] OTHER -> "TO_OFFNORMAL"
Never == 0                  \* the time stamp of a transition that never was

Moment(t) == <<"DATETIME", t>>

----------------------------------------------------------------------------
(* Notification class: who hears of which transition, and whether it has   *)
(* to be acknowledged.  A destination is the seven items of its list.      *)

Notification_Class_Property_Lists ==
    Base \cup {"NOTIFICATION_CLASS", "PRIORITY", "ACK_REQUIRED",
               "RECIPIENT_LIST", "DESCRIPTION"}

Notification_Class_Init ==
    [Priority |-> [t \in 1 .. 3 |-> Unsigned(255)], Ack_Required |-> {},
     Recipient_List |-> <<>>, Wanted |-> {}]

(* A list is one answer that holds all its items.                          *)
Notification_Class_Read_Property(o, p, index) ==
    IF p = "RECIPIENT_LIST" /\ index = BACNET_ARRAY_ALL
    THEN Answer(FlattenSeq(o.Recipient_List))
    ELSE Reading(Fixed(Base \cup {"DESCRIPTION", "NOTIFICATION_CLASS", "RECIPIENT_LIST"})
                 ++ [ACK_REQUIRED |-> Bits(o.Ack_Required)],
            [PRIORITY |-> o.Priority], p, index)

ItemTags == <<{"BIT_STRING"}, {"TIME"}, {"TIME"}, {"DEVICE", "ADDRESS"},
              {"UNSIGNED_INT"}, {"BOOLEAN"}, {"BIT_STRING"}>>

(* A bit string with another number of bits than its property has.         *)
WrongSize(v) == Tag(v) = "BIT_STRING" /\ "WRONG_SIZE" \in Content(v)

(* What the decoding of a list comes to: all of it is looked at, as far as *)
(* there is room.  What lies in memory behind the data of a request is     *)
(* taken not to continue a list that ends too early.                       *)
RecipientsReply(items) ==
    LET Place(n) == ((n - 1) % 7) + 1
        bad == {n \in DOMAIN items :
                    Tag(items[n]) \notin ItemTags[Place(n)] \/ WrongSize(items[n])}
        first == CHOOSE n \in bad : \A m \in bad : n <= m
        filled == 7 * NC_MAX_RECIPIENTS
    IN  IF bad # {} /\ first <= filled
        THEN IF Tag(items[first]) \in ItemTags[Place(first)] THEN "OTHER"
             ELSE "INVALID_DATA_TYPE"
        ELSE IF Len(items) >= filled THEN "NO_SPACE_TO_WRITE_PROPERTY"
        ELSE IF Len(items) % 7 # 0 THEN "INVALID_DATA_TYPE"
        ELSE "ack"

Recipients(items) ==
    [d \in 1 .. (Len(items) \div 7) |-> SubSeq(items, 7 * d - 6, 7 * d)]

Destined(o, list) ==
    [o EXCEPT !.Recipient_List = list,
              !.Wanted = @ \cup {Content(list[d][4]) :
                            d \in {e \in DOMAIN list : Tag(list[e][4]) = "DEVICE"}}]

(* The list is decoded into a copy, which must be valid to its end.        *)
WriteRecipients(o, items) ==
    Check(o, RecipientsReply(items) = "ack", RecipientsReply(items),
          Destined(o, Recipients(items)))

(* A priority for the whole array, and a bit string of another size, are   *)
(* acknowledged and forgotten; so is an index that the array has not.      *)
Notification_Class_Write_Property(o, w) ==
    LET v == w.values[1]
    IN  Writing(o, w, {"PRIORITY"},
            [PRIORITY |->
                WPValidateArgType(o, v, "UNSIGNED_INT",
                    Accept(IF w.index \in 1 .. 3
                           THEN [o EXCEPT !.Priority[w.index] = Unsigned(Content(v) % Octet)]
                           ELSE o)),
             ACK_REQUIRED |->
                WPValidateArgType(o, v, "BIT_STRING",
                    Accept(IF WrongSize(v) THEN o
                           ELSE [o EXCEPT !.Ack_Required = Content(v)])),
             RECIPIENT_LIST |->
                WriteRecipients(o, IF Tag(v) = "EMPTY" THEN <<>> ELSE w.values)],
            {})

Weekdays == <<"MONDAY", "TUESDAY", "WEDNESDAY", "THURSDAY", "FRIDAY", "SATURDAY", "SUNDAY">>

IsRecipientActive(destination, eventToState, now) ==
    /\ TransitionOf(eventToState) \in Content(destination[7])
    /\ Weekdays[((now \div DAY) % 7) + 1] \in Content(destination[1])
    /\ Content(destination[2]) <= now % DAY
    /\ now % DAY <= Content(destination[3])

(* What each recipient is sent: the client services follow in Client.  An  *)
(* address is notified without confirmation; whether a confirmation for it *)
(* goes anywhere depends on memory that is never set.                      *)
Sent(destination, bound) ==
    LET to == destination[4]
    IN  IF Content(destination[6])
        THEN IF Tag(to) = "DEVICE" THEN <<<<"CONFIRMED", to>>>> ELSE <<>>
        ELSE IF Tag(to) = "DEVICE" /\ Content(to) \notin bound THEN <<>>
        ELSE <<<<"UNCONFIRMED", to>>>>

Notification_Class_common_reporting_function(nc, toState, now, bound) ==
    [ackRequired |-> TransitionOf(toState) \in nc.Ack_Required,
     sent |-> FlattenSeq(
                [d \in DOMAIN nc.Recipient_List |->
                    IF IsRecipientActive(nc.Recipient_List[d], toState, now)
                    THEN Sent(nc.Recipient_List[d], bound) ELSE <<>>])]

(* Every device of a list that has no address is asked for, once more.     *)
Notification_Class_find_recipient(nc, bound) ==
    {Content(nc.Recipient_List[d][4]) :
        d \in {e \in DOMAIN nc.Recipient_List :
                  Tag(nc.Recipient_List[e][4]) = "DEVICE"}} \ bound

----------------------------------------------------------------------------
(* What Analog Input and Analog Value share.                               *)

Reported == {"TIME_DELAY", "NOTIFICATION_CLASS", "HIGH_LIMIT", "LOW_LIMIT",
             "DEADBAND", "LIMIT_ENABLE", "EVENT_ENABLE", "ACKED_TRANSITIONS",
             "NOTIFY_TYPE", "EVENT_TIME_STAMPS"}

BACNET_MAX_INSTANCE == 4194303         \* no notification class has this number

Quiet ==
    [Event_State |-> "NORMAL", Time_Delay |-> 0, Remaining_Time_Delay |-> 0,
     Notification_Class |-> BACNET_MAX_INSTANCE, High_Limit |-> 0, Low_Limit |-> 0, Deadband |-> 0,
     Limit_Enable |-> {}, Event_Enable |-> {}, Notify_Type |-> 0,
     Event_Time_Stamps |-> [t \in ToSet(Transitions) |-> Never],
     Acked_Transitions |->
        [t \in ToSet(Transitions) |-> [bIsAcked |-> TRUE, Time_Stamp |-> Never]],
     bSendAckNotify |-> FALSE]

AckedTransitions(o) ==
    {t \in ToSet(Transitions) : o.Acked_Transitions[t].bIsAcked}

ReadReported(o) ==
    Status(o.Event_State # "NORMAL", o.Out_Of_Service)
    ++ [EVENT_STATE |-> Enumerated(o.Event_State),
        TIME_DELAY |-> Unsigned(o.Time_Delay),
        NOTIFICATION_CLASS |-> Unsigned(o.Notification_Class),
        HIGH_LIMIT |-> Real(o.High_Limit), LOW_LIMIT |-> Real(o.Low_Limit),
        DEADBAND |-> Real(o.Deadband),
        LIMIT_ENABLE |-> Bits(o.Limit_Enable), EVENT_ENABLE |-> Bits(o.Event_Enable),
        ACKED_TRANSITIONS |-> Bits(AckedTransitions(o)),
        NOTIFY_TYPE |-> Enumerated(o.Notify_Type)]

Stamps(o) == [n \in 1 .. 3 |-> Moment(o.Event_Time_Stamps[Transitions[n]])]

(* Element i is looked up one place too far; what is behind the last one   *)
(* is another field of the object.                                         *)
StampBehind(o, index) ==
    Answer(<<IF index < 3 THEN Stamps(o)[index + 1] ELSE <<"BEHIND">> >>)

WriteReported(o, v) ==
    LET As(tag, new) == WPValidateArgType(o, v, tag, Accept(new))
        BitsOf(new) ==
            WPValidateArgType(o, v, "BIT_STRING",
                Check(o, ~WrongSize(v), "VALUE_OUT_OF_RANGE", new))
    IN  [TIME_DELAY |-> As("UNSIGNED_INT",
            [o EXCEPT !.Time_Delay = Content(v), !.Remaining_Time_Delay = Content(v)]),
         NOTIFICATION_CLASS |-> As("UNSIGNED_INT",
            [o EXCEPT !.Notification_Class = Content(v)]),
         HIGH_LIMIT |-> As("REAL", [o EXCEPT !.High_Limit = Content(v)]),
         LOW_LIMIT |-> As("REAL", [o EXCEPT !.Low_Limit = Content(v)]),
         DEADBAND |-> As("REAL", [o EXCEPT !.Deadband = Content(v)]),
         LIMIT_ENABLE |-> BitsOf([o EXCEPT !.Limit_Enable = Content(v)]),
         EVENT_ENABLE |-> BitsOf([o EXCEPT !.Event_Enable = Content(v)]),
         NOTIFY_TYPE |-> WPValidateArgType(o, v, "ENUMERATED",
            Check(o, v \in {Enumerated(0), Enumerated(1)}, "VALUE_OUT_OF_RANGE",
                  [o EXCEPT !.Notify_Type = Content(v)]))]

(* The event state that the value asks for, where it is allowed to.        *)
Demanded(o, value) ==
    LET May(limit, transition) ==
            limit \in o.Limit_Enable /\ transition \in o.Event_Enable
    IN  CASE o.Event_State = "NORMAL" ->
                IF value > o.High_Limit /\ May("HIGH", "TO_OFFNORMAL") THEN "HIGH_LIMIT"
                ELSE IF value < o.Low_Limit /\ May("LOW", "TO_OFFNORMAL") THEN "LOW_LIMIT"
                ELSE "NORMAL"
          [] o.Event_State = "HIGH_LIMIT" ->
                IF value < o.High_Limit - o.Deadband /\ May("HIGH", "TO_NORMAL")
                THEN "NORMAL" ELSE "HIGH_LIMIT"
          [] o.Event_State = "LOW_LIMIT" ->
                IF value > o.Low_Limit + o.Deadband /\ May("LOW", "TO_NORMAL")
                THEN "NORMAL" ELSE "LOW_LIMIT"

(* A change of state takes a countdown; after it the countdown is spent    *)
(* until the value is asked for again and demands nothing.                 *)
Counted(o, value) ==
    LET to == Demanded(o, value)
    IN  IF to = o.Event_State THEN [o EXCEPT !.Remaining_Time_Delay = o.Time_Delay]
        ELSE IF o.Remaining_Time_Delay = 0 THEN [o EXCEPT !.Event_State = to]
        ELSE [o EXCEPT !.Remaining_Time_Delay = @ - 1]

(* Fault: the acknowledgement is given a stamp of its own.                 *)
StampedLater(o, t, now, unacked) ==
    IF unacked
    THEN [o EXCEPT !.Acked_Transitions[t] = [bIsAcked |-> FALSE, Time_Stamp |-> now + 1],
                   !.Event_Time_Stamps[t] = now]
    ELSE [o EXCEPT !.Event_Time_Stamps[t] = now]

Stamped(o, t, now, unacked) ==
    IF unacked
    THEN [o EXCEPT !.Acked_Transitions[t] = [bIsAcked |-> FALSE, Time_Stamp |-> now],
                   !.Event_Time_Stamps[t] = now]
    ELSE [o EXCEPT !.Event_Time_Stamps[t] = now]

(* One second of intrinsic reporting.  An acknowledgement is announced     *)
(* first, with the state the object has by then.  A transition is stamped, *)
(* reported, and marked as unacknowledged where the class requires that;   *)
(* without a class nothing sets the requirement that is looked at.         *)
Intrinsic_Reporting(o, value, classes, now, bound, garbage) ==
    LET new == Counted(o, value)
        t == TransitionOf(new.Event_State)
        Report(toState) ==
            IF o.Notification_Class \in DOMAIN classes
            THEN Notification_Class_common_reporting_function(
                    classes[o.Notification_Class], toState, now, bound)
            ELSE [ackRequired |-> garbage, sent |-> <<>>]
    IN  IF o.Limit_Enable = {} THEN [object |-> o, sent |-> <<>>]
        ELSE IF o.bSendAckNotify
        THEN [object |-> [o EXCEPT !.bSendAckNotify = FALSE],
              sent |-> Report(o.Event_State).sent]
        ELSE IF new.Event_State = o.Event_State THEN [object |-> new, sent |-> <<>>]
        ELSE [object |-> Stamped(new, t, now, Report(new.Event_State).ackRequired),
              sent |-> Report(new.Event_State).sent]

----------------------------------------------------------------------------
(* What is asked about alarms.                                             *)

Event_Information(o) ==
    IF o.Event_State = "NORMAL" /\ AckedTransitions(o) = ToSet(Transitions) THEN <<>>
    ELSE <<[eventState |-> o.Event_State, acknowledgedTransitions |-> AckedTransitions(o),
            eventTimeStamps |-> o.Event_Time_Stamps, notifyType |-> o.Notify_Type,
            eventEnable |-> o.Event_Enable]>>

Alarm_Summary(o) ==
    IF o.Event_State = "NORMAL" \/ o.Notify_Type # 0 THEN <<>>
    ELSE <<[alarmState |-> o.Event_State, acknowledgedTransitions |-> AckedTransitions(o)]>>

(* An acknowledgement a names the state it is for and when that began.     *)
(* "looked" is the transition whose acknowledgement is looked at.          *)
Acknowledge(o, a, looked) ==
    LET t == TransitionOf(a.eventStateAcked)
    IN  IF o.Acked_Transitions[looked].bIsAcked THEN Refuse(o, "INVALID_EVENT_STATE")
        ELSE IF Tag(a.timeStamp) # "DATETIME" THEN Refuse(o, "INVALID_TIME_STAMP")
        ELSE IF o.Acked_Transitions[looked].Time_Stamp > Content(a.timeStamp)
        THEN Refuse(o, "INVALID_TIME_STAMP")
        ELSE Accept([o EXCEPT !.Acked_Transitions[t].bIsAcked = TRUE,
                              !.bSendAckNotify = TRUE])

Analog_Input_Alarm_Ack(o, a) == Acknowledge(o, a, TransitionOf(a.eventStateAcked))

(* For a fault the return to normal is looked at, and the other way round. *)
Analog_Value_Alarm_Ack(o, a) ==
    Acknowledge(o, a, CASE a.eventStateAcked = "FAULT" -> "TO_NORMAL"
                        [] a.eventStateAcked = "NORMAL" -> "TO_FAULT"
                        [] OTHER -> "TO_OFFNORMAL")

----------------------------------------------------------------------------
(* Analog Input: the value is measured, whatever has been written.  The    *)
(* units are kept in one octet; those of an analog value in two.  Changes  *)
(* of the written value set a flag; device.c does not name the functions   *)
(* that read it, so that nobody is told.                                   *)

Analog_Input_Property_Lists ==
    Common \cup Reported \cup {"UNITS", "DESCRIPTION", "RELIABILITY", "COV_INCREMENT"}

Analog_Input_Init ==
    Quiet ++ [Measured |-> 0, Present_Value |-> 0, Prior_Value |-> 0,
              COV_Increment |-> 2, Changed |-> FALSE, Out_Of_Service |-> FALSE,
              Units |-> Enumerated(0)]

Analog_Input_Present_Value(o) == o.Measured

Distance(a, b) == IF a > b THEN a - b ELSE b - a

Analog_Input_COV_Detect(o, value) ==
    IF Distance(o.Prior_Value, value) >= o.COV_Increment
    THEN [o EXCEPT !.Changed = TRUE, !.Prior_Value = value] ELSE o

Analog_Input_COV_Increment_Set(o, increment) ==
    Analog_Input_COV_Detect([o EXCEPT !.COV_Increment = increment], o.Present_Value)

Analog_Input_Present_Value_Set(o, value) ==
    [Analog_Input_COV_Detect(o, value) EXCEPT !.Present_Value = value]

Analog_Input_Out_Of_Service_Set(o, value) ==
    [o EXCEPT !.Changed = @ \/ value # o.Out_Of_Service, !.Out_Of_Service = value]

Analog_Input_Read_Property(o, p, index) ==
    IF p = "EVENT_TIME_STAMPS" /\ index \in 1 .. 3 THEN StampBehind(o, index)
    ELSE Reading(Fixed(Base \cup {"DESCRIPTION", "RELIABILITY", "9997", "9998", "9999"})
                 ++ ReadReported(o)
                 ++ [PRESENT_VALUE |-> Real(Analog_Input_Present_Value(o)),
                     UNITS |-> o.Units, COV_INCREMENT |-> Real(o.COV_Increment)],
            [EVENT_TIME_STAMPS |-> Stamps(o)], p, index)

Analog_Input_Write_Property(o, w) ==
    LET v == w.values[1]
    IN  Writing(o, w, {"EVENT_TIME_STAMPS"},
            WriteReported(o, v)
            ++ [PRESENT_VALUE |->
                    WPValidateArgType(o, v, "REAL",
                        Check(o, o.Out_Of_Service, "WRITE_ACCESS_DENIED",
                              Analog_Input_Present_Value_Set(o, Content(v)))),
                OUT_OF_SERVICE |->
                    WPValidateArgType(o, v, "BOOLEAN",
                        Accept(Analog_Input_Out_Of_Service_Set(o, Content(v)))),
                UNITS |->
                    WPValidateArgType(o, v, "ENUMERATED",
                        Accept([o EXCEPT !.Units = Enumerated(Content(v) % Octet)])),
                COV_INCREMENT |->
                    WPValidateArgType(o, v, "REAL",
                        Check(o, Content(v) >= 0, "VALUE_OUT_OF_RANGE",
                              Analog_Input_COV_Increment_Set(o, Content(v))))],
            Base \cup {"STATUS_FLAGS", "EVENT_STATE", "DESCRIPTION", "RELIABILITY",
                       "ACKED_TRANSITIONS", "EVENT_TIME_STAMPS", "9997", "9998", "9999"})

Analog_Input_Intrinsic_Reporting(o, classes, now, bound, garbage) ==
    Intrinsic_Reporting(o, Analog_Input_Present_Value(o), classes, now, bound, garbage)

----------------------------------------------------------------------------
(* Analog Value: no priorities, any of them sets the value.                *)

Analog_Value_Property_Lists == Common \cup Reported \cup {"UNITS", "DESCRIPTION"}

Analog_Value_Init ==
    Quiet ++ [Present_Value |-> 0, Out_Of_Service |-> FALSE, Units |-> Enumerated(0)]

Analog_Value_Read_Property(o, p, index) ==
    IF p = "EVENT_TIME_STAMPS" /\ index \in 1 .. 3 THEN StampBehind(o, index)
    ELSE Reading(Fixed(Base \cup {"DESCRIPTION"})
                 ++ ReadReported(o)
                 ++ [PRESENT_VALUE |-> Real(o.Present_Value), UNITS |-> o.Units],
            [EVENT_TIME_STAMPS |-> Stamps(o)], p, index)

Analog_Value_Write_Property(o, w) ==
    LET v == w.values[1]
    IN  Writing(o, w, {"PRIORITY_ARRAY", "EVENT_TIME_STAMPS"},
            WriteReported(o, v)
            ++ [PRESENT_VALUE |->
                    IF Tag(v) = "REAL"
                    THEN Accept([o EXCEPT !.Present_Value = Content(v)])
                    ELSE Refuse(o, "VALUE_OUT_OF_RANGE"),
                OUT_OF_SERVICE |-> WriteOutOfService(o, v),
                UNITS |->
                    WPValidateArgType(o, v, "ENUMERATED",
                        Accept([o EXCEPT !.Units = Enumerated(Content(v) % Word)]))],
            Base \cup {"STATUS_FLAGS", "EVENT_STATE", "DESCRIPTION",
                       "ACKED_TRANSITIONS", "EVENT_TIME_STAMPS"})

Analog_Value_Intrinsic_Reporting(o, classes, now, bound, garbage) ==
    Intrinsic_Reporting(o, o.Present_Value, classes, now, bound, garbage)
=============================================================================
