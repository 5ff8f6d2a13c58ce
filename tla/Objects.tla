------------------------------- MODULE Objects -------------------------------
(***************************************************************************)
(* A device with objects of demo/object: clients read, write and           *)
(* acknowledge, an input changes, and once in a while the timers of the    *)
(* objects run.  The objects of one behaviour are those that act on each   *)
(* other.  device.c finds the object of a request and calls the functions  *)
(* of its type; requests to a property that the object does not know, and  *)
(* to one that is the same everywhere, are left to the properties below.   *)
(***************************************************************************)
EXTENDS Alarms, Controls, DeviceObject, FiniteSetsExt

CONSTANTS
    Groups,         \* sets of objects that are looked at together
    MAX_REQUESTS,   \* bound: writes and acknowledgements in a behaviour
    MAX_NOW         \* bound: how often the timers run

VARIABLES
    device,         \* the objects, by their type
    now,            \* the time, in the unit of the objects that use it
    announced,      \* what the last run of the timers has sent
    requests        \* writes and acknowledgements so far

vars == <<device, now, announced, requests>>

Kinds == {"ANALOG_INPUT", "ANALOG_OUTPUT", "ANALOG_VALUE", "BINARY_INPUT",
          "BINARY_OUTPUT", "BINARY_VALUE", "CHARACTERSTRING_VALUE", "DEVICE", "FILE",
          "LIFE_SAFETY_POINT", "LIGHTING_OUTPUT", "LOAD_CONTROL", "MULTI_STATE_INPUT",
          "MULTI_STATE_OUTPUT", "MULTI_STATE_VALUE", "NOTIFICATION_CLASS",
          "OCTETSTRING_VALUE", "POSITIVE_INTEGER_VALUE", "SCHEDULE"}

ASSUME ObjectsConstants ==
    /\ \A g \in Groups : g # {} /\ g \subseteq Kinds /\ IsFiniteSet(g)
    /\ MAX_REQUESTS \in Nat /\ MAX_NOW \in Nat

----------------------------------------------------------------------------
(* Object_Table: the functions of every type.                              *)

Object_Init(k) ==
    CASE k = "ANALOG_INPUT" -> Analog_Input_Init
      [] k = "ANALOG_OUTPUT" -> Analog_Output_Init
      [] k = "ANALOG_VALUE" -> Analog_Value_Init
      [] k = "BINARY_INPUT" -> Binary_Input_Init
      [] k = "BINARY_OUTPUT" -> Binary_Output_Init
      [] k = "BINARY_VALUE" -> Binary_Value_Init
      [] k = "CHARACTERSTRING_VALUE" -> CharacterString_Value_Init
      [] k = "DEVICE" -> Device_Init
      [] k = "FILE" -> BACfile_Init
      [] k = "LIFE_SAFETY_POINT" -> Life_Safety_Point_Init
      [] k = "LIGHTING_OUTPUT" -> Lighting_Output_Init
      [] k = "LOAD_CONTROL" -> Load_Control_Init
      [] k = "MULTI_STATE_INPUT" -> Multistate_Input_Init
      [] k = "MULTI_STATE_OUTPUT" -> Multistate_Output_Init
      [] k = "MULTI_STATE_VALUE" -> Multistate_Value_Init
      [] k = "NOTIFICATION_CLASS" -> Notification_Class_Init
      [] k = "OCTETSTRING_VALUE" -> OctetString_Value_Init
      [] k = "POSITIVE_INTEGER_VALUE" -> PositiveInteger_Value_Init
      [] k = "SCHEDULE" -> Schedule_Init

Device_Objects_Property_List(k) ==
    CASE k = "ANALOG_INPUT" -> Analog_Input_Property_Lists
      [] k = "ANALOG_OUTPUT" -> Analog_Output_Property_Lists
      [] k = "ANALOG_VALUE" -> Analog_Value_Property_Lists
      [] k = "BINARY_INPUT" -> Binary_Input_Property_Lists
      [] k = "BINARY_OUTPUT" -> Binary_Output_Property_Lists
      [] k = "BINARY_VALUE" -> Binary_Value_Property_Lists
      [] k = "CHARACTERSTRING_VALUE" -> CharacterString_Value_Property_Lists
      [] k = "DEVICE" -> Device_Properties
      [] k = "FILE" -> BACfile_Property_Lists
      [] k = "LIFE_SAFETY_POINT" -> Life_Safety_Point_Property_Lists
      [] k = "LIGHTING_OUTPUT" -> Lighting_Output_Property_Lists
      [] k = "LOAD_CONTROL" -> Load_Control_Property_Lists
      [] k = "MULTI_STATE_INPUT" -> Multistate_Input_Property_Lists
      [] k = "MULTI_STATE_OUTPUT" -> Multistate_Output_Property_Lists
      [] k = "MULTI_STATE_VALUE" -> Multistate_Value_Property_Lists
      [] k = "NOTIFICATION_CLASS" -> Notification_Class_Property_Lists
      [] k = "OCTETSTRING_VALUE" -> OctetString_Value_Property_Lists
      [] k = "POSITIVE_INTEGER_VALUE" -> PositiveInteger_Value_Property_Lists
      [] k = "SCHEDULE" -> Schedule_Property_Lists

Device_Read_Property(k, o, p, i) ==
    CASE k = "ANALOG_INPUT" -> Analog_Input_Read_Property(o, p, i)
      [] k = "ANALOG_OUTPUT" -> Analog_Output_Read_Property(o, p, i)
      [] k = "ANALOG_VALUE" -> Analog_Value_Read_Property(o, p, i)
      [] k = "BINARY_INPUT" -> Binary_Input_Read_Property(o, p, i)
      [] k = "BINARY_OUTPUT" -> Binary_Output_Read_Property(o, p, i)
      [] k = "BINARY_VALUE" -> Binary_Value_Read_Property(o, p, i)
      [] k = "CHARACTERSTRING_VALUE" -> CharacterString_Value_Read_Property(o, p, i)
      [] k = "DEVICE" -> Device_Read_Property_Local(o, p, i)
      [] k = "FILE" -> bacfile_read_property(o, p, i)
      [] k = "LIFE_SAFETY_POINT" -> Life_Safety_Point_Read_Property(o, p, i)
      [] k = "LIGHTING_OUTPUT" -> Lighting_Output_Read_Property(o, p, i)
      [] k = "LOAD_CONTROL" -> Load_Control_Read_Property(o, p, i)
      [] k = "MULTI_STATE_INPUT" -> Multistate_Input_Read_Property(o, p, i)
      [] k = "MULTI_STATE_OUTPUT" -> Multistate_Output_Read_Property(o, p, i)
      [] k = "MULTI_STATE_VALUE" -> Multistate_Value_Read_Property(o, p, i)
      [] k = "NOTIFICATION_CLASS" -> Notification_Class_Read_Property(o, p, i)
      [] k = "OCTETSTRING_VALUE" -> OctetString_Value_Read_Property(o, p, i)
      [] k = "POSITIVE_INTEGER_VALUE" -> PositiveInteger_Value_Read_Property(o, p, i)
      [] k = "SCHEDULE" -> Schedule_Read_Property(o, p, i)

Device_Write_Property(k, o, w) ==
    CASE k = "ANALOG_INPUT" -> Analog_Input_Write_Property(o, w)
      [] k = "ANALOG_OUTPUT" -> Analog_Output_Write_Property(o, w)
      [] k = "ANALOG_VALUE" -> Analog_Value_Write_Property(o, w)
      [] k = "BINARY_INPUT" -> Binary_Input_Write_Property(o, w)
      [] k = "BINARY_OUTPUT" -> Binary_Output_Write_Property(o, w)
      [] k = "BINARY_VALUE" -> Binary_Value_Write_Property(o, w)
      [] k = "CHARACTERSTRING_VALUE" -> CharacterString_Value_Write_Property(o, w)
      [] k = "DEVICE" -> Device_Write_Property_Local(o, w)
      [] k = "FILE" -> bacfile_write_property(o, w)
      [] k = "LIFE_SAFETY_POINT" -> Life_Safety_Point_Write_Property(o, w)
      [] k = "LIGHTING_OUTPUT" -> Lighting_Output_Write_Property(o, w)
      [] k = "LOAD_CONTROL" -> Load_Control_Write_Property(o, w)
      [] k = "MULTI_STATE_INPUT" -> Multistate_Input_Write_Property(o, w)
      [] k = "MULTI_STATE_OUTPUT" -> Multistate_Output_Write_Property(o, w)
      [] k = "MULTI_STATE_VALUE" -> Multistate_Value_Write_Property(o, w)
      [] k = "NOTIFICATION_CLASS" -> Notification_Class_Write_Property(o, w)
      [] k = "OCTETSTRING_VALUE" -> OctetString_Value_Write_Property(o, w)
      [] k = "POSITIVE_INTEGER_VALUE" -> PositiveInteger_Value_Write_Property(o, w)
      [] k = "SCHEDULE" -> Schedule_Write_Property(o, w)

----------------------------------------------------------------------------
(* Requests.                                                               *)

Request(p, values, index, priority) ==
    [property |-> p, values |-> values, index |-> index, priority |-> priority]

Simple(p, v) == Request(p, <<v>>, BACNET_ARRAY_ALL, BACNET_MAX_PRIORITY)

Destination(device_) ==
    <<Bits(ToSet(Weekdays)), <<"TIME", 0>>, <<"TIME", DAY>>, <<"DEVICE", device_>>,
      Unsigned(1), Boolean(TRUE), Bits(ToSet(Transitions))>>

(* Alarms are looked at in objects that have been set up for them, shedding*)
(* on a load that is on: what clients have written before.                 *)
SetUp(k) ==
    CASE k \in {"ANALOG_INPUT", "ANALOG_VALUE"} ->
            [Object_Init(k) EXCEPT !.Notification_Class = 1, !.High_Limit = 4,
                !.Deadband = 1, !.Limit_Enable = {"HIGH", "LOW"},
                !.Event_Enable = ToSet(Transitions)]
      [] k = "NOTIFICATION_CLASS" ->
            Destined([Object_Init(k) EXCEPT !.Ack_Required = ToSet(Transitions)],
                     <<Destination("D1")>>)
      [] k = "ANALOG_OUTPUT" ->
            [Object_Init(k) EXCEPT !.Level[BACNET_MAX_PRIORITY] = Real(200)]
      [] k = "LOAD_CONTROL" ->
            [Object_Init(k) EXCEPT !.Shed_Duration = 3, !.Request_Written = TRUE]
      [] OTHER -> Object_Init(k)

Commands(values) ==
    {Request("PRESENT_VALUE", <<v>>, BACNET_ARRAY_ALL, p) :
        v \in values \cup {Null}, p \in Priorities}

(* What clients send, to keep behaviours few: the properties that an       *)
(* object acts on, and one of its plain ones.                              *)
Requests(k) ==
    {Simple("OUT_OF_SERVICE", Boolean(b)) : b \in BOOLEAN} \cup
    CASE k = "ANALOG_INPUT" ->
            {Simple("PRESENT_VALUE", Real(n)) : n \in {0, 1, 3}} \cup
            {Simple("COV_INCREMENT", Real(n)) : n \in {1, 4}} \cup
            {Simple("TIME_DELAY", Unsigned(1))}
      [] k = "ANALOG_VALUE" -> {Simple("PRESENT_VALUE", Real(n)) : n \in {-6, 0, 6}}
      [] k = "ANALOG_OUTPUT" -> Commands({Real(60), Real(200)})
      [] k \in {"BINARY_OUTPUT", "BINARY_VALUE"} ->
            Commands({Enumerated(0), Enumerated(1), Enumerated(2)})
      [] k = "LIGHTING_OUTPUT" -> Commands({Real(0), Real(60)})
      [] k = "MULTI_STATE_OUTPUT" -> Commands({Unsigned(1), Unsigned(2)})
      [] k = "BINARY_INPUT" ->
            {Simple(p, Enumerated(n)) : p \in {"PRESENT_VALUE", "POLARITY"}, n \in {0, 1}}
      [] k = "NOTIFICATION_CLASS" ->
            {Simple("ACK_REQUIRED", Bits({})), Simple("RECIPIENT_LIST", <<"EMPTY">>),
             Request("PRIORITY", <<Unsigned(9)>>, 2, BACNET_MAX_PRIORITY)}
      [] k = "LOAD_CONTROL" ->
            {Simple("REQUESTED_SHED_LEVEL", l) :
                l \in {Level(0), Level(3), Percent(20), Percent(80), Amount(1)}} \cup
            {Simple("START_TIME", <<"DATETIME", t>>) : t \in {Wildcard, 1}} \cup
            {Simple("SHED_DURATION", Unsigned(0)), Simple("ENABLE", Boolean(FALSE))}
      [] k = "DEVICE" ->
            {Simple("OBJECT_NAME", Text(s)) : s \in {"other", "taken", "longer_than_32"}}
            \cup {Simple("SYSTEM_STATUS", Enumerated(NON_OPERATIONAL))}
      [] k = "LIFE_SAFETY_POINT" -> {Simple("MODE", Enumerated(n)) : n \in 0 .. 2}
      [] k = "MULTI_STATE_INPUT" ->
            {Simple("OBJECT_NAME", Text("other")),
             Request("STATE_TEXT", <<Text("one")>>, 2, BACNET_MAX_PRIORITY)}
      [] OTHER ->
            {Simple("PRESENT_VALUE", v) :
                v \in {Unsigned(2), Text("other"), <<"OCTET_STRING", "other">>}}

----------------------------------------------------------------------------
(* The machine.                                                            *)

Init ==
    /\ \E g \in Groups : device = [k \in g |-> SetUp(k)]
    /\ now = 0 /\ announced = <<>> /\ requests = 0

Count == requests < MAX_REQUESTS /\ requests' = requests + 1

WriteProperty ==
    /\ Count
    /\ \E k \in DOMAIN device : \E w \in Requests(k) :
        device' = [device EXCEPT ![k] = Device_Write_Property(k, @, w).object]
    /\ UNCHANGED <<now, announced>>

(* The sensors of the analog inputs; a device whose number a class wanted  *)
(* to know has always answered here.                                       *)
Measure ==
    /\ "ANALOG_INPUT" \in DOMAIN device
    /\ \E v \in {0, 6} : device' = [device EXCEPT !["ANALOG_INPUT"].Measured = v]
    /\ UNCHANGED <<now, announced, requests>>

Classes ==
    IF "NOTIFICATION_CLASS" \in DOMAIN device
    THEN [n \in {1} |-> device["NOTIFICATION_CLASS"]] ELSE <<>>

Found == {"D1"}

Alarmed(k, garbage) ==
    IF k = "ANALOG_INPUT"
    THEN Analog_Input_Intrinsic_Reporting(device[k], Classes, now', Found, garbage)
    ELSE Analog_Value_Intrinsic_Reporting(device[k], Classes, now', Found, garbage)

(* Device_local_reporting and Load_Control_State_Machine_Handler.          *)
Timers ==
    /\ now < MAX_NOW
    /\ now' = now + 1
    /\ \E garbage \in BOOLEAN :
        LET alarms == DOMAIN device \cap {"ANALOG_INPUT", "ANALOG_VALUE"}
        IN  /\ device' =
                [k \in DOMAIN device |->
                    IF k \in alarms THEN Alarmed(k, garbage).object
                    ELSE IF {"LOAD_CONTROL", "ANALOG_OUTPUT"} \subseteq DOMAIN device
                            /\ k \in {"LOAD_CONTROL", "ANALOG_OUTPUT"}
                    THEN LET r == Load_Control_State_Machine(device["LOAD_CONTROL"],
                                        device["ANALOG_OUTPUT"], now')
                         IN  IF k = "LOAD_CONTROL" THEN r.load ELSE r.output
                    ELSE device[k]]
            /\ announced' = IF alarms = {} THEN <<>>
                            ELSE Alarmed(CHOOSE k \in alarms : TRUE, garbage).sent
    /\ UNCHANGED requests

Alarm_Ack(k, a) ==
    IF k = "ANALOG_INPUT" THEN Analog_Input_Alarm_Ack(device[k], a)
    ELSE Analog_Value_Alarm_Ack(device[k], a)

AlarmStates == {"NORMAL", "HIGH_LIMIT", "LOW_LIMIT", "FAULT"}

Acknowledgements ==
    {[eventStateAcked |-> s, timeStamp |-> m] :
        s \in AlarmStates,
        m \in {Moment(t) : t \in 0 .. now} \cup {<<"SEQUENCE", 1>>}}

AcknowledgeAlarm ==
    /\ Count
    /\ \E k \in DOMAIN device \cap {"ANALOG_INPUT", "ANALOG_VALUE"}, a \in Acknowledgements :
        device' = [device EXCEPT ![k] = Alarm_Ack(k, a).object]
    /\ UNCHANGED <<now, announced>>

Next == WriteProperty \/ Measure \/ Timers \/ AcknowledgeAlarm

Spec == Init /\ [][Next]_vars

----------------------------------------------------------------------------
(* Properties.                                                             *)

Read(k, p) == Device_Read_Property(k, device[k], p, BACNET_ARRAY_ALL)

(* The choices and the numbers that are written: some that mean something, *)
(* and those at the edges of one and of two octets.                        *)
Enumerations == {0, 1, 2, 4, 6, 255, 256, 65535, 65536}
Numbers == {0, 2, 3, 256, 65536}

(* Every value that a property may be written with, of the right type and  *)
(* of another one, at the edges of its range.                              *)
Values ==
    {Null, <<"LARGE">>, <<"OCTET_STRING", "other">>, <<"DATETIME", 1>>,
     <<"OBJECT_ID", "DEVICE", 2>>, <<"LIGHTING_COMMAND", "FADE">>,
     Percent(20), Level(2), Amount(1), Bits({"HIGH"}), Bits({"WRONG_SIZE"})}
    \cup {Real(n) : n \in {-1, 0, 60, 61, 201}}
    \cup {Enumerated(n) : n \in Enumerations}
    \cup {Unsigned(n) : n \in Numbers}
    \cup {Boolean(b) : b \in BOOLEAN}
    \cup {Text(s) : s \in {"", "other", "taken", "full", "long", "foreign"}}

(* A number that is cut to the octets of the field it is kept in.          *)
Cut(k, p, v) ==
    \/ /\ \/ k = "ANALOG_INPUT" /\ p = "UNITS" /\ Tag(v) = "ENUMERATED"
          \/ k = "DEVICE" /\ p = "NUMBER_OF_APDU_RETRIES" /\ Tag(v) = "UNSIGNED_INT"
       /\ Content(v) >= Octet
    \/ /\ \/ k = "ANALOG_VALUE" /\ p = "UNITS" /\ Tag(v) = "ENUMERATED"
          \/ /\ k = "DEVICE" /\ p \in {"APDU_TIMEOUT", "VENDOR_IDENTIFIER"}
             /\ Tag(v) = "UNSIGNED_INT"
       /\ Content(v) >= Word

(* Some acknowledged values are not there afterwards: numbers that are kept*)
(* in less than a double word, measured and rounded values, and what the   *)
(* code takes and forgets.                                                 *)
NotKept(k, p, v) ==
    \/ Cut(k, p, v)
    \/ k = "ANALOG_INPUT" /\ p = "PRESENT_VALUE"
    \/ k = "ANALOG_OUTPUT" /\ p = "PRESENT_VALUE" /\ v = Real(61)
    \/ k = "FILE"
    \/ k = "LOAD_CONTROL" /\ p = "SHED_LEVELS"
    \/ k = "NOTIFICATION_CLASS" /\ p \in {"PRIORITY", "ACK_REQUIRED"}
    \/ k = "MULTI_STATE_INPUT" /\ p = "STATE_TEXT"
    \/ p = "PRESENT_VALUE" /\ v = Null

(* A client can read whatever an object lists.  Whoever has a write of a   *)
(* value acknowledged, at the highest priority there is, reads that value  *)
(* from then on; and a write that is refused changes nothing of what       *)
(* anybody reads.                                                          *)
WritesAreRead ==
    \A k \in DOMAIN device :
        LET listed == Device_Objects_Property_List(k)
            ReadOf(o, p) == Device_Read_Property(k, o, p, BACNET_ARRAY_ALL)
        IN  \A p \in listed :
                /\ ReadOf(device[k], p).error = "none"
                /\ \A v \in Values :
                    LET outcome == Device_Write_Property(k, device[k],
                                        Request(p, <<v>>, BACNET_ARRAY_ALL, 1))
                    IN  IF outcome.reply = "ack"
                        THEN \/ ReadOf(outcome.object, p) = Answer(<<v>>)
                             \/ NotKept(k, p, v)
                        ELSE \/ outcome.object = device[k]
                             \/ k = "MULTI_STATE_INPUT" /\ p = "STATE_TEXT"

(* Units from 256 to 65535 "may be used by others" (bacenum.h): whoever has*)
(* one acknowledged reads it.                                              *)
OthersUnitsAreRead ==
    \A k \in DOMAIN device \cap {"ANALOG_INPUT", "ANALOG_VALUE"} :
        \A n \in Enumerations :
            LET v == Enumerated(n)
                outcome == Device_Write_Property(k, device[k],
                                Request("UNITS", <<v>>, BACNET_ARRAY_ALL, 1))
            IN  n >= Octet /\ n < Word /\ outcome.reply = "ack" =>
                    Device_Read_Property(k, outcome.object, "UNITS", BACNET_ARRAY_ALL)
                        = Answer(<<v>>)

(* The three ways to ask for a value agree: the present value is that of   *)
(* the highest priority which is not NULL, else the default; the elements  *)
(* of an array are the array; and the flags say what the properties say.   *)
ReadsAgree ==
    \A k \in DOMAIN device :
        LET Listed(p) == p \in Device_Objects_Property_List(k)
            At(p, i) == Device_Read_Property(k, device[k], p, i)
            levels == Read(k, "PRIORITY_ARRAY").values
            commanded == {p \in Priorities : levels[p] # Null}
            Shifted(p) == \/ k = "BINARY_VALUE" /\ p = "PRIORITY_ARRAY"
                          \/ p = "EVENT_TIME_STAMPS"
            flags == Content(Read(k, "STATUS_FLAGS").values[1])
        IN  /\ Listed("PRIORITY_ARRAY") =>
                Read(k, "PRESENT_VALUE").values =
                    IF commanded = {} THEN Read(k, "RELINQUISH_DEFAULT").values
                    ELSE <<levels[Min(commanded)]>>
            /\ \A p \in Device_Objects_Property_List(k) :
                At(p, 0).error = "none" /\ k # "FILE" =>
                    \A i \in 1 .. Content(At(p, 0).values[1]) :
                        Shifted(p) \/ At(p, i) = Answer(<<Read(k, p).values[i]>>)
            /\ Listed("OUT_OF_SERVICE") /\ Listed("STATUS_FLAGS") =>
                \/ k \in {"LIFE_SAFETY_POINT", "SCHEDULE"}
                \/ ("OUT_OF_SERVICE" \in flags)
                        = Content(Read(k, "OUT_OF_SERVICE").values[1])
            /\ k \in {"ANALOG_INPUT", "ANALOG_VALUE"} =>
                ("IN_ALARM" \in flags) = (Read(k, "EVENT_STATE").values
                                            # <<Enumerated("NORMAL")>>)

(* An operator who acknowledges a transition with the state and the stamp  *)
(* that the device reports for it is not refused, whatever has happened    *)
(* since: of an analog value only when the transition was to an off-normal *)
(* state.                                                                  *)
ReportedStampAcknowledges ==
    \A k \in DOMAIN device \cap {"ANALOG_INPUT", "ANALOG_VALUE"} :
        LET o == device[k]
            info == Event_Information(o)
        IN  /\ (info = <<>>) =>
                    o.Event_State = "NORMAL" /\ AckedTransitions(o) = ToSet(Transitions)
            /\ \A s \in AlarmStates :
                LET t == TransitionOf(s)
                IN  info # <<>> /\ t \notin info[1].acknowledgedTransitions =>
                        \/ Alarm_Ack(k, [eventStateAcked |-> s,
                                timeStamp |-> Moment(info[1].eventTimeStamps[t])]).reply = "ack"
                        \/ k = "ANALOG_VALUE" /\ t # "TO_OFFNORMAL"

(* The same for what an analog value has returned to: "true when           *)
(* transitions is acked" (nc.h) is what its flag says.                     *)
ReturnsAcknowledged ==
    \A k \in DOMAIN device \cap {"ANALOG_VALUE"} :
        LET info == Event_Information(device[k])
        IN  info # <<>> /\ "TO_NORMAL" \notin info[1].acknowledgedTransitions =>
                Alarm_Ack(k, [eventStateAcked |-> "NORMAL",
                    timeStamp |-> Moment(info[1].eventTimeStamps["TO_NORMAL"])]).reply = "ack"

(* What the load control reports is true when it reports it: compliant     *)
(* means that the output is at the requested level or below, whoever else  *)
(* commands it.  A client that takes away or replaces the command of the   *)
(* load control itself, at its priority, is not noticed; an amount larger  *)
(* than the whole load is not asked for.                                   *)
CompliantIsShed ==
    [][now' # now /\ {"LOAD_CONTROL", "ANALOG_OUTPUT"} \subseteq DOMAIN device =>
       LET load == device'["LOAD_CONTROL"]
           output == device'["ANALOG_OUTPUT"]
           commanded == output.Level[LOAD_PRIORITY]
           Shed(level) == Content(level) <= Requested_Shed_Level_Value(load)
       IN  load.State = "SHED_COMPLIANT"
               => \/ commanded = Null \/ ~Shed(commanded)
                  \/ Shed(Analog_Output_Present_Value(output))]_vars
=============================================================================
