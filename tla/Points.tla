------------------------------- MODULE Points -------------------------------
(***************************************************************************)
(* The input, output and value objects of demo/object.  An object is a     *)
(* record of what its C file keeps for one instance; Read_Property and     *)
(* Write_Property are operators on it.  Reals are counted in halves.       *)
(***************************************************************************)
EXTENDS Properties

CONSTANT MULTISTATE_NUMBER_OF_STATES        \* 254

ASSUME PointsConstants == MULTISTATE_NUMBER_OF_STATES \in Nat \ {0}

States == 1 .. MULTISTATE_NUMBER_OF_STATES

Base == {"OBJECT_IDENTIFIER", "OBJECT_NAME", "OBJECT_TYPE"}
Always == Base \cup {"PRESENT_VALUE", "STATUS_FLAGS"}
Common == Always \cup {"EVENT_STATE", "OUT_OF_SERVICE"}
Commandable == {"PRIORITY_ARRAY", "RELINQUISH_DEFAULT"}

----------------------------------------------------------------------------
(* Analog Output: a percentage per priority, kept in a byte.               *)

Analog_Output_Property_Lists == Common \cup Commandable \cup {"UNITS"}

Analog_Output_Init == [Level |-> NoCommands, Out_Of_Service |-> FALSE]

Analog_Output_Present_Value(o) == Highest(o.Level, Real(0))

Analog_Output_Read_Property(o, p, index) ==
    Reading(Fixed(Base \cup {"DESCRIPTION", "EVENT_STATE", "UNITS"})
            ++ Status(FALSE, o.Out_Of_Service)
            ++ [PRESENT_VALUE |-> Analog_Output_Present_Value(o),
                RELINQUISH_DEFAULT |-> Real(0)],
        [PRIORITY_ARRAY |-> o.Level], p, index)

(* The conversion to a byte drops the fraction.                            *)
Whole(x) == x - (x % 2)

Analog_Output_Present_Value_Relinquish(o, w) ==
    Check(o, w.priority # RESERVED_PRIORITY, "VALUE_OUT_OF_RANGE",
          [o EXCEPT !.Level[w.priority] = Null])

Analog_Output_Write_Property(o, w) ==
    LET v == w.values[1]
    IN  Writing(o, w, {"PRIORITY_ARRAY"},
            [PRESENT_VALUE |->
                IF Tag(v) = "REAL"
                THEN Commanding(o, w, "REAL", Content(v) \in 0 .. 200,
                                Real(Whole(Content(v))))
                ELSE WPValidateArgType(o, v, "NULL",
                        Analog_Output_Present_Value_Relinquish(o, w)),
             OUT_OF_SERVICE |-> WriteOutOfService(o, v)],
            Base \cup Commandable \cup
                {"STATUS_FLAGS", "EVENT_STATE", "UNITS", "DESCRIPTION"})

----------------------------------------------------------------------------
(* Binary Value.                                                           *)

Binary_Value_Property_Lists == Common \cup Commandable \cup {"DESCRIPTION"}

Binary_Value_Init == [Level |-> NoCommands, Out_Of_Service |-> FALSE]

Binary_Value_Present_Value(o) == Highest(o.Level, Enumerated(0))

(* Element i is looked up one place too far.  Behind the last begins the    *)
(* array of the next object, which has no command here.                    *)
ElementBehind(o, index) ==
    IF index < BACNET_MAX_PRIORITY THEN o.Level[index + 1] ELSE Null

Binary_Value_Read_Property(o, p, index) ==
    IF p = "PRIORITY_ARRAY" /\ index \in Priorities
    THEN Answer(<<ElementBehind(o, index)>>)
    ELSE Reading(Fixed(Base \cup {"DESCRIPTION", "EVENT_STATE"})
                 ++ Status(FALSE, o.Out_Of_Service)
                 ++ [PRESENT_VALUE |-> Binary_Value_Present_Value(o),
                     RELINQUISH_DEFAULT |-> Enumerated(0)],
            [PRIORITY_ARRAY |-> o.Level], p, index)

Binary_Value_Write_Property(o, w) ==
    LET v == w.values[1]
    IN  Writing(o, w, {"PRIORITY_ARRAY"},
            [PRESENT_VALUE |->
                Commanding(o, w, "ENUMERATED", v \in {Enumerated(0), Enumerated(1)}, v),
             OUT_OF_SERVICE |-> WriteOutOfService(o, v)],
            Base \cup Commandable \cup
                {"DESCRIPTION", "STATUS_FLAGS", "EVENT_STATE"})

----------------------------------------------------------------------------
(* Binary Output; Firmware follows its commands to the relay.              *)

Binary_Output_Property_Lists ==
    Common \cup Commandable \cup
        {"POLARITY", "DESCRIPTION", "ACTIVE_TEXT", "INACTIVE_TEXT"}

Binary_Output_Init == [Level |-> NoCommands, Out_Of_Service |-> FALSE]

Binary_Output_Read_Property(o, p, index) ==
    Reading(Fixed(Base \cup {"DESCRIPTION", "EVENT_STATE", "POLARITY",
                             "ACTIVE_TEXT", "INACTIVE_TEXT"})
            ++ Status(FALSE, o.Out_Of_Service)
            ++ [PRESENT_VALUE |-> Highest(o.Level, Enumerated(0)),
                RELINQUISH_DEFAULT |-> Enumerated(0)],
        [PRIORITY_ARRAY |-> o.Level], p, index)

Binary_Output_Write_Property(o, w) ==
    LET v == w.values[1]
    IN  Writing(o, w, {"PRIORITY_ARRAY"},
            [PRESENT_VALUE |->
                Commanding(o, w, "ENUMERATED", v \in {Enumerated(0), Enumerated(1)}, v),
             OUT_OF_SERVICE |-> WriteOutOfService(o, v)],
            Base \cup Commandable \cup
                {"STATUS_FLAGS", "RELIABILITY", "EVENT_STATE", "POLARITY",
                 "ACTIVE_TEXT", "INACTIVE_TEXT"})

----------------------------------------------------------------------------
(* Multistate Output.                                                      *)

Multistate_Output_Property_Lists ==
    Common \cup Commandable \cup {"NUMBER_OF_STATES", "DESCRIPTION"}

Multistate_Output_Init == [Level |-> NoCommands, Out_Of_Service |-> FALSE]

Multistate_Output_Present_Value(o) == Highest(o.Level, Unsigned(1))

Multistate_Output_Read_Property(o, p, index) ==
    Reading(Fixed(Base \cup {"DESCRIPTION", "EVENT_STATE", "NUMBER_OF_STATES"})
            ++ Status(FALSE, o.Out_Of_Service)
            ++ [PRESENT_VALUE |-> Multistate_Output_Present_Value(o),
                RELINQUISH_DEFAULT |-> Unsigned(1)],
        [PRIORITY_ARRAY |-> o.Level], p, index)

Multistate_Output_Write_Property(o, w) ==
    LET v == w.values[1]
    IN  Writing(o, w, {"STATE_TEXT", "PRIORITY_ARRAY"},
            [PRESENT_VALUE |->
                Commanding(o, w, "UNSIGNED_INT", v \in {Unsigned(n) : n \in States}, v),
             OUT_OF_SERVICE |-> WriteOutOfService(o, v)],
            Base \cup Commandable \cup
                {"STATUS_FLAGS", "EVENT_STATE", "NUMBER_OF_STATES", "DESCRIPTION"})

----------------------------------------------------------------------------
(* Binary Input: the physical state is inverted by the polarity when it is *)
(* stored and again when it is asked for.                                  *)

Binary_Input_Property_Lists == Common \cup {"POLARITY", "DESCRIPTION"}

Binary_Input_Init ==
    [Present_Value |-> 0, Polarity |-> 0, Out_Of_Service |-> FALSE,
     Change_Of_Value |-> FALSE]

(* Fault: the stored state is reported as it is.                           *)
ReportedAsStored(o) == o.Present_Value

Binary_Input_Present_Value(o) ==
    IF o.Polarity # 0 THEN 1 - o.Present_Value ELSE o.Present_Value

Binary_Input_Present_Value_Set(o, value) ==
    LET stored == IF o.Polarity # 0 THEN 1 - value ELSE value
    IN  [o EXCEPT !.Present_Value = stored,
                  !.Change_Of_Value = @ \/ stored # o.Present_Value]

Binary_Input_Out_Of_Service_Set(o, value) ==
    [o EXCEPT !.Out_Of_Service = value,
              !.Change_Of_Value = @ \/ value # o.Out_Of_Service]

Binary_Input_Read_Property(o, p, index) ==
    Reading(Fixed(Base \cup {"DESCRIPTION", "EVENT_STATE"})
            ++ Status(FALSE, o.Out_Of_Service)
            ++ [PRESENT_VALUE |-> Enumerated(Binary_Input_Present_Value(o)),
                POLARITY |-> Enumerated(o.Polarity)],
        <<>>, p, index)

Binary_Input_Write_Property(o, w) ==
    LET v == w.values[1]
        Level(valid, new) ==
            WPValidateArgType(o, v, "ENUMERATED",
                Check(o, valid, "VALUE_OUT_OF_RANGE", new))
    IN  Writing(o, w, {},
            [PRESENT_VALUE |->
                Level(Content(v) <= 1, Binary_Input_Present_Value_Set(o, Content(v))),
             OUT_OF_SERVICE |->
                WPValidateArgType(o, v, "BOOLEAN",
                    Accept(Binary_Input_Out_Of_Service_Set(o, Content(v)))),
             POLARITY |->
                Level(Content(v) < 2, [o EXCEPT !.Polarity = Content(v)])],
            Base \cup {"DESCRIPTION", "STATUS_FLAGS", "EVENT_STATE"})

----------------------------------------------------------------------------
(* Objects with a value of their own and nothing else: character strings,  *)
(* octet strings, positive integers, multistate values.                    *)

ValueObject(v) == [Present_Value |-> v, Out_Of_Service |-> FALSE]

(* A switch that takes any value of its type.                              *)
WriteValue(o, v, tag, otherwise) ==
    IF Tag(v) = tag THEN Accept([o EXCEPT !.Present_Value = v])
    ELSE Refuse(o, otherwise)

CharacterString_Value_Property_Lists == Common

CharacterString_Value_Init == ValueObject(Text(""))

CharacterString_Value_Read_Property(o, p, index) ==
    Reading(Fixed(Base \cup {"DESCRIPTION", "EVENT_STATE"})
            ++ Status(FALSE, o.Out_Of_Service)
            ++ [PRESENT_VALUE |-> o.Present_Value],
        <<>>, p, index)

(* Nobody looks at the index of a write.                                   *)
CharacterString_Value_Write_Property(o, w) ==
    LET v == w.values[1]
    IN  Writing(o, w, {w.property},
            [PRESENT_VALUE |-> WriteValue(o, v, "CHARACTER_STRING", "INVALID_DATA_TYPE"),
             OUT_OF_SERVICE |-> WriteOutOfService(o, v)],
            Base \cup {"DESCRIPTION", "STATUS_FLAGS", "EVENT_STATE"})

OctetString_Value_Property_Lists == Common \cup {"DESCRIPTION"}

OctetString_Value_Init == ValueObject(<<"OCTET_STRING", "">>)

OctetString_Value_Read_Property(o, p, index) ==
    Reading(Fixed(Base \cup {"DESCRIPTION", "EVENT_STATE"})
            ++ Status(FALSE, o.Out_Of_Service)
            ++ [PRESENT_VALUE |-> o.Present_Value],
        <<>>, p, index)

OctetString_Value_Write_Property(o, w) ==
    LET v == w.values[1]
    IN  Writing(o, w, {"PRIORITY_ARRAY", "EVENT_TIME_STAMPS"},
            [PRESENT_VALUE |-> WriteValue(o, v, "OCTET_STRING", "VALUE_OUT_OF_RANGE"),
             OUT_OF_SERVICE |-> WriteOutOfService(o, v)],
            Base \cup {"STATUS_FLAGS", "EVENT_STATE", "DESCRIPTION"})

PositiveInteger_Value_Property_Lists == Always \cup {"UNITS", "OUT_OF_SERVICE"}

PositiveInteger_Value_Init == ValueObject(Unsigned(0))

PositiveInteger_Value_Read_Property(o, p, index) ==
    Reading(Fixed(Base \cup {"UNITS"})
            ++ Status(FALSE, o.Out_Of_Service)
            ++ [PRESENT_VALUE |-> o.Present_Value],
        <<>>, p, index)

PositiveInteger_Value_Write_Property(o, w) ==
    LET v == w.values[1]
    IN  Writing(o, w, {"PRIORITY_ARRAY", "EVENT_TIME_STAMPS"},
            [PRESENT_VALUE |-> WriteValue(o, v, "UNSIGNED_INT", "VALUE_OUT_OF_RANGE"),
             OUT_OF_SERVICE |-> WriteOutOfService(o, v)],
            Base \cup {"STATUS_FLAGS", "UNITS"})

Multistate_Value_Property_Lists ==
    Common \cup {"NUMBER_OF_STATES", "DESCRIPTION", "STATE_TEXT"}

Multistate_Value_Init == ValueObject(Unsigned(1))

Multistate_Value_Read_Property(o, p, index) ==
    Reading(Fixed(Base \cup {"DESCRIPTION", "EVENT_STATE", "NUMBER_OF_STATES"})
            ++ Status(FALSE, o.Out_Of_Service)
            ++ [PRESENT_VALUE |-> o.Present_Value],
        [STATE_TEXT |-> [s \in States |-> Text("")]], p, index)

Multistate_Value_Write_Property(o, w) ==
    LET v == w.values[1]
    IN  Writing(o, w, {"STATE_TEXT", "PRIORITY_ARRAY"},
            [PRESENT_VALUE |->
                WPValidateArgType(o, v, "UNSIGNED_INT",
                    Check(o, Content(v) \in States, "VALUE_OUT_OF_RANGE",
                          [o EXCEPT !.Present_Value = v])),
             OUT_OF_SERVICE |-> WriteOutOfService(o, v)],
            Base \cup {"STATUS_FLAGS", "EVENT_STATE", "NUMBER_OF_STATES",
                       "DESCRIPTION", "STATE_TEXT"})

----------------------------------------------------------------------------
(* Multistate Input: its name, description and state texts can be written. *)
(* Texts that are special: "full" leaves no room for the end of the        *)
(* string, "long" does not fit at all, "foreign" has another character     *)
(* set, "taken" is the name of another object.                             *)

Multistate_Input_Property_Lists ==
    Common \cup {"NUMBER_OF_STATES", "DESCRIPTION", "STATE_TEXT"}

Multistate_Input_Init ==
    [Present_Value |-> Unsigned(1), Out_Of_Service |-> FALSE,
     Object_Name |-> Text(""), Object_Description |-> Text(""),
     State_Text |-> [s \in States |-> Text("")]]

Multistate_Input_Read_Property(o, p, index) ==
    Reading(Fixed({"OBJECT_IDENTIFIER", "OBJECT_TYPE", "EVENT_STATE", "NUMBER_OF_STATES"})
            ++ Status(FALSE, o.Out_Of_Service)
            ++ [PRESENT_VALUE |-> o.Present_Value,
                OBJECT_NAME |-> o.Object_Name,
                DESCRIPTION |-> o.Object_Description],
        [STATE_TEXT |-> o.State_Text], p, index)

(* What becomes of one text; the three that can be written do the same.    *)
TextReply(v) ==
    CASE Content(v) = "long" -> "NO_SPACE_TO_WRITE_PROPERTY"
      [] Content(v) = "foreign" -> "CHARACTER_SET_NOT_SUPPORTED"
      [] Content(v) = "full" -> "VALUE_OUT_OF_RANGE"
      [] OTHER -> "ack"

Multistate_Input_Description_Write(o, v) ==
    Check(o, TextReply(v) = "ack", TextReply(v), [o EXCEPT !.Object_Description = v])

Multistate_Input_Object_Name_Write(o, v) ==
    Check(o, TextReply(v) = "ack", TextReply(v), [o EXCEPT !.Object_Name = v])

(* The name of this object is accepted and kept, that of another refused.  *)
WriteName(o, v) ==
    IF v = o.Object_Name THEN Accept(o)
    ELSE IF v = Text("taken") THEN Refuse(o, "DUPLICATE_NAME")
    ELSE Multistate_Input_Object_Name_Write(o, v)

Multistate_Input_State_Text_Write(o, i, v) ==
    Check(o, TextReply(v) = "ack", TextReply(v), [o EXCEPT !.State_Text[i] = v])

(* The texts of all states in one request: each is stored that can be, and *)
(* only the last one decides over the reply.  What cannot be decoded ends  *)
(* the list.                                                               *)
WriteStateTexts(o, values) ==
    LET usable == {n \in 1 .. Len(values) :
                        \A i \in 1 .. n : Tag(values[i]) # "LARGE"}
        taken == {n \in usable : n <= MULTISTATE_NUMBER_OF_STATES}
        last == CHOOSE n \in taken : \A m \in taken : m <= n
        cut == last < MULTISTATE_NUMBER_OF_STATES /\ last < Len(values)
        new == [s \in States |->
                    IF s \in taken /\ TextReply(values[s]) = "ack"
                    THEN values[s] ELSE o.State_Text[s]]
    IN  [reply |-> IF TextReply(values[last]) = "ack" THEN "ack"
                   ELSE IF cut THEN "VALUE_OUT_OF_RANGE"
                   ELSE TextReply(values[last]),
         object |-> [o EXCEPT !.State_Text = new]]

Multistate_Input_Write_Property(o, w) ==
    LET v == w.values[1]
        Texts(outcome) == WPValidateArgType(o, v, "CHARACTER_STRING", outcome)
    IN  Writing(o, w, {"STATE_TEXT"},
            [OBJECT_NAME |-> Texts(WriteName(o, v)),
             DESCRIPTION |-> Texts(Multistate_Input_Description_Write(o, v)),
             PRESENT_VALUE |->
                WPValidateArgType(o, v, "UNSIGNED_INT",
                    Check(o, Content(v) \in States, "VALUE_OUT_OF_RANGE",
                          [o EXCEPT !.Present_Value = v])),
             OUT_OF_SERVICE |-> WriteOutOfService(o, v),
             STATE_TEXT |->
                Texts(IF w.index = BACNET_ARRAY_ALL THEN WriteStateTexts(o, w.values)
                      ELSE IF w.index \in States
                      THEN Multistate_Input_State_Text_Write(o, w.index, v)
                      ELSE Refuse(o, "WRITE_ACCESS_DENIED"))],
            {"OBJECT_IDENTIFIER", "OBJECT_TYPE", "STATUS_FLAGS", "EVENT_STATE",
             "NUMBER_OF_STATES"})

----------------------------------------------------------------------------
(* Life Safety Point: only its mode can be written; the mode one behind    *)
(* the last is accepted, too.                                              *)

LastMode == 1       \* MAX_LIFE_SAFETY_MODE, of which there are 16

Life_Safety_Point_Property_Lists ==
    Common \cup {"TRACKING_VALUE", "RELIABILITY", "MODE", "ACCEPTED_MODES",
                 "SILENCED", "OPERATION_EXPECTED", "DESCRIPTION"}

Life_Safety_Point_Init == [Mode |-> Enumerated(0), Out_Of_Service |-> FALSE]

Life_Safety_Point_Read_Property(o, p, index) ==
    Reading([STATUS_FLAGS |-> Bits({}), OUT_OF_SERVICE |-> Boolean(o.Out_Of_Service),
             MODE |-> o.Mode]
            ++ Fixed(Life_Safety_Point_Property_Lists),
        <<>>, p, index)

Life_Safety_Point_Write_Property(o, w) ==
    LET v == w.values[1]
    IN  Writing(o, w, {},
            [MODE |->
                WPValidateArgType(o, v, "ENUMERATED",
                    Check(o, Content(v) <= LastMode, "VALUE_OUT_OF_RANGE",
                          [o EXCEPT !.Mode = v])),
             OUT_OF_SERVICE |-> WriteOutOfService(o, v)],
            Life_Safety_Point_Property_Lists)
=============================================================================
