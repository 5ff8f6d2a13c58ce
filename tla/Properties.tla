----------------------------- MODULE Properties -----------------------------
(***************************************************************************)
(* How the objects of demo/object answer ReadProperty and WriteProperty.   *)
(* Each of them has a switch over the property with the same frame around  *)
(* it; the frame is here, the switches are in Points and the modules that  *)
(* build on it.                                                            *)
(*                                                                         *)
(* An application value is a tuple of its tag and its content.  A property *)
(* that never changes (a name, a type, a unit) is <<"FIXED", property>>.   *)
(* A write request has a property, an array index, the values that follow  *)
(* each other in its data, and a priority, which wp.c has already checked. *)
(***************************************************************************)
EXTENDS Integers, Sequences, TLC

CONSTANTS
    BACNET_MAX_PRIORITY,    \* 16
    RESERVED_PRIORITY,      \* 6
    BACNET_ARRAY_ALL,       \* the index that means the whole array
    MAX_APDU_ELEMENTS       \* array elements that fit into one answer

ASSUME PropertiesConstants ==
    /\ BACNET_MAX_PRIORITY \in Nat \ {0}
    /\ RESERVED_PRIORITY \in 1 .. BACNET_MAX_PRIORITY
    /\ BACNET_ARRAY_ALL \in Nat
    /\ MAX_APDU_ELEMENTS \in Nat

Priorities == 1 .. BACNET_MAX_PRIORITY

Null == <<"NULL">>
Real(x) == <<"REAL", x>>
Unsigned(n) == <<"UNSIGNED_INT", n>>
Enumerated(n) == <<"ENUMERATED", n>>
Boolean(b) == <<"BOOLEAN", b>>
Text(s) == <<"CHARACTER_STRING", s>>
Bits(s) == <<"BIT_STRING", s>>

(* How many values a field of one and of two octets has.                   *)
Octet == 256
Word == 65536

Tag(v) == v[1]
Content(v) == v[2]

(* The fields of two records, or the properties of two parts of an object: *)
(* @@ of TLC, but with a definition that proofs can use.                   *)
f ++ g == [x \in DOMAIN f \cup DOMAIN g |-> IF x \in DOMAIN f THEN f[x] ELSE g[x]]

Fixed(properties) == [p \in properties |-> <<"FIXED", p>>]

(* The flags that the objects set; the others are always false.            *)
Status(alarm, outOfService) ==
    [STATUS_FLAGS |-> Bits((IF alarm THEN {"IN_ALARM"} ELSE {}) \cup
                           (IF outOfService THEN {"OUT_OF_SERVICE"} ELSE {})),
     OUT_OF_SERVICE |-> Boolean(outOfService)]

----------------------------------------------------------------------------
(* Reading.                                                                *)

Answer(values) == [error |-> "none", values |-> values]
Error(code) == [error |-> code, values |-> <<>>]

Element(array, index) ==
    IF index = 0 THEN Answer(<<Unsigned(Len(array))>>)
    ELSE IF index = BACNET_ARRAY_ALL
    THEN IF Len(array) <= MAX_APDU_ELEMENTS THEN Answer(array)
         ELSE Error("ABORT_SEGMENTATION_NOT_SUPPORTED")
    ELSE IF index \in DOMAIN array THEN Answer(<<array[index]>>)
    ELSE Error("INVALID_ARRAY_INDEX")

(* The answer of an object with these properties and array properties.     *)
Reading(values, arrays, p, index) ==
    IF p \in DOMAIN arrays THEN Element(arrays[p], index)
    ELSE IF p \notin DOMAIN values THEN Error("UNKNOWN_PROPERTY")
    ELSE IF index # BACNET_ARRAY_ALL THEN Error("PROPERTY_IS_NOT_AN_ARRAY")
    ELSE Answer(<<values[p]>>)

----------------------------------------------------------------------------
(* Writing.                                                                *)

Accept(new) == [reply |-> "ack", object |-> new]
Refuse(o, code) == [reply |-> code, object |-> o]

(* WPValidateArgType: the value has the tag that the property needs.       *)
WPValidateArgType(o, v, tag, outcome) ==
    IF Tag(v) = tag THEN outcome ELSE Refuse(o, "INVALID_DATA_TYPE")

Check(o, valid, code, new) == IF valid THEN Accept(new) ELSE Refuse(o, code)

WriteOutOfService(o, v) ==
    WPValidateArgType(o, v, "BOOLEAN",
        Accept([o EXCEPT !.Out_Of_Service = Content(v)]))

(* The frame of a Write_Property: a value that cannot be decoded, an index *)
(* where there is no array, the switch, what is known but read-only.       *)
Writing(o, w, arrays, changes, denied) ==
    IF Tag(w.values[1]) = "LARGE" THEN Refuse(o, "VALUE_OUT_OF_RANGE")
    ELSE IF w.property \notin arrays /\ w.index # BACNET_ARRAY_ALL
    THEN Refuse(o, "PROPERTY_IS_NOT_AN_ARRAY")
    ELSE IF w.property \in DOMAIN changes THEN changes[w.property]
    ELSE Refuse(o, IF w.property \in denied THEN "WRITE_ACCESS_DENIED"
                   ELSE "UNKNOWN_PROPERTY")

----------------------------------------------------------------------------
(* Priority arrays.                                                        *)

NoCommands == [p \in Priorities |-> Null]

(* Fault: the array is searched from its end.                              *)
HighestFromEnd(level, default) ==
    LET commanded == {p \in Priorities : level[p] # Null}
    IN  IF commanded = {} THEN default
        ELSE level[CHOOSE p \in commanded : \A q \in commanded : p >= q]

Highest(level, default) ==
    LET commanded == {p \in Priorities : level[p] # Null}
    IN  IF commanded = {} THEN default
        ELSE level[CHOOSE p \in commanded : \A q \in commanded : p <= q]

(* A command at the request's priority, or its relinquishment: the         *)
(* reserved priority takes no command, but any may be relinquished.        *)
Commanding(o, w, tag, valid, kept) ==
    LET v == w.values[1]
        At(level) == [o EXCEPT !.Level[w.priority] = level]
    IN  IF Tag(v) = tag
        THEN IF w.priority = RESERVED_PRIORITY
             THEN Refuse(o, "WRITE_ACCESS_DENIED")
             ELSE Check(o, valid, "VALUE_OUT_OF_RANGE", At(kept))
        ELSE WPValidateArgType(o, v, "NULL", Accept(At(Null)))
=============================================================================
