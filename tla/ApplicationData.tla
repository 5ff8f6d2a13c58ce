--------------------------- MODULE ApplicationData ---------------------------
(***************************************************************************)
(* The application data values of bacapp.c: a value with its type, written *)
(* with the tag of the type or, inside a service, with a context tag that  *)
(* only the property it belongs to can give a type; and the length of what *)
(* stands between an opening tag and its closing tag.                      *)
(***************************************************************************)
EXTENDS Primitives

bacapp_encode_application_data(type, v) ==
  IF type \notin CompiledIn THEN <<>>
  ELSE CASE type = "null"       -> encode_application_null
         [] type = "boolean"    -> encode_application_boolean(v)
         [] type = "unsigned"   -> encode_application_unsigned(v)
         [] type = "signed"     -> encode_application_signed(v)
         [] type = "real"       -> encode_application_real(v)
         [] type = "double"     -> encode_application_double(v)
         [] type = "octets"     -> encode_application_octet_string(v)
         [] type = "string"     -> encode_application_character_string(v)
         [] type = "bits"       -> encode_application_bitstring(v)
         [] type = "enumerated" -> encode_application_enumerated(v)
         [] type = "object"     -> encode_application_object_id(v)

bacapp_encode_context_data_value(n, type, v) ==
  IF type \notin CompiledIn THEN <<>>
  ELSE CASE type = "null"       -> encode_context_null(n)
         [] type = "boolean"    -> encode_context_boolean(n, v)
         [] type = "unsigned"   -> encode_context_unsigned(n, v)
         [] type = "signed"     -> encode_context_signed(n, v)
         [] type = "real"       -> encode_context_real(n, v)
         [] type = "double"     -> encode_context_double(n, v)
         [] type = "octets"     -> encode_context_octet_string(n, v)
         [] type = "string"     -> encode_context_character_string(n, v)
         [] type = "bits"       -> encode_context_bitstring(n, v)
         [] type = "enumerated" -> encode_context_enumerated(n, v)
         [] type = "object"     -> encode_context_object_id(n, v)

(* The value that contents hold, whatever tag they stand behind. *)
Contents(type, o) ==
  CASE type = "unsigned"   -> decode_unsigned(o)
    [] type = "signed"     -> decode_signed(o)
    [] type = "real"       -> decode_real_safe(o)
    [] type = "double"     -> decode_double_safe(o)
    [] type = "octets"     -> decode_octet_string(o)
    [] type = "string"     -> decode_character_string(o)
    [] type = "bits"       -> decode_bitstring(o)
    [] type = "enumerated" -> decode_enumerated(o)
    [] type = "date"       -> decode_date_safe(o)
    [] type = "time"       -> decode_bacnet_time_safe(o)
    [] type = "object"     -> decode_object_id_safe(o)

(* How many of the length octets the decoder of a type takes: none of those *)
(* it cannot hold.                                                          *)
TakenOf(type, length) ==
  IF type \in {"null", "boolean"} \/ type \notin CompiledIn THEN 0
  ELSE CASE type = "object" -> IF length = 4 THEN 4 ELSE 0
         [] type = "octets" -> IF length <= OCTET_STRING_CAPACITY THEN length ELSE 0
         [] type = "string" -> IF length - 1 \in 0..CHARACTER_STRING_CAPACITY THEN length ELSE 0
         [] type = "bits"   -> IF length - 1 \in 0..MAX_BITSTRING_BYTES THEN length ELSE 0
         [] OTHER           -> length

(* A boolean is its length; of the others an empty one is refused, except   *)
(* where nothing is a value.                                                *)
bacapp_decode_data(o, at, type, length) ==
  LET Taken(n) ==
        IF n = 0 /\ type # "octets" THEN [len |-> 0, value |-> <<Refused, 0>>]
        ELSE [len |-> n, value |-> <<type, Contents(type, Slice(o, at, n))>>]
  IN  CASE type = "null"    -> [len |-> 0, value |-> <<type, 0>>]
        [] type = "boolean" -> [len |-> 0, value |-> <<type, length # 0>>]
        [] OTHER            -> Taken(TakenOf(type, length))

(* The data behind a tag. *)
DataBehind(tag, o, at, type) == bacapp_decode_data(o, at + tag.len, type, tag.value)
NothingDecoded == [len |-> 0, value |-> <<Refused, 0>>]

bacapp_decode_application_data(o, at) ==
  LET WithTag(data, len) ==
        [data EXCEPT !.len = IF data.value[1] = Refused THEN -1 ELSE @ + len]
      Behind(tag) == WithTag(DataBehind(tag, o, at, TypeOf(tag.number)), tag.len)
  IN  IF IsContextSpecific(At(o, at)) THEN NothingDecoded
      ELSE Behind(decode_tag_number_and_value(o, at))

(* The next of a list of values, of which left octets are left; "ok" only   *)
(* when its contents are there too.                                         *)
bacapp_decode_application_data_safe(o, at) ==
  LET left == Len(o) - at + 1
      None == [len |-> 0, value |-> NothingDecoded.value, ok |-> FALSE]
      WithTag(data, len) == [len |-> data.len + len, value |-> data.value, ok |-> TRUE]
      Behind(tag, type) ==
        IF tag.len # 0 /\ (type = "boolean" \/ tag.value <= left - tag.len)
        THEN WithTag(DataBehind(tag, o, at, type), tag.len)
        ELSE None
      Typed(tag) == Behind(tag, TypeOf(tag.number))
  IN  IF left = 0 \/ IsContextSpecific(At(o, at)) THEN None
      ELSE Typed(decode_tag_number_and_value_safe(o, at, left))

(* All the values of a list, until one cannot be read. *)
bacapp_decode_list(o) ==
  LET From[at \in Nat] ==
        LET d == bacapp_decode_application_data_safe(o, at)
        IN  IF d.ok THEN <<d.value>> \o From[at + d.len] ELSE <<>>
  IN  From[1]

(* The octets an application value takes, for the types with contents. *)
bacapp_decode_data_len(type, length) ==
  IF type \in {"null", "boolean"} THEN 0 ELSE length

bacapp_decode_application_data_len(o, at) ==
  LET Length(tag) == tag.len + bacapp_decode_data_len(TypeOf(tag.number), tag.value)
  IN  IF IsContextSpecific(At(o, at)) THEN 0 ELSE Length(decode_tag_number_and_value(o, at))

(* The types that the context tags of a property stand for. *)
ShedLevelTags == 0 :> "unsigned" @@ 1 :> "unsigned" @@ 2 :> "real"
bacapp_context_tag_type ==
  [property \in {"ACTUAL_SHED_LEVEL", "REQUESTED_SHED_LEVEL", "EXPECTED_SHED_LEVEL"} |->
     ShedLevelTags] @@
  "ACTION" :> (0 :> "object" @@ 1 :> "object" @@ 2 :> "enumerated" @@ 3 :> "unsigned" @@
               5 :> "unsigned" @@ 6 :> "unsigned" @@ 7 :> "boolean" @@ 8 :> "boolean") @@
  "LIST_OF_GROUP_MEMBERS" :> (0 :> "object") @@
  "EXCEPTION_SCHEDULE" :> (1 :> "object" @@ 3 :> "unsigned") @@
  "LOG_DEVICE_OBJECT_PROPERTY" :> (0 :> "object" @@ 1 :> "enumerated" @@
                                   2 :> "unsigned" @@ 3 :> "object") @@
  "SUBORDINATE_LIST" :> (0 :> "object" @@ 1 :> "object") @@
  "RECIPIENT_LIST" :> (0 :> "object") @@
  "ACTIVE_COV_SUBSCRIPTIONS" :> (2 :> "boolean" @@ 3 :> "unsigned" @@ 4 :> "real")

HasType(property, n) ==
  property \in DOMAIN bacapp_context_tag_type /\ n \in DOMAIN bacapp_context_tag_type[property]

bacapp_encode_context_data(property, n, type, v) ==
  IF HasType(property, n) THEN bacapp_encode_context_data_value(n, type, v) ELSE <<>>

bacapp_decode_context_data(o, at, property) ==
  LET Behind(tag) ==
        IF HasType(property, tag.number)
        THEN [DataBehind(tag, o, at, bacapp_context_tag_type[property][tag.number])
                EXCEPT !.len = @ + tag.len]
        ELSE [NothingDecoded EXCEPT !.len = IF tag.value # 0 THEN tag.len + tag.value ELSE -1]
  IN  IF ~IsContextSpecific(At(o, at)) \/ IsClosing(At(o, at)) THEN NothingDecoded
      ELSE Behind(decode_tag_number_and_value(o, at))

bacapp_decode_context_data_len(o, at, property) ==
  LET Length(tag) ==
        tag.len + IF HasType(property, tag.number)
                  THEN bacapp_decode_data_len(bacapp_context_tag_type[property][tag.number], tag.value)
                  ELSE tag.value
  IN  Length(decode_tag_number_and_value(o, at))

(* The octets between the opening tag at "at" and the closing tag of the    *)
(* same number that ends it, over whatever is nested in between; -1 when    *)
(* the message ends before.                                                 *)
ItemLen(o, at, property) ==
  IF IsOpening(At(o, at)) \/ IsClosing(At(o, at)) THEN decode_tag_number_and_value(o, at).len
  ELSE IF IsContextSpecific(At(o, at)) THEN bacapp_decode_context_data_len(o, at, property)
  ELSE bacapp_decode_application_data_len(o, at)

(* The first closing tag of the number taken for the last. *)
NestingForgotten(o, i, number, depth) ==
  IF decode_is_closing_tag_number(o, i, number) THEN 0 ELSE depth

(* The nesting after the item at i, counted in one octet: only brackets of  *)
(* the same number count.                                                   *)
NestingAfter(o, i, number, depth) ==
  CASE decode_is_opening_tag_number(o, i, number) -> (depth + 1) % 256
    [] decode_is_closing_tag_number(o, i, number) -> depth - 1
    [] OTHER -> depth

(* Where the closing tag stands, or 0. *)
ClosingTagAt(o, first, number, property) ==
  LET End[p \in Nat \X (Nat \ {0})] ==
        LET len == ItemLen(o, p[1], property)
            after == NestingAfter(o, p[1], number, p[2])
        IN  IF p[1] + len > Len(o) + 1 \/ len = 0 THEN 0
            ELSE IF after = 0 THEN p[1]
            ELSE End[<<p[1] + len, after>>]
  IN  End[<<first, 1>>]

bacapp_data_len(o, at, property) ==
  LET Length(end, first) == IF end = 0 THEN -1 ELSE end - first
      Behind(tag) == Length(ClosingTagAt(o, at + tag.len, tag.number, property), at + tag.len)
  IN  IF IsOpening(At(o, at)) THEN Behind(decode_tag_number(o, at)) ELSE 0

bacapp_copy(value) ==
  IF value[1] \in CompiledIn THEN value ELSE <<Refused, 0>>
=============================================================================
