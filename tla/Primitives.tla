----------------------------- MODULE Primitives -----------------------------
(***************************************************************************)
(* The octets of BACnet's tagged values, as bacdcode.c, bacint.c, bacreal.c*)
(* and bacstr.c write and read them, and the application data of bacapp.c. *)
(*                                                                         *)
(* A message is a sequence of octets; "at" is the place, from 1, where a   *)
(* decoder reads.  A value is what the program holds:                      *)
(*   a number for an unsigned, signed or enumerated value and a boolean;   *)
(*   the octets in host order for a real or a double (bacreal.c copies     *)
(*   them in the opposite order, the compilers of the device being little- *)
(*   endian); a sequence of octets for an octet string; an encoding and a  *)
(*   sequence of octets for a character string; a sequence of booleans for *)
(*   a bit string; <<year, month, day, weekday>>; <<hour, minute, second,  *)
(*   hundredth>>; <<type, instance>> of an object.                         *)
(* A read past the end of the message, which the C code would do with what *)
(* memory holds, is NoOctet here: no value is decoded from it.             *)
(***************************************************************************)
EXTENDS Integers, Sequences, SequencesExt, FiniteSets, TLC

CONSTANT MAX_APDU             \* the octets an application PDU may have

MAX_BITSTRING_BYTES == 15
CHARACTER_STRING_CAPACITY == MAX_APDU - 7
OCTET_STRING_CAPACITY == MAX_APDU - 6
BACNET_ARRAY_ALL == -1        \* 0xFFFFFFFF, which no array index of a model reaches
NoOctet == 0

(* The application tags. *)
Tags == [null |-> 0, boolean |-> 1, unsigned |-> 2, signed |-> 3, real |-> 4,
         double |-> 5, octets |-> 6, string |-> 7, bits |-> 8, enumerated |-> 9,
         date |-> 10, time |-> 11, object |-> 12]

Refused == "MAX_BACNET_APPLICATION_TAG"   \* the type of a value nothing was decoded for

TypeOf(tag) ==
  IF \E t \in DOMAIN Tags : Tags[t] = tag
  THEN CHOOSE t \in DOMAIN Tags : Tags[t] = tag ELSE Refused

(* The types bacapp.c was compiled with: config.h leaves BACAPP_DATE and    *)
(* BACAPP_TIME out of BACAPP_ALL.                                           *)
CompiledIn == DOMAIN Tags \ {"date", "time"}

At(o, i) == IF i \in DOMAIN o THEN o[i] ELSE NoOctet

(* The n octets of o from i on. *)
Slice(o, i, n) == [k \in 1..n |-> At(o, i + k - 1)]

(***************************************************************************)
(* Numbers: most significant octet first.                                  *)
(***************************************************************************)
encode_unsigned16(v) == <<(v \div 256) % 256, v % 256>>
encode_unsigned24(v) == <<(v \div 65536) % 256>> \o encode_unsigned16(v)
encode_unsigned32(v) == <<(v \div 16777216) % 256>> \o encode_unsigned24(v)

decode_unsigned16(o) == o[1] * 256 + o[2]
decode_unsigned24(o) == o[1] * 65536 + decode_unsigned16(Tail(o))
decode_unsigned32(o) == o[1] * 16777216 + decode_unsigned24(Tail(o))

(* A signed number of k octets: the first one carries the sign. *)
WithSign(octet) == IF octet >= 128 THEN octet - 256 ELSE octet
decode_signed8(o)  == WithSign(o[1])
decode_signed16(o) == WithSign(o[1]) * 256 + o[2]
decode_signed24(o) == WithSign(o[1]) * 65536 + decode_unsigned16(Tail(o))
decode_signed32(o) == WithSign(o[1]) * 16777216 + decode_unsigned24(Tail(o))

encode_bacnet_unsigned(v) ==
  IF v < 256 THEN <<v>>
  ELSE IF v < 65536 THEN encode_unsigned16(v)
  ELSE IF v < 16777216 THEN encode_unsigned24(v)
  ELSE encode_unsigned32(v)

decode_unsigned(o) ==
  CASE Len(o) = 1 -> o[1]
    [] Len(o) = 2 -> decode_unsigned16(o)
    [] Len(o) = 3 -> decode_unsigned24(o)
    [] Len(o) = 4 -> decode_unsigned32(o)
    [] OTHER      -> 0

encode_bacnet_enumerated(v) == encode_bacnet_unsigned(v)
decode_enumerated(o) == decode_unsigned(o)

(* The bit of the sign forgotten. *)
FitsThreeOctetsByMagnitude(v) == v > -16777216 /\ v < 16777216

(* The same octets as an unsigned number, of the fewest that keep the sign; *)
(* the lowest value of 24 bits is sent in 32.                               *)
FitsThreeOctets(v) == v > -8388608 /\ v < 8388608

encode_bacnet_signed(v) ==
  IF v >= -128 /\ v < 128 THEN <<v % 256>>
  ELSE IF v >= -32768 /\ v < 32768 THEN encode_unsigned16(v)
  ELSE IF FitsThreeOctets(v) THEN encode_unsigned24(v)
  ELSE encode_unsigned32(v)

decode_signed(o) ==
  CASE Len(o) = 1 -> decode_signed8(o)
    [] Len(o) = 2 -> decode_signed16(o)
    [] Len(o) = 3 -> decode_signed24(o)
    [] Len(o) = 4 -> decode_signed32(o)
    [] OTHER      -> 0

encode_bacnet_real(v) == Reverse(v)
decode_real(o) == Reverse(o)
decode_real_safe(o) == IF Len(o) # 4 THEN <<0, 0, 0, 0>> ELSE decode_real(o)
encode_bacnet_double(v) == Reverse(v)
decode_double(o) == Reverse(o)
decode_double_safe(o) == IF Len(o) # 8 THEN [k \in 1..8 |-> 0] ELSE decode_double(o)

encode_bacnet_object_id(v) ==
  encode_unsigned32((v[1] % 1024) * 4194304 + (v[2] % 4194304))
decode_object_id(o) == LET n == decode_unsigned32(o) IN <<n \div 4194304, n % 4194304>>
decode_object_id_safe(o) == IF Len(o) # 4 THEN <<0, 0>> ELSE decode_object_id(o)

(***************************************************************************)
(* Bit strings: the first bit of the string is the highest of the first    *)
(* octet, after an octet that counts the bits left over at the end.        *)
(***************************************************************************)
bitstring_bytes_used(bits) == (Len(bits) + 7) \div 8
bitstring_bit(bits, i) == IF i \in DOMAIN bits /\ bits[i] THEN 1 ELSE 0

byte_reverse_bits(bits, k) ==
  LET bit(j) == bitstring_bit(bits, 8 * (k - 1) + j)
  IN  bit(1) * 128 + bit(2) * 64 + bit(3) * 32 + bit(4) * 16
        + bit(5) * 8 + bit(6) * 4 + bit(7) * 2 + bit(8)

encode_bitstring(bits) ==
  LET bytes == bitstring_bytes_used(bits)
  IN  IF bits = <<>> THEN <<0>>
      ELSE <<8 * bytes - Len(bits)>> \o [k \in 1..bytes |-> byte_reverse_bits(bits, k)]

BitWeights == <<128, 64, 32, 16, 8, 4, 2, 1>>

(* The bits used: eight for each octet but the unused ones. *)
bitstring_set_bits_used(bytes, unused) == 8 * bytes - unused

decode_bitstring(o) ==
  IF o = <<>> \/ Len(o) - 1 > MAX_BITSTRING_BYTES THEN <<>>
  ELSE [i \in 1..bitstring_set_bits_used(Len(o) - 1, o[1] % 8) |->
         (o[2 + (i - 1) \div 8] \div BitWeights[1 + ((i - 1) % 8)]) % 2 = 1]

(***************************************************************************)
(* Strings.  A string longer than its buffer is not stored.                *)
(***************************************************************************)
encode_octet_string(v) == v
decode_octet_string(o) == IF Len(o) <= OCTET_STRING_CAPACITY THEN o ELSE <<>>

encode_bacnet_character_string(v) == <<v[1]>> \o v[2]
characterstring_init(encoding, octets) ==
  IF Len(octets) <= CHARACTER_STRING_CAPACITY THEN <<encoding, octets>> ELSE <<encoding, <<>>>>
decode_character_string(o) == characterstring_init(o[1], Tail(o))

(***************************************************************************)
(* Times and dates.  A year counts from 1900; one below 256 is taken to be *)
(* what the octet is to hold.                                              *)
(***************************************************************************)
encode_bacnet_time(v) == v
decode_bacnet_time(o) == o
decode_bacnet_time_safe(o) == IF Len(o) # 4 THEN <<0, 0, 0, 0>> ELSE decode_bacnet_time(o)

YearOctet(year) == IF year >= 1900 THEN (year - 1900) % 256 ELSE year

encode_bacnet_date(v) == <<YearOctet(v[1]), v[2], v[3], v[4]>>
decode_date(o) == <<o[1] + 1900, o[2], o[3], o[4]>>
decode_date_safe(o) == IF Len(o) # 4 THEN <<0, 0, 0, 0>> ELSE decode_date(o)

(***************************************************************************)
(* Tags: the number, the class and a length, each in the first octet when  *)
(* it fits there.                                                          *)
(***************************************************************************)
FirstOctet(number, context, low) ==
  (IF number <= 14 THEN number ELSE 15) * 16 + (IF context THEN 8 ELSE 0) + low
NumberOctet(number) == IF number <= 14 THEN <<>> ELSE <<number>>

(* A length of 254 written in the octet that announces two more. *)
LengthOctetsTo254(length) ==
  IF length <= 4 THEN <<>>
  ELSE IF length <= 254 THEN <<length>>
  ELSE IF length <= 65535 THEN <<254>> \o encode_unsigned16(length)
  ELSE <<255>> \o encode_unsigned32(length)

LengthOctets(length) ==
  IF length <= 4 THEN <<>>
  ELSE IF length <= 253 THEN <<length>>
  ELSE IF length <= 65535 THEN <<254>> \o encode_unsigned16(length)
  ELSE <<255>> \o encode_unsigned32(length)

encode_tag(number, context, length) ==
  <<FirstOctet(number, context, IF length <= 4 THEN length ELSE 5)>>
    \o NumberOctet(number) \o LengthOctets(length)
encode_opening_tag(number) == <<FirstOctet(number, TRUE, 6)>> \o NumberOctet(number)
encode_closing_tag(number) == <<FirstOctet(number, TRUE, 7)>> \o NumberOctet(number)

IsExtendedNumber(octet) == octet \div 16 = 15
IsExtendedValue(octet) == octet % 8 = 5
IsContextSpecific(octet) == (octet \div 8) % 2 = 1
IsOpening(octet) == octet % 8 = 6
IsClosing(octet) == octet % 8 = 7

decode_tag_number(o, at) ==
  IF IsExtendedNumber(At(o, at)) THEN [len |-> 2, number |-> At(o, at + 1)]
  ELSE [len |-> 1, number |-> At(o, at) \div 16]

(* The value behind the number, the octet there telling how long it is.    *)
TagWith(t, more, value) == [len |-> t.len + more, number |-> t.number, value |-> value]
LongValue(t, next, o, after) ==
  CASE next = 255 -> TagWith(t, 5, decode_unsigned32(Slice(o, after, 4)))
    [] next = 254 -> TagWith(t, 3, decode_unsigned16(Slice(o, after, 2)))
    [] OTHER      -> TagWith(t, 1, next)

ShortValue(octet) == IF IsOpening(octet) \/ IsClosing(octet) THEN 0 ELSE octet % 8

WithValue(t, o, at) ==
  IF IsExtendedValue(At(o, at)) THEN LongValue(t, At(o, at + t.len), o, at + t.len + 1)
  ELSE TagWith(t, 0, ShortValue(At(o, at)))

decode_tag_number_and_value(o, at) == WithValue(decode_tag_number(o, at), o, at)

decode_tag_number_safe(o, at, left) ==
  IF left = 0 THEN [len |-> 0, number |-> 0]
  ELSE IF IsExtendedNumber(At(o, at)) /\ left >= 2 THEN [len |-> 2, number |-> At(o, at + 1)]
  ELSE [len |-> 1, number |-> At(o, at) \div 16]

(* The length is 0 when the tag is not all there. *)
ValueNeeds(next) == CASE next = 255 -> 5 [] next = 254 -> 3 [] OTHER -> 1
WithValueSafe(t, o, at, left) ==
  IF \/ t.len = 0
     \/ IsExtendedValue(At(o, at)) /\ left - t.len < ValueNeeds(At(o, at + t.len))
  THEN [len |-> 0, number |-> t.number, value |-> 0]
  ELSE WithValue(t, o, at)

decode_tag_number_and_value_safe(o, at, left) ==
  WithValueSafe(decode_tag_number_safe(o, at, left), o, at, left)

decode_is_context_tag(o, at, number) ==
  IsContextSpecific(At(o, at)) /\ decode_tag_number(o, at).number = number
decode_is_opening_tag_number(o, at, number) ==
  IsOpening(At(o, at)) /\ decode_tag_number(o, at).number = number
decode_is_closing_tag_number(o, at, number) ==
  IsClosing(At(o, at)) /\ decode_tag_number(o, at).number = number

(***************************************************************************)
(* Tagged values.  A boolean of the application is in its tag; strings too *)
(* long for a message are not written at all.                              *)
(***************************************************************************)
Tagged(number, context, contents) == encode_tag(number, context, Len(contents)) \o contents
IfItFits(octets) == IF Len(octets) < MAX_APDU THEN octets ELSE <<>>

encode_application_null == encode_tag(Tags.null, FALSE, 0)
encode_application_boolean(v) == encode_tag(Tags.boolean, FALSE, IF v THEN 1 ELSE 0)
encode_application_unsigned(v) == Tagged(Tags.unsigned, FALSE, encode_bacnet_unsigned(v))
encode_application_signed(v) == Tagged(Tags.signed, FALSE, encode_bacnet_signed(v))
encode_application_enumerated(v) == Tagged(Tags.enumerated, FALSE, encode_bacnet_enumerated(v))
encode_application_real(v) == Tagged(Tags.real, FALSE, encode_bacnet_real(v))
encode_application_double(v) == Tagged(Tags.double, FALSE, encode_bacnet_double(v))
encode_application_octet_string(v) == IfItFits(Tagged(Tags.octets, FALSE, encode_octet_string(v)))
encode_application_character_string(v) ==
  IfItFits(Tagged(Tags.string, FALSE, encode_bacnet_character_string(v)))
encode_application_bitstring(v) == Tagged(Tags.bits, FALSE, encode_bitstring(v))
encode_application_date(v) == Tagged(Tags.date, FALSE, encode_bacnet_date(v))
encode_application_time(v) == Tagged(Tags.time, FALSE, encode_bacnet_time(v))
encode_application_object_id(v) == Tagged(Tags.object, FALSE, encode_bacnet_object_id(v))

encode_context_null(n) == encode_tag(n, TRUE, 0)
encode_context_boolean(n, v) == Tagged(n, TRUE, <<IF v THEN 1 ELSE 0>>)
encode_context_unsigned(n, v) == Tagged(n, TRUE, encode_bacnet_unsigned(v))
encode_context_signed(n, v) == Tagged(n, TRUE, encode_bacnet_signed(v))
encode_context_enumerated(n, v) == Tagged(n, TRUE, encode_bacnet_enumerated(v))
encode_context_real(n, v) == Tagged(n, TRUE, encode_bacnet_real(v))
encode_context_double(n, v) == Tagged(n, TRUE, encode_bacnet_double(v))
encode_context_octet_string(n, v) == IfItFits(Tagged(n, TRUE, encode_octet_string(v)))
encode_context_character_string(n, v) ==
  IfItFits(Tagged(n, TRUE, encode_bacnet_character_string(v)))
encode_context_bitstring(n, v) == Tagged(n, TRUE, encode_bitstring(v))
encode_context_date(n, v) == Tagged(n, TRUE, encode_bacnet_date(v))
encode_context_time(n, v) == Tagged(n, TRUE, encode_bacnet_time(v))
encode_context_object_id(n, v) == Tagged(n, TRUE, encode_bacnet_object_id(v))
=============================================================================
