--------------------------- MODULE ServicesAccess ---------------------------
(***************************************************************************)
(* The services that read and write properties: ReadProperty (rp.c),       *)
(* ReadPropertyMultiple (rpm.c), WriteProperty (wp.c),                     *)
(* WritePropertyMultiple (wpm.c) and ReadRange (readrange.c).  Each encoder*)
(* gives the octets of an application PDU, each decoder takes the octets   *)
(* after its header.                                                       *)
(*                                                                         *)
(* A property is asked for by [object, property, index]; "data" are octets *)
(* of application data, which these services carry without reading.        *)
(***************************************************************************)
EXTENDS Headers

BACNET_MAX_OBJECT == 1023
BACNET_MAX_PRIORITY == 16
BACNET_NO_PRIORITY == 0

Enclosed(n, octets) == encode_opening_tag(n) \o octets \o encode_closing_tag(n)
IndexOctets(n, index) == When(index # BACNET_ARRAY_ALL, encode_context_unsigned(n, index))

DataOctets(values) ==
  LET Octets(v) == bacapp_encode_application_data(v[1], v[2]) IN Concatenated(values, Octets)

(***************************************************************************)
(* ReadProperty.                                                           *)
(***************************************************************************)
rp_encode_apdu(id, r) ==
  ConfirmedHeader(id, "read_property")
    \o When(r.object[1] <= BACNET_MAX_OBJECT, encode_context_object_id(0, r.object))
    \o When(r.property <= 4194303, encode_context_enumerated(1, r.property))
    \o IndexOctets(2, r.index)

rp_decode_service_request(o) ==
  LET left == <<Or(Numbered(2, "unsigned", "index"), "INVALID_TAG"),
                Or(Ended, "TOO_MANY_ARGUMENTS")>>
      Index(p) == Then(p, IF AtEnd(p) THEN <<Given("index", BACNET_ARRAY_ALL)>> ELSE left)
  IN  IF Len(o) < 7 THEN Fail(Begin(o), "MISSING_REQUIRED_PARAMETER")
      ELSE Index(Decode(o, <<Or(Context(0, "object", "object"), "INVALID_TAG"),
                             Or(Numbered(1, "enumerated", "property"), "INVALID_TAG")>>))

rp_ack_encode_apdu_init(id, r) ==
  ComplexAckHeader(id, "read_property") \o encode_context_object_id(0, r.object)
    \o encode_context_enumerated(1, r.property) \o IndexOctets(2, r.index)
    \o encode_opening_tag(3)
rp_ack_encode_apdu_object_property_end == encode_closing_tag(3)
rp_ack_encode_apdu(id, r) ==
  rp_ack_encode_apdu_init(id, r) \o r.data \o rp_ack_encode_apdu_object_property_end

rp_ack_decode_service_request(o) ==
  Decode(o, <<Context(0, "object", "object"), Numbered(1, "enumerated", "property"),
              OptionalNumbered(2, "unsigned", "index", BACNET_ARRAY_ALL),
              Opening(3), AllButLast("data")>>)

(***************************************************************************)
(* ReadPropertyMultiple: a list of objects, each with a list of            *)
(* properties; in the answer each property has data or an error.           *)
(***************************************************************************)
rpm_encode_apdu_init(id) == ConfirmedHeader(id, "read_property_multiple")
rpm_encode_apdu_object_begin(object) == encode_context_object_id(0, object) \o encode_opening_tag(1)
rpm_encode_apdu_object_property(r) ==
  encode_context_enumerated(0, r.property) \o IndexOctets(1, r.index)
rpm_encode_apdu_object_end == encode_closing_tag(1)

(* Nothing at all is sent when it does not fit. *)
rpm_encode_apdu(max_apdu, id, r) ==
  LET Object(x) == rpm_encode_apdu_object_begin(x.object)
                     \o Concatenated(x.properties, rpm_encode_apdu_object_property)
                     \o rpm_encode_apdu_object_end
      octets == rpm_encode_apdu_init(id) \o Concatenated(r.objects, Object)
  IN  When(Len(octets) <= max_apdu, octets)

rpm_decode_object_id(p) ==
  IF Len(p.o) - p.at + 1 < 5 THEN Fail(p, "MISSING_REQUIRED_PARAMETER")
  ELSE Then(p, <<Or(Context(0, "object", "object"), "INVALID_TAG"), Or(Opening(1), "INVALID_TAG")>>)
rpm_decode_object_end(p) == ~AtEnd(p) /\ IsClosingOf(p, 1)
Precedes(p, next) == next.fail = "none" => next.at <= Len(p.o)
rpm_decode_object_property(p) ==
  LET Checked(next) ==
        IF Precedes(p, next) THEN next ELSE Fail(p, "MISSING_REQUIRED_PARAMETER")
  IN  IF ~IsContextSpecific(Here(p)) THEN Fail(p, "INVALID_TAG")
      ELSE Checked(Then(p, <<Or(Numbered(0, "enumerated", "property"), "INVALID_TAG"),
                             Optional(1, "unsigned", "index", BACNET_ARRAY_ALL)>>))

(* The walk of handler_read_property_multiple over these. *)
PropertiesOf(p, Property(_), Ended1(_)) ==
  LET more(q) == ~AtEnd(q) /\ ~Ended1(q)
      Closed(all) == IF Failed(all) \/ AtEnd(all) THEN all ELSE Skip(all)
  IN  Closed(Items(p, "properties", more, Property))
IsLeft(p) == ~AtEnd(p)
rpm_decode_service_request(o) ==
  LET Object(p) == PropertiesOf(rpm_decode_object_id(p), rpm_decode_object_property,
                                rpm_decode_object_end)
  IN  Items(Begin(o), "objects", IsLeft, Object)

rpm_ack_encode_apdu_init(id) == ComplexAckHeader(id, "read_property_multiple")
rpm_ack_encode_apdu_object_begin(object) ==
  encode_context_object_id(0, object) \o encode_opening_tag(1)
rpm_ack_encode_apdu_object_property(r) ==
  encode_context_enumerated(2, r.property) \o IndexOctets(3, r.index)
rpm_ack_encode_apdu_object_property_value(data) == Enclosed(4, data)
rpm_ack_encode_apdu_object_property_error(error) ==
  Enclosed(5, encode_application_enumerated(error[1]) \o encode_application_enumerated(error[2]))
rpm_ack_encode_apdu_object_end == encode_closing_tag(1)

rpm_ack_encode_apdu(id, r) ==
  LET Property(x) == rpm_ack_encode_apdu_object_property(x)
                       \o IF "values" \in DOMAIN x
                          THEN rpm_ack_encode_apdu_object_property_value(DataOctets(x.values))
                          ELSE rpm_ack_encode_apdu_object_property_error(x.error)
      Object(x) == rpm_ack_encode_apdu_object_begin(x.object)
                     \o Concatenated(x.properties, Property) \o rpm_ack_encode_apdu_object_end
  IN  rpm_ack_encode_apdu_init(id) \o Concatenated(r.objects, Object)

rpm_ack_decode_object_id(p) == Then(p, <<Context(0, "object", "object"), Opening(1)>>)
rpm_ack_decode_object_end(p) == ~AtEnd(p) /\ IsClosingOf(p, 1)
IsNextProperty(p) == ~AtEnd(p) /\ IsContextSpecific(Here(p)) /\ TagHere(p).number = 2
rpm_ack_decode_object_property(p) ==
  Then(p, <<Numbered(2, "enumerated", "property"),
            Optional(3, "unsigned", "index", BACNET_ARRAY_ALL)>>)

(* The client's walk (h_rpm_a.c): the values of a property, or its error.   *)
ErrorIn(p) ==
  LET Kept(q) == [p EXCEPT !.at = q.at, !.fail = q.fail,
                           !.got = ("error" :> <<q.got["class"], q.got["code"]>>) @@ @]
  IN  Kept(Then(p, <<Opening(5), Unchecked("enumerated", "class"),
                     Unchecked("enumerated", "code"), Closing(5)>>))
rpm_ack_decode_service_request(o) ==
  LET Result(p) == CASE IsOpeningOf(p, 4) -> Values(p, 4, "values")
                     [] IsOpeningOf(p, 5) -> ErrorIn(p)
                     [] OTHER -> p
      Property(p) == Result(rpm_ack_decode_object_property(p))
      Closed(p) == IF rpm_ack_decode_object_end(p) THEN Skip(p) ELSE p
      Object(p) == Closed(Items(rpm_ack_decode_object_id(p), "properties", IsNextProperty, Property))
  IN  Items(Begin(o), "objects", IsLeft, Object)

(* The priority given to the octets before the value. *)
wp_encode_apdu_early(id, r) ==
  ConfirmedHeader(id, "write_property")
    \o encode_context_object_id(0, r.object) \o encode_context_enumerated(1, r.property)
    \o IndexOctets(2, r.index)
    \o When(r.priority # BACNET_NO_PRIORITY, encode_context_unsigned(4, r.priority))
    \o Enclosed(3, r.data)

(***************************************************************************)
(* WriteProperty.  A request without a priority is for the lowest.  With   *)
(* one, the length it returns is that of the priority alone (wp.c 166): no *)
(* caller needs more than that it is positive.                             *)
(***************************************************************************)
wp_encode_apdu(id, r) ==
  ConfirmedHeader(id, "write_property")
    \o encode_context_object_id(0, r.object) \o encode_context_enumerated(1, r.property)
    \o IndexOctets(2, r.index) \o Enclosed(3, r.data)
    \o When(r.priority # BACNET_NO_PRIORITY, encode_context_unsigned(4, r.priority))

wp_decode_service_request(o) ==
  LET Checked(p) == IF ~Failed(p) /\ p.got["priority"] \notin 1..BACNET_MAX_PRIORITY
                    THEN Fail(p, "ERROR") ELSE p
      Priority == OptionalNumbered(4, "unsigned", "priority", BACNET_MAX_PRIORITY)
  IN  Checked(Then(Between(Decode(o, <<Context(0, "object", "object"),
                                       Numbered(1, "enumerated", "property"),
                                       OptionalNumbered(2, "unsigned", "index", BACNET_ARRAY_ALL)>>),
                           3, "data", "any", "ERROR"), <<Priority>>))

(***************************************************************************)
(* WritePropertyMultiple.  The octets of a priority are written but not    *)
(* counted (wpm.c 250-252): whatever follows is written over them.         *)
(***************************************************************************)
wpm_encode_apdu_init(id) == ConfirmedHeader(id, "write_property_multiple")
wpm_encode_apdu_object_begin(object) == encode_context_object_id(0, object) \o encode_opening_tag(1)
wpm_encode_apdu_object_end == encode_closing_tag(1)
wpm_encode_apdu_object_property(r) ==
  encode_context_enumerated(0, r.property) \o IndexOctets(1, r.index) \o Enclosed(2, r.data)
wpm_encode_apdu(id, r) ==
  LET Object(x) == wpm_encode_apdu_object_begin(x.object)
                     \o Concatenated(x.properties, wpm_encode_apdu_object_property)
                     \o wpm_encode_apdu_object_end
  IN  wpm_encode_apdu_init(id) \o Concatenated(r.objects, Object)

(* The opening tag is left to the handler. *)
wpm_decode_object_id(p) ==
  LET Checked(q) == IF Failed(q) \/ IsOpeningOf(q, 1) THEN q ELSE Fail(q, "INVALID_TAG")
  IN  IF Len(p.o) - p.at + 1 <= 5 THEN Fail(p, "MISSING_REQUIRED_PARAMETER")
      ELSE Checked(Then(p, <<Or(Numbered(0, "object", "object"), "INVALID_TAG")>>))
wpm_decode_object_property(p) ==
  Then(Between(Then(p, <<Or(Numbered(0, "enumerated", "property"), "INVALID_TAG"),
                         OptionalNumbered(1, "unsigned", "index", BACNET_ARRAY_ALL)>>),
               2, "data", "any", "INVALID_TAG"),
       <<OptionalNumbered(3, "unsigned", "priority", BACNET_MAX_PRIORITY)>>)
wpm_decode_object_end(p) == IsClosingOf(p, 1)
wpm_decode_service_request(o) ==
  LET Object(p) == PropertiesOf(Then(wpm_decode_object_id(p), <<SkipTag>>),
                                wpm_decode_object_property, wpm_decode_object_end)
  IN  Items(Begin(o), "objects", IsLeft, Object)

wpm_ack_encode_apdu_init(id) == encode_simple_ack(id, "write_property_multiple")
wpm_error_ack_encode_apdu(id, r) ==
  ErrorHeader(id, "write_property_multiple")
    \o Enclosed(0, encode_application_enumerated(r.error[1])
                     \o encode_application_enumerated(r.error[2]))
    \o Enclosed(1, encode_context_object_id(0, r.object)
                     \o encode_context_enumerated(1, r.property) \o IndexOctets(2, r.index))

(***************************************************************************)
(* ReadRange: all of a list, or a part by position, sequence or time.      *)
(***************************************************************************)
RangeTag == [position |-> 3, sequence |-> 6, time |-> 7]
RangeOctets(range) ==
  CASE range.by = "all" -> <<>>
    [] range.by \in {"position", "sequence"} ->
         Enclosed(RangeTag[range.by], encode_application_unsigned(range.from)
                                        \o encode_application_signed(range.count))
    [] range.by = "time" ->
         Enclosed(RangeTag.time, encode_application_date(range.date)
                    \o encode_application_time(range.time) \o encode_application_signed(range.count))

rr_encode_apdu(id, r) ==
  ConfirmedHeader(id, "read_range")
    \o encode_context_object_id(0, r.object) \o encode_context_enumerated(1, r.property)
    \o IndexOctets(2, r.index) \o RangeOctets(r.range)

(* The tags inside the range are not looked at. *)
RangeIn(p) ==
  LET Inside(by) ==
        CASE by = "unknown" -> <<SkipTag, Given("by", "all")>>
          [] by = "time" -> <<SkipTag, Given("by", by), Unchecked("date", "date"),
                              Unchecked("time", "time"), Unchecked("signed", "count"), SkipTag>>
          [] OTHER -> <<SkipTag, Given("by", by), Unchecked("unsigned", "from"),
                        Unchecked("signed", "count"), SkipTag>>
  IN  Then(p, Inside(NameOf(RangeTag, TagHere(p).number)))

rr_decode_service_request(o) ==
  LET Kept(p, q) == [p EXCEPT !.at = q.at, !.fail = q.fail, !.got = ("range" :> q.got) @@ @]
      Ranged(p) == IF Failed(p) \/ AtEnd(p) THEN Keep(p, "range", [by |-> "all"])
                   ELSE Kept(p, RangeIn([p EXCEPT !.got = <<>>]))
  IN  Ranged(Decode(o, <<Context(0, "object", "object"), Numbered(1, "enumerated", "property"),
                         OptionalNumbered(2, "unsigned", "index", BACNET_ARRAY_ALL)>>))

rr_ack_encode_apdu(id, r) ==
  ComplexAckHeader(id, "read_range")
    \o encode_context_object_id(0, r.object) \o encode_context_enumerated(1, r.property)
    \o IndexOctets(2, r.index) \o encode_context_bitstring(3, r.flags)
    \o encode_context_unsigned(4, r.count) \o Enclosed(5, When(r.count # 0, r.data))
    \o When(r.count # 0 /\ r.by \notin {"position", "all"}, encode_context_unsigned(6, r.first))

(* The octets up to the closing tag of the items, over tags and contents. *)
ItemsOf(p) ==
  LET End[at \in Nat] ==
        LET Past(tag) == IF at + tag.len + tag.value > Len(p.o) THEN 0
                         ELSE End[at + tag.len + tag.value]
        IN  IF IsContextSpecific(At(p.o, at)) /\ decode_is_closing_tag_number(p.o, at, 5) THEN at
            ELSE Past(decode_tag_number_and_value(p.o, at))
      UpTo(first, end) == IF ~IsOpeningOf(p, 5) \/ end = 0 THEN Fail(p, "ERROR")
                          ELSE Keep([p EXCEPT !.at = end + 1], "data", Slice(p.o, first, end - first))
  IN  UpTo(p.at + 1, End[p.at + 1])

rr_ack_decode_service_request(o) ==
  LET First(p) == IF AtEnd(p) THEN <<Given("first", 0)>> ELSE <<Numbered(6, "unsigned", "first")>>
      Behind(p) == Then(p, First(p))
      Headed(p) == IF Failed(p) THEN p ELSE Behind(ItemsOf(p))
  IN  Headed(Decode(o, <<Context(0, "object", "object"), Numbered(1, "enumerated", "property"),
                         OptionalNumbered(2, "unsigned", "index", BACNET_ARRAY_ALL),
                         Numbered(3, "bits", "flags"), Numbered(4, "unsigned", "count")>>))
=============================================================================
