-------------------------------- MODULE Codec --------------------------------
(***************************************************************************)
(* Two devices and the octets between them.  The sender writes a message   *)
(* of one of the services, or a list of application values, with the       *)
(* encoders of the stack; the receiver reads the octets with its decoders, *)
(* which have no more to go by than those octets.  A list of values may    *)
(* lose its end on the way.  A clock counts minutes up and down through    *)
(* the calendar of datetime.c.                                             *)
(*                                                                         *)
(* A message is [kind, id, service, data]: the kind of PDU, the invoke ID, *)
(* the service, and the fields of the service as its encoder takes them.   *)
(***************************************************************************)
EXTENDS ServicesDevice, Calendar

CONSTANTS
  Messages,       \* the messages that are sent
  Routes,         \* [dest, src, expecting, priority]: where from and to, and how urgent
  Lists,          \* lists of application values <<type, value>>
  Brackets,       \* octets between an opening and a closing tag, nested ones included
  TagNumbers,     \* the context tags they stand behind
  Clocks,         \* the dates and times a clock is set to
  Minutes,        \* what is added to a clock
  MaxAdditions    \* how often

VARIABLES
  sent,           \* what the sender meant
  wire,           \* the octets that are there to be read
  read            \* what the receiver made of them

codecVars == <<sent, wire, read>>

(***************************************************************************)
(* The encoder of a message.                                               *)
(***************************************************************************)
EncodeConfirmed(service, id, d) ==
  CASE service = "acknowledge_alarm" -> alarm_ack_encode_apdu(id, d)
    [] service = "cov_notification" -> ccov_notify_encode_apdu(id, d)
    [] service = "event_notification" -> cevent_notify_encode_apdu(id, d)
    [] service = "subscribe_cov" -> cov_subscribe_encode_apdu(id, d)
    [] service = "subscribe_cov_property" -> cov_subscribe_property_encode_apdu(id, d)
    [] service = "atomic_read_file" -> arf_encode_apdu(id, d)
    [] service = "atomic_write_file" -> awf_encode_apdu(id, d)
    [] service = "read_property" -> rp_encode_apdu(id, d)
    [] service = "read_property_multiple" -> rpm_encode_apdu(MAX_APDU, id, d)
    [] service = "read_range" -> rr_encode_apdu(id, d)
    [] service = "write_property" -> wp_encode_apdu(id, d)
    [] service = "write_property_multiple" -> wpm_encode_apdu(id, d)
    [] service = "device_communication_control" -> dcc_encode_apdu(id, d)
    [] service = "reinitialize_device" -> rd_encode_apdu(id, d)
    [] service = "private_transfer" -> ptransfer_encode_apdu(id, d)
    [] service = "life_safety_operation" -> lso_encode_apdu(id, d)
    [] service = "get_event_information" -> getevent_encode_apdu(id, d)

EncodeUnconfirmed(service, d) ==
  CASE service = "i_am" -> iam_encode_apdu(d)
    [] service = "i_have" -> ihave_encode_apdu(d)
    [] service = "who_is" -> whois_encode_apdu(d)
    [] service = "who_has" -> whohas_encode_apdu(d)
    [] service = "cov_notification" -> ucov_notify_encode_apdu(d)
    [] service = "event_notification" -> uevent_notify_encode_apdu(d)
    [] service = "private_transfer" -> uptransfer_encode_apdu(d)
    [] service = "time_synchronization" -> timesync_encode_apdu(d)
    [] service = "utc_time_synchronization" -> timesync_utc_encode_apdu(d)

EncodeAck(service, id, d) ==
  CASE service = "read_property" -> rp_ack_encode_apdu(id, d)
    [] service = "read_property_multiple" -> rpm_ack_encode_apdu(id, d)
    [] service = "read_range" -> rr_ack_encode_apdu(id, d)
    [] service = "atomic_read_file" -> arf_ack_encode_apdu(id, d)
    [] service = "atomic_write_file" -> awf_ack_encode_apdu(id, d)
    [] service = "get_event_information" -> getevent_ack_encode_apdu(id, d)
    [] service = "get_alarm_summary" -> get_alarm_summary_ack_encode_apdu(id, d)
    [] service = "private_transfer" -> ptransfer_ack_encode_apdu(id, d)

Encode(m) ==
  CASE m.kind = "confirmed" -> EncodeConfirmed(m.service, m.id, m.data)
    [] m.kind = "unconfirmed" -> EncodeUnconfirmed(m.service, m.data)
    [] m.kind = "simple_ack" -> encode_simple_ack(m.id, m.service)
    [] m.kind = "complex_ack" -> EncodeAck(m.service, m.id, m.data)
    [] m.kind = "error" -> IF m.service = "private_transfer"
                           THEN ptransfer_error_encode_apdu(m.id, m.data)
                           ELSE bacerror_encode_apdu(m.id, m.service, m.data)
    [] m.kind = "reject" ->
         reject_encode_apdu(m.id, reject_convert_error_code(m.data.reason))
    [] m.kind = "abort" ->
         abort_encode_apdu(m.id, abort_convert_error_code(m.data.reason), m.data.server)

(***************************************************************************)
(* The decoder that the handler of a service calls.                        *)
(***************************************************************************)
DecodeConfirmed(service, o) ==
  CASE service = "acknowledge_alarm" -> alarm_ack_decode_service_request(o)
    [] service = "cov_notification" -> cov_notify_decode_service_request(o)
    [] service = "event_notification" -> event_notify_decode_service_request(o)
    [] service = "subscribe_cov" -> cov_subscribe_decode_service_request(o)
    [] service = "subscribe_cov_property" -> cov_subscribe_property_decode_service_request(o)
    [] service = "atomic_read_file" -> arf_decode_service_request(o)
    [] service = "atomic_write_file" -> awf_decode_service_request(o)
    [] service = "read_property" -> rp_decode_service_request(o)
    [] service = "read_property_multiple" -> rpm_decode_service_request(o)
    [] service = "read_range" -> rr_decode_service_request(o)
    [] service = "write_property" -> wp_decode_service_request(o)
    [] service = "write_property_multiple" -> wpm_decode_service_request(o)
    [] service = "device_communication_control" -> dcc_decode_service_request(o)
    [] service = "reinitialize_device" -> rd_decode_service_request(o)
    [] service = "private_transfer" -> ptransfer_decode_service_request(o)
    [] service = "life_safety_operation" -> lso_decode_service_request(o)
    [] service = "get_event_information" -> getevent_decode_service_request(o)

DecodeUnconfirmed(service, o) ==
  CASE service = "i_am" -> iam_decode_service_request(o)
    [] service = "i_have" -> ihave_decode_service_request(o)
    [] service = "who_is" -> whois_decode_service_request(o)
    [] service = "who_has" -> whohas_decode_service_request(o)
    [] service = "cov_notification" -> cov_notify_decode_service_request(o)
    [] service = "event_notification" -> event_notify_decode_service_request(o)
    [] service = "private_transfer" -> ptransfer_decode_service_request(o)
    [] service \in {"time_synchronization", "utc_time_synchronization"} ->
         timesync_decode_service_request(o)

DecodeAck(service, o) ==
  CASE service = "read_property" -> rp_ack_decode_service_request(o)
    [] service = "read_property_multiple" -> rpm_ack_decode_service_request(o)
    [] service = "read_range" -> rr_ack_decode_service_request(o)
    [] service = "atomic_read_file" -> arf_ack_decode_service_request(o)
    [] service = "atomic_write_file" -> awf_ack_decode_service_request(o)
    [] service = "get_event_information" -> getevent_ack_decode_service_request(o)
    [] service = "get_alarm_summary" -> get_alarm_summary_ack_decode_service_request(o)
    [] service = "private_transfer" -> ptransfer_decode_service_request(o)

(* What apdu_handler and the handler it calls know of a message.           *)
DataIn(p) == IF Failed(p) THEN [refused |-> p.fail] ELSE p.got
DataBehindHeader(h) ==
  CASE h.kind = "confirmed" -> DataIn(DecodeConfirmed(h.service, h.request))
    [] h.kind = "unconfirmed" -> DataIn(DecodeUnconfirmed(h.service, h.request))
    [] h.kind = "simple_ack" -> <<>>
    [] h.kind = "complex_ack" -> DataIn(DecodeAck(h.service, h.request))
    [] h.kind = "error" -> DataIn(Decode(h.request, ErrorSteps(h.service)))
    [] h.kind = "reject" -> [reason |-> h.reason]
    [] h.kind = "abort" -> [reason |-> h.reason, server |-> h.server]
UnderHeader(h) ==
  [kind |-> h.kind, id |-> IF h.kind = "unconfirmed" THEN 0 ELSE h.id, service |-> h.service,
   data |-> DataBehindHeader(h)]
Understood(o) == UnderHeader(ApduHeader(o))

(* The network layer hands the rest of the octets up with the two ends.    *)
HandedUp(n, o) ==
  [dest |-> n.dest, src |-> n.src, expecting |-> n.data.data_expecting_reply,
   priority |-> n.data.priority, message |-> Understood(From(o, n.len + 1))]
MessageOn(o) == HandedUp(npdu_decode(o), o)

(***************************************************************************)
(* The steps.  A list of values is put in a message until it is full, so   *)
(* its octets may end anywhere.                                            *)
(***************************************************************************)
Idle == <<"idle">>

(* The minutes from the epoch to what a clock shows. *)
MinutesOf(at) ==
  days_since_epoch(at[1][1], at[1][2], at[1][3]) * MINUTES + at[2][1] * 60 + at[2][2]

(* A clock is set to a day of the calendar and a time of that day, and what *)
(* is added to it does not take it to before the epoch, where the days of   *)
(* datetime.c, which are unsigned, start.                                   *)
ADate == Nat \X Nat \X Nat
ATime == Nat \X Nat \X Nat \X Nat
ASSUME ClockAssumption ==
  /\ Clocks \subseteq ADate \X ATime
  /\ \A at \in Clocks : datetime_date_is_valid(at[1]) /\ datetime_time_is_valid(at[2])
  /\ Minutes \subseteq Int /\ MaxAdditions \in Nat
  /\ \A at \in Clocks, minutes \in Minutes : MinutesOf(at) + MaxAdditions * minutes >= 0

(* The values that a value of the receiver has a place for, of the types    *)
(* that bacapp.c was compiled with, in messages of a length that config.h   *)
(* provides for.                                                            *)
Word == {n \in Nat : n \div 65536 <= 65535}
SignedWord == {n \in Int : n \div 65536 >= -32768 /\ n \div 65536 <= 32767}
Exactly(n) == {o \in Seq(Nat) : Len(o) = n}
UpTo(n) == {o \in Seq(Nat) : Len(o) <= n}
BitString == {bits \in Seq(BOOLEAN) : Len(bits) <= 8 * MAX_BITSTRING_BYTES}
ObjectId == {id \in Nat \X Nat : id[1] <= BACNET_MAX_OBJECT /\ id[2] <= BACNET_MAX_INSTANCE}
ApplicationValue ==
  ({"null"} \X {0}) \cup ({"boolean"} \X BOOLEAN) \cup ({"bits"} \X BitString)
    \cup ({"unsigned", "enumerated"} \X Word) \cup ({"signed"} \X SignedWord)
    \cup ({"real"} \X Exactly(4)) \cup ({"double"} \X Exactly(8))
    \cup ({"octets"} \X UpTo(OCTET_STRING_CAPACITY))
    \cup ({"string"} \X (Nat \X UpTo(CHARACTER_STRING_CAPACITY))) \cup ({"object"} \X ObjectId)

ASSUME ValuesAssumption ==
  /\ MAX_APDU \in Nat /\ MAX_APDU >= 50 /\ MAX_APDU <= 1476
  /\ Lists \subseteq Seq(ApplicationValue)

(* What stands between brackets is one whole item after another, and every  *)
(* bracket of the number n among them has its other one.  The nesting that  *)
(* is left at the end, or -1: a counter of one octet counts the brackets.   *)
MOST_NESTED == 254
Opens(o, i, n) == decode_is_opening_tag_number(o, i, n)
Closes(o, i, n) == decode_is_closing_tag_number(o, i, n)
StillOpen(o, i, n, open) ==
  IF Opens(o, i, n) THEN open + 1 ELSE IF Closes(o, i, n) THEN open - 1 ELSE open
NestingLeft(n, o) ==
  LET Along[p \in Nat \X Nat] ==
        LET next == p[1] + ItemLen(o, p[1], "any")
            open == StillOpen(o, p[1], n, p[2])
        IN  IF p[1] = Len(o) + 1 THEN p[2]
            ELSE IF next > Len(o) + 1 \/ open \notin 0..MOST_NESTED THEN -1
            ELSE Along[<<next, open>>]
  IN  Along[<<1, 0>>]

ASSUME BracketsAssumption ==
  /\ TagNumbers \subseteq 0..255
  /\ \A o \in Brackets : o \in Seq(Nat) /\ \A n \in TagNumbers : NestingLeft(n, o) = 0

CodecInit ==
  /\ sent = Idle
  /\ wire = <<>>
  /\ read = Idle

SendMessage(m, route) ==
  /\ sent = Idle
  /\ sent' = <<"message", m, route>>
  /\ wire' = npdu_encode_pdu(route.dest, route.src,
                             npdu_encode_npdu_data(route.expecting, route.priority)) \o Encode(m)
  /\ UNCHANGED read

Receive ==
  /\ sent[1] = "message" /\ read = Idle
  /\ read' = <<"message", MessageOn(wire)>>
  /\ UNCHANGED <<sent, wire>>

SendValues(list) ==
  /\ sent = Idle
  /\ sent' = <<"values", list>>
  /\ wire' = DataOctets(list)
  /\ UNCHANGED read

(* Only so many of the octets arrive: near either end of them every number. *)
CutOff(left) ==
  /\ sent[1] = "values" /\ read = Idle /\ wire = DataOctets(sent[2])
  /\ left < Len(wire) /\ (left <= 8 \/ Len(wire) - left <= 8)
  /\ wire' = SubSeq(wire, 1, left)
  /\ UNCHANGED <<sent, read>>

ReadValues ==
  /\ sent[1] = "values" /\ read = Idle
  /\ read' = <<"values", bacapp_decode_list(wire)>>
  /\ UNCHANGED <<sent, wire>>

SendEnclosed(n, octets) ==
  /\ sent = Idle
  /\ sent' = <<"enclosed", octets>>
  /\ wire' = Enclosed(n, octets)
  /\ UNCHANGED read

(* The way a write request's value is found: its length first. *)
ReadEnclosed ==
  /\ sent[1] = "enclosed" /\ read = Idle
  /\ read' = <<"enclosed", Slice(wire, 1 + decode_tag_number(wire, 1).len,
                                 bacapp_data_len(wire, 1, "any"))>>
  /\ UNCHANGED <<sent, wire>>

SetClock(at) ==
  /\ sent = Idle
  /\ sent' = <<"clock", at, 0, 0>>
  /\ read' = <<"clock", at>>
  /\ UNCHANGED wire

AddMinutes(minutes) ==
  /\ sent[1] = "clock" /\ sent[4] < MaxAdditions
  /\ sent' = <<"clock", sent[2], sent[3] + minutes, sent[4] + 1>>
  /\ read' = <<"clock", datetime_add_minutes(read[2], minutes)>>
  /\ UNCHANGED wire

Clear == sent # Idle /\ sent' = Idle /\ wire' = <<>> /\ read' = Idle

CodecNext ==
  \/ \E m \in Messages, route \in Routes : SendMessage(m, route)
  \/ Receive
  \/ \E list \in Lists : SendValues(list)
  \/ \E left \in 0..MAX_APDU : CutOff(left)
  \/ ReadValues
  \/ \E n \in TagNumbers, octets \in Brackets : SendEnclosed(n, octets)
  \/ ReadEnclosed
  \/ \E at \in Clocks : SetClock(at)
  \/ \E minutes \in Minutes : AddMinutes(minutes)
  \/ Clear

CodecSpec == CodecInit /\ [][CodecNext]_codecVars

(***************************************************************************)
(* What a receiver takes for what was left out.                            *)
(***************************************************************************)
With(r, field, default) == IF field \in DOMAIN r THEN r ELSE (field :> default) @@ r
OfInstances(d) == {d.low, d.high} \subseteq 0..BACNET_MAX_INSTANCE
AsRead(m) ==
  LET d == m.data
  IN  CASE m.kind = "confirmed" /\ m.service = "write_property" /\ d.priority = BACNET_NO_PRIORITY ->
             [d EXCEPT !.priority = BACNET_MAX_PRIORITY]
        [] m.kind = "confirmed" /\ m.service = "device_communication_control" ->
             With(d, "password", EmptyString)
        [] m.kind = "unconfirmed" /\ m.service \in {"who_is", "who_has"} ->
             IF OfInstances(d) THEN d ELSE [d EXCEPT !.low = -1, !.high = -1]
        [] m.kind = "complex_ack" /\ m.service = "read_range" ->
             [f \in DOMAIN d \ {"by"} |->
                IF f = "first" /\ (d.count = 0 \/ d.by \in {"position", "all"}) THEN 0 ELSE d[f]]
        [] m.kind = "reject" -> [reason |-> reject_convert_error_code(d.reason)]
        [] m.kind = "abort" -> [d EXCEPT !.reason = abort_convert_error_code(d.reason)]
        [] m.kind = "error" -> [error_class |-> d.error_class, error_code |-> d.error_code]
        [] OTHER -> d

(***************************************************************************)
(* Properties.                                                             *)
(***************************************************************************)

(* What the receiver's decoder makes of a message is what the sender's      *)
(* encoder was given, field by field, with the default of every field that  *)
(* was left out: the two are written apart, in one function each, and       *)
(* agree on nothing but the octets.                                         *)
MessageArrives ==
  sent[1] = "message" /\ read # Idle =>
    LET m == sent[2]
        route == sent[3]
        got == read[2]
    IN  /\ got = [dest |-> route.dest, src |-> route.src, expecting |-> route.expecting,
                  priority |-> route.priority, message |-> got.message]
        /\ got.message = [m EXCEPT !.data = AsRead(m)]

(* From a list of values that lost its end, the values that are whole are   *)
(* read as they were sent, and nothing is made of the rest; of a whole list *)
(* every value is read.                                                     *)
WholeValuesAreRead ==
  sent[1] = "values" /\ read # Idle =>
    LET list == sent[2]
        whole == {k \in 0..Len(list) : Len(DataOctets(SubSeq(list, 1, k))) <= Len(wire)}
    IN  \E k \in whole : k + 1 \notin whole /\ read[2] = SubSeq(list, 1, k)

(* The value of a write request is found whole between its brackets,        *)
(* whatever brackets, of the same number or another, it holds itself.       *)
EnclosedIsWhole ==
  sent[1] = "enclosed" /\ read # Idle => read[2] = sent[2]

(* However minutes are added to a clock and taken off it, it shows the time *)
(* that many minutes from where it was set, on a day of the calendar.       *)
ClockAgrees ==
  sent[1] = "clock" =>
    /\ datetime_date_is_valid(read[2][1]) /\ datetime_time_is_valid(read[2][2])
    /\ MinutesOf(read[2]) = MinutesOf(sent[2]) + sent[3]
    /\ read[2][2][3] = sent[2][2][3]
=============================================================================
