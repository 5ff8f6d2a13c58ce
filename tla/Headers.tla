------------------------------- MODULE Headers -------------------------------
(***************************************************************************)
(* What stands before the data of a service: the network layer's header    *)
(* (npdu.c) and the header of each kind of application PDU, written by the *)
(* encoders of the services and read by apdu_handler (apdu.c).             *)
(***************************************************************************)
EXTENDS Decoder

(* The kinds of PDU and their type octets. *)
PduTypes == [confirmed |-> 0, unconfirmed |-> 16, simple_ack |-> 32, complex_ack |-> 48,
             segment_ack |-> 64, error |-> 80, reject |-> 96, abort |-> 112]
PduKind(octet) == CHOOSE k \in DOMAIN PduTypes : PduTypes[k] = 16 * (octet \div 16)

ConfirmedServices ==
  [acknowledge_alarm |-> 0, cov_notification |-> 1, event_notification |-> 2,
   get_alarm_summary |-> 3, subscribe_cov |-> 5, atomic_read_file |-> 6,
   atomic_write_file |-> 7, add_list_element |-> 8, read_property |-> 12,
   read_property_multiple |-> 14, write_property |-> 15, write_property_multiple |-> 16,
   device_communication_control |-> 17, private_transfer |-> 18, reinitialize_device |-> 20,
   read_range |-> 26, life_safety_operation |-> 27, subscribe_cov_property |-> 28,
   get_event_information |-> 29]
UnconfirmedServices ==
  [i_am |-> 0, i_have |-> 1, cov_notification |-> 2, event_notification |-> 3,
   private_transfer |-> 4, time_synchronization |-> 6, who_has |-> 7, who_is |-> 8,
   utc_time_synchronization |-> 9]

NameOf(services, number) ==
  IF \E s \in DOMAIN services : services[s] = number
  THEN CHOOSE s \in DOMAIN services : services[s] = number ELSE "unknown"

(***************************************************************************)
(* The largest reply a client can take, in four bits each.                 *)
(***************************************************************************)
SegmentSteps == <<2, 4, 8, 16, 32, 64>>
ApduSteps == <<50, 128, 206, 480, 1024, 1476>>

(* The number of steps that n has reached, of the first that holds n. *)
StepsReached(steps, n) == Cardinality({k \in DOMAIN steps : n >= steps[k]})
FirstStepFor(steps, n) == Cardinality({k \in DOMAIN steps : n > steps[k]})

encode_max_segs_max_apdu(segs, apdu) ==
  16 * (IF segs > 64 THEN 7 ELSE StepsReached(SegmentSteps, segs))
    + (IF apdu > 1476 THEN 0 ELSE FirstStepFor(ApduSteps, apdu))
decode_max_segs(octet) ==
  LET k == octet \div 16
  IN  IF k = 0 \/ k > 7 THEN 0 ELSE IF k = 7 THEN 65 ELSE SegmentSteps[k]
decode_max_apdu(octet) ==
  LET k == octet % 16 IN IF k < 6 THEN ApduSteps[k + 1] ELSE 0

(***************************************************************************)
(* Headers of the application PDUs.                                        *)
(***************************************************************************)
ConfirmedHeader(id, service) ==
  <<PduTypes.confirmed, encode_max_segs_max_apdu(0, MAX_APDU), id, ConfirmedServices[service]>>
UnconfirmedHeader(service) == <<PduTypes.unconfirmed, UnconfirmedServices[service]>>
encode_simple_ack(id, service) == <<PduTypes.simple_ack, id, ConfirmedServices[service]>>
ComplexAckHeader(id, service) == <<PduTypes.complex_ack, id, ConfirmedServices[service]>>
ErrorHeader(id, service) == <<PduTypes.error, id, ConfirmedServices[service]>>
reject_encode_apdu(id, reason) == <<PduTypes.reject, id, reason>>
abort_encode_apdu(id, reason, server) == <<PduTypes.abort + (IF server THEN 1 ELSE 0), id, reason>>

From(o, i) == SubSeq(o, i, Len(o))
HasBit(octet, bit) == (octet \div bit) % 2 = 1

apdu_decode_confirmed_service_request(o) ==
  LET segmented == HasBit(o[1], 8)
      service == IF segmented THEN 6 ELSE 4
  IN  [kind |-> "confirmed", id |-> o[3], segmented |-> segmented,
       max_segs |-> decode_max_segs(o[2]), max_resp |-> decode_max_apdu(o[2]),
       service |-> NameOf(ConfirmedServices, o[service]), request |-> From(o, service + 1)]

(* What apdu_handler makes of the octets before it calls a handler. *)
ApduHeader(o) ==
  LET kind == PduKind(o[1])
      ack == IF HasBit(o[1], 8) THEN 5 ELSE 3
  IN  CASE kind = "confirmed" -> apdu_decode_confirmed_service_request(o)
        [] kind = "unconfirmed" ->
             [kind |-> kind, service |-> NameOf(UnconfirmedServices, o[2]), request |-> From(o, 3)]
        [] kind = "simple_ack" ->
             [kind |-> kind, id |-> o[2], service |-> NameOf(ConfirmedServices, o[3]),
              request |-> <<>>]
        [] kind = "complex_ack" ->
             [kind |-> kind, id |-> o[2], service |-> NameOf(ConfirmedServices, o[ack]),
              request |-> From(o, ack + 1)]
        [] kind = "error" ->
             [kind |-> kind, id |-> o[2], service |-> NameOf(ConfirmedServices, o[3]),
              request |-> From(o, 4)]
        [] kind = "reject" -> [kind |-> kind, id |-> o[2], service |-> "reject", reason |-> o[3]]
        [] kind = "abort" -> [kind |-> kind, id |-> o[2], service |-> "abort", reason |-> o[3],
                              server |-> HasBit(o[1], 1)]

(* The error class and code, which a private transfer wraps in a tag of its *)
(* own.                                                                     *)
ErrorSteps(service) ==
  (IF service = "private_transfer" THEN <<Opening(0)>> ELSE <<>>)
    \o <<Unchecked("enumerated", "error_class"), Unchecked("enumerated", "error_code")>>
    \o (IF service = "private_transfer" THEN <<Closing(0)>> ELSE <<>>)

(***************************************************************************)
(* The network layer: the remote network and station a message is for or   *)
(* comes from, a hop count for one that travels, the urgency.              *)
(***************************************************************************)
NPDU_VERSION == 1
HOP_COUNT_DEFAULT == 255
MAX_MAC_LEN == 7
Local == [net |-> 0, adr |-> <<>>]

npdu_encode_npdu_data(expecting, priority) ==
  [data_expecting_reply |-> expecting, priority |-> priority, hop_count |-> HOP_COUNT_DEFAULT]

AddressOctets(a) == encode_unsigned16(a.net) \o <<Len(a.adr)>> \o a.adr

npdu_encode_pdu(dest, src, data) ==
  LET routed == dest.net # 0
      named  == src.net # 0 /\ src.adr # <<>>
  IN  <<NPDU_VERSION, (IF routed THEN 32 ELSE 0) + (IF named THEN 8 ELSE 0)
                        + (IF data.data_expecting_reply THEN 4 ELSE 0) + data.priority>>
        \o When(routed, AddressOctets(dest)) \o When(named, AddressOctets(src))
        \o When(routed, <<data.hop_count>>)

AddressAt(o, i) == [net |-> decode_unsigned16(Slice(o, i, 2)), adr |-> Slice(o, i + 3, At(o, i + 2))]

(* "len" is -1 for a station longer than MAX_MAC_LEN. *)
npdu_decode(o) ==
  LET routed == HasBit(o[2], 32)
      named  == HasBit(o[2], 8)
      dest   == IF routed THEN AddressAt(o, 3) ELSE Local
      second == IF routed THEN 6 + Len(dest.adr) ELSE 3
      src    == IF named THEN AddressAt(o, second) ELSE Local
      third  == IF named THEN second + 3 + Len(src.adr) ELSE second
      hops   == dest.net # 0
  IN  [dest |-> dest, src |-> src,
       len |-> IF Len(dest.adr) > MAX_MAC_LEN \/ Len(src.adr) > MAX_MAC_LEN THEN -1
               ELSE IF hops THEN third ELSE third - 1,
       data |-> [data_expecting_reply |-> HasBit(o[2], 4), priority |-> o[2] % 4,
                 hop_count |-> IF hops THEN At(o, third) ELSE 0]]
=============================================================================
