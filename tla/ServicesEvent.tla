---------------------------- MODULE ServicesEvent ----------------------------
(***************************************************************************)
(* The services about changes and alarms: COV subscriptions and            *)
(* notifications (cov.c), event notifications (event.c), acknowledgements  *)
(* (alarm_ack.c), GetEventInformation (getevent.c), GetAlarmSummary        *)
(* (get_alarm_sum.c), with the parts they share: time stamps (timestamp.c),*)
(* references to properties (bacdevobjpropref.c) and property states       *)
(* (bacpropstates.c).                                                      *)
(***************************************************************************)
EXTENDS ServicesAccess

OBJECT_DEVICE == 8
NoDevice == <<65535, 0>>              \* BACNET_NO_DEV_TYPE and its instance

(* A part that is kept as one field, with the fields of its own.            *)
Part(p, field, steps) ==
  LET Kept(q) == [p EXCEPT !.at = q.at, !.fail = q.fail, !.got = (field :> q.got) @@ @]
  IN  Kept(Then([p EXCEPT !.got = <<>>], steps))

(***************************************************************************)
(* Date with time, and the three kinds of time stamp.                      *)
(***************************************************************************)
bacapp_encode_datetime(d) == encode_application_date(d.date) \o encode_application_time(d.time)
bacapp_encode_context_datetime(n, d) == Enclosed(n, bacapp_encode_datetime(d))
bacapp_decode_datetime == <<Application("date", "date"), Application("time", "time")>>
bacapp_decode_context_datetime(n) == <<Opening(n)>> \o bacapp_decode_datetime \o <<Closing(n)>>

TIME_STAMP_TIME == 0
TIME_STAMP_SEQUENCE == 1
TIME_STAMP_DATETIME == 2

(* A stamp is known by the fields it has. *)
bacapp_encode_timestamp(s) ==
  CASE DOMAIN s = {"time"}         -> encode_context_time(TIME_STAMP_TIME, s.time)
    [] DOMAIN s = {"sequence"}     -> encode_context_unsigned(TIME_STAMP_SEQUENCE, s.sequence)
    [] DOMAIN s = {"date", "time"} -> bacapp_encode_context_datetime(TIME_STAMP_DATETIME, s)
bacapp_encode_context_timestamp(n, s) == Enclosed(n, bacapp_encode_timestamp(s))

bacapp_decode_timestamp(p, field) ==
  LET Steps(n) == CASE n = TIME_STAMP_TIME     -> <<Context(n, "time", "time")>>
                    [] n = TIME_STAMP_SEQUENCE -> <<Context(n, "unsigned", "sequence")>>
                    [] n = TIME_STAMP_DATETIME -> bacapp_decode_context_datetime(n)
                    [] OTHER -> <<Opening(n), Opening(n)>>
      Checked(n, q) ==
        IF Failed(p) \/ Failed(q) THEN [p EXCEPT !.fail = q.fail]
        ELSE IF n = TIME_STAMP_SEQUENCE /\ q.got[field].sequence > 65535 THEN Fail(p, "ERROR") ELSE q
      Stamp(n) == Checked(n, Part(p, field, Steps(n)))
  IN  Stamp(TagHere(p).number)

(* Where there is no opening tag the decoder takes nothing and goes on, the *)
(* stamp being whatever it was.                                             *)
bacapp_decode_context_timestamp(p, n, field) ==
  IF Failed(p) THEN p
  ELSE IF ~IsOpeningOf(p, n) THEN Keep(p, field, [unset |-> TRUE])
  ELSE Then(bacapp_decode_timestamp(Skip(p), field), <<Closing(n)>>)

(***************************************************************************)
(* A reference to a property of an object, maybe of another device.        *)
(***************************************************************************)
bacapp_encode_device_obj_property_ref(r) ==
  encode_context_object_id(0, r.object) \o encode_context_enumerated(1, r.property)
    \o IndexOctets(2, r.index)
    \o When(r.device[1] = OBJECT_DEVICE, encode_context_object_id(3, r.device))
bacapp_encode_context_device_obj_property_ref(n, r) ==
  Enclosed(n, bacapp_encode_device_obj_property_ref(r))
bacapp_decode_device_obj_property_ref ==
  <<Context(0, "object", "object"), Context(1, "enumerated", "property"),
    Optional(2, "unsigned", "index", BACNET_ARRAY_ALL), Optional(3, "object", "device", NoDevice)>>
bacapp_decode_context_device_obj_property_ref(p, n, field) ==
  Then(Part(Then(p, <<Opening(n)>>), field, bacapp_decode_device_obj_property_ref), <<Closing(n)>>)

bacapp_encode_device_obj_ref(r) ==
  When(r.device[1] = OBJECT_DEVICE, encode_context_object_id(0, r.device))
    \o encode_context_object_id(1, r.object)
bacapp_encode_context_device_obj_ref(n, r) == Enclosed(n, bacapp_encode_device_obj_ref(r))
bacapp_decode_device_obj_ref ==
  <<Optional(0, "object", "device", NoDevice), Context(1, "object", "object")>>
bacapp_decode_context_device_obj_ref(p, n, field) ==
  Then(Part(Then(p, <<Opening(n)>>), field, bacapp_decode_device_obj_ref), <<Closing(n)>>)

(***************************************************************************)
(* A property state: <<kind, value>>, the kind being the tag.  The decoder *)
(* takes a boolean from the length of its tag, which is 1 for both, and    *)
(* steps over its octet by counting the tag twice.                         *)
(***************************************************************************)
BOOLEAN_VALUE == 0
UNSIGNED_VALUE == 11
LIFE_SAFETY_STATE == 13               \* the last kind

bacapp_encode_property_state(s) ==
  CASE s[1] = BOOLEAN_VALUE  -> encode_context_boolean(s[1], s[2])
    [] s[1] = UNSIGNED_VALUE -> encode_context_unsigned(s[1], s[2])
    [] s[1] \in 1..LIFE_SAFETY_STATE \ {UNSIGNED_VALUE} -> encode_context_enumerated(s[1], s[2])
    [] OTHER -> <<>>

bacapp_decode_property_state(p, field) ==
  LET Typed(kind, q) == [q EXCEPT !.got = (field :> <<kind, q.got[field]>>) @@ @]
      Type(kind) == IF kind = UNSIGNED_VALUE THEN "unsigned" ELSE "enumerated"
      State(kind, length) ==
        CASE kind = BOOLEAN_VALUE -> Keep(Skip(Skip(p)), field, <<kind, length # 0>>)
          [] kind \in 1..LIFE_SAFETY_STATE ->
               Typed(kind, Then(p, <<Unchecked(Type(kind), field)>>))
          [] kind > LIFE_SAFETY_STATE -> Fail(p, "ERROR")
      Under(tag) == State(tag.number, tag.value)
  IN  IF Failed(p) THEN p ELSE Under(TagHere(p))
bacapp_decode_context_property_state(p, n, field) ==
  Then(bacapp_decode_property_state(Then(p, <<Opening(n)>>), field), <<Closing(n)>>)

(***************************************************************************)
(* COV notifications: values of the properties of an object.               *)
(***************************************************************************)
PropertyValueOctets(v) ==
  encode_context_enumerated(0, v.property) \o IndexOctets(1, v.index)
    \o Enclosed(2, DataOctets(v.values))
    \o When(v.priority # BACNET_NO_PRIORITY, encode_context_unsigned(3, v.priority))

notify_encode_apdu(d) ==
  encode_context_unsigned(0, d.process) \o encode_context_object_id(1, <<OBJECT_DEVICE, d.device>>)
    \o encode_context_object_id(2, d.object) \o encode_context_unsigned(3, d.timeRemaining)
    \o Enclosed(4, Concatenated(d.listOfValues, PropertyValueOctets))
ccov_notify_encode_apdu(id, d) == ConfirmedHeader(id, "cov_notification") \o notify_encode_apdu(d)
ucov_notify_encode_apdu(d) == UnconfirmedHeader("cov_notification") \o notify_encode_apdu(d)

(* The list has a first value before the end of it is looked for.           *)
cov_notify_decode_service_request(o) ==
  LET PropertyValue(p) ==
        Then(Values(Then(p, <<Context(0, "enumerated", "property"),
                              Optional(1, "unsigned", "index", BACNET_ARRAY_ALL)>>), 2, "values"),
             <<Optional(3, "unsigned", "priority", BACNET_NO_PRIORITY)>>)
      Told(p, all) ==
        CASE Failed(p) \/ Failed(all) -> all
          [] ~Failed(p) /\ ~Failed(all) ->
               IF p.got["device"][1] # OBJECT_DEVICE THEN Fail(all, "ERROR")
               ELSE [all EXCEPT !.got["device"] = @[2]]
      Listed(p) ==
        LET More(q) == q.at = p.at \/ ~IsClosingOf(q, 4)
        IN  Told(p, Then(Items(p, "listOfValues", More, PropertyValue), <<Closing(4)>>))
  IN  Listed(Decode(o, <<Context(0, "unsigned", "process"), Context(1, "object", "device"),
                         Context(2, "object", "object"), Context(3, "unsigned", "timeRemaining"),
                         Opening(4)>>))

(***************************************************************************)
(* Subscriptions.  A request with neither a kind of notification nor a     *)
(* lifetime cancels.                                                       *)
(***************************************************************************)
SubscriberOctets(d) ==
  encode_context_unsigned(0, d.process) \o encode_context_object_id(1, d.object)
TermsOctets(d) ==
  When(~d.cancel, encode_context_boolean(2, d.confirmed) \o encode_context_unsigned(3, d.lifetime))

cov_subscribe_encode_apdu(id, d) ==
  ConfirmedHeader(id, "subscribe_cov") \o SubscriberOctets(d) \o TermsOctets(d)
cov_subscribe_property_encode_apdu(id, d) ==
  ConfirmedHeader(id, "subscribe_cov_property") \o SubscriberOctets(d) \o TermsOctets(d)
    \o Enclosed(4, encode_context_enumerated(0, d.property) \o IndexOctets(1, d.index))
    \o When(d.incremented, encode_context_real(5, d.increment))

Subscriber == <<Or(Context(0, "unsigned", "process"), "INVALID_TAG"),
                Or(Context(1, "object", "object"), "INVALID_TAG")>>

(* What a field that is not there leaves: the notifications a cancellation  *)
(* would have had are not set.                                              *)
TermsIn(p) ==
  Then(p, (IF ~AtEnd(p) /\ IsContext(p, 2)
           THEN <<Given("cancel", FALSE), Context(2, "flag", "confirmed")>>
           ELSE <<Given("cancel", TRUE), Given("confirmed", FALSE)>>)
          \o <<Optional(3, "unsigned", "lifetime", 0)>>)

cov_subscribe_decode_service_request(o) == TermsIn(Decode(o, Subscriber))
cov_subscribe_property_decode_service_request(o) ==
  LET Increment(p, there) ==
        Then(p, <<Given("incremented", there)>>
                  \o IF there THEN <<Context(5, "real", "increment")>> ELSE <<>>)
      Property(p) == Increment(p, ~AtEnd(p) /\ IsContext(p, 5))
  IN  Property(Then(TermsIn(Decode(o, Subscriber)),
                    <<Or(Opening(4), "INVALID_TAG"),
                      Or(Context(0, "enumerated", "property"), "INVALID_TAG"),
                      Optional(1, "unsigned", "index", BACNET_ARRAY_ALL),
                      Or(Closing(4), "INVALID_TAG")>>))

(***************************************************************************)
(* Event notifications: the transition and, unless it tells of an          *)
(* acknowledgement, the parameters of the type of event.                   *)
(***************************************************************************)
NOTIFY_ALARM == 0
NOTIFY_EVENT == 1
NOTIFY_ACK_NOTIFICATION == 2
EventTypes == [change_of_bitstring |-> 0, change_of_state |-> 1, change_of_value |-> 2,
               floating_limit |-> 4, out_of_range |-> 5, change_of_life_safety |-> 8,
               buffer_ready |-> 10, unsigned_range |-> 11]
TellsTransition(notifyType) == notifyType \in {NOTIFY_ALARM, NOTIFY_EVENT}

EventValuesOctets(event, v) ==
  CASE event = "change_of_bitstring" ->
         encode_context_bitstring(0, v.bits) \o encode_context_bitstring(1, v.flags)
    [] event = "change_of_state" ->
         Enclosed(0, bacapp_encode_property_state(v.state)) \o encode_context_bitstring(1, v.flags)
    [] event = "change_of_value" ->
         Enclosed(0, IF "real" \in DOMAIN v THEN encode_context_real(1, v.real)
                     ELSE encode_context_bitstring(0, v.bits))
           \o encode_context_bitstring(1, v.flags)
    [] event = "floating_limit" ->
         encode_context_real(0, v.reference) \o encode_context_bitstring(1, v.flags)
           \o encode_context_real(2, v.setPoint) \o encode_context_real(3, v.errorLimit)
    [] event = "out_of_range" ->
         encode_context_real(0, v.exceeding) \o encode_context_bitstring(1, v.flags)
           \o encode_context_real(2, v.deadband) \o encode_context_real(3, v.exceeded)
    [] event = "change_of_life_safety" ->
         encode_context_enumerated(0, v.state) \o encode_context_enumerated(1, v.mode)
           \o encode_context_bitstring(2, v.flags) \o encode_context_enumerated(3, v.expected)
    [] event = "buffer_ready" ->
         bacapp_encode_context_device_obj_property_ref(0, v.buffer)
           \o encode_context_unsigned(1, v.previous) \o encode_context_unsigned(2, v.current)
    [] event = "unsigned_range" ->
         encode_context_unsigned(0, v.exceeding) \o encode_context_bitstring(1, v.flags)
           \o encode_context_unsigned(2, v.exceeded)

event_notify_encode_service_request(d) ==
  encode_context_unsigned(0, d.process) \o encode_context_object_id(1, d.device)
    \o encode_context_object_id(2, d.object) \o bacapp_encode_context_timestamp(3, d.timeStamp)
    \o encode_context_unsigned(4, d.class) \o encode_context_unsigned(5, d.priority)
    \o encode_context_enumerated(6, EventTypes[d.event])
    \o encode_context_character_string(7, d.text) \o encode_context_enumerated(8, d.notifyType)
    \o When(TellsTransition(d.notifyType),
            encode_context_boolean(9, d.ackRequired) \o encode_context_enumerated(10, d.from))
    \o encode_context_enumerated(11, d.to)
    \o When(TellsTransition(d.notifyType),
            Enclosed(12, Enclosed(EventTypes[d.event], EventValuesOctets(d.event, d.values))))
cevent_notify_encode_apdu(id, d) ==
  ConfirmedHeader(id, "event_notification") \o event_notify_encode_service_request(d)
uevent_notify_encode_apdu(d) ==
  UnconfirmedHeader("event_notification") \o event_notify_encode_service_request(d)

(* What is read on its own before the rest of the values. *)
EventValuesBegin(p, event) ==
  CASE event = "change_of_state" -> bacapp_decode_context_property_state(p, 0, "state")
    [] event = "change_of_value" -> Then(p, <<Opening(0)>>)
    [] event = "buffer_ready" -> bacapp_decode_context_device_obj_property_ref(p, 0, "buffer")
    [] OTHER -> p

EventValuesSteps(p, event) ==
  LET flags(n) == Context(n, "bits", "flags")
  IN  CASE event = "change_of_bitstring" -> <<Context(0, "bits", "bits"), flags(1)>>
        [] event = "change_of_state" -> <<flags(1)>>
        [] event = "change_of_value" ->
             <<IF IsContext(p, 0) THEN Context(0, "bits", "bits") ELSE Context(1, "real", "real"),
               Closing(0), flags(1)>>
        [] event = "floating_limit" ->
             <<Context(0, "real", "reference"), flags(1), Context(2, "real", "setPoint"),
               Context(3, "real", "errorLimit")>>
        [] event = "out_of_range" ->
             <<Context(0, "real", "exceeding"), flags(1), Context(2, "real", "deadband"),
               Context(3, "real", "exceeded")>>
        [] event = "change_of_life_safety" ->
             <<Context(0, "enumerated", "state"), Context(1, "enumerated", "mode"),
               flags(2), Context(3, "enumerated", "expected")>>
        [] event = "buffer_ready" ->
             <<Context(1, "unsigned", "previous"), Context(2, "unsigned", "current")>>
        [] event = "unsigned_range" ->
             <<Context(0, "unsigned", "exceeding"), flags(1), Context(2, "unsigned", "exceeded")>>

EventValuesRest(p, event) == Then(p, EventValuesSteps(p, event))
EventValuesIn(p, event) ==
  EventValuesRest(EventValuesBegin(p, event), event)

(* The steps of event_notify_decode_service_request: as far as the kind of  *)
(* notification, the transition, its parameters.                            *)
EventHead(o) ==
  Then(bacapp_decode_context_timestamp(
         Decode(o, <<Context(0, "unsigned", "process"), Context(1, "object", "device"),
                     Context(2, "object", "object")>>), 3, "timeStamp"),
       <<Context(4, "unsigned", "class"), Context(5, "unsigned", "priority"),
         Context(6, "enumerated", "event"), Optional(7, "string", "text", <<0, <<>>>>),
         Context(8, "enumerated", "notifyType")>>)

EventClosed(p, values, event) ==
  Then([values EXCEPT !.got = ("values" :> @) @@ p.got],
       <<Closing(EventTypes[event]), Closing(12)>>)
EventOpened(p, event) ==
  IF Failed(p) THEN Fail(p, "ERROR")
  ELSE EventClosed(p, EventValuesIn([p EXCEPT !.got = <<>>], event), event)
EventParameters(p, event) ==
  IF event = "unknown" THEN Fail(p, "ERROR")
  ELSE EventOpened(Then(p, <<Opening(12), Opening(EventTypes[event])>>), event)

EventTransition(p, tells) ==
  Then(p, (IF tells THEN <<Context(9, "flag", "ackRequired"), Context(10, "enumerated", "from")>>
           ELSE <<>>) \o <<Context(11, "enumerated", "to")>>)
EventBehind(p, event, tells) ==
  IF Failed(p) \/ ~tells THEN p ELSE EventParameters(p, event)
EventTold(p, event, tells) ==
  IF p.got["priority"] > 255 THEN Fail(p, "ERROR")
  ELSE EventBehind(EventTransition([p EXCEPT !.got["event"] = event], tells), event, tells)

EventHeaded(p) ==
  IF Failed(p) THEN p
  ELSE EventTold(p, NameOf(EventTypes, p.got["event"]), TellsTransition(p.got["notifyType"]))
event_notify_decode_service_request(o) == EventHeaded(EventHead(o))

(***************************************************************************)
(* AcknowledgeAlarm.                                                       *)
(***************************************************************************)
alarm_ack_encode_service_request(d) ==
  encode_context_unsigned(0, d.process) \o encode_context_object_id(1, d.object)
    \o encode_context_enumerated(2, d.stateAcked) \o bacapp_encode_context_timestamp(3, d.eventStamp)
    \o encode_context_character_string(4, d.source) \o bacapp_encode_context_timestamp(5, d.ackStamp)
alarm_ack_encode_apdu(id, d) ==
  ConfirmedHeader(id, "acknowledge_alarm") \o alarm_ack_encode_service_request(d)
alarm_ack_decode_service_request(o) ==
  LET p == Decode(o, <<Context(0, "unsigned", "process"), Context(1, "object", "object"),
                       Context(2, "enumerated", "stateAcked")>>)
      q == Then(bacapp_decode_context_timestamp(p, 3, "eventStamp"), <<Context(4, "string", "source")>>)
  IN  bacapp_decode_context_timestamp(q, 5, "ackStamp")

(***************************************************************************)
(* GetEventInformation: the events, each with its three stamps and three   *)
(* priorities, and whether there are more.  The decoder takes the first    *)
(* event before it looks for the end.                                      *)
(***************************************************************************)
getevent_encode_apdu(id, d) ==
  ConfirmedHeader(id, "get_event_information")
    \o When("last" \in DOMAIN d, encode_context_object_id(0, d.last))
getevent_decode_service_request(o) ==
  IF o = <<>> THEN Begin(o) ELSE Decode(o, <<Context(0, "object", "last")>>)

getevent_ack_encode_apdu_init(max_apdu, id) ==
  When(max_apdu >= 4, ComplexAckHeader(id, "get_event_information") \o encode_opening_tag(0))
getevent_ack_encode_apdu_data(e) ==
  encode_context_object_id(0, e.object) \o encode_context_enumerated(1, e.state)
    \o encode_context_bitstring(2, e.acked)
    \o Enclosed(3, Concatenated(e.stamps, bacapp_encode_timestamp))
    \o encode_context_enumerated(4, e.notifyType) \o encode_context_bitstring(5, e.enable)
    \o Enclosed(6, Concatenated(e.priorities, encode_application_unsigned))
getevent_ack_encode_apdu_end(more) == encode_closing_tag(0) \o encode_context_boolean(1, more)
getevent_ack_encode_apdu(id, d) ==
  getevent_ack_encode_apdu_init(MAX_APDU, id) \o Concatenated(d.events, getevent_ack_encode_apdu_data)
    \o getevent_ack_encode_apdu_end(d.more)

Gathered(p, field, fields) ==
  IF Failed(p) THEN p
  ELSE [p EXCEPT !.got = (field :> [i \in 1..3 |-> p.got[fields[i]]])
                            @@ [f \in DOMAIN @ \ {fields[i] : i \in 1..3} |-> @[f]]]

getevent_ack_decode_service_request(o) ==
  LET places == <<"1", "2", "3">>
      Priority(p, place) == Then(p, <<Unchecked("unsigned", place)>>)
      Stamps(p) == Gathered(FoldLeft(bacapp_decode_timestamp, p, places), "stamps", places)
      Priorities(p) == Gathered(FoldLeft(Priority, p, places), "priorities", places)
      Event(p) ==
        Then(Priorities(Then(Stamps(Then(p, <<Context(0, "object", "object"),
                                              Context(1, "enumerated", "state"),
                                              Context(2, "bits", "acked"), Opening(3)>>)),
                             <<Closing(3), Context(4, "enumerated", "notifyType"),
                               Context(5, "bits", "enable"), Opening(6)>>)), <<Closing(6)>>)
      Events(start) == LET More(p) == p.at = start.at \/ ~IsClosingOf(p, 0)
                       IN  Items(start, "events", More, Event)
  IN  Then(Events(Decode(o, <<Opening(0)>>)), <<Closing(0), Context(1, "flag", "more")>>)

(***************************************************************************)
(* GetAlarmSummary: one alarm after the other, each when ten octets are    *)
(* left for it.                                                            *)
(***************************************************************************)
get_alarm_summary_ack_encode_apdu_init(id) == ComplexAckHeader(id, "get_alarm_summary")
get_alarm_summary_ack_encode_apdu_data(a) ==
  encode_application_object_id(a.object) \o encode_application_enumerated(a.state)
    \o encode_application_bitstring(a.acked)
get_alarm_summary_ack_encode_apdu(id, d) ==
  get_alarm_summary_ack_encode_apdu_init(id)
    \o Concatenated(d.alarms, get_alarm_summary_ack_encode_apdu_data)

TenLeft(p) == Len(p.o) - p.at + 1 >= 10
get_alarm_summary_ack_decode_apdu_data(p) ==
  LET Value(i) == bacapp_decode_application_data(p.o, i)
      Alarm(first, second, third) ==
        IF <<first.value[1], second.value[1], third.value[1]>> # <<"object", "enumerated", "bits">>
        THEN Fail(p, "ERROR")
        ELSE [p EXCEPT !.at = @ + first.len + second.len + third.len,
                       !.got = [object |-> first.value[2], state |-> second.value[2],
                                acked |-> third.value[2]]]
      Third(first, second) == Alarm(first, second, Value(p.at + first.len + second.len))
      Second(first) == Third(first, Value(p.at + first.len))
  IN  Second(Value(p.at))
get_alarm_summary_ack_decode_service_request(o) ==
  Items(Begin(o), "alarms", TenLeft, get_alarm_summary_ack_decode_apdu_data)
=============================================================================
