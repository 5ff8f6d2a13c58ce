---------------------------- MODULE ServicesDevice ----------------------------
(***************************************************************************)
(* The services about devices, files and messages: device communication    *)
(* control (dcc.c), ReinitializeDevice (rd.c), time synchronization        *)
(* (timesync.c), Who-Is and I-Am (whois.c, iam.c), Who-Has and I-Have      *)
(* (whohas.c, ihave.c), private transfers (ptransfer.c), files (arf.c,     *)
(* awf.c), life safety operations (lso.c), the error, reject and abort     *)
(* PDUs (bacerror.c, reject.c, abort.c), and the lighting commands and time*)
(* values that are parts of properties (lighting.c, bactimevalue.c).       *)
(***************************************************************************)
EXTENDS ServicesEvent

BACNET_MAX_INSTANCE == 4194303
MAX_BACNET_SEGMENTATION == 4
EmptyString == <<0, <<>>>>

(***************************************************************************)
(* Control of the device.  A password may be left out.                     *)
(***************************************************************************)
PasswordOctets(n, d) ==
  When("password" \in DOMAIN d, encode_context_character_string(n, d.password))
IfLeft(p, steps) == IF AtEnd(p) THEN p ELSE Then(p, steps)

dcc_encode_apdu(id, d) ==
  ConfirmedHeader(id, "device_communication_control")
    \o When(d.minutes # 0, encode_context_unsigned(0, d.minutes))
    \o encode_context_enumerated(1, d.status) \o PasswordOctets(2, d)
dcc_decode_service_request(o) ==
  LET p == Decode(o, <<Optional(0, "unsigned", "minutes", 0), Context(1, "enumerated", "status"),
                       Given("password", EmptyString)>>)
  IN  IfLeft(p, <<Context(2, "string", "password")>>)

rd_encode_apdu(id, d) ==
  ConfirmedHeader(id, "reinitialize_device")
    \o encode_context_enumerated(0, d.state) \o PasswordOctets(1, d)
rd_decode_service_request(o) ==
  IfLeft(Decode(o, <<Context(0, "enumerated", "state")>>), <<Context(1, "string", "password")>>)

(***************************************************************************)
(* Time synchronization, in local or in universal time.                    *)
(***************************************************************************)
timesync_encode_apdu_service(service, d) ==
  UnconfirmedHeader(service) \o encode_application_date(d.date) \o encode_application_time(d.time)
timesync_utc_encode_apdu(d) == timesync_encode_apdu_service("utc_time_synchronization", d)
timesync_encode_apdu(d) == timesync_encode_apdu_service("time_synchronization", d)
timesync_decode_service_request(o) ==
  Decode(o, <<Application("date", "date"), Application("time", "time")>>)

(***************************************************************************)
(* Who is there.  A range of instances is written only when both its ends  *)
(* are instances.                                                          *)
(***************************************************************************)
LimitsOctets(d) ==
  When({d.low, d.high} \subseteq 0..BACNET_MAX_INSTANCE,
       encode_context_unsigned(0, d.low) \o encode_context_unsigned(1, d.high))
AnyInstance == <<Given("low", -1), Given("high", -1)>>

whois_encode_apdu(d) == UnconfirmedHeader("who_is") \o LimitsOctets(d)
whois_decode_service_request(o) ==
  IF o = <<>> THEN Decode(o, AnyInstance)
  ELSE Decode(o, <<Numbered(0, "unsigned", "low"), Numbered(1, "unsigned", "high")>>)

iam_encode_apdu(d) ==
  UnconfirmedHeader("i_am") \o encode_application_object_id(<<OBJECT_DEVICE, d.device>>)
    \o encode_application_unsigned(d.max_apdu) \o encode_application_enumerated(d.segmentation)
    \o encode_application_unsigned(d.vendor)
iam_decode_service_request(o) ==
  LET Checked(p) ==
        IF Failed(p) THEN p
        ELSE IF p.got["device"][1] # OBJECT_DEVICE \/ p.got["segmentation"] >= MAX_BACNET_SEGMENTATION
                  \/ p.got["vendor"] > 65535
        THEN Fail(p, "ERROR") ELSE [p EXCEPT !.got["device"] = @[2]]
  IN  Checked(Decode(o, <<Application("object", "device"), Application("unsigned", "max_apdu"),
                          Application("enumerated", "segmentation"),
                          Application("unsigned", "vendor")>>))

whohas_encode_apdu(d) ==
  UnconfirmedHeader("who_has") \o LimitsOctets(d)
    \o IF "name" \in DOMAIN d THEN encode_context_character_string(3, d.name)
       ELSE encode_context_object_id(2, d.object)
whohas_decode_service_request(o) ==
  LET Limits(p) == IF ~AtEnd(p) /\ IsContext(p, 0)
                   THEN <<Context(0, "unsigned", "low"), Context(1, "unsigned", "high")>>
                   ELSE AnyInstance
      Asked(p) == Then(p, IF ~AtEnd(p) /\ IsContext(p, 2) THEN <<Context(2, "object", "object")>>
                          ELSE <<Context(3, "string", "name")>>)
  IN  Asked(Decode(o, Limits(Begin(o))))

ihave_encode_apdu(d) ==
  UnconfirmedHeader("i_have") \o encode_application_object_id(d.device)
    \o encode_application_object_id(d.object) \o encode_application_character_string(d.name)
ihave_decode_service_request(o) ==
  Decode(o, <<Application("object", "device"), Application("object", "object"),
              Application("string", "name")>>)

(***************************************************************************)
(* Private transfers: octets that only the vendor's devices understand.  A *)
(* vendor's number is kept in 16 bits.                                     *)
(***************************************************************************)
pt_encode_apdu(d) ==
  encode_context_unsigned(0, d.vendor) \o encode_context_unsigned(1, d.service)
    \o Enclosed(2, d.parameters)
ptransfer_encode_apdu(id, d) == ConfirmedHeader(id, "private_transfer") \o pt_encode_apdu(d)
uptransfer_encode_apdu(d) == UnconfirmedHeader("private_transfer") \o pt_encode_apdu(d)
ptransfer_ack_encode_apdu(id, d) == ComplexAckHeader(id, "private_transfer") \o pt_encode_apdu(d)
VendorIn(p) == IF Failed(p) THEN p ELSE [p EXCEPT !.got["vendor"] = @ % 65536]
ptransfer_decode_service_request(o) ==
  VendorIn(Decode(o, <<Context(0, "unsigned", "vendor"), Context(1, "unsigned", "service"),
                       Opening(2), AllButLast("parameters")>>))

ptransfer_error_encode_apdu(id, d) ==
  ErrorHeader(id, "private_transfer")
    \o Enclosed(0, encode_application_enumerated(d.error_class)
                     \o encode_application_enumerated(d.error_code))
    \o encode_context_unsigned(1, d.vendor) \o encode_context_unsigned(2, d.service)
    \o Enclosed(3, d.parameters)
ptransfer_error_decode_service_request(o) ==
  LET p == Begin(o)
      error == IF IsOpeningOf(p, 0)
               THEN <<Opening(0), Application("enumerated", "error_class"),
                      Application("enumerated", "error_code"), Closing(0)>>
               ELSE <<>>
  IN  VendorIn(Then(p, error \o <<Context(1, "unsigned", "vendor"), Context(2, "unsigned", "service"),
                                  Opening(3), AllButLast("parameters")>>))

(***************************************************************************)
(* Files: a part of a stream of octets, or a number of records.            *)
(***************************************************************************)
FILE_STREAM_ACCESS == 0
FILE_RECORD_ACCESS == 1

arf_encode_apdu(id, d) ==
  ConfirmedHeader(id, "atomic_read_file") \o encode_application_object_id(d.file)
    \o Enclosed(d.access, encode_application_signed(d.start) \o encode_application_unsigned(d.count))
(* The kind of access is the opening tag that is there. *)
AccessIn(p, inside) ==
  LET access == IF IsOpeningOf(p, FILE_STREAM_ACCESS) THEN FILE_STREAM_ACCESS ELSE FILE_RECORD_ACCESS
  IN  Then(p, <<Opening(access), Given("access", access), Application("signed", "start")>>
                \o inside[access + 1] \o <<Closing(access)>>)
FileData == Application("octets", "data")
RecordCount == Application("unsigned", "count")

arf_decode_service_request(o) ==
  AccessIn(Decode(o, <<Application("object", "file")>>), <<<<RecordCount>>, <<RecordCount>>>>)

FileOctets(d) ==
  Enclosed(d.access, encode_application_signed(d.start)
                       \o When(d.access = FILE_RECORD_ACCESS, encode_application_unsigned(d.count))
                       \o encode_application_octet_string(d.data))
FileIn(p) == AccessIn(p, <<<<FileData>>, <<RecordCount, FileData>>>>)

arf_ack_encode_apdu(id, d) ==
  ComplexAckHeader(id, "atomic_read_file") \o encode_application_boolean(d.end) \o FileOctets(d)
arf_ack_decode_service_request(o) == FileIn(Decode(o, <<Application("truth", "end")>>))
awf_encode_apdu(id, d) ==
  ConfirmedHeader(id, "atomic_write_file") \o encode_application_object_id(d.file) \o FileOctets(d)
awf_decode_service_request(o) == FileIn(Decode(o, <<Application("object", "file")>>))
awf_ack_encode_apdu(id, d) ==
  ComplexAckHeader(id, "atomic_write_file") \o encode_context_signed(d.access, d.start)
awf_ack_decode_service_request(o) ==
  LET access == TagHere(Begin(o)).number
  IN  IF access \notin {FILE_STREAM_ACCESS, FILE_RECORD_ACCESS} THEN Fail(Begin(o), "ERROR")
      ELSE Decode(o, <<Unchecked("signed", "start"), Given("access", access)>>)

(***************************************************************************)
(* Life safety.                                                            *)
(***************************************************************************)
lso_encode_apdu(id, d) ==
  ConfirmedHeader(id, "life_safety_operation") \o encode_context_unsigned(0, d.process)
    \o encode_context_character_string(1, d.source) \o encode_context_enumerated(2, d.operation)
    \o encode_context_object_id(3, d.target)
lso_decode_service_request(o) ==
  Decode(o, <<Context(0, "unsigned", "process"), Context(1, "string", "source"),
              Context(2, "enumerated", "operation"), Optional(3, "object", "target", <<0, 0>>)>>)

(***************************************************************************)
(* The answers that refuse a request.                                      *)
(***************************************************************************)
bacerror_encode_apdu(id, service, d) ==
  ErrorHeader(id, service) \o encode_application_enumerated(d.error_class)
    \o encode_application_enumerated(d.error_code)
bacerror_decode_error_class_and_code(o) ==
  Decode(o, <<Application("enumerated", "error_class"), Application("enumerated", "error_code")>>)

(* The reasons that error codes stand for; 0 is "other" for both.           *)
RejectReasons == [BUFFER_OVERFLOW |-> 1, INCONSISTENT_PARAMETERS |-> 2,
                  INVALID_PARAMETER_DATA_TYPE |-> 3, INVALID_TAG |-> 4,
                  MISSING_REQUIRED_PARAMETER |-> 5, PARAMETER_OUT_OF_RANGE |-> 6,
                  TOO_MANY_ARGUMENTS |-> 7, UNDEFINED_ENUMERATION |-> 8, UNRECOGNIZED_SERVICE |-> 9,
                  PROPRIETARY |-> 64]
reject_convert_error_code(code) == IF code \in DOMAIN RejectReasons THEN RejectReasons[code] ELSE 0
AbortReasons == [BUFFER_OVERFLOW |-> 1, INVALID_APDU_IN_THIS_STATE |-> 2,
                 PREEMPTED_BY_HIGHER_PRIORITY_TASK |-> 3, SEGMENTATION_NOT_SUPPORTED |-> 4,
                 PROPRIETARY |-> 64]
abort_convert_error_code(code) == IF code \in DOMAIN AbortReasons THEN AbortReasons[code] ELSE 0

(***************************************************************************)
(* A schedule's time values.                                               *)
(***************************************************************************)
bacapp_encode_time_value(v) ==
  encode_application_time(v.time) \o bacapp_encode_application_data(v.value[1], v.value[2])
bacapp_encode_context_time_value(n, v) == Enclosed(n, bacapp_encode_time_value(v))
bacapp_decode_time_value(p) ==
  LET Kept(q, d) == IF d.len <= 0 THEN Fail(q, "ERROR")
                    ELSE Keep([q EXCEPT !.at = @ + d.len], "value", d.value)
      Valued(q) == IF Failed(q) THEN Fail(q, "ERROR")
                   ELSE Kept(q, bacapp_decode_application_data(q.o, q.at))
  IN  Valued(Then(p, <<Application("time", "time")>>))
bacapp_decode_context_time_value(o, n) ==
  Then(bacapp_decode_time_value(Decode(o, <<Opening(n)>>)), <<Closing(n)>>)

(***************************************************************************)
(* A lighting command: the fields it has are written.  The decoder steps   *)
(* over the tags but, after the target level, over no contents             *)
(* (lighting.c 170-223); it looks for the priority under the tag of the    *)
(* fade time and returns the length of what it read last.                  *)
(***************************************************************************)
lighting_command_encode(c) ==
  encode_context_enumerated(0, c.operation)
    \o When("target" \in DOMAIN c, encode_context_real(1, c.target))
    \o When("ramp" \in DOMAIN c, encode_context_real(2, c.ramp))
    \o When("step" \in DOMAIN c, encode_context_real(3, c.step))
    \o When("fade" \in DOMAIN c, encode_context_unsigned(4, c.fade))
    \o When("priority" \in DOMAIN c, encode_context_unsigned(5, c.priority))
lighting_command_encode_context(n, c) == Enclosed(n, lighting_command_encode(c))

IfThere(p, n, type, field) ==
  IF ~Failed(p) /\ ~AtEnd(p) /\ IsContext(p, n) THEN Then(p, <<Context(n, type, field)>>) ELSE p
(* The contents are left where they are. *)
Peeked(p, n, type, field) ==
  LET Back(q) == IF q = p THEN p ELSE [q EXCEPT !.at = Skip(p).at]
  IN  Back(IfThere(p, n, type, field))
lighting_command_decode(o) ==
  LET p == IfThere(Decode(o, <<Context(0, "enumerated", "operation")>>), 1, "real", "target")
      ramped == Peeked(p, 2, "real", "ramp")
      stepped == Peeked(ramped, 3, "real", "step")
      faded == Peeked(stepped, 4, "unsigned", "fade")
  IN  Peeked(faded, 4, "unsigned", "priority")
=============================================================================
