------------------------------- MODULE Server -------------------------------
(***************************************************************************)
(* The handlers of confirmed requests, demo/handler/h_*.c, as operators:   *)
(* what a handler answers to a request and what it leaves in the store.    *)
(* Those that change communication control are actions of APDU; objects    *)
(* and the octets of a PDU are the subject of Objects and Codec.           *)
(*                                                                         *)
(* A request has a service, the flag of a segmented message, a form - what *)
(* decoding and the objects make of it - and the values it writes, each an *)
(* item of the store and a value.  An item is a property, a field of the   *)
(* private block or a file, and a value a number.  Refused stands for one  *)
(* that the object does not take, Malformed for one of another kind or     *)
(* that cannot be decoded.                                                 *)
(***************************************************************************)
EXTENDS Naturals, Sequences

CONSTANTS
    CHAR,           \* how many values a char of the private block takes, 256
    Refused, Malformed,
    Undecodable     \* a string too long for a BACNET_CHARACTER_STRING

(* What an item can hold.  A number from CHAR on fits no field of a block: *)
(* it stands for an unsigned beyond a char, and for a string of which only *)
(* the beginning is copied, being longer than MY_MAX_STR.                  *)
Values == 0 .. CHAR - 1

Properties == {"a", "b"}

(* The first and the last field of a DATABLOCK: cMyByte2 is decoded like   *)
(* cMyByte1, and the real between them is stored as it comes.              *)
DATABLOCK == {"cMyByte1", "sMyString"}

(* Of the eight blocks, which share nothing, there is the first here.      *)
MY_MAX_BLOCK == 1
Items == Properties \cup DATABLOCK \cup {"file"}

Write(item, value) == [item |-> item, value |-> value]

Result(answer, store) == [answer |-> answer, store |-> store]

----------------------------------------------------------------------------
(* The order most handlers share:          a segmented message is aborted, *)
(* then one that does not decode.                                          *)
Decoded(r, store, served) ==
    IF r.segmented \/ r.form = "malformed" THEN Result("Abort", store)
    ELSE served

(* What one form of a request is answered with, nothing being written.     *)
Answered(r, store, answers) == Decoded(r, store, Result(answers[r.form], store))

handler_read_property(r, store) ==
    IF r.segmented THEN Result("Abort", store)
    ELSE Result([malformed |-> "Reject", unknown |-> "Error",
                 long |-> "Abort", good |-> "ComplexAck"][r.form], store)

(* An object or a property that is unknown is an error inside the ack.     *)
handler_read_property_multiple(r, store) ==
    IF r.segmented THEN Result("Abort", store)
    ELSE Result([malformed |-> "Reject", unknown |-> "ComplexAck",
                 long |-> "Abort", good |-> "ComplexAck"][r.form], store)

(* Encode_RR_payload: a list that is none, or a range it does not have, is *)
(* an error; an answer too long for the APDU is not sent in part.          *)
handler_read_range(r, store) ==
    Answered(r, store, [unknown |-> "Error", long |-> "Abort",
                        good |-> "ComplexAck"])

----------------------------------------------------------------------------
(* Handlers that write.                                                    *)

Stored(store, w) == [store EXCEPT ![w.item] = w.value]

handler_write_property(r, store) ==
    LET w == r.writes[1]
    IN  Decoded(r, store,
            IF w.value = Malformed THEN Result("Abort", store)
            ELSE IF w.value = Refused THEN Result("Error", store)
            ELSE Result("SimpleAck", Stored(store, w)))

(* The store once these writes are done, one after the other.              *)
StoredAll(store, writes) ==
    LET After[i \in 0 .. Len(writes)] ==
            IF i = 0 THEN store ELSE Stored(After[i - 1], writes[i])
    IN  After[Len(writes)]

Bad(writes) == {i \in DOMAIN writes : writes[i].value \in {Refused, Malformed}}

FirstBad(writes) ==
    CHOOSE i \in Bad(writes) : \A j \in Bad(writes) : i <= j

(* Fault: the writes that follow a refused one are still done.             *)
EveryGoodWrite(writes, store) ==
    LET Good(w) == w.value \in Values
    IN  IF Bad(writes) = {}
        THEN Result("SimpleAck", StoredAll(store, writes))
        ELSE Result(IF writes[FirstBad(writes)].value = Malformed
                    THEN "Reject" ELSE "Error",
                    StoredAll(store, SelectSeq(writes, Good)))

(* The values are written one by one, up to the first that is refused or   *)
(* does not decode; those before it stay written.                          *)
WritesUpToTheFirstBad(writes, store) ==
    IF Bad(writes) = {}
    THEN Result("SimpleAck", StoredAll(store, writes))
    ELSE LET first == FirstBad(writes)
         IN  Result(IF writes[first].value = Malformed THEN "Reject" ELSE "Error",
                    StoredAll(store, SubSeq(writes, 1, first - 1)))

(* A segmented message sets no error before it goes to the end: it is      *)
(* acknowledged, and nothing of it is written.                             *)
handler_write_property_multiple(r, store) ==
    IF r.segmented THEN Result("SimpleAck", store)
    ELSE WritesUpToTheFirstBad(r.writes, store)

(* What a field makes of a value: the cast to a char, the copy of no more  *)
(* than MY_MAX_STR characters, and, as nobody asks whether the string was  *)
(* decoded, a copy of what the uninitialised local bsTemp holds.           *)
Cut(w, bsTemp) ==
    IF w.value = Malformed THEN w
    ELSE Write(w.item, IF w.value = Undecodable THEN bsTemp ELSE w.value % CHAR)

(* The fields go into the block as they are decoded: a field of the wrong  *)
(* kind ends the service with an error, and those before it stay.  Success *)
(* is answered whatever was cut, and the block is the one whose number is  *)
(* left of a cast to a char; a number that is none is named in the ack.    *)
(* With no writes the block is read.                                       *)
ProcessPT(r, bsTemp, store) ==
    LET writes == [i \in DOMAIN r.writes |-> Cut(r.writes[i], bsTemp)]
    IN  IF r.form = "kind" THEN Result("Error", store)
        ELSE IF r.block % CHAR >= MY_MAX_BLOCK THEN Result("ComplexAck", store)
        ELSE IF Bad(writes) = {} THEN Result("ComplexAck", StoredAll(store, writes))
        ELSE Result("Error",
                    StoredAll(store, SubSeq(writes, 1, FirstBad(writes) - 1)))

(* Another vendor's service is refused.                                    *)
handler_conf_private_trans(r, bsTemp, store) ==
    Decoded(r, store,
        IF r.form = "vendor" THEN Result("Error", store)
        ELSE ProcessPT(r, bsTemp, store))

handler_atomic_read_file(r, store) ==
    Answered(r, store, [object |-> "Error", unknown |-> "Error",
                        record |-> "Error", long |-> "Abort",
                        good |-> "ComplexAck"])

(* A file that is listed but cannot be opened is acknowledged as written.  *)
handler_atomic_write_file(r, store) ==
    Decoded(r, store,
        CASE r.form \in {"object", "unknown", "record"} -> Result("Error", store)
          [] r.form = "unopened" -> Result("ComplexAck", store)
          [] r.form = "good" -> Result("ComplexAck", Stored(store, r.writes[1])))

----------------------------------------------------------------------------
(* Alarms, notifications and the rest; what an acknowledgement changes in  *)
(* an object is modelled in Objects.                                       *)

handler_alarm_ack(r, store) ==
    Answered(r, store, [unknown |-> "Error", unsupported |-> "Error",
                        refused |-> "Error", failed |-> "Abort",
                        good |-> "SimpleAck"])

handler_get_event_information(r, store) ==
    Answered(r, store, [long |-> "Abort", failed |-> "Error",
                        good |-> "ComplexAck"])

handler_get_alarm_summary(r, store) ==
    IF r.segmented THEN Result("Abort", store)
    ELSE Result([long |-> "Abort", good |-> "ComplexAck"][r.form], store)

handler_ccov_notification(r, store) ==
    Answered(r, store, [good |-> "SimpleAck"])

handler_lso(r, store) == Answered(r, store, [good |-> "SimpleAck"])

(* A service that nobody registered, segmented or not.                     *)
handler_unrecognized_service(r, store) == Result("Reject", store)

----------------------------------------------------------------------------
(* apdu_handler's table of handlers; bsTemp is what the stack holds where  *)
(* ProcessPT has its string.                                               *)
Handled(r, bsTemp, store) ==
    CASE r.service = "ReadProperty" -> handler_read_property(r, store)
      [] r.service = "ReadPropertyMultiple" ->
            handler_read_property_multiple(r, store)
      [] r.service = "ReadRange" -> handler_read_range(r, store)
      [] r.service = "WriteProperty" -> handler_write_property(r, store)
      [] r.service = "WritePropertyMultiple" ->
            handler_write_property_multiple(r, store)
      [] r.service = "PrivateTransfer" -> handler_conf_private_trans(r, bsTemp, store)
      [] r.service = "AtomicReadFile" -> handler_atomic_read_file(r, store)
      [] r.service = "AtomicWriteFile" -> handler_atomic_write_file(r, store)
      [] r.service = "AcknowledgeAlarm" -> handler_alarm_ack(r, store)
      [] r.service = "GetEventInformation" ->
            handler_get_event_information(r, store)
      [] r.service = "GetAlarmSummary" -> handler_get_alarm_summary(r, store)
      [] r.service = "COVNotification" -> handler_ccov_notification(r, store)
      [] r.service = "LifeSafetyOperation" -> handler_lso(r, store)
      [] OTHER -> handler_unrecognized_service(r, store)
=============================================================================
