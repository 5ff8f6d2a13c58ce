------------------------------- MODULE MCCodec -------------------------------
(* Messages with every field left out or there, numbers at the edges of    *)
(* their octets, strings at the edges of a length, nested brackets.        *)
EXTENDS Codec

Octets(n) == [i \in 1..n |-> (i * 7) % 256]
Edges == {0, 1, 255, 256, 65535, 65536, 16777215, 16777216, 2147483647}
SignedEdges == {0, -1, 127, 128, -128, -129, 32767, 32768, -32768, -32769, 8388607, 8388608,
                -8388607, -8388608, -8388609, 2147483647, -2147483647}
Bits(n) == [i \in 1..n |-> i % 3 = 0]
One == <<63, 128, 0, 0>>

MCLists ==
  {<<<<"unsigned", n>>, <<"null", 0>>>> : n \in Edges}
    \cup {<<<<"signed", n>>, <<"boolean", TRUE>>>> : n \in SignedEdges}
    \cup {<<<<"boolean", FALSE>>, <<"octets", Octets(n)>>>> : n \in {0, 1, 4, 5, 253, 254, 400}}
    \cup {<<<<"string", <<0, Octets(n)>>>>, <<"enumerated", 300>>>> : n \in {0, 3, 4, 252, 253}}
    \cup {<<<<"bits", Bits(n)>>, <<"object", <<8, 4194303>>>>>> : n \in {0, 1, 7, 8, 9, 24, 120}}
    \cup {<<<<"real", One>>, <<"double", One \o One>>, <<"object", <<511, 0>>>>>>}

Device == <<8, 4194303>>
Point == <<3, 256>>
Stamps == {[time |-> <<10, 11, 12, 14>>], [sequence |-> 65535],
           [date |-> <<2024, 2, 29, 4>>, time |-> <<23, 59, 59, 99>>]}
All == BACNET_ARRAY_ALL

MCBrackets ==
  LET value == encode_application_unsigned(7)
  IN  {DataOctets(list) : list \in {l \in MCLists : l[1][1] \in {"signed", "bits", "octets"}}}
        \cup {Enclosed(3, value) \o value, value \o Enclosed(3, Enclosed(3, value)),
              Enclosed(0, value \o Enclosed(3, <<>>)) \o value,
              encode_context_unsigned(3, 255) \o Enclosed(14, value),
              Enclosed(15, value) \o Enclosed(200, Enclosed(15, value)),
              encode_context_octet_string(3, Octets(300)) \o Enclosed(3, <<>>)}

Confirmed(service, datas) ==
  {[kind |-> "confirmed", id |-> 255, service |-> service, data |-> d] : d \in datas}
Unconfirmed(service, datas) ==
  {[kind |-> "unconfirmed", id |-> 0, service |-> service, data |-> d] : d \in datas}
Ack(service, datas) ==
  {[kind |-> "complex_ack", id |-> 1, service |-> service, data |-> d] : d \in datas}

Places == {[object |-> Point, property |-> p, index |-> i] : p \in {85, 512}, i \in {All, 0, 300}}
DataList == {DataOctets(<<<<"real", One>>>>), Enclosed(3, DataOctets(<<<<"unsigned", 256>>>>))}
Properties == {<<[property |-> 85, index |-> All]>>,
               <<[property |-> 8, index |-> All], [property |-> 600, index |-> 3]>>}

Access ==
  Confirmed("read_property", Places)
    \cup Ack("read_property", {p @@ [data |-> o] : p \in Places, o \in DataList})
    \cup Confirmed("write_property",
           {p @@ [data |-> o, priority |-> n] : p \in Places, o \in DataList, n \in {0, 1, 16}})
    \cup Confirmed("read_property_multiple",
           {[objects |-> <<[object |-> Device, properties |-> p]>>] : p \in Properties}
           \cup {[objects |-> <<[object |-> Device, properties |-> p],
                                [object |-> Point, properties |-> p]>>] : p \in Properties})
    \cup Ack("read_property_multiple",
           {[objects |-> <<[object |-> Device, properties |->
                              <<[property |-> 85, index |-> i, values |-> v],
                                [property |-> 111, index |-> All, error |-> <<2, 32>>],
                                [property |-> 77, index |-> All, values |-> w]>>],
                           [object |-> Point, properties |->
                              <<[property |-> 8, index |-> i, error |-> <<1, 31>>]>>]>>] :
              i \in {All, 1}, v \in {<<<<"real", One>>>>}, w \in MCLists})
    \cup Confirmed("write_property_multiple",
           {[objects |-> <<[object |-> Device, properties |->
                              <<[property |-> 85, index |-> i, data |-> o, priority |-> 16],
                                [property |-> 77, index |-> All, data |-> o, priority |-> 16]>>],
                           [object |-> Point, properties |->
                              <<[property |-> 8, index |-> i, data |-> o, priority |-> 16]>>]>>] :
              i \in {All, 1}, o \in DataList})
    \cup Confirmed("read_range",
           {p @@ [range |-> r] : p \in Places,
              r \in {[by |-> "all"], [by |-> "position", from |-> 1, count |-> -129],
                     [by |-> "sequence", from |-> 65536, count |-> 10],
                     [by |-> "time", date |-> <<2020, 1, 1, 3>>, time |-> <<1, 2, 3, 4>>,
                      count |-> -1]}})
    \cup Ack("read_range",
           {[object |-> Point, property |-> 131, index |-> i, flags |-> Bits(3), count |-> n,
             data |-> IF n = 0 THEN <<>>
                      ELSE DataOctets(<<<<"unsigned", 300>>>>) \o Enclosed(0, DataOctets(<<<<"null", 0>>>>)),
             by |-> by, first |-> 257] : i \in {All, 2}, n \in {0, 2}, by \in {"all", "time"}})

Subscription == [process |-> 18, object |-> Point]
Terms == {[cancel |-> TRUE, confirmed |-> FALSE, lifetime |-> 0]}
           \cup {[cancel |-> FALSE, confirmed |-> c, lifetime |-> n] : c \in BOOLEAN, n \in {0, 65536}}
Increments == {[incremented |-> FALSE], [incremented |-> TRUE, increment |-> One]}
Changes == {[process |-> 256, device |-> 4194303, object |-> Point, timeRemaining |-> n,
             listOfValues |-> v] : n \in {0, 70000},
            v \in {<<[property |-> 85, index |-> i, values |-> <<<<"real", One>>>>, priority |-> p],
                     [property |-> 111, index |-> All, values |-> <<<<"bits", Bits(4)>>>>,
                      priority |-> 0]>> : i \in {All, 2}, p \in {0, 7}}}
Reference == {[object |-> Point, property |-> 131, index |-> i, device |-> d] :
                i \in {All, 4}, d \in {Device, NoDevice}}
EventValues ==
  [change_of_bitstring |-> {[bits |-> Bits(9), flags |-> Bits(4)]},
   change_of_state |-> {[state |-> s, flags |-> Bits(4)] :
                          s \in {<<0, TRUE>>, <<1, 1>>, <<8, 256>>, <<11, 65536>>, <<13, 5>>}},
   change_of_value |-> {[real |-> One, flags |-> Bits(4)], [bits |-> Bits(8), flags |-> Bits(4)]},
   floating_limit |-> {[reference |-> One, flags |-> Bits(4), setPoint |-> <<1, 2, 3, 4>>,
                        errorLimit |-> One]},
   out_of_range |-> {[exceeding |-> One, flags |-> Bits(4), deadband |-> <<1, 2, 3, 4>>,
                      exceeded |-> One]},
   change_of_life_safety |-> {[state |-> 3, mode |-> 300, flags |-> Bits(4), expected |-> 0]},
   buffer_ready |-> {[buffer |-> r, previous |-> 255, current |-> 256] : r \in Reference},
   unsigned_range |-> {[exceeding |-> 256, flags |-> Bits(4), exceeded |-> 65536]}]
Notice == [process |-> 1, device |-> Device, object |-> Point, class |-> 300, priority |-> 255,
           text |-> <<0, Octets(20)>>, to |-> 3]
Notices ==
  UNION {{Notice @@ [event |-> e, timeStamp |-> s, notifyType |-> 0, ackRequired |-> s = [sequence |-> 65535],
                     from |-> 0, values |-> v] : v \in EventValues[e], s \in Stamps} :
           e \in DOMAIN EventValues}
    \cup {Notice @@ [event |-> "out_of_range", timeStamp |-> s, notifyType |-> 2] : s \in Stamps}
Event(stamp) == [object |-> Point, state |-> 2, acked |-> Bits(3),
                 stamps |-> <<stamp, [sequence |-> 0], [time |-> <<255, 255, 255, 255>>]>>,
                 notifyType |-> 1, enable |-> Bits(3), priorities |-> <<1, 255, 16>>]

Events ==
  Confirmed("subscribe_cov", {Subscription @@ t : t \in Terms})
    \cup Confirmed("subscribe_cov_property",
           {Subscription @@ t @@ i @@ [property |-> 85, index |-> n] :
              t \in Terms, i \in Increments, n \in {All, 1}})
    \cup Confirmed("cov_notification", Changes) \cup Unconfirmed("cov_notification", Changes)
    \cup Confirmed("event_notification", Notices) \cup Unconfirmed("event_notification", Notices)
    \cup Confirmed("acknowledge_alarm",
           {[process |-> 256, object |-> Point, stateAcked |-> 2, eventStamp |-> s, ackStamp |-> t,
             source |-> <<0, Octets(n)>>] : s \in Stamps, t \in Stamps, n \in {0, 4}})
    \cup Confirmed("get_event_information", {[last |-> Point], <<>>})
    \cup Ack("get_event_information",
           {[events |-> e, more |-> m] : m \in BOOLEAN,
              e \in {<<Event(s)>> : s \in Stamps} \cup {<<Event(s), Event([sequence |-> 9])>> : s \in Stamps}})
    \cup Ack("get_alarm_summary",
           {[alarms |-> a] : a \in {<<>>, <<[object |-> Point, state |-> 2, acked |-> Bits(3)],
                                            [object |-> Device, state |-> 1, acked |-> Bits(3)]>>}})

Limits == {[low |-> a, high |-> b] : a \in {-1, 0, 300}, b \in {-1, 300, 4194303}}
Named == {[object |-> Point], [name |-> <<0, Octets(12)>>]}
Passwords == {<<>>, [password |-> <<0, Octets(6)>>]}
Private == {[vendor |-> 260, service |-> n, parameters |-> o] :
              n \in {1, 65536}, o \in DataList \cup {<<>>}}
Access0 == {[access |-> 0, start |-> n] : n \in {0, -1, 70000}}
Access1 == {[access |-> 1, start |-> n] : n \in {0, 128}}
Parts == {a @@ [data |-> Octets(n)] : a \in Access0, n \in {0, 5, 300}}
           \cup {a @@ [count |-> 300, data |-> Octets(n)] : a \in Access1, n \in {4, 254}}
Refusals(kind, ids, service, datas) ==
  {[kind |-> kind, id |-> i, service |-> service, data |-> d] : i \in ids, d \in datas}

Devices ==
  Confirmed("device_communication_control",
            {[status |-> s, minutes |-> n] @@ p : s \in {0, 2}, n \in {0, 65535}, p \in Passwords})
    \cup Confirmed("reinitialize_device", {[state |-> s] @@ p : s \in {0, 1}, p \in Passwords})
    \cup UNION {Unconfirmed(s, {[date |-> <<2155, 12, 31, 7>>, time |-> <<23, 59, 59, 99>>],
                                [date |-> <<1900, 1, 1, 1>>, time |-> <<0, 0, 0, 0>>]}) :
                  s \in {"time_synchronization", "utc_time_synchronization"}}
    \cup Unconfirmed("who_is", Limits) \cup Unconfirmed("who_has", {l @@ n : l \in Limits, n \in Named})
    \cup Unconfirmed("i_am", {[device |-> d, max_apdu |-> 1476, segmentation |-> s, vendor |-> v] :
                                d \in {0, 4194303}, s \in {0, 3}, v \in {0, 65535}})
    \cup Unconfirmed("i_have", {[device |-> Device, object |-> Point, name |-> <<0, Octets(n)>>] :
                                  n \in {0, 32}})
    \cup Confirmed("private_transfer", Private) \cup Unconfirmed("private_transfer", Private)
    \cup Ack("private_transfer", Private)
    \cup Refusals("error", {7}, "private_transfer",
                  {p @@ [error_class |-> 1, error_code |-> 31] : p \in Private})
    \cup UNION {Refusals("error", {7}, s, {[error_class |-> 2, error_code |-> 300]}) :
                  s \in {"read_property", "subscribe_cov"}}
    \cup Refusals("reject", {0, 255}, "reject", {[reason |-> r] : r \in {"INVALID_TAG", "OTHER"}})
    \cup Refusals("abort", {3}, "abort",
                  {[reason |-> r, server |-> s] : s \in BOOLEAN,
                     r \in {"SEGMENTATION_NOT_SUPPORTED", "OTHER"}})
    \cup {[kind |-> "simple_ack", id |-> 9, service |-> s, data |-> <<>>] :
            s \in {"write_property", "acknowledge_alarm"}}
    \cup Confirmed("atomic_read_file", {[file |-> <<10, 1>>, count |-> 256] @@ a : a \in Access0 \cup Access1})
    \cup Ack("atomic_read_file", {[end |-> e] @@ p : e \in BOOLEAN, p \in Parts})
    \cup Confirmed("atomic_write_file", {[file |-> <<10, 1>>] @@ p : p \in Parts})
    \cup Ack("atomic_write_file", Access0 \cup Access1)
    \cup Confirmed("life_safety_operation",
                   {[process |-> 18, source |-> <<0, Octets(6)>>, operation |-> 4, target |-> Point]})

MCMessages == Access \cup Events \cup Devices

Station(n) == [net |-> 4201, adr |-> Octets(n)]
MCRoutes ==
  {[dest |-> Local, src |-> Local, expecting |-> FALSE, priority |-> 0],
   [dest |-> Station(6), src |-> Station(1), expecting |-> TRUE, priority |-> 3]}

MCClocks == {<<<<2020, 2, 28>>, <<23, 30, 5, 6>>>>, <<<<1904, 12, 31>>, <<0, 0, 0, 0>>>>,
             <<<<2100, 3, 1>>, <<0, 1, 59, 99>>>>}
MCMinutes == {-1441, -1440, -31, 1, 30, 1439, 527040}
=============================================================================
