-------------------------------- MODULE BVLC6 --------------------------------
(***************************************************************************)
(* The messages of the BACnet/IPv6 virtual link layer, as the encoders and *)
(* decoders of bvlc6.c write and read them.                                *)
(*                                                                         *)
(* An encoder gives the octets it writes, none when it refuses to (the     *)
(* buffer of MAX_MPDU octets too small, a virtual MAC address of more than *)
(* 24 bits).  A decoder takes what follows the header and gives a record   *)
(* of what it stored with the octets it consumed, 0 when it refuses.       *)
(***************************************************************************)
EXTENDS Integers, Sequences

CONSTANT MAX_MPDU             \* the octets a datagram may have

INSTANCE Primitives WITH MAX_APDU <- MAX_MPDU

BVLL_TYPE_BACNET_IP6 == 130
IP6_ADDRESS_MAX == 16
BIP6_ADDRESS_MAX == 18

BVLC6_RESULT == 0
BVLC6_ORIGINAL_UNICAST_NPDU == 1
BVLC6_ORIGINAL_BROADCAST_NPDU == 2
BVLC6_ADDRESS_RESOLUTION == 3
BVLC6_FORWARDED_ADDRESS_RESOLUTION == 4
BVLC6_ADDRESS_RESOLUTION_ACK == 5
BVLC6_VIRTUAL_ADDRESS_RESOLUTION == 6
BVLC6_VIRTUAL_ADDRESS_RESOLUTION_ACK == 7
BVLC6_FORWARDED_NPDU == 8
BVLC6_REGISTER_FOREIGN_DEVICE == 9
BVLC6_DELETE_FOREIGN_DEVICE == 10
BVLC6_SECURE_BVLL == 11
BVLC6_DISTRIBUTE_BROADCAST_TO_NETWORK == 12

BVLC6_RESULT_SUCCESSFUL_COMPLETION == 0
BVLC6_RESULT_ADDRESS_RESOLUTION_NAK == 48
BVLC6_RESULT_REGISTER_FOREIGN_DEVICE_NAK == 144
BVLC6_RESULT_DELETE_FOREIGN_DEVICE_NAK == 160
BVLC6_RESULT_DISTRIBUTE_BROADCAST_TO_NETWORK_NAK == 192

VMAC_MAX == 16777215
UINT16_MAX == 65535
BIP6_ADDRESS == [address : [1..IP6_ADDRESS_MAX -> 0..255], port : 0..UINT16_MAX]
Nothing6 == [consumed |-> 0]

-----------------------------------------------------------------------------

bvlc6_encode_header(type, length) ==
  <<BVLL_TYPE_BACNET_IP6, type>> \o encode_unsigned16(length)

bvlc6_decode_header(mtu) ==
  IF Len(mtu) >= 4 /\ mtu[1] = BVLL_TYPE_BACNET_IP6
  THEN [consumed |-> 4, type |-> mtu[2], length |-> decode_unsigned16(SubSeq(mtu, 3, 4))]
  ELSE Nothing6

(* A message: its header, with the length of all of it, and its contents.   *)
Framed(type, vmacs, contents) ==
  LET length == 4 + Len(contents)
  IN IF length <= MAX_MPDU /\ \A v \in vmacs : v <= VMAC_MAX
     THEN bvlc6_encode_header(type, length) \o contents ELSE <<>>

Vmac(pdu, at) == decode_unsigned24(SubSeq(pdu, at, at + 2))
Short(pdu, at) == decode_unsigned16(SubSeq(pdu, at, at + 1))
From(pdu, at) == SubSeq(pdu, at, Len(pdu))

bvlc6_encode_address(a) == a.address \o encode_unsigned16(a.port)
bvlc6_decode_address(o) ==
  [address |-> SubSeq(o, 1, IP6_ADDRESS_MAX), port |-> Short(o, IP6_ADDRESS_MAX + 1)]

bvlc6_address_copy(a) == a
bvlc6_address_different(a, b) == a.address # b.address \/ a.port # b.port

(* An address from its eight groups of 16 bits, and back. *)
bvlc6_address_set(groups, port) ==
  [address |-> [i \in 1..IP6_ADDRESS_MAX |->
                  encode_unsigned16(groups[(i + 1) \div 2])[2 - (i % 2)]],
   port |-> port]
bvlc6_address_get(a) == [i \in 1..8 |-> Short(a.address, 2 * i - 1)]

(* The BACnet address that carries a virtual MAC address. *)
bvlc6_vmac_address_set(device_id) == [net |-> 0, mac |-> encode_unsigned24(device_id), len |-> 0]
bvlc6_vmac_address_get(addr) ==
  IF Len(addr.mac) = 3 THEN [ok |-> TRUE, device_id |-> decode_unsigned24(addr.mac)]
  ELSE [ok |-> FALSE, device_id |-> 0]

-----------------------------------------------------------------------------

bvlc6_encode_result(vmac, code) ==
  Framed(BVLC6_RESULT, {vmac}, encode_unsigned24(vmac) \o encode_unsigned16(code))
bvlc6_decode_result(pdu) ==
  IF Len(pdu) >= 5 THEN [consumed |-> 5, vmac |-> Vmac(pdu, 1), code |-> Short(pdu, 4)] ELSE Nothing6

bvlc6_encode_original_unicast(src, dst, npdu) ==
  Framed(BVLC6_ORIGINAL_UNICAST_NPDU, {src, dst},
         encode_unsigned24(src) \o encode_unsigned24(dst) \o npdu)
bvlc6_decode_original_unicast(pdu) ==
  IF Len(pdu) >= 6
  THEN [consumed |-> Len(pdu), src |-> Vmac(pdu, 1), dst |-> Vmac(pdu, 4), npdu |-> From(pdu, 7)]
  ELSE Nothing6

bvlc6_encode_original_broadcast(src, npdu) ==
  Framed(BVLC6_ORIGINAL_BROADCAST_NPDU, {src}, encode_unsigned24(src) \o npdu)
bvlc6_decode_original_broadcast(pdu) ==
  IF Len(pdu) >= 3 THEN [consumed |-> Len(pdu), src |-> Vmac(pdu, 1), npdu |-> From(pdu, 4)]
  ELSE Nothing6

bvlc6_encode_address_resolution(src, target) ==
  Framed(BVLC6_ADDRESS_RESOLUTION, {src, target}, encode_unsigned24(src) \o encode_unsigned24(target))
bvlc6_decode_address_resolution(pdu) ==
  IF Len(pdu) >= 6 THEN [consumed |-> 6, src |-> Vmac(pdu, 1), target |-> Vmac(pdu, 4)] ELSE Nothing6

bvlc6_encode_forwarded_address_resolution(src, target, a) ==
  Framed(BVLC6_FORWARDED_ADDRESS_RESOLUTION, {src, target},
         encode_unsigned24(src) \o encode_unsigned24(target) \o bvlc6_encode_address(a))
bvlc6_decode_forwarded_address_resolution(pdu) ==
  IF Len(pdu) >= 6 + BIP6_ADDRESS_MAX
  THEN [consumed |-> 6 + BIP6_ADDRESS_MAX, src |-> Vmac(pdu, 1), target |-> Vmac(pdu, 4),
        address |-> bvlc6_decode_address(From(pdu, 7))]
  ELSE Nothing6

bvlc6_encode_address_ack(type, src, dst) ==
  Framed(type, {src, dst}, encode_unsigned24(src) \o encode_unsigned24(dst))
bvlc6_encode_address_resolution_ack(src, dst) ==
  bvlc6_encode_address_ack(BVLC6_ADDRESS_RESOLUTION_ACK, src, dst)
bvlc6_decode_address_resolution_ack(pdu) ==
  IF Len(pdu) >= 6 THEN [consumed |-> 6, src |-> Vmac(pdu, 1), dst |-> Vmac(pdu, 4)] ELSE Nothing6

bvlc6_encode_virtual_address_resolution(src) ==
  Framed(BVLC6_VIRTUAL_ADDRESS_RESOLUTION, {src}, encode_unsigned24(src))
bvlc6_decode_virtual_address_resolution(pdu) ==
  IF Len(pdu) >= 3 THEN [consumed |-> 3, src |-> Vmac(pdu, 1)] ELSE Nothing6

bvlc6_encode_virtual_address_resolution_ack(src, dst) ==
  bvlc6_encode_address_ack(BVLC6_VIRTUAL_ADDRESS_RESOLUTION_ACK, src, dst)
bvlc6_decode_virtual_address_resolution_ack(pdu) == bvlc6_decode_address_resolution_ack(pdu)

bvlc6_encode_forwarded_npdu(src, a, npdu) ==
  Framed(BVLC6_FORWARDED_NPDU, {src}, encode_unsigned24(src) \o bvlc6_encode_address(a) \o npdu)
bvlc6_decode_forwarded_npdu(pdu) ==
  IF Len(pdu) >= 3 + BIP6_ADDRESS_MAX
  THEN [consumed |-> Len(pdu), src |-> Vmac(pdu, 1), address |-> bvlc6_decode_address(From(pdu, 4)),
        npdu |-> From(pdu, 4 + BIP6_ADDRESS_MAX)]
  ELSE Nothing6

bvlc6_encode_register_foreign_device(src, ttl) ==
  Framed(BVLC6_REGISTER_FOREIGN_DEVICE, {src}, encode_unsigned24(src) \o encode_unsigned16(ttl))
bvlc6_decode_register_foreign_device(pdu) ==
  IF Len(pdu) >= 5 THEN [consumed |-> 5, src |-> Vmac(pdu, 1), ttl |-> Short(pdu, 4)] ELSE Nothing6

(* The entry of a deletion has 22 octets, but the length both functions     *)
(* count, 25 with the header, leaves room for the address alone.            *)
bvlc6_encode_delete_foreign_device(src, entry) ==
  LET octets == bvlc6_encode_header(BVLC6_DELETE_FOREIGN_DEVICE, 25) \o encode_unsigned24(src)
                \o bvlc6_encode_address(entry.bip6_address)
                \o encode_unsigned16(entry.ttl_seconds) \o encode_unsigned16(entry.ttl_seconds_remaining)
  IN IF MAX_MPDU >= 25 /\ src <= VMAC_MAX THEN SubSeq(octets, 1, 25) ELSE <<>>
bvlc6_decode_delete_foreign_device(pdu) ==
  IF Len(pdu) >= 3 + BIP6_ADDRESS_MAX
  THEN [consumed |-> 3 + BIP6_ADDRESS_MAX, src |-> Vmac(pdu, 1),
        address |-> bvlc6_decode_address(From(pdu, 4))]
  ELSE Nothing6

bvlc6_encode_secure_bvll(sbuf) == Framed(BVLC6_SECURE_BVLL, {}, sbuf)
bvlc6_decode_secure_bvll(pdu) == [consumed |-> Len(pdu), sbuf |-> pdu]

bvlc6_encode_distribute_broadcast_to_network(src, npdu) ==
  Framed(BVLC6_DISTRIBUTE_BROADCAST_TO_NETWORK, {src}, encode_unsigned24(src) \o npdu)
bvlc6_decode_distribute_broadcast_to_network(pdu) ==
  IF Len(pdu) >= 3 THEN [consumed |-> Len(pdu), src |-> Vmac(pdu, 1), npdu |-> From(pdu, 4)]
  ELSE Nothing6
=============================================================================
