-------------------------------- MODULE BIP6 --------------------------------
(***************************************************************************)
(* The BACnet/IPv6 data link of h_bbmd6.c: devices on one multicast domain *)
(* that learn each other's B/IPv6 addresses from the messages they receive *)
(* and send each other NPDUs by virtual MAC address, over datagrams that   *)
(* may be lost, duplicated and reordered.                                  *)
(*                                                                         *)
(* A node runs handler_bbmd6_for_bbmd or handler_bbmd6_for_non_bbmd, as    *)
(* BBMD6_ENABLED says when it is built.  The broadcast distribution table  *)
(* and the foreign device table are static arrays that no function of the  *)
(* repository fills: they are constants, empty as the program has them.    *)
(* Remote_BBMD.port is 0 for the same reason, so that a broadcast is       *)
(* always an Original-Broadcast-NPDU.  What the port layer does is         *)
(* external: it sends a datagram, knows the node's own address and the     *)
(* multicast group, which loops back to the sender.                        *)
(*                                                                         *)
(* The others are devices of another make on the same network, and a BBMD  *)
(* of another network that forwards its devices' broadcasts to the node    *)
(* that is a BBMD.  An NPDU is who sent it and for whom, which no layer    *)
(* here looks into.                                                        *)
(***************************************************************************)
EXTENDS VMAC, BVLC6, FiniteSets

CONSTANTS Nodes,              \* the nodes
          Instance,           \* the device instance of each
          BBMDs,              \* the nodes that are built as a BBMD
          Sites,          \* the addresses a node may have
          Home,               \* the address each starts with
          Group,              \* the multicast group
          Nowhere,            \* the address of zeros
          BBMD_Table,         \* the peers of each node's BBMD_Table
          FD_Table,           \* the devices of each node's FD_Table
          Other,              \* a device of another make: [instance, address]
          Peer,               \* the address of the BBMD of another network
          Remote,             \* a device there: [instance, address]
          RouterNetwork,      \* the number of a network behind a router
          MaxSteps,           \* the datagrams devices send of their own, moves and copies
          MaxWire             \* the datagrams under way at a time

ASSUME BIP6Assumption ==
  /\ BBMDs \subseteq Nodes
  /\ Home \in [Nodes -> Sites]
  /\ Sites \subseteq BIP6_ADDRESS
  /\ {Peer, Other.address, Remote.address} \subseteq BIP6_ADDRESS
  /\ \A n \in Nodes : Instance[n] \in 1..VMAC_MAX
  /\ {Other.instance, Remote.instance} \subseteq 0..VMAC_MAX
  /\ RouterNetwork \in 1..(UINT16_MAX - 1)

Everyone == 0                 \* whom a broadcast is for
NoSource == <<>>              \* the source address a handler leaves unset
NothingUp == [npdu |-> <<>>]

VARIABLES address,            \* the B/IPv6 address of each node
          vmac,               \* the table of each
          lastResult,         \* BVLC6_Result_Code of each
          wire,               \* the datagrams under way: [from, to, mtu]
          up,                 \* what the last handler gave to the network layer
          held,               \* the addresses a device has had: <<instance, address>>
          steps               \* how many of MaxSteps are used

linkVars == <<address, vmac, lastResult, wire, up, held, steps>>

Device_Object_Instance_Number(n) == Instance[n]
bip6_get_addr(n) == address[n]
bip6_get_broadcast_addr == Group
bip6_address_match_self(n, addr) == ~bvlc6_address_different(addr, bip6_get_addr(n))

(* A datagram from an address; to the group, one for each node and device. *)
bip6_send_mpdu(from, to, mtu) ==
  IF to = Group
  THEN {[from |-> from, to |-> a, mtu |-> mtu] : a \in {address[n] : n \in Nodes} \cup {Other.address}}
  ELSE {[from |-> from, to |-> to, mtu |-> mtu]}

-----------------------------------------------------------------------------
(* Addresses and the table *)

bbmd6_address_from_vmac(mac) ==
  IF Len(mac) = BIP6_ADDRESS_MAX THEN bvlc6_decode_address(mac) ELSE Nowhere
bbmd6_address_to_vmac(addr) == bvlc6_encode_address(addr)

bbmd6_add_vmac(list, device_id, addr) ==
  IF VMAC_Find_By_Key(list, device_id) = Unbound
  THEN VMAC_Add(list, device_id, bbmd6_address_to_vmac(addr)) ELSE list

(* Where a BACnet address is, and its virtual MAC address; nowhere and 0    *)
(* when it is not in the table, which the caller does not ask.              *)
bbmd6_address_from_bacnet_address(list, baddr) ==
  LET id == bvlc6_vmac_address_get(baddr)
      mac == VMAC_Find_By_Key(list, id.device_id)
  IN IF id.ok /\ mac # Unbound THEN [addr |-> bbmd6_address_from_vmac(mac), vmac |-> id.device_id]
     ELSE [addr |-> Nowhere, vmac |-> 0]

-----------------------------------------------------------------------------
(* Sending *)

Npdu(n, for) == <<Instance[n], for>>

bip6_send_pdu(n, dest, for) ==
  LET me == Device_Object_Instance_Number(n)
      found == bbmd6_address_from_bacnet_address(vmac[n], dest)
      unicast == Len(dest.mac) = 3
  IN CASE dest.net = 65535 \/ Len(dest.mac) = 0 ->
            bip6_send_mpdu(address[n], bip6_get_broadcast_addr,
                           bvlc6_encode_original_broadcast(me, Npdu(n, for)))
       [] dest.net # 65535 /\ dest.net > 0 /\ dest.len = 0 /\ Len(dest.mac) > 0 ->
            bip6_send_mpdu(address[n], IF unicast THEN found.addr ELSE bip6_get_broadcast_addr,
                           bvlc6_encode_original_broadcast(me, Npdu(n, for)))
       [] dest.net # 65535 /\ ~(dest.net > 0 /\ dest.len = 0) /\ unicast ->
            bip6_send_mpdu(address[n], found.addr,
                           bvlc6_encode_original_unicast(me, found.vmac, Npdu(n, for)))
       [] OTHER -> {}

bbmd6_send_pdu_bdt(n, mtu) ==
  UNION {bip6_send_mpdu(address[n], a, mtu) :
           a \in {a \in BBMD_Table[n] : bvlc6_address_different(bip6_get_addr(n), a)}}
bbmd6_send_pdu_fdt(n, mtu) ==
  UNION {bip6_send_mpdu(address[n], a, mtu) :
           a \in {a \in FD_Table[n] : bvlc6_address_different(bip6_get_addr(n), a)}}

bvlc6_send_result(n, dest, code) ==
  bip6_send_mpdu(address[n], dest, bvlc6_encode_result(Device_Object_Instance_Number(n), code))
bvlc6_send_address_resolution_ack(n, dest, src, dst) ==
  bip6_send_mpdu(address[n], dest, bvlc6_encode_address_resolution_ack(src, dst))
bvlc6_send_virtual_address_resolution_ack(n, dest, src, dst) ==
  bip6_send_mpdu(address[n], dest, bvlc6_encode_virtual_address_resolution_ack(src, dst))
bvlc6_register_with_bbmd(n, bbmd, ttl) ==
  bip6_send_mpdu(address[n], bbmd,
                 bvlc6_encode_register_foreign_device(Device_Object_Instance_Number(n), ttl))

-----------------------------------------------------------------------------
(* Receiving: what a handler leaves in the table, sends, hands up and keeps *)
(* as the result.                                                           *)

Quiet(n) == [list |-> vmac[n], sent |-> {}, up |-> NothingUp, result |-> lastResult[n]]
Learns(n, id, addr) == [Quiet(n) EXCEPT !.list = bbmd6_add_vmac(@, id, addr)]
Up(n, src, npdu) == [at |-> n, src |-> src, npdu |-> npdu]
HandsUp(n, id, addr, npdu) ==
  [Learns(n, id, addr) EXCEPT !.up = Up(n, bvlc6_vmac_address_set(id).mac, npdu)]

bbmd6_virtual_address_resolution_handler(n, addr, pdu) ==
  LET m == bvlc6_decode_virtual_address_resolution(pdu)
      me == Device_Object_Instance_Number(n)
  IN IF bip6_address_match_self(n, addr) \/ m.consumed = 0 THEN Quiet(n)
     ELSE [Learns(n, m.src, addr) EXCEPT
             !.sent = bvlc6_send_virtual_address_resolution_ack(n, addr, me, m.src)]

bbmd6_virtual_address_resolution_ack_handler(n, addr, pdu) ==
  LET m == bvlc6_decode_virtual_address_resolution_ack(pdu)
  IN IF bip6_address_match_self(n, addr) \/ m.consumed = 0 THEN Quiet(n)
     ELSE Learns(n, m.src, addr)

bbmd6_address_resolution_handler(n, addr, pdu) ==
  LET m == bvlc6_decode_address_resolution(pdu)
      me == Device_Object_Instance_Number(n)
      learns == Learns(n, m.src, addr)
  IN CASE bip6_address_match_self(n, addr) \/ m.consumed = 0 -> Quiet(n)
       [] ~bip6_address_match_self(n, addr) /\ m.consumed # 0 /\ m.target = me ->
            [learns EXCEPT !.sent = bvlc6_send_address_resolution_ack(n, addr, me, m.src)]
       [] OTHER -> learns

bbmd6_address_resolution_ack_handler(n, addr, pdu) ==
  LET m == bvlc6_decode_address_resolution_ack(pdu)
  IN IF bip6_address_match_self(n, addr) \/ m.consumed = 0 THEN Quiet(n)
     ELSE Learns(n, m.src, addr)

ReceiveResult(n, addr, pdu) ==
  LET m == bvlc6_decode_result(pdu)
  IN IF m.consumed = 0 THEN Quiet(n) ELSE [Learns(n, m.vmac, addr) EXCEPT !.result = m.code]

Nak(n, addr, code) == [Quiet(n) EXCEPT !.sent = bvlc6_send_result(n, addr, code)]

(* A node that does not look whom a unicast is for. *)
ReceiveAnyUnicast(n, addr, pdu) ==
  LET m == bvlc6_decode_original_unicast(pdu)
  IN IF bip6_address_match_self(n, addr) \/ m.consumed = 0 THEN Quiet(n)
     ELSE HandsUp(n, m.src, addr, m.npdu)

ReceiveOriginalUnicast(n, addr, pdu) ==
  LET m == bvlc6_decode_original_unicast(pdu)
  IN CASE bip6_address_match_self(n, addr) \/ m.consumed = 0 -> Quiet(n)
       [] ~bip6_address_match_self(n, addr) /\ m.consumed # 0 /\ m.dst = Device_Object_Instance_Number(n) ->
            HandsUp(n, m.src, addr, m.npdu)
       [] OTHER -> Quiet(n)

(* What both handlers do alike. *)
ReceiveOther(n, addr, type, pdu) ==
  CASE type = BVLC6_RESULT -> ReceiveResult(n, addr, pdu)
    [] type = BVLC6_REGISTER_FOREIGN_DEVICE -> Nak(n, addr, BVLC6_RESULT_REGISTER_FOREIGN_DEVICE_NAK)
    [] type = BVLC6_DELETE_FOREIGN_DEVICE -> Nak(n, addr, BVLC6_RESULT_DELETE_FOREIGN_DEVICE_NAK)
    [] type = BVLC6_DISTRIBUTE_BROADCAST_TO_NETWORK ->
         Nak(n, addr, BVLC6_RESULT_DISTRIBUTE_BROADCAST_TO_NETWORK_NAK)
    [] type = BVLC6_ORIGINAL_UNICAST_NPDU -> ReceiveOriginalUnicast(n, addr, pdu)
    [] type = BVLC6_FORWARDED_ADDRESS_RESOLUTION -> Nak(n, addr, BVLC6_RESULT_ADDRESS_RESOLUTION_NAK)
    [] type = BVLC6_ADDRESS_RESOLUTION -> bbmd6_address_resolution_handler(n, addr, pdu)
    [] type = BVLC6_ADDRESS_RESOLUTION_ACK -> bbmd6_address_resolution_ack_handler(n, addr, pdu)
    [] type = BVLC6_VIRTUAL_ADDRESS_RESOLUTION -> bbmd6_virtual_address_resolution_handler(n, addr, pdu)
    [] type = BVLC6_VIRTUAL_ADDRESS_RESOLUTION_ACK ->
         bbmd6_virtual_address_resolution_ack_handler(n, addr, pdu)
    [] OTHER -> Quiet(n)

(* A BBMD that learns the address a Forwarded-NPDU came from. *)
BBMDLearnsTheForwarder(n, addr, type, pdu) ==
  LET forwarded == bvlc6_decode_forwarded_npdu(pdu)
      copy == bvlc6_encode_forwarded_npdu(forwarded.src, addr, forwarded.npdu)
  IN IF type = BVLC6_FORWARDED_NPDU /\ forwarded.consumed # 0 /\ ~bip6_address_match_self(n, addr)
     THEN [HandsUp(n, forwarded.src, addr, forwarded.npdu) EXCEPT
             !.sent = bip6_send_mpdu(address[n], bip6_get_broadcast_addr, copy)]
     ELSE ReceiveOther(n, addr, type, pdu)

(* A BBMD passes a broadcast on to its tables, its own as well, which it    *)
(* hands up without a source.  What it learns and what it passes on of a    *)
(* Forwarded-NPDU are two different addresses: the one the message names    *)
(* and the one the message came from.                                       *)
handler_bbmd6_for_bbmd(n, addr, type, pdu) ==
  LET original == bvlc6_decode_original_broadcast(pdu)
      forwarded == bvlc6_decode_forwarded_npdu(pdu)
      own == bip6_address_match_self(n, addr)
      handUp(id, from, npdu) ==
        IF own THEN [Quiet(n) EXCEPT !.up = Up(n, NoSource, npdu)] ELSE HandsUp(n, id, from, npdu)
  IN CASE type = BVLC6_ORIGINAL_BROADCAST_NPDU /\ original.consumed # 0 ->
            LET copy == bvlc6_encode_forwarded_npdu(original.src, addr, original.npdu)
            IN [handUp(original.src, addr, original.npdu) EXCEPT
                  !.sent = bbmd6_send_pdu_bdt(n, copy) \cup bbmd6_send_pdu_fdt(n, copy)]
       [] type = BVLC6_FORWARDED_NPDU /\ forwarded.consumed # 0 ->
            LET copy == bvlc6_encode_forwarded_npdu(forwarded.src, addr, forwarded.npdu)
            IN [handUp(forwarded.src, forwarded.address, forwarded.npdu) EXCEPT
                  !.sent = bip6_send_mpdu(address[n], bip6_get_broadcast_addr, copy)
                             \cup bbmd6_send_pdu_fdt(n, copy)]
       [] OTHER -> ReceiveOther(n, addr, type, pdu)

handler_bbmd6_for_non_bbmd(n, addr, type, pdu) ==
  LET original == bvlc6_decode_original_broadcast(pdu)
      forwarded == bvlc6_decode_forwarded_npdu(pdu)
      own == bip6_address_match_self(n, addr)
  IN CASE type = BVLC6_ORIGINAL_BROADCAST_NPDU /\ original.consumed # 0 /\ ~own ->
            HandsUp(n, original.src, addr, original.npdu)
       [] type = BVLC6_FORWARDED_NPDU /\ forwarded.consumed # 0 /\ ~own ->
            HandsUp(n, forwarded.src, forwarded.address, forwarded.npdu)
       [] OTHER -> ReceiveOther(n, addr, type, pdu)

bvlc6_handler(n, addr, mtu) ==
  LET header == bvlc6_decode_header(mtu)
      pdu == SubSeq(mtu, 5, Len(mtu))
  IN CASE header.consumed # 4 -> Quiet(n)
       [] header.consumed = 4 /\ n \in BBMDs -> handler_bbmd6_for_bbmd(n, addr, header.type, pdu)
       [] OTHER -> handler_bbmd6_for_non_bbmd(n, addr, header.type, pdu)

-----------------------------------------------------------------------------

bvlc6_init == VMAC_Init

LinkInit ==
  /\ address = Home
  /\ vmac = [n \in Nodes |-> bvlc6_init]
  /\ lastResult = [n \in Nodes |-> BVLC6_RESULT_SUCCESSFUL_COMPLETION]
  /\ wire = {}
  /\ up = NothingUp
  /\ held = {<<Instance[n], Home[n]>> : n \in Nodes}
              \cup {<<Other.instance, Other.address>>, <<Remote.instance, Remote.address>>}
  /\ steps = 0

Step == steps < MaxSteps /\ steps' = steps + 1
Put(datagrams) == wire' = wire \cup datagrams /\ Cardinality(wire') <= MaxWire

(* Whom the network layer addresses: everyone, a device of this network by  *)
(* its virtual MAC address, everyone or a device behind a router, and an    *)
(* address of another kind of network, which is refused.                    *)
Known == {Instance[n] : n \in Nodes} \cup {Other.instance, Remote.instance}
Routes == {[net |-> 0, len |-> 0], [net |-> RouterNetwork, len |-> 1], [net |-> RouterNetwork, len |-> 0]}
Broadcasts == {[net |-> 65535, mac |-> <<>>, len |-> 0], [net |-> 0, mac |-> <<>>, len |-> 0]}

Send(n) ==
  /\ Step
  /\ \/ \E dest \in Broadcasts \cup {[net |-> RouterNetwork, mac |-> <<10>>, len |-> 0],
                                       [net |-> 0, mac |-> <<10>>, len |-> 0]} :
          Put(bip6_send_pdu(n, dest, Everyone))
     \/ \E v \in Known, r \in Routes :
          Put(bip6_send_pdu(n, [net |-> r.net, mac |-> bvlc6_vmac_address_set(v).mac, len |-> r.len],
                            IF r.net > 0 /\ r.len = 0 THEN Everyone ELSE v))
  /\ up' = NothingUp
  /\ UNCHANGED <<address, vmac, lastResult, held>>

Register(n) ==
  /\ Step
  /\ Put(bvlc6_register_with_bbmd(n, Other.address, 60))
  /\ up' = NothingUp
  /\ UNCHANGED <<address, vmac, lastResult, held>>

(* A node is started again with an address that is free: it has forgotten   *)
(* its table, and the others have not.  A BBMD keeps the address by which   *)
(* the BBMDs of other networks know it.                                     *)
Restart(n) ==
  /\ Step
  /\ \E a \in IF n \in BBMDs THEN {address[n]} ELSE Sites \ {address[m] : m \in Nodes \ {n}} :
       /\ address' = [address EXCEPT ![n] = a]
       /\ held' = held \cup {<<Instance[n], a>>}
  /\ vmac' = [vmac EXCEPT ![n] = bvlc6_init]
  /\ lastResult' = [lastResult EXCEPT ![n] = BVLC6_RESULT_SUCCESSFUL_COMPLETION]
  /\ up' = NothingUp
  /\ UNCHANGED wire

(* A node receives a datagram, of which the network may have another copy.  *)
Receive(n) ==
  /\ \E d \in wire :
       /\ d.to = address[n]
       /\ LET o == bvlc6_handler(n, d.from, d.mtu)
              left == (wire \ {d}) \cup o.sent
          IN /\ \/ wire' = left /\ UNCHANGED steps
                \/ Step /\ wire' = left \cup {d}
             /\ Cardinality(wire') <= MaxWire
             /\ vmac' = [vmac EXCEPT ![n] = o.list]
             /\ lastResult' = [lastResult EXCEPT ![n] = o.result]
             /\ up' = o.up
  /\ UNCHANGED <<address, held>>

(* A datagram is lost, or reaches a device that is not a node. *)
Lose ==
  /\ \E d \in wire : wire' = wire \ {d}
  /\ up' = NothingUp
  /\ UNCHANGED <<address, vmac, lastResult, held, steps>>

(* What the device of another make sends: to everyone, and to the address   *)
(* it takes for a node's, which may have become another's.                  *)
OtherToAll ==
  {bvlc6_encode_original_broadcast(Other.instance, <<Other.instance, Everyone>>),
   bvlc6_encode_virtual_address_resolution(Other.instance)}
     \cup {bvlc6_encode_address_resolution(Other.instance, Instance[n]) : n \in Nodes}
OtherToOne(n) ==
  {bvlc6_encode_original_unicast(Other.instance, Instance[n], <<Other.instance, Instance[n]>>),
   bvlc6_encode_address_resolution_ack(Other.instance, Instance[n]),
   bvlc6_encode_virtual_address_resolution_ack(Other.instance, Instance[n]),
   bvlc6_encode_forwarded_address_resolution(Remote.instance, Instance[n], Remote.address),
   bvlc6_encode_register_foreign_device(Other.instance, 60),
   bvlc6_encode_delete_foreign_device(Other.instance,
     [bip6_address |-> Other.address, ttl_seconds |-> 60, ttl_seconds_remaining |-> 90]),
   bvlc6_encode_distribute_broadcast_to_network(Other.instance, <<Other.instance, Everyone>>),
   bvlc6_encode_result(Other.instance, BVLC6_RESULT_REGISTER_FOREIGN_DEVICE_NAK),
   bvlc6_encode_secure_bvll(<<1>>)}

OtherSends ==
  /\ Step
  /\ \/ \E mtu \in OtherToAll : Put(bip6_send_mpdu(Other.address, Group, mtu))
     \/ \E n, m \in Nodes : \E mtu \in OtherToOne(n) : Put(bip6_send_mpdu(Other.address, address[m], mtu))
  /\ up' = NothingUp
  /\ UNCHANGED <<address, vmac, lastResult, held>>

(* The BBMD of another network passes on a broadcast of its device. *)
PeerForwards ==
  /\ Step
  /\ \E n \in BBMDs :
       Put(bip6_send_mpdu(Peer, address[n],
             bvlc6_encode_forwarded_npdu(Remote.instance, Remote.address, <<Remote.instance, Everyone>>)))
  /\ up' = NothingUp
  /\ UNCHANGED <<address, vmac, lastResult, held>>

LinkNext ==
  \/ \E n \in Nodes : Send(n) \/ Register(n) \/ Restart(n) \/ Receive(n)
  \/ Lose
  \/ OtherSends
  \/ PeerForwards

LinkSpec == LinkInit /\ [][LinkNext]_linkVars

-----------------------------------------------------------------------------

(* An NPDU that goes to the network layer is for everyone or for the device *)
(* that receives it, whatever address it was sent to, and its source, if    *)
(* the handler gives one, is the device that sent it.                       *)
OnlyMine ==
  up # NothingUp =>
    /\ up.npdu[2] \in {Everyone, Instance[up.at]}
    /\ up.src \in {NoSource, bvlc6_vmac_address_set(up.npdu[1]).mac}

(* What a table says of a device is an address the device has had - except  *)
(* of a device of another network, which the nodes that hear it through a   *)
(* BBMD, and are none, take to be where that BBMD or its peer is.           *)
BoundWhereItWas ==
  \A n \in Nodes : \A i \in 0..(Count(vmac[n]) - 1) :
    LET e == Node(vmac[n], i)
        a == bvlc6_decode_address(e.data)
    IN \/ <<e.key, a>> \in held
       \/ /\ e.key = Remote.instance /\ n \notin BBMDs
          /\ a = Peer \/ \E b \in BBMDs : a = address[b]

(* The sorted array is a map, whatever was learnt in whatever order: it is  *)
(* never fuller than it is long, bisection finds every entry, an address    *)
(* is found back, deleting an entry leaves all others to be found, and the  *)
(* cleanup at exit leaves none.                                             *)
TableIsAMap ==
  \A n \in Nodes :
    LET t == vmac[n] IN
    /\ Count(t) <= t.size
    /\ Count(VMAC_Cleanup(t)) = 0
    /\ \A i \in 0..(Count(t) - 1) :
         LET e == Node(t, i) IN
         /\ VMAC_Find_By_Key(t, e.key) = e.data
         /\ VMAC_Find_By_Key(t, VMAC_Find_By_Data(t, e.data)) = e.data
    /\ \A v \in Known :
         LET less == VMAC_Delete(t, v) IN
         /\ Count(less) <= less.size
         /\ \A w \in Known : VMAC_Find_By_Key(less, w) =
              IF w = v THEN Unbound ELSE VMAC_Find_By_Key(t, w)

(* A Forwarded-NPDU carries the B/IPv6 address of the device it is from     *)
(* (bvlc6.c 1037-1040).                                                     *)
ForwardedFromOrigin ==
  \A d \in wire :
    LET header == bvlc6_decode_header(d.mtu)
        m == bvlc6_decode_forwarded_npdu(SubSeq(d.mtu, 5, Len(d.mtu)))
    IN header.consumed = 4 /\ header.type = BVLC6_FORWARDED_NPDU /\ m.consumed # 0
         => <<m.src, m.address>> \in held
=============================================================================
