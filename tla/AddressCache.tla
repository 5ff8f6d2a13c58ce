---------------------------- MODULE AddressCache ----------------------------
(***************************************************************************)
(* The address cache of the BACnet stack, src/address.c: which network     *)
(* address each remote device was last heard at.  An entry is asked for    *)
(* (BIND_REQ) or bound; a bound one is static or ages; a full table gives  *)
(* up the bound entry nearest its expiry, or else an unanswered request.   *)
(*                                                                         *)
(* An entry that is not IN_USE is Unused: its other fields are never read. *)
(* The address of an entry that is only asked for is never read either; it *)
(* is NoAddress.  max_apdu is always copied along with the address and is  *)
(* left out.                                                               *)
(***************************************************************************)
EXTENDS Integers, FiniteSets, TLC

CONSTANTS
    MAX_ADDRESS_CACHE,      \* number of entries
    Devices, Addresses,
    Own_Device_ID,          \* the device itself, set before traffic starts
    BAC_ADDR_SHORT_TIME,    \* one hour
    BAC_ADDR_LONG_TIME,     \* one day
    BAC_ADDR_FOREVER,       \* 0xFFFFFFFF
    TIMEOUTS,               \* lifetimes that address_set_device_TTL is given
    SECONDS,                \* elapsed times the timer may be called with
    NoDevice, NoAddress

ASSUME AddressCacheConstants ==
    /\ MAX_ADDRESS_CACHE \in Nat \ {0}
    /\ BAC_ADDR_SHORT_TIME \in Nat
    /\ BAC_ADDR_LONG_TIME \in Nat
    /\ BAC_ADDR_FOREVER \in Nat
    /\ BAC_ADDR_SHORT_TIME < BAC_ADDR_LONG_TIME
    /\ BAC_ADDR_LONG_TIME < BAC_ADDR_FOREVER
    /\ TIMEOUTS \subseteq 0 .. BAC_ADDR_FOREVER
    /\ SECONDS \subseteq Nat
    /\ NoDevice \notin Devices
    /\ NoAddress \notin Addresses

VARIABLES
    Address_Cache,
    Top_Protected_Entry,    \* entries below it are not evicted for new ones
    heard                   \* history: where each device was last heard

cacheVars == <<Address_Cache, Top_Protected_Entry, heard>>

Entries == 0 .. MAX_ADDRESS_CACHE - 1

Unused == [Flags |-> {}, device_id |-> NoDevice, address |-> NoAddress,
           TimeToLive |-> 0]

InUse(e) == "IN_USE" \in e.Flags
Bound(e) == InUse(e) /\ "BIND_REQ" \notin e.Flags
Asked(e) == InUse(e) /\ "BIND_REQ" \in e.Flags
Static(e) == Bound(e) /\ "STATIC" \in e.Flags

Lowest(S) == CHOOSE i \in S : \A j \in S : i <= j

----------------------------------------------------------------------------
(* Finding an entry to use.                                                *)

Holding(device) ==
    {i \in Entries : InUse(Address_Cache[i])
                        /\ Address_Cache[i].device_id = device}

(* The loops of address.c stop at the first entry that holds the device.   *)
EntryOf(device) ==
    IF Holding(device) = {} THEN {} ELSE {Lowest(Holding(device))}

UnusedEntries == {i \in Entries : ~InUse(Address_Cache[i])}

NearestExpiry(S) ==
    CHOOSE i \in S : \A j \in S :
        \/ Address_Cache[i].TimeToLive < Address_Cache[j].TimeToLive
        \/ Address_Cache[i].TimeToLive = Address_Cache[j].TimeToLive /\ i >= j

CanAge(e) == ~Static(e) /\ e.TimeToLive < BAC_ADDR_FOREVER

(* What may be given up; bound entries only above the protected ones.      *)
BoundToEvict ==
    {i \in Top_Protected_Entry .. MAX_ADDRESS_CACHE - 1 :
        Bound(Address_Cache[i]) /\ CanAge(Address_Cache[i])}

AskedToEvict ==
    {i \in Entries : Asked(Address_Cache[i]) /\ CanAge(Address_Cache[i])}

(* Fault: unanswered requests go first.                                    *)
OldestAskedFirst ==
    IF Top_Protected_Entry > MAX_ADDRESS_CACHE - 1 THEN {}
    ELSE IF AskedToEvict # {} THEN {NearestExpiry(AskedToEvict)}
    ELSE IF BoundToEvict # {} THEN {NearestExpiry(BoundToEvict)}
    ELSE {}

(* address_remove_oldest: the entry it reserves for the caller, if any.    *)
Oldest ==
    IF Top_Protected_Entry > MAX_ADDRESS_CACHE - 1 THEN {}
    ELSE IF BoundToEvict # {} THEN {NearestExpiry(BoundToEvict)}
    ELSE IF AskedToEvict # {} THEN {NearestExpiry(AskedToEvict)}
    ELSE {}

(* Fault: a device that has an entry is given a second one.                *)
AnyRoom(device) == IF UnusedEntries # {} THEN {Lowest(UnusedEntries)} ELSE Oldest

(* The entry to use for a device: its own, a free one, or the oldest.      *)
Place(device) ==
    IF Holding(device) # {} THEN EntryOf(device)
    ELSE IF UnusedEntries # {} THEN {Lowest(UnusedEntries)}
    ELSE Oldest

----------------------------------------------------------------------------
(* What happens to one entry.                                              *)

Opportunistic(device, address) ==
    [Flags |-> {"IN_USE"}, device_id |-> device, address |-> address,
     TimeToLive |-> BAC_ADDR_SHORT_TIME]

(* Fault: an existing entry keeps its old address.                         *)
RenewedWithOldAddress(e, address) ==
    [e EXCEPT !.Flags = e.Flags \ {"BIND_REQ"},
              !.TimeToLive = BAC_ADDR_LONG_TIME]

(* address_add, device known: the address is the new one, whatever it was. *)
Renewed(e, address) ==
    [e EXCEPT
        !.address = address,
        !.Flags = e.Flags \ {"BIND_REQ"},
        !.TimeToLive =
            IF Asked(e) THEN BAC_ADDR_LONG_TIME
            ELSE IF Static(e) THEN BAC_ADDR_FOREVER
            ELSE IF "SHORT_TTL" \in e.Flags THEN BAC_ADDR_SHORT_TIME
            ELSE BAC_ADDR_LONG_TIME]

(* address_add_binding, device known.                                      *)
Answered(e, address) ==
    [e EXCEPT
        !.address = address,
        !.Flags = e.Flags \ {"BIND_REQ"},
        !.TimeToLive = IF Static(e) THEN e.TimeToLive ELSE BAC_ADDR_LONG_TIME]

AskedFor(device) ==
    [Flags |-> {"IN_USE", "BIND_REQ"}, device_id |-> device,
     address |-> NoAddress, TimeToLive |-> BAC_ADDR_SHORT_TIME]

(* address_device_bind_request, device known.                              *)
Wanted(e) ==
    IF Bound(e) /\ "SHORT_TTL" \in e.Flags
    THEN [e EXCEPT !.Flags = e.Flags \ {"SHORT_TTL"},
                   !.TimeToLive = BAC_ADDR_LONG_TIME]
    ELSE e

(* address_set_device_TTL: an unanswered request cannot be made static.    *)
WithTTL(e, TimeOut, StaticFlag) ==
    IF Bound(e) /\ StaticFlag
    THEN [e EXCEPT !.Flags = e.Flags \cup {"STATIC"},
                   !.TimeToLive = BAC_ADDR_FOREVER]
    ELSE IF Bound(e)
    THEN [e EXCEPT !.Flags = e.Flags \ {"STATIC"}, !.TimeToLive = TimeOut]
    ELSE [e EXCEPT !.TimeToLive = TimeOut]

Aged(e, uSeconds) ==
    IF ~InUse(e) \/ "STATIC" \in e.Flags THEN e
    ELSE IF e.TimeToLive >= uSeconds
    THEN [e EXCEPT !.TimeToLive = e.TimeToLive - uSeconds]
    ELSE Unused

----------------------------------------------------------------------------
(* The operations of address.h.                                            *)

Init ==
    /\ Address_Cache = [i \in Entries |-> Unused]
    /\ Top_Protected_Entry = 0
    /\ heard = [d \in Devices |-> NoAddress]

address_init ==
    /\ Address_Cache' = [i \in Entries |-> Unused]
    /\ Top_Protected_Entry' = 0
    /\ UNCHANGED heard

(* A restart with a cache that survived it.                                *)
address_init_partial ==
    /\ Address_Cache' = [i \in Entries |->
            IF /\ InUse(Address_Cache[i])
               /\ Asked(Address_Cache[i]) \/ Address_Cache[i].TimeToLive = 0
            THEN Unused ELSE Address_Cache[i]]
    /\ UNCHANGED <<Top_Protected_Entry, heard>>

address_protected_entry_index_set(top) ==
    /\ Top_Protected_Entry' = top
    /\ UNCHANGED <<Address_Cache, heard>>

address_remove_device(device) ==
    /\ Address_Cache' = [i \in Entries |->
            IF i \in EntryOf(device) THEN Unused ELSE Address_Cache[i]]
    /\ Top_Protected_Entry' =
            IF \E i \in EntryOf(device) : i < Top_Protected_Entry
            THEN Top_Protected_Entry - 1 ELSE Top_Protected_Entry
    /\ UNCHANGED heard

address_set_device_TTL(device, TimeOut, StaticFlag) ==
    /\ Address_Cache' = [i \in Entries |->
            IF i \in EntryOf(device)
            THEN WithTTL(Address_Cache[i], TimeOut, StaticFlag)
            ELSE Address_Cache[i]]
    /\ UNCHANGED <<Top_Protected_Entry, heard>>

(* handler_i_am_add: an I-Am is heard.                                     *)
address_add(device, address) ==
    /\ device # Own_Device_ID
    /\ Address_Cache' = [i \in Entries |->
            IF i \notin Place(device) THEN Address_Cache[i]
            ELSE IF i \in Holding(device)
            THEN Renewed(Address_Cache[i], address)
            ELSE Opportunistic(device, address)]
    /\ heard' = [heard EXCEPT ![device] = address]
    /\ UNCHANGED Top_Protected_Entry

(* handler_i_am_bind: an I-Am is heard and only updates what is known.     *)
address_add_binding(device, address) ==
    /\ Address_Cache' = [i \in Entries |->
            IF i \in EntryOf(device)
            THEN Answered(Address_Cache[i], address) ELSE Address_Cache[i]]
    /\ heard' = [heard EXCEPT ![device] = address]
    /\ UNCHANGED Top_Protected_Entry

address_device_bind_request(device) ==
    /\ Address_Cache' = [i \in Entries |->
            IF i \notin Place(device) THEN Address_Cache[i]
            ELSE IF i \in Holding(device) THEN Wanted(Address_Cache[i])
            ELSE AskedFor(device)]
    /\ UNCHANGED <<Top_Protected_Entry, heard>>

address_cache_timer(uSeconds) ==
    /\ Address_Cache' = [i \in Entries |-> Aged(Address_Cache[i], uSeconds)]
    /\ UNCHANGED <<Top_Protected_Entry, heard>>

Next ==
    \/ address_init
    \/ address_init_partial
    \/ \E top \in 0 .. MAX_ADDRESS_CACHE : address_protected_entry_index_set(top)
    \/ \E device \in Devices :
        \/ address_remove_device(device)
        \/ address_device_bind_request(device)
        \/ \E TimeOut \in TIMEOUTS, StaticFlag \in BOOLEAN :
                address_set_device_TTL(device, TimeOut, StaticFlag)
        \/ \E address \in Addresses :
                address_add(device, address) \/ address_add_binding(device, address)
    \/ \E uSeconds \in SECONDS : address_cache_timer(uSeconds)

Spec == Init /\ [][Next]_cacheVars

----------------------------------------------------------------------------
(* rr_address_list_encode, which answers a ReadRange of the bindings "By   *)
(* Position".  Positions count the bound entries from 1.                   *)

BoundEntries == {i \in Entries : Bound(Address_Cache[i])}

address_count == Cardinality(BoundEntries)

Nth(n) == CHOOSE i \in BoundEntries :
            Cardinality({j \in BoundEntries : j <= i}) = n

(* The scan steps past the entry before the first one that is wanted, and  *)
(* encodes what it stands on; from then on it looks for bound entries.     *)
SeekEnd(first) == IF first = 1 THEN Nth(1) ELSE Nth(first - 1) + 1

(* The entry that is encoded at each position of the answer.               *)
rr_address_list_encode(first, count) ==
    LET target == IF first + count - 1 > address_count
                  THEN address_count ELSE first + count - 1
        late == SeekEnd(first) \notin BoundEntries
    IN  [n \in first .. target |->
            IF n = first THEN SeekEnd(first)
            ELSE IF late THEN Nth(n - 1) ELSE Nth(n)]

----------------------------------------------------------------------------
(* Properties.                                                             *)

Entry == [Flags      : SUBSET {"IN_USE", "BIND_REQ", "STATIC"},
          device_id  : Devices \cup {NoDevice},
          address    : Addresses \cup {NoAddress},
          TimeToLive : 0 .. BAC_ADDR_FOREVER]

(* Entries keep their type; no operation leaves a static bind request or a *)
(* flag on a free entry.                                                   *)
AddressCacheTypeOK ==
    /\ Address_Cache \in [Entries -> Entry]
    /\ Top_Protected_Entry \in 0 .. MAX_ADDRESS_CACHE
    /\ heard \in [Devices -> Addresses \cup {NoAddress}]
    /\ \A i \in Entries :
        LET e == Address_Cache[i]
        IN  \/ e = Unused
            \/ e.Flags \in {{"IN_USE"}, {"IN_USE", "BIND_REQ"}, {"IN_USE", "STATIC"}}
               /\ e.device_id # NoDevice

(* A device has one entry, whichever of I-Am, bind request, expiry and     *)
(* eviction come in which order; every search of address.c stops at the    *)
(* first one.                                                              *)
OneEntryPerDevice ==
    \A i, j \in Entries :
        /\ InUse(Address_Cache[i]) /\ InUse(Address_Cache[j])
        /\ Address_Cache[i].device_id = Address_Cache[j].device_id
        => i = j

(* A bound entry gives the address its device was last heard at: never one *)
(* left behind by the entry's former device, nor an older one.             *)
BoundWhereHeard ==
    \A i \in BoundEntries :
        Address_Cache[i].address = heard[Address_Cache[i].device_id]

(* An entry is taken away from its device for another one only if the      *)
(* table is full and the entry is not static.  A bound one is not          *)
(* protected and no other is nearer to its expiry; an unanswered request   *)
(* goes only if no bound entry could go instead, the nearest to its expiry *)
(* first (comment of address_remove_oldest).                               *)
EvictionOrder ==
    [][\A i \in Entries :
        LET old == Address_Cache[i]
        IN  InUse(old) /\ InUse(Address_Cache'[i])
              /\ Address_Cache'[i].device_id # old.device_id
            =>  /\ UnusedEntries = {}
                /\ ~Static(old)
                /\ IF Bound(old)
                   THEN /\ i >= Top_Protected_Entry
                        /\ \A j \in BoundToEvict :
                            old.TimeToLive <= Address_Cache[j].TimeToLive
                   ELSE /\ BoundToEvict = {}
                        /\ \A j \in AskedToEvict :
                            old.TimeToLive <= Address_Cache[j].TimeToLive
      ]_cacheVars

(* A static binding stays until it is removed or made normal by name:      *)
(* "Static address mapping - does not expire", nor is it evicted.          *)
StaticStays ==
    [][\A device \in Devices :
        (\E i \in Holding(device) : Static(Address_Cache[i]))
            => \/ (\E i \in Holding(device) : Static(Address_Cache[i]))'
               \/ address_init
               \/ address_remove_device(device)
               \/ \E TimeOut \in TIMEOUTS :
                    address_set_device_TTL(device, TimeOut, FALSE)]_cacheVars

(* ReadRange takes the bindings "starting from the first entry in the      *)
(* cache and picking them off one by one": position n of the answer is the *)
(* nth bound entry.                                                        *)
RangeListsBindings ==
    \A first \in 1 .. address_count, count \in 1 .. MAX_ADDRESS_CACHE :
        \A n \in DOMAIN rr_address_list_encode(first, count) :
            rr_address_list_encode(first, count)[n] = Nth(n)

(* For TLC: devices other than its own, and addresses, are interchangeable. *)
Symmetry == Permutations(Devices \ {Own_Device_ID}) \cup Permutations(Addresses)
=============================================================================
