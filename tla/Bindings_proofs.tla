-------------------------- MODULE Bindings_proofs --------------------------
(***************************************************************************)
(* Proofs about the two tables that say where a device is: the address     *)
(* cache of BACnet addresses, for every number of entries, devices and     *)
(* addresses and all lifetimes; and the tables of virtual MAC addresses    *)
(* of the nodes of a BACnet/IPv6 network with the datagrams they are       *)
(* learnt from, for any nodes, instances, addresses and sizes of an array. *)
(***************************************************************************)
EXTENDS AddressCache, BIP6, TLAPS, WellFoundedInduction, FiniteSetTheorems, SequenceTheorems

-----------------------------------------------------------------------------
(* The address cache. *)

(* A nonempty set of naturals has a least element.                         *)
LEMMA Minimum ==
    ASSUME NEW S \in SUBSET Nat, S # {}
    PROVE  \E m \in S : \A n \in S : m <= n
<1> DEFINE R == {ss \in Nat \X Nat : ss[1] < ss[2]}
<1>1. IsWellFoundedOn(R, Nat)
  BY NatLessThanWellFounded, Zenon DEF OpToRel
<1>2. PICK m \in S : \A n \in S : ~(<<n, m>> \in R)
  BY <1>1, WFMin, Zenon
<1>3. ASSUME NEW n \in S PROVE m <= n
  <2>1. ~(<<n, m>> \in R)
    BY <1>2, Zenon
  <2>2. n \in Nat /\ m \in Nat
    OBVIOUS
  <2>3. ~(n < m)
    BY <2>1, <2>2
  <2>4. QED
    BY <2>2, <2>3
<1>4. QED
  BY <1>3

(* What AddressCacheTypeOK says of one entry, and that a static one has    *)
(* the lifetime that never ends: a partial restart spares it therefore.    *)
EntryOK(e) ==
    /\ e \in Entry
    /\ \/ e = Unused
       \/ /\ e.Flags \in {{"IN_USE"}, {"IN_USE", "BIND_REQ"},
                          {"IN_USE", "STATIC"}}
          /\ e.device_id # NoDevice
    /\ Static(e) => e.TimeToLive = BAC_ADDR_FOREVER

CacheOK == \A i \in Entries : EntryOK(Address_Cache[i])

CacheInv ==
    /\ AddressCacheTypeOK
    /\ CacheOK
    /\ OneEntryPerDevice
    /\ BoundWhereHeard

----------------------------------------------------------------------------
(* Choices that the code makes by searching.                               *)

(* The first of some entries is one of them.                               *)
LEMMA LowestIsIn ==
    ASSUME NEW S \in SUBSET Entries, S # {}
    PROVE  Lowest(S) \in S
<1>1. S \in SUBSET Nat
  BY DEF Entries
<1>2. PICK m \in S : \A n \in S : m <= n
  BY <1>1, Minimum
<1>3. QED
  BY <1>2 DEF Lowest

(* So is the one nearest to its expiry, and no other is nearer.            *)
LEMMA NearestIsIn ==
    ASSUME NEW S \in SUBSET Entries, S # {},
           \A i \in S : Address_Cache[i].TimeToLive \in Nat
    PROVE  /\ NearestExpiry(S) \in S
           /\ \A j \in S : Address_Cache[NearestExpiry(S)].TimeToLive
                                <= Address_Cache[j].TimeToLive
<1> DEFINE TTL(i) == Address_Cache[i].TimeToLive
           Least == {TTL(i) : i \in S}
<1>0. MAX_ADDRESS_CACHE \in Nat \ {0}
  BY AddressCacheConstants
<1>1. PICK t \in Least : \A u \in Least : t <= u
  <2>1. Least \in SUBSET Nat /\ Least # {}
    OBVIOUS
  <2> HIDE DEF Least
  <2>2. QED
    BY <2>1, Minimum
<1> DEFINE T == {i \in S : TTL(i) = t}
           Back == {MAX_ADDRESS_CACHE - i : i \in T}
<1>2. PICK b \in Back : \A c \in Back : b <= c
  <2>1. Back \in SUBSET Nat /\ Back # {}
    <3>1. T # {}
      BY <1>1
    <3>2. \A i \in T : MAX_ADDRESS_CACHE - i \in Nat
      BY <1>0 DEF Entries
    <3>3. QED
      BY <3>1, <3>2
  <2> HIDE DEF Back
  <2>2. QED
    BY <2>1, Minimum
<1>3. PICK k \in T : b = MAX_ADDRESS_CACHE - k
  BY <1>2
<1>4. ASSUME NEW j \in S
      PROVE  TTL(k) < TTL(j) \/ (TTL(k) = TTL(j) /\ k >= j)
  <2>1. TTL(k) = t /\ t \in Nat /\ TTL(j) \in Nat /\ t <= TTL(j)
    BY <1>1, <1>3
  <2>2. CASE TTL(j) = t
    <3>1. MAX_ADDRESS_CACHE - j \in Back
      BY <2>2
    <3>2. MAX_ADDRESS_CACHE - k <= MAX_ADDRESS_CACHE - j
      BY <1>2, <1>3, <3>1
    <3>3. j \in Int /\ k \in Int
      BY <1>3 DEF Entries
    <3>4. QED
      BY <1>0, <2>1, <2>2, <3>2, <3>3
  <2>3. CASE TTL(j) # t
    BY <2>1, <2>3
  <2>4. QED
    BY <2>2, <2>3
<1>5. NearestExpiry(S) \in S
      /\ \A j \in S : \/ TTL(NearestExpiry(S)) < TTL(j)
                      \/ TTL(NearestExpiry(S)) = TTL(j)
                         /\ NearestExpiry(S) >= j
  <2>1. k \in S
    BY <1>3
  <2>2. QED
    BY <1>4, <2>1 DEF NearestExpiry
<1>6. QED
  BY <1>5

(* The entry given up is one that may be, and the nearest to its expiry of *)
(* its kind; bound ones go first.                                          *)
LEMMA OldestIs ==
    ASSUME CacheInv, NEW k \in Oldest
    PROVE  \/ /\ k \in BoundToEvict
              /\ \A j \in BoundToEvict : Address_Cache[k].TimeToLive
                                            <= Address_Cache[j].TimeToLive
           \/ /\ k \in AskedToEvict /\ BoundToEvict = {}
              /\ \A j \in AskedToEvict : Address_Cache[k].TimeToLive
                                            <= Address_Cache[j].TimeToLive
<1>1. \A i \in Entries : Address_Cache[i].TimeToLive \in Nat
  BY AddressCacheConstants DEF CacheInv, CacheOK, EntryOK, Entry
<1>2. BoundToEvict \subseteq Entries /\ AskedToEvict \subseteq Entries
  BY AddressCacheConstants
  DEF BoundToEvict, AskedToEvict, Entries, CacheInv, AddressCacheTypeOK
<1>3. CASE BoundToEvict # {}
  <2>1. k = NearestExpiry(BoundToEvict)
    BY <1>3 DEF Oldest
  <2>2. QED
    BY <1>1, <1>2, <1>3, <2>1, NearestIsIn
<1>4. CASE BoundToEvict = {}
  <2>1. k = NearestExpiry(AskedToEvict) /\ AskedToEvict # {}
    BY <1>4 DEF Oldest
  <2>2. QED
    BY <1>1, <1>2, <1>4, <2>1, NearestIsIn
<1>5. QED
  BY <1>3, <1>4

(* Only one entry holds a device.                                          *)
LEMMA HoldingIs ==
    ASSUME CacheInv, NEW device \in Devices
    PROVE  /\ EntryOf(device) = Holding(device)
           /\ Holding(device) \subseteq Entries
           /\ \A i, j \in Holding(device) : i = j
<1>1. Holding(device) \subseteq Entries
  BY DEF Holding
<1>2. \A i, j \in Holding(device) : i = j
  BY DEF Holding, CacheInv, OneEntryPerDevice
<1>3. CASE Holding(device) # {}
  <2>1. Lowest(Holding(device)) \in Holding(device)
    BY <1>1, <1>3, LowestIsIn
  <2>2. QED
    BY <1>1, <1>2, <1>3, <2>1 DEF EntryOf
<1>4. CASE Holding(device) = {}
  BY <1>1, <1>4 DEF EntryOf
<1>5. QED
  BY <1>3, <1>4

(* The place for a device is where it is, or a single other entry, which   *)
(* is free or the one to give up in a full table.                          *)
LEMMA PlaceIs ==
    ASSUME CacheInv, NEW device \in Devices
    PROVE  /\ Place(device) \subseteq Entries
           /\ \A i, j \in Place(device) : i = j
           /\ Holding(device) \subseteq Place(device)
           /\ Holding(device) # {} => Place(device) = Holding(device)
           /\ \A i \in Place(device) \ Holding(device) :
                \/ i \in UnusedEntries
                \/ i \in Oldest /\ UnusedEntries = {}
<1>1. /\ EntryOf(device) = Holding(device)
      /\ Holding(device) \subseteq Entries
      /\ \A i, j \in Holding(device) : i = j
  BY HoldingIs
<1>2. CASE Holding(device) # {}
  <2>1. Place(device) = Holding(device)
    BY <1>1, <1>2 DEF Place
  <2>2. QED
    BY <1>1, <2>1
<1>3. CASE Holding(device) = {} /\ UnusedEntries # {}
  <2>1. UnusedEntries \subseteq Entries
    BY DEF UnusedEntries
  <2>2. Lowest(UnusedEntries) \in UnusedEntries
    BY <1>3, <2>1, LowestIsIn
  <2>3. Place(device) = {Lowest(UnusedEntries)}
    BY <1>3 DEF Place
  <2>4. QED
    BY <1>3, <2>1, <2>2, <2>3
<1>4. CASE Holding(device) = {} /\ UnusedEntries = {}
  <2>1. Place(device) = Oldest
    BY <1>4 DEF Place
  <2>2. \A i, j \in Oldest : i = j
    BY DEF Oldest
  <2>3. Oldest \subseteq Entries
    BY OldestIs, AddressCacheConstants
    DEF BoundToEvict, AskedToEvict, Entries, CacheInv, AddressCacheTypeOK
  <2>4. QED
    BY <1>4, <2>1, <2>2, <2>3
<1>5. QED
  BY <1>2, <1>3, <1>4

----------------------------------------------------------------------------
(* What each operation makes of one entry.                                 *)

(* An entry in use is asked for, bound and ageing, or static.              *)
LEMMA InUseIs ==
    ASSUME NEW e, EntryOK(e), InUse(e)
    PROVE  /\ e.Flags \in {{"IN_USE"}, {"IN_USE", "BIND_REQ"},
                           {"IN_USE", "STATIC"}}
           /\ e.device_id \in Devices
           /\ e.address \in Addresses \cup {NoAddress}
           /\ e.TimeToLive \in 0 .. BAC_ADDR_FOREVER
           /\ e = [Flags |-> e.Flags, device_id |-> e.device_id,
                   address |-> e.address, TimeToLive |-> e.TimeToLive]
<1>1. e # Unused
  BY DEF InUse, Unused
<1>2. QED
  BY <1>1 DEF EntryOK, Entry

(* An entry with such flags and fields is well-formed.                     *)
LEMMA MadeOK ==
    ASSUME NEW flags \in {{"IN_USE"}, {"IN_USE", "BIND_REQ"},
                          {"IN_USE", "STATIC"}},
           NEW device \in Devices, NEW site \in Addresses \cup {NoAddress},
           NEW ttl \in 0 .. BAC_ADDR_FOREVER,
           flags = {"IN_USE", "STATIC"} => ttl = BAC_ADDR_FOREVER,
           NEW e, e = [Flags |-> flags, device_id |-> device,
                       address |-> site, TimeToLive |-> ttl]
    PROVE  /\ EntryOK(e) /\ InUse(e)
           /\ Bound(e) <=> "BIND_REQ" \notin flags
           /\ Static(e) <=> flags = {"IN_USE", "STATIC"}
<1>1. e \in Entry
  <2>1. flags \in SUBSET {"IN_USE", "BIND_REQ", "STATIC"}
    OBVIOUS
  <2>2. QED
    BY <2>1 DEF Entry
<1>2. e.Flags = flags /\ e.device_id = device /\ e.TimeToLive = ttl
  OBVIOUS
<1>3. /\ InUse(e)
      /\ Bound(e) <=> "BIND_REQ" \notin flags
      /\ Static(e) <=> flags = {"IN_USE", "STATIC"}
  BY <1>2 DEF InUse, Bound, Static
<1>4. e.device_id # NoDevice
  BY <1>2, AddressCacheConstants
<1>5. QED
  BY <1>1, <1>2, <1>3, <1>4 DEF EntryOK

(* A free entry is well-formed and not in use.                             *)
LEMMA UnusedOK == EntryOK(Unused) /\ ~InUse(Unused)
<1>1. Unused \in Entry
  BY AddressCacheConstants DEF Unused, Entry
<1>2. ~InUse(Unused)
  BY DEF Unused, InUse
<1>3. QED
  BY <1>1, <1>2 DEF EntryOK, Static, Bound

(* An I-Am: the entry is bound to where it came from, and stays static.    *)
LEMMA RenewedOK ==
    ASSUME NEW e, EntryOK(e), InUse(e), NEW site \in Addresses,
           NEW new \in {Renewed(e, site), Answered(e, site)}
    PROVE  /\ EntryOK(new) /\ InUse(new)
           /\ new.device_id = e.device_id /\ new.address = site
           /\ Static(e) => Static(new)
<1>0. /\ e.Flags \in {{"IN_USE"}, {"IN_USE", "BIND_REQ"},
                      {"IN_USE", "STATIC"}}
      /\ e.device_id \in Devices
      /\ e.TimeToLive \in 0 .. BAC_ADDR_FOREVER
      /\ e = [Flags |-> e.Flags, device_id |-> e.device_id,
              address |-> e.address, TimeToLive |-> e.TimeToLive]
  BY InUseIs
<1> DEFINE flags == e.Flags \ {"BIND_REQ"}
<1>1. /\ flags \in {{"IN_USE"}, {"IN_USE", "BIND_REQ"}, {"IN_USE", "STATIC"}}
      /\ flags = {"IN_USE", "STATIC"} <=> "STATIC" \in e.Flags
      /\ "STATIC" \in e.Flags <=> Static(e)
  BY <1>0 DEF Static, Bound, InUse
<1>2. PICK ttl \in 0 .. BAC_ADDR_FOREVER :
        /\ new = [Flags |-> flags, device_id |-> e.device_id,
                  address |-> site, TimeToLive |-> ttl]
        /\ Static(e) => ttl = BAC_ADDR_FOREVER
  <2>1. /\ BAC_ADDR_LONG_TIME \in 0 .. BAC_ADDR_FOREVER
        /\ BAC_ADDR_SHORT_TIME \in 0 .. BAC_ADDR_FOREVER
        /\ BAC_ADDR_FOREVER \in 0 .. BAC_ADDR_FOREVER
    BY AddressCacheConstants
  <2>2. Static(e) => ~Asked(e) /\ e.TimeToLive = BAC_ADDR_FOREVER
    BY DEF Static, Bound, Asked, EntryOK
  <2>3. new.TimeToLive \in 0 .. BAC_ADDR_FOREVER
    BY <1>0, <2>1 DEF Renewed, Answered
  <2>4. Static(e) => new.TimeToLive = BAC_ADDR_FOREVER
    BY <1>0, <2>2 DEF Renewed, Answered
  <2>5. new = [Flags |-> flags, device_id |-> e.device_id,
               address |-> site, TimeToLive |-> new.TimeToLive]
    BY <1>0 DEF Renewed, Answered
  <2>6. QED
    BY <2>3, <2>4, <2>5
<1> HIDE DEF flags
<1>3. EntryOK(new) /\ InUse(new)
      /\ (Static(new) <=> flags = {"IN_USE", "STATIC"})
  BY <1>0, <1>1, <1>2, MadeOK
<1>4. QED
  BY <1>1, <1>2, <1>3

(* An entry that is taken for a device, by an I-Am or by a bind request.   *)
LEMMA TakenOK ==
    ASSUME NEW device \in Devices, NEW site \in Addresses
    PROVE  /\ EntryOK(Opportunistic(device, site))
           /\ Opportunistic(device, site).device_id = device
           /\ Opportunistic(device, site).address = site
           /\ EntryOK(AskedFor(device))
           /\ AskedFor(device).device_id = device
           /\ ~Bound(AskedFor(device))
<1>1. BAC_ADDR_SHORT_TIME \in 0 .. BAC_ADDR_FOREVER
  BY AddressCacheConstants
<1>2. EntryOK(Opportunistic(device, site))
  BY <1>1, MadeOK DEF Opportunistic
<1>3. EntryOK(AskedFor(device)) /\ ~Bound(AskedFor(device))
  BY <1>1, MadeOK DEF AskedFor
<1>4. QED
  BY <1>2, <1>3 DEF Opportunistic, AskedFor

(* A bind request leaves a known device's entry as it is: nothing sets the *)
(* flag SHORT_TTL that it looks at (address.c 529).                        *)
LEMMA WantedIs ==
    ASSUME NEW e, EntryOK(e), InUse(e)
    PROVE  Wanted(e) = e
<1>1. "SHORT_TTL" \notin e.Flags
  BY InUseIs
<1>2. QED
  BY <1>1 DEF Wanted

(* A lifetime that is set by name.                                         *)
LEMMA WithTTLOK ==
    ASSUME NEW e, EntryOK(e), InUse(e), NEW TimeOut \in TIMEOUTS,
           NEW StaticFlag \in BOOLEAN,
           NEW new, new = WithTTL(e, TimeOut, StaticFlag)
    PROVE  /\ EntryOK(new) /\ InUse(new)
           /\ new.device_id = e.device_id /\ new.address = e.address
           /\ Bound(new) <=> Bound(e)
           /\ Static(e) /\ StaticFlag => Static(new)
<1>0. /\ e.Flags \in {{"IN_USE"}, {"IN_USE", "BIND_REQ"},
                      {"IN_USE", "STATIC"}}
      /\ e.device_id \in Devices
      /\ e.address \in Addresses \cup {NoAddress}
      /\ e = [Flags |-> e.Flags, device_id |-> e.device_id,
              address |-> e.address, TimeToLive |-> e.TimeToLive]
      /\ TimeOut \in 0 .. BAC_ADDR_FOREVER
      /\ BAC_ADDR_FOREVER \in 0 .. BAC_ADDR_FOREVER
  BY InUseIs, AddressCacheConstants
<1>1. Bound(e) <=> e.Flags # {"IN_USE", "BIND_REQ"}
  BY <1>0 DEF Bound, InUse
<1>2. CASE Bound(e) /\ StaticFlag
  <2>1. e.Flags \cup {"STATIC"} = {"IN_USE", "STATIC"}
    BY <1>0, <1>1, <1>2
  <2>2. new = [Flags |-> {"IN_USE", "STATIC"}, device_id |-> e.device_id,
               address |-> e.address, TimeToLive |-> BAC_ADDR_FOREVER]
    BY <1>0, <1>2, <2>1 DEF WithTTL
  <2>3. EntryOK(new) /\ InUse(new) /\ Bound(new) /\ Static(new)
    BY <1>0, <2>2, MadeOK
  <2>4. new.device_id = e.device_id /\ new.address = e.address
    BY <2>2
  <2>5. QED
    BY <1>2, <2>3, <2>4, Zenon
<1>3. CASE Bound(e) /\ ~StaticFlag
  <2>1. e.Flags \ {"STATIC"} = {"IN_USE"}
    BY <1>0, <1>1, <1>3
  <2>2. new = [Flags |-> {"IN_USE"}, device_id |-> e.device_id,
               address |-> e.address, TimeToLive |-> TimeOut]
    BY <1>0, <1>3, <2>1 DEF WithTTL
  <2>3. EntryOK(new) /\ InUse(new) /\ Bound(new)
    BY <1>0, <2>2, MadeOK
  <2>4. QED
    BY <1>3, <2>2, <2>3
<1>4. CASE ~Bound(e)
  <2>1. e.Flags = {"IN_USE", "BIND_REQ"}
    BY <1>1, <1>4
  <2>2. new = [Flags |-> {"IN_USE", "BIND_REQ"}, device_id |-> e.device_id,
               address |-> e.address, TimeToLive |-> TimeOut]
    BY <1>0, <1>4, <2>1 DEF WithTTL
  <2>3. EntryOK(new) /\ InUse(new) /\ ~Bound(new) /\ ~Static(e)
    BY <1>0, <1>4, <2>2, MadeOK DEF Static
  <2>4. QED
    BY <1>4, <2>2, <2>3
<1>5. QED
  BY <1>2, <1>3, <1>4

(* The timer frees an entry or only takes from its lifetime.               *)
LEMMA AgedOK ==
    ASSUME NEW e, EntryOK(e), NEW uSeconds \in SECONDS,
           NEW new, new = Aged(e, uSeconds)
    PROVE  /\ EntryOK(new)
           /\ InUse(new) => /\ InUse(e)
                            /\ new.device_id = e.device_id
                            /\ new.address = e.address
                            /\ Bound(new) => Bound(e)
           /\ Static(e) => new = e
<1>1. CASE ~InUse(e) \/ "STATIC" \in e.Flags
  BY <1>1 DEF Aged
<1>2. CASE InUse(e) /\ "STATIC" \notin e.Flags /\ e.TimeToLive >= uSeconds
  <2>0. /\ e.Flags \in {{"IN_USE"}, {"IN_USE", "BIND_REQ"}}
        /\ e.device_id \in Devices
        /\ e.address \in Addresses \cup {NoAddress}
        /\ e.TimeToLive \in 0 .. BAC_ADDR_FOREVER
        /\ e = [Flags |-> e.Flags, device_id |-> e.device_id,
                address |-> e.address, TimeToLive |-> e.TimeToLive]
    BY <1>2, InUseIs
  <2>1. PICK ttl \in 0 .. BAC_ADDR_FOREVER : ttl = e.TimeToLive - uSeconds
    BY <1>2, <2>0, AddressCacheConstants
  <2>2. new = [Flags |-> e.Flags, device_id |-> e.device_id,
               address |-> e.address, TimeToLive |-> ttl]
    BY <1>2, <2>0, <2>1 DEF Aged
  <2>3. EntryOK(new) /\ InUse(new) /\ (Bound(new) <=> "BIND_REQ" \notin e.Flags)
    BY <2>0, <2>2, MadeOK
  <2>4. Bound(e) <=> "BIND_REQ" \notin e.Flags
    BY <1>2 DEF Bound
  <2>5. QED
    BY <1>2, <2>2, <2>3, <2>4 DEF Static
<1>3. CASE InUse(e) /\ "STATIC" \notin e.Flags /\ ~(e.TimeToLive >= uSeconds)
  <2>1. new = Unused
    BY <1>3 DEF Aged
  <2>2. QED
    BY <1>3, <2>1, UnusedOK DEF Static
<1>4. QED
  BY <1>1, <1>2, <1>3

----------------------------------------------------------------------------
(* What the operations make of the table.                                  *)

(* Entry i is used after the step only by the device that used it before.  *)
Continues(i) ==
    InUse(Address_Cache'[i]) =>
        /\ InUse(Address_Cache[i])
        /\ Address_Cache'[i].device_id = Address_Cache[i].device_id

(* No device comes to hold two entries if no entry changes hands,          *)
LEMMA ContinuingKeepsOne ==
    ASSUME OneEntryPerDevice, \A i \in Entries : Continues(i)
    PROVE  OneEntryPerDevice'
  BY DEF OneEntryPerDevice, Continues

(* or if the only one that does goes to a device that holds none.          *)
LEMMA TakingKeepsOne ==
    ASSUME OneEntryPerDevice, NEW device, Holding(device) = {},
           NEW k \in Entries, Address_Cache'[k].device_id = device,
           \A i \in Entries \ {k} : Continues(i)
    PROVE  OneEntryPerDevice'
<1>1. SUFFICES ASSUME NEW i \in Entries, NEW j \in Entries,
                      InUse(Address_Cache'[i]), InUse(Address_Cache'[j]),
                      Address_Cache'[i].device_id = Address_Cache'[j].device_id
               PROVE  i = j
  BY DEF OneEntryPerDevice
<1>2. ASSUME NEW l \in Entries \ {k}, InUse(Address_Cache'[l])
      PROVE  Address_Cache'[l].device_id # device
  <2>1. InUse(Address_Cache[l])
        /\ Address_Cache'[l].device_id = Address_Cache[l].device_id
    BY <1>2 DEF Continues
  <2>2. l \notin Holding(device)
    OBVIOUS
  <2>3. QED
    BY <2>1, <2>2 DEF Holding
<1>3. CASE i = k \/ j = k
  BY <1>1, <1>2, <1>3
<1>4. CASE i # k /\ j # k
  BY <1>1, <1>4 DEF Continues, OneEntryPerDevice
<1>5. QED
  BY <1>3, <1>4

(* The invariant of the next state from its parts.                         *)
LEMMA Assembled ==
    ASSUME NEW new, Address_Cache' = [i \in Entries |-> new[i]],
           Top_Protected_Entry' \in 0 .. MAX_ADDRESS_CACHE,
           heard' \in [Devices -> Addresses \cup {NoAddress}],
           \A i \in Entries : EntryOK(Address_Cache'[i]),
           OneEntryPerDevice',
           \A i \in Entries : Bound(Address_Cache'[i]) =>
                Address_Cache'[i].address = heard'[Address_Cache'[i].device_id]
    PROVE  CacheInv'
<1>1. CacheOK'
  BY DEF CacheOK
<1>2. Address_Cache' \in [Entries -> Entry]
  BY DEF EntryOK
<1>3. BoundWhereHeard'
  BY DEF BoundWhereHeard, BoundEntries
<1>4. AddressCacheTypeOK'
  BY <1>2 DEF AddressCacheTypeOK, EntryOK
<1>5. QED
  BY <1>1, <1>3, <1>4 DEF CacheInv

(* Facts about the present state that every case needs.                    *)
LEMMA Present ==
    ASSUME CacheInv
    PROVE  /\ Top_Protected_Entry \in 0 .. MAX_ADDRESS_CACHE
           /\ heard \in [Devices -> Addresses \cup {NoAddress}]
           /\ OneEntryPerDevice
           /\ \A i \in Entries :
                /\ EntryOK(Address_Cache[i])
                /\ Bound(Address_Cache[i]) => InUse(Address_Cache[i])
                /\ Bound(Address_Cache[i]) =>
                    Address_Cache[i].address =
                        heard[Address_Cache[i].device_id]
  BY DEF CacheInv, AddressCacheTypeOK, CacheOK, BoundWhereHeard,
         BoundEntries, Bound

(* If no entry changes hands, none becomes bound, and bound ones keep      *)
(* their address, then the invariant is kept.                              *)
LEMMA ContinuingKeeps ==
    ASSUME CacheInv,
           NEW new, Address_Cache' = [i \in Entries |-> new[i]],
           Top_Protected_Entry' \in 0 .. MAX_ADDRESS_CACHE, heard' = heard,
           \A i \in Entries :
                /\ EntryOK(Address_Cache'[i])
                /\ Continues(i)
                /\ Bound(Address_Cache'[i]) =>
                    /\ Bound(Address_Cache[i])
                    /\ Address_Cache'[i].address = Address_Cache[i].address
    PROVE  CacheInv'
<1>1. OneEntryPerDevice'
  BY Present, ContinuingKeepsOne
<1>2. ASSUME NEW i \in Entries, Bound(Address_Cache'[i])
      PROVE  Address_Cache'[i].address = heard'[Address_Cache'[i].device_id]
  <2>1. InUse(Address_Cache'[i])
    BY <1>2 DEF Bound
  <2>2. Address_Cache'[i].device_id = Address_Cache[i].device_id
    BY <2>1 DEF Continues
  <2>3. QED
    BY <1>2, <2>2, Present
<1>3. QED
  BY <1>1, <1>2, Present, Assembled

(* A start keeps the invariant: everything is forgotten.                   *)
LEMMA InitKeeps ==
    ASSUME CacheInv, address_init
    PROVE  CacheInv'
<1> DEFINE new == [i \in Entries |-> Unused]
<1>1. Address_Cache' = [i \in Entries |-> new[i]] /\ heard' = heard
      /\ Top_Protected_Entry' = 0
  BY DEF address_init
<1>2. \A i \in Entries : Address_Cache'[i] = Unused
  BY <1>1
<1>3. ~Bound(Unused)
  BY UnusedOK DEF Bound
<1>4. 0 \in 0 .. MAX_ADDRESS_CACHE
  BY AddressCacheConstants
<1> HIDE DEF new
<1>5. QED
  BY <1>1, <1>2, <1>3, <1>4, UnusedOK, ContinuingKeeps DEF Continues

(* A partial start forgets some entries,                                   *)
LEMMA PartialInitKeeps ==
    ASSUME CacheInv, address_init_partial
    PROVE  CacheInv'
<1> DEFINE new == [i \in Entries |->
                IF /\ InUse(Address_Cache[i])
                   /\ Asked(Address_Cache[i]) \/ Address_Cache[i].TimeToLive = 0
                THEN Unused ELSE Address_Cache[i]]
<1>1. Address_Cache' = [i \in Entries |-> new[i]] /\ heard' = heard
      /\ Top_Protected_Entry' = Top_Protected_Entry
  BY DEF address_init_partial
<1>2. \A i \in Entries : Address_Cache'[i] \in {Unused, Address_Cache[i]}
  BY <1>1
<1>3. ~Bound(Unused)
  BY UnusedOK DEF Bound
<1> HIDE DEF new
<1>4. QED
  BY <1>1, <1>2, <1>3, UnusedOK, Present, ContinuingKeeps DEF Continues

(* and a removal only one.                                                 *)
LEMMA RemoveKeeps ==
    ASSUME CacheInv, NEW device \in Devices, address_remove_device(device)
    PROVE  CacheInv'
<1> DEFINE new == [i \in Entries |->
                IF i \in EntryOf(device) THEN Unused ELSE Address_Cache[i]]
<1>1. Address_Cache' = [i \in Entries |-> new[i]] /\ heard' = heard
  BY DEF address_remove_device
<1>2. \A i \in Entries : Address_Cache'[i] \in {Unused, Address_Cache[i]}
  BY <1>1
<1>3. ~Bound(Unused)
  BY UnusedOK DEF Bound
<1>4. Top_Protected_Entry' \in 0 .. MAX_ADDRESS_CACHE
  <2>1. CASE \E i \in EntryOf(device) : i < Top_Protected_Entry
    <3>1. PICK i \in Entries : i < Top_Protected_Entry
      BY <2>1, HoldingIs
    <3>2. i \in Nat
      BY DEF Entries
    <3>3. QED
      BY <2>1, <3>1, <3>2, Present, AddressCacheConstants
      DEF address_remove_device
  <2>2. CASE ~\E i \in EntryOf(device) : i < Top_Protected_Entry
    BY <2>2, Present DEF address_remove_device
  <2>3. QED
    BY <2>1, <2>2
<1> HIDE DEF new
<1>5. QED
  BY <1>1, <1>2, <1>3, <1>4, UnusedOK, Present, ContinuingKeeps DEF Continues

(* A lifetime set by name changes neither holder nor address.              *)
LEMMA TTLKeeps ==
    ASSUME CacheInv, NEW device \in Devices, NEW TimeOut \in TIMEOUTS,
           NEW StaticFlag \in BOOLEAN,
           address_set_device_TTL(device, TimeOut, StaticFlag)
    PROVE  CacheInv'
<1> DEFINE new == [i \in Entries |->
                IF i \in EntryOf(device)
                THEN WithTTL(Address_Cache[i], TimeOut, StaticFlag)
                ELSE Address_Cache[i]]
<1>1. Address_Cache' = [i \in Entries |-> new[i]] /\ heard' = heard
      /\ Top_Protected_Entry' = Top_Protected_Entry
  BY DEF address_set_device_TTL
<1>2. ASSUME NEW i \in Entries
      PROVE  /\ EntryOK(Address_Cache'[i])
             /\ Continues(i)
             /\ Bound(Address_Cache'[i]) =>
                    /\ Bound(Address_Cache[i])
                    /\ Address_Cache'[i].address = Address_Cache[i].address
  <2>1. CASE i \in EntryOf(device)
    <3>1. InUse(Address_Cache[i])
      BY <2>1, HoldingIs DEF Holding
    <3>2. Address_Cache'[i] = WithTTL(Address_Cache[i], TimeOut, StaticFlag)
      BY <1>1, <2>1
    <3>3. EntryOK(Address_Cache[i])
      BY Present
    <3>4. QED
      BY <3>1, <3>2, <3>3, WithTTLOK DEF Continues
  <2>2. CASE i \notin EntryOf(device)
    <3>1. Address_Cache'[i] = Address_Cache[i]
      BY <1>1, <2>2
    <3>2. QED
      BY <3>1, Present DEF Continues
  <2>3. QED
    BY <2>1, <2>2
<1> HIDE DEF new
<1>3. QED
  BY <1>1, <1>2, Present, ContinuingKeeps

(* Nor does the timer.                                                     *)
LEMMA TimerKeeps ==
    ASSUME CacheInv, NEW uSeconds \in SECONDS, address_cache_timer(uSeconds)
    PROVE  CacheInv'
<1> DEFINE new == [i \in Entries |-> Aged(Address_Cache[i], uSeconds)]
<1>1. Address_Cache' = [i \in Entries |-> new[i]] /\ heard' = heard
      /\ Top_Protected_Entry' = Top_Protected_Entry
  BY DEF address_cache_timer
<1>2. ASSUME NEW i \in Entries
      PROVE  /\ EntryOK(Address_Cache'[i])
             /\ Continues(i)
             /\ Bound(Address_Cache'[i]) =>
                    /\ Bound(Address_Cache[i])
                    /\ Address_Cache'[i].address = Address_Cache[i].address
  <2>1. Address_Cache'[i] = Aged(Address_Cache[i], uSeconds)
    BY <1>1
  <2>2. EntryOK(Address_Cache[i])
    BY Present
  <2>3. Bound(Address_Cache'[i]) => InUse(Address_Cache'[i])
    BY DEF Bound
  <2>4. QED
    BY <2>1, <2>2, <2>3, AgedOK DEF Continues
<1> HIDE DEF new
<1>3. QED
  BY <1>1, <1>2, Present, ContinuingKeeps

(* An I-Am binds the device to where it was heard, in its own entry or in  *)
(* the one it takes.                                                       *)
LEMMA AddKeeps ==
    ASSUME CacheInv, NEW device \in Devices, NEW site \in Addresses,
           address_add(device, site)
    PROVE  CacheInv'
<1> DEFINE new == [i \in Entries |->
            IF i \notin Place(device) THEN Address_Cache[i]
            ELSE IF i \in Holding(device)
            THEN Renewed(Address_Cache[i], site)
            ELSE Opportunistic(device, site)]
<1>1. /\ Address_Cache' = [i \in Entries |-> new[i]]
      /\ Top_Protected_Entry' = Top_Protected_Entry
      /\ heard' = [heard EXCEPT ![device] = site]
  BY DEF address_add
<1>2. ASSUME NEW i \in Entries
      PROVE  /\ i \notin Place(device) =>
                    Address_Cache'[i] = Address_Cache[i]
             /\ i \in Holding(device) =>
                    Address_Cache'[i] = Renewed(Address_Cache[i], site)
             /\ i \in Place(device) \ Holding(device) =>
                    Address_Cache'[i] = Opportunistic(device, site)
  BY <1>1, PlaceIs
<1> HIDE DEF new
<1>3. ASSUME NEW i \in Entries, i \in Holding(device)
      PROVE  /\ EntryOK(Address_Cache'[i]) /\ Continues(i)
             /\ Address_Cache'[i].device_id = device
             /\ Address_Cache'[i].address = site
  <2>1. InUse(Address_Cache[i]) /\ Address_Cache[i].device_id = device
    BY <1>3 DEF Holding
  <2>2. EntryOK(Address_Cache[i])
    BY Present
  <2>3. QED
    BY <1>2, <1>3, <2>1, <2>2, RenewedOK DEF Continues
<1>4. ASSUME NEW i \in Entries, i \in Place(device) \ Holding(device)
      PROVE  /\ EntryOK(Address_Cache'[i])
             /\ Address_Cache'[i].device_id = device
             /\ Address_Cache'[i].address = site
  BY <1>2, <1>4, TakenOK
<1>5. ASSUME NEW i \in Entries, i \notin Place(device)
      PROVE  /\ Address_Cache'[i] = Address_Cache[i]
             /\ EntryOK(Address_Cache'[i]) /\ Continues(i)
             /\ Bound(Address_Cache[i]) =>
                    Address_Cache[i].device_id \in Devices \ {device}
  <2>1. Address_Cache'[i] = Address_Cache[i] /\ EntryOK(Address_Cache[i])
    BY <1>2, <1>5, Present
  <2>2. ASSUME Bound(Address_Cache[i])
        PROVE  Address_Cache[i].device_id \in Devices \ {device}
    <3>1. InUse(Address_Cache[i])
      BY <2>2, Present
    <3>2. Address_Cache[i].device_id \in Devices
      BY <2>1, <3>1, InUseIs
    <3>3. i \notin Holding(device)
      BY <1>5, PlaceIs
    <3>4. QED
      BY <3>1, <3>2, <3>3 DEF Holding
  <2>3. QED
    BY <2>1, <2>2 DEF Continues
<1>6. \A i \in Entries : EntryOK(Address_Cache'[i])
  BY <1>3, <1>4, <1>5
<1>7. OneEntryPerDevice'
  <2>1. CASE Holding(device) # {}
    <3>1. Place(device) = Holding(device)
      BY <2>1, PlaceIs
    <3>2. \A i \in Entries : Continues(i)
      BY <1>3, <1>5, <3>1
    <3>3. QED
      BY <3>2, Present, ContinuingKeepsOne
  <2>2. CASE Holding(device) = {} /\ Place(device) # {}
    <3>1. PICK k \in Place(device) : \A i \in Place(device) : i = k
      BY <2>2, PlaceIs
    <3>2. k \in Entries /\ Address_Cache'[k].device_id = device
      BY <1>4, <2>2, <3>1, PlaceIs
    <3>3. \A i \in Entries \ {k} : Continues(i)
      BY <1>5, <3>1
    <3>4. QED
      BY <2>2, <3>2, <3>3, Present, TakingKeepsOne
  <2>3. CASE Place(device) = {}
    BY <1>5, <2>3, Present, ContinuingKeepsOne
  <2>4. QED
    BY <2>1, <2>2, <2>3
<1>8. heard' \in [Devices -> Addresses \cup {NoAddress}]
      /\ heard'[device] = site
      /\ \A d \in Devices \ {device} : heard'[d] = heard[d]
  BY <1>1, Present
<1>9. ASSUME NEW i \in Entries, Bound(Address_Cache'[i])
      PROVE  Address_Cache'[i].address = heard'[Address_Cache'[i].device_id]
  <2>1. CASE i \in Place(device)
    BY <1>3, <1>4, <1>8, <2>1
  <2>2. CASE i \notin Place(device)
    BY <1>5, <1>8, <1>9, <2>2, Present
  <2>3. QED
    BY <2>1, <2>2
<1>10. QED
  BY <1>1, <1>6, <1>7, <1>8, <1>9, Present, Assembled

(* Where I-Ams only answer, no entry is taken.                             *)
LEMMA AddBindingKeeps ==
    ASSUME CacheInv, NEW device \in Devices, NEW site \in Addresses,
           address_add_binding(device, site)
    PROVE  CacheInv'
<1> DEFINE new == [i \in Entries |->
            IF i \in EntryOf(device)
            THEN Answered(Address_Cache[i], site) ELSE Address_Cache[i]]
<1>1. /\ Address_Cache' = [i \in Entries |-> new[i]]
      /\ Top_Protected_Entry' = Top_Protected_Entry
      /\ heard' = [heard EXCEPT ![device] = site]
  BY DEF address_add_binding
<1>2. ASSUME NEW i \in Entries
      PROVE  IF i \in Holding(device)
             THEN Address_Cache'[i] = Answered(Address_Cache[i], site)
             ELSE Address_Cache'[i] = Address_Cache[i]
  BY <1>1, HoldingIs
<1> HIDE DEF new
<1>3. heard' \in [Devices -> Addresses \cup {NoAddress}]
      /\ heard'[device] = site
      /\ \A d \in Devices \ {device} : heard'[d] = heard[d]
  BY <1>1, Present
<1>4. ASSUME NEW i \in Entries
      PROVE  /\ EntryOK(Address_Cache'[i]) /\ Continues(i)
             /\ Bound(Address_Cache'[i]) =>
                    Address_Cache'[i].address =
                        heard'[Address_Cache'[i].device_id]
  <2>0. EntryOK(Address_Cache[i])
    BY Present
  <2>1. CASE i \in Holding(device)
    <3>1. InUse(Address_Cache[i]) /\ Address_Cache[i].device_id = device
      BY <2>1 DEF Holding
    <3>2. Address_Cache'[i] = Answered(Address_Cache[i], site)
      BY <1>2, <2>1
    <3>3. /\ EntryOK(Address_Cache'[i])
          /\ Address_Cache'[i].device_id = device
          /\ Address_Cache'[i].address = site
      BY <2>0, <3>1, <3>2, RenewedOK
    <3>4. QED
      BY <1>3, <3>1, <3>3 DEF Continues
  <2>2. CASE i \notin Holding(device)
    <3>1. Address_Cache'[i] = Address_Cache[i]
      BY <1>2, <2>2
    <3>2. ASSUME Bound(Address_Cache[i])
          PROVE  Address_Cache[i].device_id \in Devices \ {device}
      <4>1. InUse(Address_Cache[i])
        BY <3>2, Present
      <4>2. Address_Cache[i].device_id \in Devices
        BY <2>0, <4>1, InUseIs
      <4>3. QED
        BY <2>2, <4>1, <4>2 DEF Holding
    <3>3. QED
      BY <1>3, <2>0, <3>1, <3>2, Present DEF Continues
  <2>3. QED
    BY <2>1, <2>2
<1>5. OneEntryPerDevice'
  BY <1>4, Present, ContinuingKeepsOne
<1>6. QED
  BY <1>1, <1>3, <1>4, <1>5, Present, Assembled

(* A bind request takes an entry, but binds nothing.                       *)
LEMMA BindRequestKeeps ==
    ASSUME CacheInv, NEW device \in Devices,
           address_device_bind_request(device)
    PROVE  CacheInv'
<1> DEFINE new == [i \in Entries |->
            IF i \notin Place(device) THEN Address_Cache[i]
            ELSE IF i \in Holding(device) THEN Wanted(Address_Cache[i])
            ELSE AskedFor(device)]
<1>1. /\ Address_Cache' = [i \in Entries |-> new[i]]
      /\ Top_Protected_Entry' = Top_Protected_Entry
      /\ heard' = heard
  BY DEF address_device_bind_request
<1>2. ASSUME NEW i \in Entries, i \in Holding(device)
      PROVE  Wanted(Address_Cache[i]) = Address_Cache[i]
  BY <1>2, Present, WantedIs DEF Holding
<1>3. ASSUME NEW i \in Entries
      PROVE  IF i \in Place(device) \ Holding(device)
             THEN Address_Cache'[i] = AskedFor(device)
             ELSE Address_Cache'[i] = Address_Cache[i]
  BY <1>1, <1>2, PlaceIs
<1> HIDE DEF new
<1>4. ASSUME NEW i \in Entries, i \in Place(device) \ Holding(device)
      PROVE  /\ EntryOK(Address_Cache'[i])
             /\ Address_Cache'[i].device_id = device
             /\ ~Bound(Address_Cache'[i])
  <2>1. AskedFor(device) = Address_Cache'[i]
    BY <1>3, <1>4
  <2>2. BAC_ADDR_SHORT_TIME \in 0 .. BAC_ADDR_FOREVER
    BY AddressCacheConstants
  <2>3. EntryOK(AskedFor(device)) /\ ~Bound(AskedFor(device))
    BY <2>2, MadeOK DEF AskedFor
  <2>4. QED
    BY <2>1, <2>3 DEF AskedFor
<1>5. ASSUME NEW i \in Entries, i \notin Place(device) \ Holding(device)
      PROVE  /\ EntryOK(Address_Cache'[i]) /\ Continues(i)
             /\ Address_Cache'[i] = Address_Cache[i]
  BY <1>3, <1>5, Present DEF Continues
<1>6. OneEntryPerDevice'
  <2>1. CASE Holding(device) = {} /\ Place(device) # {}
    <3>1. PICK k \in Place(device) : \A i \in Place(device) : i = k
      BY <2>1, PlaceIs
    <3>2. k \in Entries /\ Address_Cache'[k].device_id = device
      BY <1>4, <2>1, <3>1, PlaceIs
    <3>3. \A i \in Entries \ {k} : Continues(i)
      BY <1>5, <3>1
    <3>4. QED
      BY <2>1, <3>2, <3>3, Present, TakingKeepsOne
  <2>2. CASE ~(Holding(device) = {} /\ Place(device) # {})
    <3>1. Place(device) \ Holding(device) = {}
      BY <2>2, PlaceIs
    <3>2. QED
      BY <1>5, <3>1, Present, ContinuingKeepsOne
  <2>3. QED
    BY <2>1, <2>2
<1>7. ASSUME NEW i \in Entries, Bound(Address_Cache'[i])
      PROVE  Address_Cache'[i].address = heard'[Address_Cache'[i].device_id]
  BY <1>1, <1>4, <1>5, <1>7, Present
<1>8. QED
  BY <1>1, <1>4, <1>5, <1>6, <1>7, Present, Assembled

----------------------------------------------------------------------------
(* The empty cache satisfies the invariant,                                *)
LEMMA CacheInvInit == Init => CacheInv
<1> SUFFICES ASSUME Init PROVE CacheInv
  OBVIOUS
<1>1. \A i \in Entries : Address_Cache[i] = Unused
  BY DEF Init
<1>2. EntryOK(Unused) /\ ~InUse(Unused) /\ ~Bound(Unused) /\ Unused \in Entry
  BY UnusedOK DEF Bound, EntryOK
<1>3. AddressCacheTypeOK
  BY <1>1, <1>2, AddressCacheConstants DEF Init, AddressCacheTypeOK
<1>4. QED
  BY <1>1, <1>2, <1>3
  DEF CacheInv, CacheOK, OneEntryPerDevice, BoundWhereHeard, BoundEntries

(* and every step keeps it.                                                *)
LEMMA CacheInvStep == CacheInv /\ [Next]_cacheVars => CacheInv'
<1> SUFFICES ASSUME CacheInv, [Next]_cacheVars PROVE CacheInv'
  OBVIOUS
<1>1. ASSUME NEW top \in 0 .. MAX_ADDRESS_CACHE,
             address_protected_entry_index_set(top)
      PROVE  CacheInv'
  BY <1>1
  DEF address_protected_entry_index_set, CacheInv, CacheOK,
      AddressCacheTypeOK, OneEntryPerDevice, BoundWhereHeard, BoundEntries
<1>2. CASE UNCHANGED cacheVars
  BY <1>2
  DEF cacheVars, CacheInv, CacheOK, AddressCacheTypeOK, OneEntryPerDevice,
      BoundWhereHeard, BoundEntries
<1>3. ASSUME Next PROVE CacheInv'
  BY <1>1, <1>3, InitKeeps, PartialInitKeeps, RemoveKeeps, TTLKeeps,
     AddKeeps, AddBindingKeeps, BindRequestKeeps, TimerKeeps
  DEF Next
<1>4. QED
  BY <1>2, <1>3

(* The invariant of the cache.                                             *)
LEMMA CacheInvariant == Spec => []CacheInv
  BY CacheInvInit, CacheInvStep, PTL DEF Spec

(* All entries keep their type, whatever is asked for, heard, evicted and  *)
(* timed out.                                                              *)
THEOREM CacheTypeCorrect == Spec => []AddressCacheTypeOK
<1>1. CacheInv => AddressCacheTypeOK
  BY DEF CacheInv
<1>2. QED
  BY <1>1, CacheInvariant, PTL

(* A device never holds two entries: every search of address.c may stop at *)
(* the first.                                                              *)
THEOREM DevicesHoldOneEntry == Spec => []OneEntryPerDevice
<1>1. CacheInv => OneEntryPerDevice
  BY DEF CacheInv
<1>2. QED
  BY <1>1, CacheInvariant, PTL

(* A bound entry gives the address its device was last heard at.           *)
THEOREM BindingsAreCurrent == Spec => []BoundWhereHeard
<1>1. CacheInv => BoundWhereHeard
  BY DEF CacheInv
<1>2. QED
  BY <1>1, CacheInvariant, PTL

----------------------------------------------------------------------------
(* An entry changes hands only in the place for another device, which none *)
(* held before.                                                            *)
LEMMA ChangesHands ==
    ASSUME CacheInv, Next, NEW i \in Entries,
           InUse(Address_Cache[i]), InUse(Address_Cache'[i]),
           Address_Cache'[i].device_id # Address_Cache[i].device_id
    PROVE  \E device \in Devices : i \in Place(device) \ Holding(device)
<1>0. EntryOK(Address_Cache[i]) /\ ~InUse(Unused)
  BY Present, UnusedOK
<1>1. ASSUME address_init
             \/ address_init_partial
             \/ \E device \in Devices : address_remove_device(device)
      PROVE  FALSE
  BY <1>0, <1>1
  DEF address_init, address_init_partial, address_remove_device
<1>2. ASSUME NEW top \in 0 .. MAX_ADDRESS_CACHE,
             address_protected_entry_index_set(top)
      PROVE  FALSE
  BY <1>2 DEF address_protected_entry_index_set
<1>3. ASSUME NEW device \in Devices, NEW TimeOut \in TIMEOUTS,
             NEW StaticFlag \in BOOLEAN,
             address_set_device_TTL(device, TimeOut, StaticFlag)
      PROVE  FALSE
  <2>1. Address_Cache'[i] \in {Address_Cache[i],
                WithTTL(Address_Cache[i], TimeOut, StaticFlag)}
    BY <1>3 DEF address_set_device_TTL
  <2>2. QED
    BY <1>0, <2>1, WithTTLOK
<1>4. ASSUME NEW device \in Devices, NEW site \in Addresses,
             address_add(device, site)
      PROVE  i \in Place(device) \ Holding(device)
  <2>1. i \notin Place(device) => Address_Cache'[i] = Address_Cache[i]
    BY <1>4 DEF address_add
  <2>2. i \in Place(device) /\ i \in Holding(device) =>
            Address_Cache'[i] = Renewed(Address_Cache[i], site)
    BY <1>4 DEF address_add
  <2>3. Renewed(Address_Cache[i], site).device_id
            = Address_Cache[i].device_id
    BY <1>0, RenewedOK
  <2>4. QED
    BY <2>1, <2>2, <2>3
<1>5. ASSUME NEW device \in Devices, NEW site \in Addresses,
             address_add_binding(device, site)
      PROVE  FALSE
  <2>1. Address_Cache'[i] \in {Address_Cache[i],
                               Answered(Address_Cache[i], site)}
    BY <1>5 DEF address_add_binding
  <2>2. Answered(Address_Cache[i], site).device_id
            = Address_Cache[i].device_id
    BY <1>0, RenewedOK
  <2>3. QED
    BY <2>1, <2>2
<1>6. ASSUME NEW device \in Devices, address_device_bind_request(device)
      PROVE  i \in Place(device) \ Holding(device)
  <2>1. i \notin Place(device) => Address_Cache'[i] = Address_Cache[i]
    BY <1>6 DEF address_device_bind_request
  <2>2. i \in Place(device) /\ i \in Holding(device) =>
            Address_Cache'[i] = Wanted(Address_Cache[i])
    BY <1>6 DEF address_device_bind_request
  <2>3. Wanted(Address_Cache[i]) = Address_Cache[i]
    BY <1>0, WantedIs
  <2>4. QED
    BY <2>1, <2>2, <2>3
<1>7. ASSUME NEW uSeconds \in SECONDS, address_cache_timer(uSeconds)
      PROVE  FALSE
  <2>1. Address_Cache'[i] = Aged(Address_Cache[i], uSeconds)
    BY <1>7 DEF address_cache_timer
  <2>2. QED
    BY <1>0, <2>1, AgedOK
<1>8. QED
  BY <1>1, <1>2, <1>3, <1>4, <1>5, <1>6, <1>7 DEF Next

(* An entry in use that is a place for another device may be given up.     *)
LEMMA GivenUp ==
    ASSUME CacheInv, NEW device \in Devices,
           NEW i \in Place(device) \ Holding(device),
           InUse(Address_Cache[i])
    PROVE  /\ UnusedEntries = {}
           /\ ~Static(Address_Cache[i])
           /\ IF Bound(Address_Cache[i])
              THEN /\ i >= Top_Protected_Entry
                   /\ \A j \in BoundToEvict : Address_Cache[i].TimeToLive
                                                <= Address_Cache[j].TimeToLive
              ELSE /\ BoundToEvict = {}
                   /\ \A j \in AskedToEvict : Address_Cache[i].TimeToLive
                                                <= Address_Cache[j].TimeToLive
<1>1. i \notin UnusedEntries
  BY DEF UnusedEntries
<1>2. i \in Oldest /\ UnusedEntries = {}
  BY <1>1, PlaceIs
<1>3. i \in Entries
  BY PlaceIs
<1>4. CASE /\ i \in BoundToEvict
           /\ \A j \in BoundToEvict : Address_Cache[i].TimeToLive
                                        <= Address_Cache[j].TimeToLive
  <2>1. /\ i \in Top_Protected_Entry .. MAX_ADDRESS_CACHE - 1
        /\ Bound(Address_Cache[i]) /\ ~Static(Address_Cache[i])
    BY <1>4 DEF BoundToEvict, CanAge
  <2>2. i >= Top_Protected_Entry
    BY <2>1, Present, AddressCacheConstants
  <2>3. QED
    BY <1>2, <1>4, <2>1, <2>2
<1>5. CASE /\ i \in AskedToEvict /\ BoundToEvict = {}
           /\ \A j \in AskedToEvict : Address_Cache[i].TimeToLive
                                        <= Address_Cache[j].TimeToLive
  <2>1. ~Bound(Address_Cache[i]) /\ ~Static(Address_Cache[i])
    BY <1>5 DEF AskedToEvict, CanAge, Asked, Bound
  <2>2. QED
    BY <1>2, <1>5, <2>1
<1>6. QED
  BY <1>2, <1>4, <1>5, OldestIs

(* A full table gives up the entries that address_remove_oldest promises   *)
(* to, and none that is static or protected.                               *)
THEOREM EvictionFollowsOrder == Spec => EvictionOrder
<1> DEFINE Promised(i) ==
        LET old == Address_Cache[i]
        IN  InUse(old) /\ InUse(Address_Cache'[i])
              /\ Address_Cache'[i].device_id # old.device_id
            =>  /\ UnusedEntries = {}
                /\ ~Static(old)
                /\ IF Bound(old)
                   THEN /\ i >= Top_Protected_Entry
                        /\ \A j \in BoundToEvict :
                            old.TimeToLive <= Address_Cache[j].TimeToLive
                   ELSE /\ BoundToEvict = {}
                        /\ \A j \in AskedToEvict :
                            old.TimeToLive <= Address_Cache[j].TimeToLive
<1>1. CacheInv /\ Next => \A i \in Entries : Promised(i)
  <2> SUFFICES ASSUME CacheInv, Next, NEW i \in Entries,
                      InUse(Address_Cache[i]), InUse(Address_Cache'[i]),
                      Address_Cache'[i].device_id # Address_Cache[i].device_id
               PROVE  Promised(i)
    OBVIOUS
  <2>1. PICK device \in Devices : i \in Place(device) \ Holding(device)
    BY ChangesHands
  <2>2. QED
    BY <2>1, GivenUp
<1>2. CacheInv /\ [Next]_cacheVars =>
            [\A i \in Entries : Promised(i)]_cacheVars
  BY <1>1
<1>3. QED
  BY <1>2, CacheInvariant, PTL DEF Spec, EvictionOrder

(* A static binding outlives every step but those that end it by name, or  *)
(* all of them.                                                            *)
LEMMA StaticKept ==
    ASSUME CacheInv, Next, NEW device \in Devices, NEW i \in Holding(device),
           Static(Address_Cache[i])
    PROVE  \/ /\ Static(Address_Cache'[i])
              /\ Address_Cache'[i].device_id = device
           \/ address_init
           \/ address_remove_device(device)
           \/ \E TimeOut \in TIMEOUTS :
                address_set_device_TTL(device, TimeOut, FALSE)
<1> DEFINE Kept == /\ Static(Address_Cache'[i])
                   /\ Address_Cache'[i].device_id = device
<1>0. /\ i \in Entries /\ EntryOK(Address_Cache[i])
      /\ InUse(Address_Cache[i]) /\ Address_Cache[i].device_id = device
  BY Present DEF Holding
<1>1. Address_Cache'[i] = Address_Cache[i] => Kept
  BY <1>0
<1>2. ASSUME NEW other \in Devices, i \in Holding(other)
      PROVE  other = device
  BY <1>0, <1>2 DEF Holding
<1>3. ASSUME NEW other \in Devices
      PROVE  i \in Place(other) => i \in Holding(other)
  BY <1>0, GivenUp
<1> HIDE DEF Kept
<1>4. ASSUME address_init_partial PROVE Kept
  <2>1. Address_Cache[i].TimeToLive # 0 /\ ~Asked(Address_Cache[i])
    BY <1>0, AddressCacheConstants DEF EntryOK, Static, Bound, Asked
  <2>2. QED
    BY <1>0, <1>1, <1>4, <2>1 DEF address_init_partial
<1>5. ASSUME NEW top \in 0 .. MAX_ADDRESS_CACHE,
             address_protected_entry_index_set(top)
      PROVE  Kept
  BY <1>1, <1>5 DEF address_protected_entry_index_set
<1>6. ASSUME NEW other \in Devices \ {device}, address_remove_device(other)
      PROVE  Kept
  <2>1. i \notin EntryOf(other)
    BY <1>2, HoldingIs
  <2>2. QED
    BY <1>0, <1>1, <1>6, <2>1 DEF address_remove_device
<1>7. ASSUME NEW other \in Devices, NEW TimeOut \in TIMEOUTS,
             NEW StaticFlag \in BOOLEAN,
             address_set_device_TTL(other, TimeOut, StaticFlag),
             other # device \/ StaticFlag
      PROVE  Kept
  <2>1. CASE i \in EntryOf(other)
    <3>1. other = device
      BY <1>2, <2>1, HoldingIs
    <3>2. Address_Cache'[i] =
                WithTTL(Address_Cache[i], TimeOut, StaticFlag)
      BY <1>0, <1>7, <2>1 DEF address_set_device_TTL
    <3>3. StaticFlag
      BY <1>7, <3>1
    <3>4. /\ Static(Address_Cache[i]) /\ StaticFlag
                => Static(Address_Cache'[i])
          /\ Address_Cache'[i].device_id = Address_Cache[i].device_id
      BY <1>0, <3>2, WithTTLOK
    <3>5. QED
      BY <1>0, <3>3, <3>4, Zenon DEF Kept
  <2>2. CASE i \notin EntryOf(other)
    BY <1>0, <1>1, <1>7, <2>2 DEF address_set_device_TTL
  <2>3. QED
    BY <2>1, <2>2
<1>8. ASSUME NEW other \in Devices, NEW site \in Addresses,
             address_add(other, site)
      PROVE  Kept
  <2>1. i \notin Place(other) => Address_Cache'[i] = Address_Cache[i]
    BY <1>0, <1>8 DEF address_add
  <2>2. i \in Place(other) =>
            Address_Cache'[i] = Renewed(Address_Cache[i], site)
    BY <1>0, <1>3, <1>8 DEF address_add
  <2>3. Static(Renewed(Address_Cache[i], site))
        /\ Renewed(Address_Cache[i], site).device_id = device
    BY <1>0, RenewedOK
  <2>4. QED
    BY <1>1, <2>1, <2>2, <2>3 DEF Kept
<1>9. ASSUME NEW other \in Devices, NEW site \in Addresses,
             address_add_binding(other, site)
      PROVE  Kept
  <2>1. Address_Cache'[i] \in {Address_Cache[i],
                               Answered(Address_Cache[i], site)}
    BY <1>0, <1>9 DEF address_add_binding
  <2>2. Static(Answered(Address_Cache[i], site))
        /\ Answered(Address_Cache[i], site).device_id = device
    BY <1>0, RenewedOK
  <2>3. QED
    BY <1>1, <2>1, <2>2 DEF Kept
<1>10. ASSUME NEW other \in Devices, address_device_bind_request(other)
       PROVE  Kept
  <2>1. Wanted(Address_Cache[i]) = Address_Cache[i]
    BY <1>0, WantedIs
  <2>2. QED
    BY <1>0, <1>1, <1>3, <1>10, <2>1 DEF address_device_bind_request
<1>11. ASSUME NEW uSeconds \in SECONDS, address_cache_timer(uSeconds)
       PROVE  Kept
  <2>1. Address_Cache'[i] = Aged(Address_Cache[i], uSeconds)
    BY <1>0, <1>11 DEF address_cache_timer
  <2>2. QED
    BY <1>0, <1>1, <2>1, AgedOK
<1>12. QED
  BY <1>4, <1>5, <1>6, <1>7, <1>8, <1>9, <1>10, <1>11 DEF Next, Kept

(* A static binding stays until it is removed, made normal, or the cache   *)
(* is cleared: neither traffic nor time nor a partial restart ends it.     *)
THEOREM StaticBindingsStay == Spec => StaticStays
<1> DEFINE Stays(device) ==
        (\E i \in Holding(device) : Static(Address_Cache[i]))
            => \/ (\E i \in Holding(device) : Static(Address_Cache[i]))'
               \/ address_init
               \/ address_remove_device(device)
               \/ \E TimeOut \in TIMEOUTS :
                    address_set_device_TTL(device, TimeOut, FALSE)
<1>1. CacheInv /\ Next => \A device \in Devices : Stays(device)
  <2> SUFFICES ASSUME CacheInv, Next, NEW device \in Devices,
                      NEW i \in Holding(device), Static(Address_Cache[i])
               PROVE  \/ (\E j \in Holding(device) :
                                Static(Address_Cache[j]))'
                      \/ address_init
                      \/ address_remove_device(device)
                      \/ \E TimeOut \in TIMEOUTS :
                            address_set_device_TTL(device, TimeOut, FALSE)
    OBVIOUS
  <2>1. CASE /\ Static(Address_Cache'[i])
             /\ Address_Cache'[i].device_id = device
    <3>1. i \in Holding(device)'
      BY <2>1 DEF Holding, Static, Bound
    <3>2. QED
      BY <2>1, <3>1
  <2>2. QED
    BY <2>1, StaticKept
<1>2. CacheInv /\ [Next]_cacheVars =>
            [\A device \in Devices : Stays(device)]_cacheVars
  BY <1>1
<1>3. QED
  BY <1>2, CacheInvariant, PTL DEF Spec, StaticStays

-----------------------------------------------------------------------------
(* The table of virtual MAC addresses: the bisection, and what adding and  *)
(* deleting an entry do to what the table says.                            *)

(* A set of which 0 is a member, and with every number its successor, has  *)
(* every natural number: the form of induction the provers can use.        *)
THEOREM SetInduction ==
  ASSUME NEW S, 0 \in S, \A n \in Nat : n \in S => n + 1 \in S
  PROVE  Nat \subseteq S
<1> SUFFICES ASSUME NEW n \in Nat, n \notin S PROVE FALSE
  OBVIOUS
<1> DEFINE T == {k \in 0..n : k \notin S}
           f == [k \in T |-> k - 1]
<1>1. IsFiniteSet(T) /\ IsFiniteSet(T \ {n}) /\ Cardinality(T \ {n}) = Cardinality(T) - 1
  <2>1. IsFiniteSet(0..n)
    BY FS_Interval
  <2>2. IsFiniteSet(T)
    <3>1. T \in SUBSET (0..n) OBVIOUS
    <3> QED BY <2>1, <3>1, FS_Subset
  <2>3. n \in T OBVIOUS
  <2> QED BY <2>2, <2>3, FS_RemoveElement
<1>2. Cardinality(T) \in Nat
  BY <1>1, FS_CardinalityType
<1>3. f \in [T -> T \ {n}]
  <2> SUFFICES ASSUME NEW k \in T PROVE k - 1 \in T \ {n} OBVIOUS
  <2>1. k # 0 OBVIOUS
  <2>2. k - 1 \in 0..n BY <2>1
  <2>3. k - 1 \notin S BY <2>2
  <2> QED BY <2>2, <2>3
<1>4. PICK x, y \in T : x # y /\ f[x] = f[y]
  <2> HIDE DEF T, f
  <2> QED BY <1>1, <1>2, <1>3, FS_PigeonHole
<1> QED BY <1>4

(* What the bisection makes of a window, given what it makes of smaller ones. *)
Middle(w) == (w[1] + w[2]) \div 2

(* Where the window starts and ends that is searched after the middle of   *)
(* this one.                                                               *)
Left(list, key, w) == IF key < Node(list, Middle(w)).key THEN w[1] ELSE Middle(w) + 1
Right(list, key, w) == IF key < Node(list, Middle(w)).key THEN Middle(w) - 1 ELSE w[2]

(* What the bisection makes of a window, given what it makes of smaller    *)
(* ones.                                                                   *)
Probed(list, key, P, w) ==
  IF key = Node(list, Middle(w)).key THEN [found |-> TRUE, index |-> Middle(w)]
  ELSE IF Left(list, key, w) <= Right(list, key, w)
       THEN P[<<Left(list, key, w), Right(list, key, w)>>]
  ELSE [found |-> FALSE, index |-> IF key > Node(list, Middle(w)).key THEN Middle(w) + 1 ELSE Middle(w)]

(* The entries a window has left to search. *)
Width(w) == w[2] - w[1] + 1

(* An entry of the array: a device instance and the octets of an address,  *)
(* of which there is at least one.                                         *)
Pairs == [key : Nat, data : Seq(Nat) \ {Unbound}]

(* A list as keylist.c keeps it: its keys increase along the array. *)
IsTable(list) ==
  /\ list \in [size : Nat, array : Seq(Pairs)]
  /\ \A i, j \in 1..Len(list.array) : i < j => list.array[i].key < list.array[j].key

(* The window that is searched next is one of the array and smaller. *)
LEMMA WindowsSplit ==
  ASSUME NEW list, IsTable(list), NEW key \in Nat, NEW w \in Windows(list),
         Left(list, key, w) <= Right(list, key, w)
  PROVE  /\ w[1] <= w[2]
         /\ <<Left(list, key, w), Right(list, key, w)>> \in Windows(list)
         /\ Width(<<Left(list, key, w), Right(list, key, w)>>) < Width(w)
         /\ Middle(w) \in w[1]..w[2]
<1> Count(list) \in Nat BY DEF IsTable, Count
<1> w \in (0..Count(list)) \X (-1..(Count(list)-1)) BY DEF Windows
<1> DEFINE a == w[1] b == w[2] m == Middle(w)
<1> a \in Nat /\ b \in Int /\ a <= Count(list) /\ b < Count(list) /\ b >= -1 OBVIOUS
<1>1. m = (a + b) \div 2 BY DEF Middle
<1>2. m \in Int /\ 2 * m <= a + b /\ a + b <= 2 * m + 1 BY <1>1
<1> HIDE DEF a, b, m
<1>3. CASE key < Node(list, m).key
  <2>1. Left(list, key, w) = a /\ Right(list, key, w) = m - 1 BY <1>3 DEF Left, Right, a, b, m
  <2>2. a <= m - 1 BY <2>1
  <2>3. a <= b /\ m <= b BY <1>2, <2>2
  <2>4. <<a, m - 1>> \in Windows(list) BY <1>2, <2>2, <2>3 DEF Windows
  <2>5. Width(<<a, m - 1>>) = m - 1 - a + 1 /\ Width(w) = b - a + 1 BY DEF Width, a, b
  <2> QED BY <1>2, <2>1, <2>2, <2>3, <2>4, <2>5 DEF a, b, m
<1>4. CASE ~(key < Node(list, m).key)
  <2>1. Left(list, key, w) = m + 1 /\ Right(list, key, w) = b BY <1>4 DEF Left, Right, a, b, m
  <2>2. m + 1 <= b BY <2>1
  <2>3. a <= b /\ a <= m BY <1>2, <2>2
  <2>4. <<m + 1, b>> \in Windows(list) BY <1>2, <2>2, <2>3 DEF Windows
  <2>5. Width(<<m + 1, b>>) = b - (m + 1) + 1 /\ Width(w) = b - a + 1 BY DEF Width, a, b
  <2> QED BY <1>2, <2>1, <2>2, <2>3, <2>4, <2>5 DEF a, b, m
<1> QED BY <1>3, <1>4

(* The bisection comes to an end: there is a function that gives for each  *)
(* window what the search of it finds.                                     *)
LEMMA BisectionExists ==
  ASSUME NEW list, IsTable(list), NEW key \in Nat
  PROVE  \E P : P = [w \in Windows(list) |-> Probed(list, key, P, w)]
<1> DEFINE D == Windows(list)
           Upto(n, P) == \A w \in D : Width(w) <= n => P[w] = Probed(list, key, P, w)
           S == {n \in Nat : \E P : Upto(n, P)}
<1>0. Count(list) \in Nat BY DEF IsTable, Count
<1>1. 0 \in S
  <2> DEFINE Q == [w \in D |-> Probed(list, key, D, w)]
  <2>1. ASSUME NEW w \in D, Width(w) <= 0 PROVE Q[w] = Probed(list, key, Q, w)
    <3>1. ~(Left(list, key, w) <= Right(list, key, w))
      <4> SUFFICES ASSUME Left(list, key, w) <= Right(list, key, w) PROVE FALSE OBVIOUS
      <4>1. w[1] <= w[2] BY WindowsSplit
      <4>2. w[1] \in Int /\ w[2] \in Int BY <1>0 DEF Windows
      <4> QED BY <2>1, <4>1, <4>2 DEF Width
    <3> QED BY <3>1 DEF Probed
  <2> QED BY <2>1
<1>2. ASSUME NEW n \in Nat, n \in S PROVE n + 1 \in S
  <2>1. PICK P : Upto(n, P) BY <1>2
  <2> DEFINE Q == [w \in D |-> IF Width(w) <= n THEN P[w] ELSE Probed(list, key, P, w)]
  <2>2. ASSUME NEW w \in D, Width(w) <= n + 1 PROVE Q[w] = Probed(list, key, Q, w)
    <3>1. Q[w] = Probed(list, key, P, w) BY <2>1
    <3>2. CASE Left(list, key, w) <= Right(list, key, w)
      <4> DEFINE v == <<Left(list, key, w), Right(list, key, w)>>
      <4>1. v \in D /\ Width(v) < Width(w) BY <3>2, WindowsSplit
      <4>2. Width(v) \in Int /\ Width(w) \in Int BY <1>0, <4>1 DEF Windows, Width
      <4>3. Width(v) <= n BY <2>2, <4>1, <4>2
      <4>4. Q[v] = P[v] BY <4>1, <4>3
      <4> QED BY <3>1, <4>4 DEF Probed
    <3>3. CASE ~(Left(list, key, w) <= Right(list, key, w))
      BY <3>1, <3>3 DEF Probed
    <3> QED BY <3>2, <3>3
  <2>3. Upto(n + 1, Q) BY <2>2
  <2> HIDE DEF Q, Upto
  <2>4. \E R : Upto(n + 1, R) BY <2>3
  <2> QED BY <2>4
<1>3. Nat \subseteq S BY <1>1, <1>2, SetInduction
<1>4. PICK P : Upto(Count(list) + 1, P) BY <1>0, <1>3
<1> DEFINE Q == [w \in D |-> P[w]]
<1>5. ASSUME NEW w \in D PROVE Q[w] = Probed(list, key, Q, w)
  <2>1. w[1] \in Nat /\ w[2] \in Int /\ w[2] < Count(list) BY <1>0 DEF Windows
  <2>2. Width(w) <= Count(list) + 1 BY <1>0, <2>1 DEF Width
  <2>3. Q[w] = Probed(list, key, P, w) BY <1>4, <2>2
  <2>4. CASE Left(list, key, w) <= Right(list, key, w)
    BY <2>3, <2>4, WindowsSplit DEF Probed
  <2>5. CASE ~(Left(list, key, w) <= Right(list, key, w))
    BY <2>3, <2>5 DEF Probed
  <2> QED BY <2>4, <2>5
<1>6. Q = [w \in D |-> Probed(list, key, Q, w)]
  <2> HIDE DEF D
  <2> DEFINE R == [w \in D |-> Probed(list, key, Q, w)]
  <2>1. Q = R BY <1>5
  <2> QED BY <2>1
<1> QED BY <1>6

(* FindIndex is that function, at the window of all entries. *)
LEMMA FindIndexProbes ==
  ASSUME NEW list, IsTable(list), NEW key \in Nat, Count(list) # 0
  PROVE  \E P : /\ P = [w \in Windows(list) |-> Probed(list, key, P, w)]
                /\ FindIndex(list, key) = P[<<0, Count(list) - 1>>]
<1> DEFINE P == CHOOSE P : P = [w \in Windows(list) |-> Probed(list, key, P, w)]
<1>1. P = [w \in Windows(list) |-> Probed(list, key, P, w)]
  BY BisectionExists
<1>2. FindIndex(list, key) = P[<<0, Count(list) - 1>>]
  BY DEF FindIndex, Probed, Middle, Left, Right
<1> QED BY <1>1, <1>2

(* Where a key is: at an index, or between its neighbours. *)
IsPlace(list, key, at) ==
  /\ at \in [found : BOOLEAN, index : 0..Count(list)]
  /\ at.found => at.index < Count(list) /\ Node(list, at.index).key = key
  /\ ~at.found => /\ \A i \in 0..(Count(list) - 1) : i < at.index => Node(list, i).key < key
                  /\ \A i \in 0..(Count(list) - 1) : at.index <= i => key < Node(list, i).key

(* The entries on both sides of a window are not the one that is looked for. *)
Encloses(list, key, w) ==
  /\ w[1] <= w[2]
  /\ \A i \in 0..(Count(list) - 1) : i < w[1] => Node(list, i).key < key
  /\ \A i \in 0..(Count(list) - 1) : w[2] < i => key < Node(list, i).key

(* A table has its entries in the order of their keys, none of them twice. *)
LEMMA KeysOrdered ==
  ASSUME NEW list, IsTable(list)
  PROVE  /\ Count(list) \in Nat
         /\ \A i \in 0..(Count(list) - 1) : Node(list, i) \in Pairs
         /\ \A i, j \in 0..(Count(list) - 1) : i < j => Node(list, i).key < Node(list, j).key
         /\ \A i, j \in 0..(Count(list) - 1) : Node(list, i).key = Node(list, j).key => i = j
<1>1. Count(list) \in Nat /\ list.array \in Seq(Pairs)
  BY DEF IsTable, Count
<1>2. \A i \in 0..(Count(list) - 1) : i + 1 \in 1..Len(list.array) BY <1>1 DEF Count
<1>3. \A i \in 0..(Count(list) - 1) : Node(list, i) \in Pairs
  BY <1>1, <1>2, ElementOfSeq DEF Node
<1>4. \A i, j \in 0..(Count(list) - 1) : i < j => Node(list, i).key < Node(list, j).key
  BY <1>1, <1>2 DEF Node, IsTable
<1>5. \A i \in 0..(Count(list) - 1) : Node(list, i).key \in Nat BY <1>3 DEF Pairs
<1> QED BY <1>1, <1>3, <1>4, <1>5

(* In a window that the key is not outside of, the bisection finds its     *)
(* place.                                                                  *)
LEMMA ProbeFinds ==
  ASSUME NEW list, IsTable(list), NEW key \in Nat,
         NEW P, P = [w \in Windows(list) |-> Probed(list, key, P, w)]
  PROVE  \A w \in Windows(list) : Encloses(list, key, w) => IsPlace(list, key, P[w])
<1> DEFINE D == Windows(list)
           Finds(n) == \A w \in D : Width(w) <= n /\ Encloses(list, key, w) => IsPlace(list, key, P[w])
           S == {n \in Nat : Finds(n)}
<1>0. Count(list) \in Nat BY KeysOrdered
<1>1. 0 \in S
  BY <1>0 DEF Windows, Width, Encloses
<1>2. ASSUME NEW n \in Nat, n \in S PROVE n + 1 \in S
  <2>1. ASSUME NEW w \in D, Width(w) <= n + 1, Encloses(list, key, w) PROVE IsPlace(list, key, P[w])
    <3> DEFINE m == Middle(w)
    <3>1. /\ w[1] \in Nat /\ w[2] \in Int /\ w[2] < Count(list) /\ w[1] <= w[2]
          /\ m \in w[1]..w[2] /\ m \in 0..(Count(list) - 1)
      BY <1>0, <2>1 DEF Windows, Encloses, Middle
    <3>2. P[w] = Probed(list, key, P, w) OBVIOUS
    <3>3. Node(list, m).key \in Nat BY <3>1, KeysOrdered DEF Pairs
    <3>4. CASE key = Node(list, m).key
      <4> DEFINE at == [found |-> TRUE, index |-> m]
      <4>1. P[w] = at BY <3>2, <3>4 DEF Probed
      <4>2. at \in [found : BOOLEAN, index : 0..Count(list)] BY <1>0, <3>1
      <4>3. at.found /\ at.index = m OBVIOUS
      <4>4. m < Count(list) BY <1>0, <3>1
      <4> HIDE DEF at, m
      <4> QED BY <3>4, <4>1, <4>2, <4>3, <4>4 DEF IsPlace
    <3>5. CASE key # Node(list, m).key /\ Left(list, key, w) <= Right(list, key, w)
      <4> DEFINE v == <<Left(list, key, w), Right(list, key, w)>>
      <4>1. v \in D /\ Width(v) < Width(w) BY <3>5, WindowsSplit
      <4>2. Width(v) \in Int /\ Width(w) \in Int BY <1>0, <4>1 DEF Windows, Width
      <4>3. Width(v) <= n BY <2>1, <4>1, <4>2
      <4>4. Encloses(list, key, v)
        <5>1. \A i \in 0..(Count(list) - 1) : i < v[1] => Node(list, i).key < key
          <6> SUFFICES ASSUME NEW i \in 0..(Count(list) - 1), i < v[1] PROVE Node(list, i).key < key
            OBVIOUS
          <6>1. Node(list, i).key \in Nat BY KeysOrdered DEF Pairs
          <6>2. i < w[1] => Node(list, i).key < key BY <2>1 DEF Encloses
          <6>3. i < m => Node(list, i).key < Node(list, m).key BY <3>1, KeysOrdered
          <6>4. CASE key < Node(list, m).key BY <6>2, <6>4 DEF Left
          <6>5. CASE ~(key < Node(list, m).key)
            <7>1. i <= m BY <3>1, <6>5 DEF Left
            <7> QED BY <3>1, <3>3, <3>5, <6>1, <6>3, <6>5, <7>1
          <6> QED BY <6>4, <6>5
        <5>2. \A i \in 0..(Count(list) - 1) : v[2] < i => key < Node(list, i).key
          <6> SUFFICES ASSUME NEW i \in 0..(Count(list) - 1), v[2] < i PROVE key < Node(list, i).key
            OBVIOUS
          <6>1. Node(list, i).key \in Nat BY KeysOrdered DEF Pairs
          <6>2. w[2] < i => key < Node(list, i).key BY <2>1 DEF Encloses
          <6>3. m < i => Node(list, m).key < Node(list, i).key BY <3>1, KeysOrdered
          <6>4. CASE ~(key < Node(list, m).key) BY <6>2, <6>4 DEF Right
          <6>5. CASE key < Node(list, m).key
            <7>1. m <= i BY <3>1, <6>5 DEF Right
            <7> QED BY <3>1, <3>3, <3>5, <6>1, <6>3, <6>5, <7>1
          <6> QED BY <6>4, <6>5
        <5> QED BY <3>5, <5>1, <5>2 DEF Encloses
      <4>5. IsPlace(list, key, P[v])
        <5> HIDE DEF v, D
        <5> QED BY <1>2, <4>1, <4>3, <4>4
      <4> QED BY <3>2, <3>5, <4>5 DEF Probed
    <3>6. CASE key # Node(list, m).key /\ ~(Left(list, key, w) <= Right(list, key, w))
      <4> DEFINE at == [found |-> FALSE, index |-> IF key > Node(list, m).key THEN m + 1 ELSE m]
      <4>1. P[w] = at BY <3>2, <3>6 DEF Probed
      <4>2. at \in [found : BOOLEAN, index : 0..Count(list)] BY <1>0, <3>1
      <4>3. ASSUME NEW i \in 0..(Count(list) - 1), i < at.index PROVE Node(list, i).key < key
        <5>1. Node(list, i).key \in Nat BY KeysOrdered DEF Pairs
        <5>2. i < w[1] => Node(list, i).key < key BY <2>1 DEF Encloses
        <5>3. i < m => Node(list, i).key < Node(list, m).key BY <3>1, KeysOrdered
        <5>4. CASE key > Node(list, m).key BY <3>1, <3>3, <4>3, <5>1, <5>3, <5>4
        <5>5. CASE ~(key > Node(list, m).key)
          <6>1. key < Node(list, m).key BY <3>3, <3>6, <5>5
          <6>2. ~(w[1] <= m - 1) BY <3>6, <6>1 DEF Left, Right
          <6> QED BY <3>1, <4>3, <5>2, <5>5, <6>2
        <5> QED BY <5>4, <5>5
      <4>4. ASSUME NEW i \in 0..(Count(list) - 1), at.index <= i PROVE key < Node(list, i).key
        <5>1. Node(list, i).key \in Nat BY KeysOrdered DEF Pairs
        <5>2. w[2] < i => key < Node(list, i).key BY <2>1 DEF Encloses
        <5>3. m < i => Node(list, m).key < Node(list, i).key BY <3>1, KeysOrdered
        <5>4. CASE ~(key > Node(list, m).key) BY <3>1, <3>3, <3>6, <4>4, <5>1, <5>3, <5>4
        <5>5. CASE key > Node(list, m).key
          <6>1. ~(key < Node(list, m).key) BY <3>3, <5>5
          <6>2. ~(m + 1 <= w[2]) BY <3>6, <6>1 DEF Left, Right
          <6> QED BY <3>1, <4>4, <5>2, <5>5, <6>2
        <5> QED BY <5>4, <5>5
      <4> QED BY <4>1, <4>2, <4>3, <4>4 DEF IsPlace
    <3> QED BY <3>4, <3>5, <3>6
  <2>2. Finds(n + 1) BY <2>1
  <2> HIDE DEF Finds
  <2> QED BY <2>2
<1>3. Nat \subseteq S BY <1>1, <1>2, SetInduction
<1>4. ASSUME NEW w \in D, Encloses(list, key, w) PROVE IsPlace(list, key, P[w])
  <2>1. Width(w) \in Nat BY <1>0, <1>4 DEF Windows, Encloses, Width
  <2>2. Finds(Width(w)) BY <1>3, <2>1
  <2> QED BY <1>4, <2>1, <2>2
<1> QED BY <1>4

(* The bisection finds a key that is in a table, and the place of one that  *)
(* is not (Keylist's FindIndex).                                            *)
THEOREM BisectionFinds ==
  ASSUME NEW list, IsTable(list), NEW key \in Nat
  PROVE  IsPlace(list, key, FindIndex(list, key))
<1>0. Count(list) \in Nat BY KeysOrdered
<1>1. CASE Count(list) = 0
  <2>1. FindIndex(list, key) = [found |-> FALSE, index |-> 0] BY <1>1 DEF FindIndex
  <2> QED BY <1>1, <2>1 DEF IsPlace
<1>2. CASE Count(list) # 0
  <2>1. PICK P : /\ P = [w \in Windows(list) |-> Probed(list, key, P, w)]
                 /\ FindIndex(list, key) = P[<<0, Count(list) - 1>>]
    BY <1>2, FindIndexProbes
  <2>2. <<0, Count(list) - 1>> \in Windows(list) BY <1>0, <1>2 DEF Windows
  <2>3. Encloses(list, key, <<0, Count(list) - 1>>) BY <1>0, <1>2 DEF Encloses
  <2> QED BY <2>1, <2>2, <2>3, ProbeFinds
<1> QED BY <1>1, <1>2

(* A sequence with another element put in at a place. *)
WithOneMore(T, a, e, p, b) ==
  /\ b \in Seq(T)
  /\ Len(b) = Len(a) + 1
  /\ \A j \in 1..(Len(a) + 1) : b[j] = IF j < p THEN a[j] ELSE IF j = p THEN e ELSE a[j - 1]

(* What is put in at a place stands there, all behind it one place         *)
(* further.                                                                *)
LEMMA InsertedAt ==
  ASSUME NEW T, NEW a \in Seq(T), NEW e \in T, NEW p \in 1..(Len(a) + 1)
  PROVE  WithOneMore(T, a, e, p, InsertAt(a, p, e))
<1> DEFINE s == SubSeq(a, 1, p - 1) t == SubSeq(a, p, Len(a)) u == s \o <<e>> w == u \o t
<1>0. Len(a) \in Nat OBVIOUS
<1>1. s \in Seq(T) /\ Len(s) = p - 1 /\ \A i \in 1..(p - 1) : s[i] = a[i]
  BY SubSeqProperties
<1>2. t \in Seq(T) /\ Len(t) = Len(a) - p + 1 /\ \A i \in 1..(Len(a) - p + 1) : t[i] = a[p + i - 1]
  BY SubSeqProperties
<1>3. <<e>> \in Seq(T) /\ Len(<<e>>) = 1 /\ <<e>>[1] = e OBVIOUS
<1> HIDE DEF s, t
<1>4. u \in Seq(T) /\ Len(u) = p /\ \A i \in 1..p : u[i] = IF i < p THEN a[i] ELSE e
  BY <1>1, <1>3, ConcatProperties
<1> HIDE DEF u
<1>5. w \in Seq(T) /\ Len(w) = Len(a) + 1
  <2>1. w \in Seq(T) /\ Len(w) = Len(u) + Len(t) BY <1>2, <1>4, ConcatProperties
  <2> QED BY <1>0, <1>2, <1>4, <2>1
<1>6. \A j \in 1..(Len(a) + 1) : w[j] = IF j <= p THEN u[j] ELSE t[j - p]
  BY <1>0, <1>2, <1>4, ConcatProperties
<1>7. \A j \in 1..(Len(a) + 1) : w[j] = IF j < p THEN a[j] ELSE IF j = p THEN e ELSE a[j - 1]
  <2> SUFFICES ASSUME NEW j \in 1..(Len(a) + 1)
      PROVE  w[j] = IF j < p THEN a[j] ELSE IF j = p THEN e ELSE a[j - 1]
    OBVIOUS
  <2> HIDE DEF w
  <2>0. w[j] = IF j <= p THEN u[j] ELSE t[j - p] BY <1>6
  <2>1. CASE j <= p BY <1>0, <1>4, <2>0, <2>1
  <2>2. CASE j > p
    <3> DEFINE k == j - p
    <3>1. k \in 1..(Len(a) - p + 1) /\ p + k - 1 = j - 1 BY <1>0, <2>2
    <3>2. t[k] = a[p + k - 1] BY <1>2, <3>1
    <3> QED BY <1>0, <2>0, <2>2, <3>1, <3>2
  <2> QED BY <2>1, <2>2
<1>8. InsertAt(a, p, e) = w BY DEF InsertAt, w, u, s, t
<1> HIDE DEF w
<1>9. WithOneMore(T, a, e, p, w) BY <1>5, <1>7 DEF WithOneMore
<1> QED BY <1>8, <1>9

(* What is taken out is gone, all behind it one place nearer. *)
LEMMA RemovedAt ==
  ASSUME NEW T, NEW a \in Seq(T), NEW p \in 1..Len(a)
  PROVE  /\ RemoveAt(a, p) \in Seq(T)
         /\ Len(RemoveAt(a, p)) = Len(a) - 1
         /\ \A j \in 1..(Len(a) - 1) : RemoveAt(a, p)[j] = IF j < p THEN a[j] ELSE a[j + 1]
<1> DEFINE s == SubSeq(a, 1, p - 1) t == SubSeq(a, p + 1, Len(a)) w == s \o t
<1>0. Len(a) \in Nat OBVIOUS
<1>1. s \in Seq(T) /\ Len(s) = p - 1 /\ \A i \in 1..(p - 1) : s[i] = a[i]
  BY SubSeqProperties
<1>2. t \in Seq(T) /\ Len(t) = Len(a) - p /\ \A i \in 1..(Len(a) - p) : t[i] = a[p + i]
  BY SubSeqProperties
<1> HIDE DEF s, t
<1>3. w \in Seq(T) /\ Len(w) = Len(a) - 1
  <2>1. w \in Seq(T) /\ Len(w) = Len(s) + Len(t) BY <1>1, <1>2, ConcatProperties
  <2> QED BY <1>0, <1>1, <1>2, <2>1
<1>4. \A j \in 1..(Len(a) - 1) : w[j] = IF j <= p - 1 THEN s[j] ELSE t[j - (p - 1)]
  BY <1>0, <1>1, <1>2, ConcatProperties
<1>5. \A j \in 1..(Len(a) - 1) : w[j] = IF j < p THEN a[j] ELSE a[j + 1]
  <2> SUFFICES ASSUME NEW j \in 1..(Len(a) - 1) PROVE w[j] = IF j < p THEN a[j] ELSE a[j + 1]
    OBVIOUS
  <2> HIDE DEF w
  <2>0. w[j] = IF j <= p - 1 THEN s[j] ELSE t[j - (p - 1)] BY <1>4
  <2>1. CASE j < p BY <1>0, <1>1, <2>0, <2>1
  <2>2. CASE j >= p
    <3> DEFINE k == j - (p - 1)
    <3>1. k \in 1..(Len(a) - p) /\ p + k = j + 1 BY <1>0, <2>2
    <3>2. t[k] = a[p + k] BY <1>2, <3>1
    <3> QED BY <1>0, <2>0, <2>2, <3>1, <3>2
  <2> QED BY <2>1, <2>2
<1>6. RemoveAt(a, p) = w BY DEF RemoveAt, w, s, t
<1> QED BY <1>3, <1>5, <1>6

(* What a table says: that a key has a datum. *)
Binds(list, key, data) ==
  \E i \in 0..(Count(list) - 1) : Node(list, i).key = key /\ Node(list, i).data = data

(* A lookup finds what the table binds, and nothing when it binds nothing  *)
(* (keylist.c Keylist_Data).                                               *)
LEMMA LookupIsBinding ==
  ASSUME NEW list, IsTable(list), NEW key \in Nat
  PROVE  /\ \A data : Binds(list, key, data) => data # Unbound /\ Keylist_Data(list, key) = data
         /\ Keylist_Data(list, key) # Unbound => Binds(list, key, Keylist_Data(list, key))
<1> DEFINE at == FindIndex(list, key)
<1>1. IsPlace(list, key, at) BY BisectionFinds
<1>2. Count(list) \in Nat BY KeysOrdered
<1>3. Keylist_Data(list, key) = IF at.found THEN Node(list, at.index).data ELSE Unbound
  BY DEF Keylist_Data
<1> HIDE DEF at
<1>4. ASSUME NEW data, Binds(list, key, data) PROVE data # Unbound /\ Keylist_Data(list, key) = data
  <2>1. PICK i \in 0..(Count(list) - 1) : Node(list, i).key = key /\ Node(list, i).data = data
    BY <1>4 DEF Binds
  <2>2. data # Unbound BY <2>1, KeysOrdered DEF Pairs
  <2>3. at.index \in 0..Count(list) /\ at.found \in BOOLEAN BY <1>1 DEF IsPlace
  <2>4. at.found
    <3> SUFFICES ASSUME ~at.found PROVE FALSE BY <2>3
    <3>1. i < at.index => Node(list, i).key < key BY <1>1 DEF IsPlace
    <3>2. at.index <= i => key < Node(list, i).key BY <1>1 DEF IsPlace
    <3> QED BY <1>2, <2>1, <2>3, <3>1, <3>2
  <2>5. at.index \in 0..(Count(list) - 1) /\ Node(list, at.index).key = key
    BY <1>1, <1>2, <2>3, <2>4 DEF IsPlace
  <2>6. at.index = i BY <2>1, <2>5, KeysOrdered
  <2> QED BY <1>3, <2>1, <2>2, <2>4, <2>6
<1>5. ASSUME Keylist_Data(list, key) # Unbound PROVE Binds(list, key, Keylist_Data(list, key))
  <2>1. at.found BY <1>1, <1>3, <1>5 DEF IsPlace
  <2>2. at.index \in 0..(Count(list) - 1) /\ Node(list, at.index).key = key
    BY <1>1, <1>2, <2>1 DEF IsPlace
  <2> QED BY <1>3, <2>1, <2>2 DEF Binds
<1> QED BY <1>4, <1>5

(* A table that is no fuller than it is long. *)
Fits(list) == IsTable(list) /\ Count(list) <= list.size

(* An array that is checked for its size keeps what it holds and has a     *)
(* place left.                                                             *)
LEMMA Resized ==
  ASSUME NEW list, list.size \in Nat, Count(list) \in Nat, Count(list) <= list.size,
         list = [size |-> list.size, array |-> list.array]
  PROVE  /\ CheckArraySize(list) = [size |-> CheckArraySize(list).size, array |-> list.array]
         /\ CheckArraySize(list).array = list.array
         /\ CheckArraySize(list).size \in Nat
         /\ Count(list) < CheckArraySize(list).size
<1>0. Chunk \in Nat \ {0} BY ChunkAssumption
<1>1. CASE Count(list) = list.size
  <2>1. CheckArraySize(list) = [list EXCEPT !.size = list.size + Chunk] BY <1>0, <1>1 DEF CheckArraySize
  <2> QED BY <1>0, <1>1, <2>1
<1>2. CASE Count(list) # list.size /\ list.size > Chunk /\ Count(list) < list.size - Chunk
  <2>1. CheckArraySize(list) = [list EXCEPT !.size = list.size - Chunk] BY <1>2 DEF CheckArraySize
  <2> QED BY <1>0, <1>2, <2>1
<1>3. CASE Count(list) # list.size /\ ~(list.size > Chunk /\ Count(list) < list.size - Chunk)
  <2>1. CheckArraySize(list) = list BY <1>3 DEF CheckArraySize
  <2> QED BY <1>3, <2>1
<1> QED BY <1>1, <1>2, <1>3

(* A new entry goes where the order wants it, and the others stay bound. *)
LEMMA AddedBinding ==
  ASSUME NEW list, Fits(list), NEW k \in Nat, NEW d \in Seq(Nat) \ {Unbound},
         Keylist_Data(list, k) = Unbound
  PROVE  /\ Fits(Keylist_Data_Add(list, k, d))
         /\ \A j, e : Binds(Keylist_Data_Add(list, k, d), j, e)
                        <=> Binds(list, j, e) \/ (j = k /\ e = d)
<1> DEFINE q == FindIndex(list, k).index
           new == [key |-> k, data |-> d]
           more == Keylist_Data_Add(list, k, d)
           sized == CheckArraySize(list)
           n == Count(list)
<1>0. /\ n \in Nat /\ n <= list.size /\ list.size \in Nat /\ n = Len(list.array)
      /\ list.array \in Seq(Pairs) /\ list = [size |-> list.size, array |-> list.array]
  BY KeysOrdered DEF Fits, IsTable, Count
<1>1. IsPlace(list, k, FindIndex(list, k)) BY BisectionFinds DEF Fits
<1>2. ~FindIndex(list, k).found
  <2>1. FindIndex(list, k).found =>
          /\ q \in 0..(n - 1)
          /\ Keylist_Data(list, k) = Node(list, q).data
    BY <1>0, <1>1 DEF IsPlace, Keylist_Data
  <2>2. \A i \in 0..(n - 1) : Node(list, i).data # Unbound BY KeysOrdered DEF Fits, Pairs
  <2> QED BY <2>1, <2>2
<1>3. /\ q \in 0..n
      /\ \A i \in 0..(n - 1) : i < q => Node(list, i).key < k
      /\ \A i \in 0..(n - 1) : q <= i => k < Node(list, i).key
  BY <1>1, <1>2 DEF IsPlace
<1>4. new \in Pairs /\ new.key = k /\ new.data = d BY DEF Pairs
<1>5. /\ sized = [size |-> sized.size, array |-> list.array]
      /\ sized.array = list.array /\ sized.size \in Nat /\ n < sized.size
  BY <1>0, Resized
<1>6. /\ more = [size |-> sized.size, array |-> InsertAt(list.array, q + 1, new)]
      /\ more.array = InsertAt(list.array, q + 1, new) /\ more.size = sized.size
  <2>1. more = [sized EXCEPT !.array = InsertAt(sized.array, q + 1, new)] BY DEF Keylist_Data_Add
  <2> QED BY <1>5, <2>1
<1> HIDE DEF q, new, more, sized
<1>7. /\ more.array \in Seq(Pairs) /\ Len(more.array) = n + 1
      /\ \A j \in 1..(n + 1) : more.array[j] =
           IF j < q + 1 THEN list.array[j] ELSE IF j = q + 1 THEN new ELSE list.array[j - 1]
  <2> DEFINE p == q + 1 arr == list.array
  <2>1. p \in 1..(Len(arr) + 1) /\ arr \in Seq(Pairs) BY <1>0, <1>3
  <2>2. new \in Pairs BY <1>4
  <2> HIDE DEF p, arr
  <2>3. WithOneMore(Pairs, arr, new, p, InsertAt(arr, p, new))
    BY <2>1, <2>2, InsertedAt
  <2> QED BY <1>0, <1>6, <2>3 DEF p, arr, WithOneMore
<1>8. Count(more) = n + 1 BY <1>7 DEF Count
<1>9. ASSUME NEW i \in 0..n
      PROVE  Node(more, i) = IF i < q THEN Node(list, i)
                             ELSE IF i = q THEN new ELSE Node(list, i - 1)
  <2> DEFINE j == i + 1
  <2>0. n \in Nat /\ q \in 0..n BY <1>0, <1>3
  <2> HIDE DEF n
  <2>1. j \in 1..(n + 1) /\ (j < q + 1 <=> i < q) /\ (j = q + 1 <=> i = q) /\ (i - 1) + 1 = j - 1
    BY <2>0
  <2>2. more.array[j] =
           IF j < q + 1 THEN list.array[j] ELSE IF j = q + 1 THEN new ELSE list.array[j - 1]
    BY <1>7, <2>1
  <2> QED BY <2>1, <2>2 DEF Node
<1> HIDE DEF n
<1>10. /\ \A x, y \in 0..(n - 1) : x < y => Node(list, x).key < Node(list, y).key
       /\ \A x \in 0..(n - 1) : Node(list, x).key \in Nat
  BY KeysOrdered DEF Fits, n, Pairs
<1>11. ASSUME NEW x \in 0..n, NEW y \in 0..n, x < y
       PROVE  Node(more, x).key < Node(more, y).key
  <2>1. CASE y < q
    <3>1. Node(more, y) = Node(list, y) /\ Node(more, x) = Node(list, x)
          /\ x \in 0..(n - 1) /\ y \in 0..(n - 1)
      BY <1>0, <1>3, <1>9, <1>11, <2>1
    <3> QED BY <1>10, <1>11, <3>1
  <2>2. CASE y = q
    <3>1. Node(more, y) = new /\ Node(more, x) = Node(list, x) /\ x \in 0..(n - 1)
      BY <1>0, <1>3, <1>9, <1>11, <2>2
    <3> QED BY <1>3, <1>4, <1>11, <2>2, <3>1
  <2>3. CASE y > q
    <3>1. y - 1 \in 0..(n - 1) /\ Node(more, y) = Node(list, y - 1) BY <1>0, <1>3, <1>9, <2>3
    <3>2. CASE x < q
      <4>1. x \in 0..(n - 1) /\ x < y - 1 /\ Node(more, x) = Node(list, x)
        BY <1>0, <1>3, <1>9, <2>3, <3>2
      <4> QED BY <1>10, <3>1, <4>1
    <3>3. CASE x = q
      <4>1. Node(more, x) = new /\ q <= y - 1 BY <1>3, <1>9, <2>3, <3>3
      <4> QED BY <1>3, <1>4, <3>1, <4>1
    <3>4. CASE x > q
      <4>1. x - 1 \in 0..(n - 1) /\ x - 1 < y - 1 /\ Node(more, x) = Node(list, x - 1)
        BY <1>0, <1>3, <1>9, <1>11, <3>4
      <4> QED BY <1>10, <3>1, <4>1
    <3> QED BY <1>3, <3>2, <3>3, <3>4
  <2> QED BY <1>3, <2>1, <2>2, <2>3
<1>12. Fits(more)
  <2>1. more \in [size : Nat, array : Seq(Pairs)] BY <1>5, <1>6, <1>7
  <2>2. Count(more) <= more.size BY <1>0, <1>5, <1>6, <1>8
  <2>3. ASSUME NEW i \in 1..Len(more.array), NEW j \in 1..Len(more.array), i < j
        PROVE  more.array[i].key < more.array[j].key
    <3> DEFINE x == i - 1 y == j - 1
    <3>1. x \in 0..n /\ y \in 0..n /\ x < y /\ x + 1 = i /\ y + 1 = j BY <1>0, <1>7, <2>3
    <3>2. Node(more, x).key < Node(more, y).key BY <1>11, <3>1
    <3> QED BY <3>1, <3>2 DEF Node
  <2> QED BY <2>1, <2>2, <2>3 DEF Fits, IsTable
<1>13. ASSUME NEW j, NEW e, Binds(more, j, e) PROVE Binds(list, j, e) \/ (j = k /\ e = d)
  <2>1. PICK i \in 0..n : Node(more, i).key = j /\ Node(more, i).data = e
    BY <1>0, <1>8, <1>13 DEF Binds
  <2>2. CASE i < q
    <3>1. i \in 0..(n - 1) /\ Node(more, i) = Node(list, i) BY <1>0, <1>3, <1>9, <2>2
    <3> QED BY <2>1, <3>1 DEF Binds, n
  <2>3. CASE i = q BY <1>4, <1>9, <2>1, <2>3
  <2>4. CASE i > q
    <3>1. i - 1 \in 0..(n - 1) /\ Node(more, i) = Node(list, i - 1)
      BY <1>0, <1>3, <1>9, <2>4
    <3> QED BY <2>1, <3>1 DEF Binds, n
  <2> QED BY <1>3, <2>2, <2>3, <2>4
<1>14. ASSUME NEW j, NEW e, Binds(list, j, e) PROVE Binds(more, j, e)
  <2>1. PICK i \in 0..(n - 1) : Node(list, i).key = j /\ Node(list, i).data = e
    BY <1>14 DEF Binds, n
  <2>2. CASE i < q
    <3>1. i \in 0..n /\ Node(more, i) = Node(list, i) BY <1>0, <1>9, <2>2
    <3> QED BY <1>0, <1>8, <2>1, <3>1 DEF Binds
  <2>3. CASE i >= q
    <3> DEFINE x == i + 1
    <3>1. x \in 0..n /\ x > q /\ x - 1 = i BY <1>0, <1>3, <2>3
    <3>2. Node(more, x) = Node(list, i) BY <1>3, <1>9, <3>1
    <3> QED BY <1>0, <1>8, <2>1, <3>1, <3>2 DEF Binds
  <2> QED BY <1>3, <2>2, <2>3
<1>15. Binds(more, k, d)
  <2>1. Node(more, q) = new BY <1>3, <1>9
  <2> QED BY <1>0, <1>3, <1>4, <1>8, <2>1 DEF Binds
<1> QED BY <1>12, <1>13, <1>14, <1>15 DEF more

(* An entry that is deleted by its index leaves all others bound. *)
LEMMA DeletedBinding ==
  ASSUME NEW list, Fits(list), NEW q \in 0..(Count(list) - 1)
  PROVE  LET less == Keylist_Data_Delete_By_Index(list, q) IN
         /\ Fits(less)
         /\ Count(less) = Count(list) - 1
         /\ \A j, e : Binds(less, j, e) <=> Binds(list, j, e) /\ j # Node(list, q).key
<1> DEFINE less == Keylist_Data_Delete_By_Index(list, q)
           n == Count(list)
           a == RemoveAt(list.array, q + 1)
           fewer == [size |-> list.size, array |-> a]
<1>0. /\ n \in Nat /\ n <= list.size /\ list.size \in Nat /\ n = Len(list.array)
      /\ list.array \in Seq(Pairs) /\ list = [size |-> list.size, array |-> list.array]
  BY KeysOrdered DEF Fits, IsTable, Count
<1>1. q + 1 \in 1..Len(list.array) BY <1>0
<1>2. /\ a \in Seq(Pairs) /\ Len(a) = n - 1
      /\ \A j \in 1..(n - 1) : a[j] = IF j < q + 1 THEN list.array[j] ELSE list.array[j + 1]
  BY <1>0, <1>1, RemovedAt
<1>3. less = CheckArraySize(fewer)
  <2>1. less = CheckArraySize([list EXCEPT !.array = RemoveAt(list.array, q + 1)])
    BY DEF Keylist_Data_Delete_By_Index
  <2>2. [list EXCEPT !.array = RemoveAt(list.array, q + 1)] = fewer BY <1>0
  <2> QED BY <2>1, <2>2
<1> HIDE DEF a, less
<1>4. /\ less = [size |-> less.size, array |-> a]
      /\ less.array = a /\ less.size \in Nat /\ n - 1 < less.size
  <2>1. Count(fewer) = n - 1 /\ n - 1 \in Nat /\ n - 1 <= list.size
    BY <1>0, <1>1, <1>2 DEF Count
  <2> QED BY <1>0, <1>3, <2>1, Resized
<1>5. Count(less) = n - 1 BY <1>2, <1>4 DEF Count
<1>6. ASSUME NEW i \in 0..(n - 2)
      PROVE  Node(less, i) = IF i < q THEN Node(list, i) ELSE Node(list, i + 1)
  <2> DEFINE j == i + 1
  <2>1. j \in 1..(n - 1) /\ (j < q + 1 <=> i < q) BY <1>0
  <2>2. a[j] = IF j < q + 1 THEN list.array[j] ELSE list.array[j + 1] BY <1>2, <2>1
  <2> QED BY <1>4, <2>1, <2>2 DEF Node
<1>7. q \in 0..(n - 1) OBVIOUS
<1> HIDE DEF n
<1>8. /\ \A x, y \in 0..(n - 1) : x < y => Node(list, x).key < Node(list, y).key
      /\ \A x \in 0..(n - 1) : Node(list, x).key \in Nat
      /\ \A x, y \in 0..(n - 1) : Node(list, x).key = Node(list, y).key => x = y
  BY KeysOrdered DEF Fits, n, Pairs
<1>9. ASSUME NEW x \in 0..(n - 2), NEW y \in 0..(n - 2), x < y
      PROVE  Node(less, x).key < Node(less, y).key
  <2>1. /\ x \in 0..(n - 1) /\ y \in 0..(n - 1) /\ x + 1 \in 0..(n - 1) /\ y + 1 \in 0..(n - 1)
        /\ x + 1 < y + 1 /\ x < y + 1
    BY <1>0, <1>9
  <2>2. CASE y < q BY <1>6, <1>7, <1>8, <1>9, <2>1, <2>2
  <2>3. CASE y >= q /\ x < q BY <1>6, <1>7, <1>8, <2>1, <2>3
  <2>4. CASE x >= q BY <1>6, <1>7, <1>8, <1>9, <2>1, <2>4
  <2> QED BY <1>7, <2>2, <2>3, <2>4
<1>10. Fits(less)
  <2>1. less \in [size : Nat, array : Seq(Pairs)] BY <1>2, <1>4
  <2>2. Count(less) <= less.size BY <1>0, <1>4, <1>5
  <2>3. ASSUME NEW i \in 1..Len(less.array), NEW j \in 1..Len(less.array), i < j
        PROVE  less.array[i].key < less.array[j].key
    <3> DEFINE x == i - 1 y == j - 1
    <3>1. x \in 0..(n - 2) /\ y \in 0..(n - 2) /\ x < y /\ x + 1 = i /\ y + 1 = j
      BY <1>0, <1>2, <1>4, <2>3
    <3>2. Node(less, x).key < Node(less, y).key BY <1>9, <3>1
    <3> QED BY <3>1, <3>2 DEF Node
  <2> QED BY <2>1, <2>2, <2>3 DEF Fits, IsTable
<1>11. ASSUME NEW j, NEW e, Binds(less, j, e) PROVE Binds(list, j, e) /\ j # Node(list, q).key
  <2>1. PICK x \in 0..(n - 2) : Node(less, x).key = j /\ Node(less, x).data = e
    BY <1>0, <1>5, <1>11 DEF Binds
  <2>2. CASE x < q
    <3>1. x \in 0..(n - 1) /\ Node(less, x) = Node(list, x) BY <1>0, <1>6, <2>2
    <3>2. x # q BY <2>2
    <3> QED BY <1>7, <1>8, <2>1, <3>1, <3>2 DEF Binds, n
  <2>3. CASE x >= q
    <3> DEFINE y == x + 1
    <3>1. y \in 0..(n - 1) /\ Node(less, x) = Node(list, y) BY <1>0, <1>6, <1>7, <2>3
    <3>2. y # q BY <1>7, <2>3
    <3> HIDE DEF y
    <3> QED BY <1>7, <1>8, <2>1, <3>1, <3>2 DEF Binds, n
  <2> QED BY <1>7, <2>2, <2>3
<1>12. ASSUME NEW j, NEW e, Binds(list, j, e), j # Node(list, q).key PROVE Binds(less, j, e)
  <2>1. PICK x \in 0..(n - 1) : Node(list, x).key = j /\ Node(list, x).data = e
    BY <1>12 DEF Binds, n
  <2>2. CASE x < q
    <3>1. x \in 0..(n - 2) /\ Node(less, x) = Node(list, x) BY <1>0, <1>6, <1>7, <2>2
    <3> QED BY <1>0, <1>5, <2>1, <3>1 DEF Binds
  <2>3. CASE x > q
    <3> DEFINE y == x - 1
    <3>1. y \in 0..(n - 2) /\ ~(y < q) /\ y + 1 = x BY <1>0, <1>7, <2>3
    <3>2. Node(less, y) = Node(list, x) BY <1>6, <3>1
    <3> QED BY <1>0, <1>5, <2>1, <3>1, <3>2 DEF Binds
  <2>4. CASE x = q BY <1>12, <2>1, <2>4
  <2> QED BY <1>7, <2>2, <2>3, <2>4
<1> QED BY <1>5, <1>10, <1>11, <1>12 DEF less, n

(* Deleting an entry leaves the others as they are (Keylist_Data_Delete). *)
THEOREM DeletingKeepsTheOthers ==
  ASSUME NEW list, Fits(list), NEW key \in Nat
  PROVE  LET less == VMAC_Delete(list, key) IN
         /\ Fits(less)
         /\ \A j, e : Binds(less, j, e) <=> Binds(list, j, e) /\ j # key
<1> DEFINE at == FindIndex(list, key)
<1>1. IsPlace(list, key, at) /\ IsTable(list) /\ Count(list) \in Nat
  BY BisectionFinds, KeysOrdered DEF Fits
<1>2. VMAC_Delete(list, key) = IF at.found THEN Keylist_Data_Delete_By_Index(list, at.index) ELSE list
  BY DEF VMAC_Delete, Keylist_Data_Delete
<1> HIDE DEF at
<1>3. CASE at.found
  <2>1. at.index \in 0..(Count(list) - 1) /\ Node(list, at.index).key = key
    BY <1>1, <1>3 DEF IsPlace
  <2> QED BY <1>2, <1>3, <2>1, DeletedBinding
<1>4. CASE ~at.found
  <2>1. \A j, e : Binds(list, j, e) => j # key
    <3> SUFFICES ASSUME NEW e, Binds(list, key, e) PROVE FALSE OBVIOUS
    <3>1. PICK i \in 0..(Count(list) - 1) : Node(list, i).key = key BY DEF Binds
    <3>2. at.index \in Nat BY <1>1 DEF IsPlace
    <3>3. i < at.index => Node(list, i).key < key BY <1>1, <1>4 DEF IsPlace
    <3>4. at.index <= i => key < Node(list, i).key BY <1>1, <1>4 DEF IsPlace
    <3> QED BY <1>1, <3>1, <3>2, <3>3, <3>4
  <2> QED BY <1>2, <1>4, <2>1
<1> QED BY <1>3, <1>4

(* The largest member of a set of indices. *)
LEMMA LargestExists ==
  ASSUME NEW n \in Nat, NEW T \in SUBSET (0..n), T # {}
  PROVE  \E i \in T : \A j \in T : j <= i
<1> DEFINE Above(m) == \A U \in SUBSET (0..m) : U # {} => \E i \in U : \A j \in U : j <= i
           S == {m \in Nat : Above(m)}
<1>1. 0 \in S
  <2>1. ASSUME NEW U \in SUBSET (0..0), U # {} PROVE \E i \in U : \A j \in U : j <= i
    <3>1. \A j \in U : j = 0 OBVIOUS
    <3>2. 0 \in U BY <2>1, <3>1
    <3>3. \A j \in U : j <= 0 BY <3>1
    <3> QED BY <3>2, <3>3
  <2> QED BY <2>1
<1>2. ASSUME NEW m \in Nat, m \in S PROVE m + 1 \in S
  <2>1. ASSUME NEW U \in SUBSET (0..(m + 1)), U # {} PROVE \E i \in U : \A j \in U : j <= i
    <3>1. CASE m + 1 \in U BY <3>1
    <3>2. CASE m + 1 \notin U
      <4>1. U \in SUBSET (0..m) BY <3>2
      <4> QED BY <1>2, <2>1, <4>1
    <3> QED BY <3>1, <3>2
  <2>2. Above(m + 1) BY <2>1
  <2> HIDE DEF Above
  <2> QED BY <2>2
<1>3. Nat \subseteq S BY <1>1, <1>2, SetInduction
<1> QED BY <1>3

(* A device with an address, when there is one, is found by it. *)
THEOREM FoundByAddress ==
  ASSUME NEW list, IsTable(list), NEW mac, NEW k, Binds(list, k, mac)
  PROVE  Binds(list, VMAC_Find_By_Data(list, mac), mac)
<1> DEFINE at == {i \in 0..(Count(list) - 1) : VMAC_Match(mac, Node(list, i).data)}
           last == CHOOSE i \in at : \A j \in at : j <= i
<1>0. Count(list) \in Nat BY KeysOrdered
<1>1. PICK i \in 0..(Count(list) - 1) : Node(list, i).data = mac BY DEF Binds
<1>2. mac # Unbound BY <1>1, KeysOrdered DEF Pairs
<1>3. i \in at BY <1>1, <1>2 DEF VMAC_Match
<1>4. at \in SUBSET (0..Count(list)) BY <1>0
<1>5. last \in at
  <2> HIDE DEF at
  <2>1. \E x \in at : \A j \in at : j <= x BY <1>0, <1>3, <1>4, LargestExists
  <2> QED BY <2>1
<1>6. VMAC_Find_By_Data(list, mac) = Node(list, last).key
  <2>1. at # {} BY <1>3
  <2> QED BY <2>1 DEF VMAC_Find_By_Data
<1>7. last \in 0..(Count(list) - 1) /\ Node(list, last).data = mac BY <1>5 DEF VMAC_Match
<1> QED BY <1>6, <1>7 DEF Binds

(* The table is empty after the cleanup at exit (vmac.c's VMAC_Cleanup). *)
THEOREM CleanupLeavesNone ==
  ASSUME NEW list, Fits(list)
  PROVE  Count(VMAC_Cleanup(list)) = 0
<1> DEFINE n == Count(list)
           Rest(f, m) == IF m = 0 THEN list ELSE Keylist_Data_Pop(f[m - 1])
           Upto(m, f) == \A i \in 0..n : i <= m => f[i] = Rest(f, i)
           S == {m \in Nat : \E f : Upto(m, f)}
<1>0. n \in Nat BY KeysOrdered DEF Fits
<1>1. 0 \in S
  <2> DEFINE f == [i \in 0..n |-> list]
  <2>1. Upto(0, f) BY <1>0
  <2> QED BY <2>1
<1>2. ASSUME NEW m \in Nat, m \in S PROVE m + 1 \in S
  <2>1. PICK f : Upto(m, f) BY <1>2
  <2> DEFINE g == [i \in 0..n |-> IF i <= m THEN f[i] ELSE Rest(f, i)]
  <2>2. ASSUME NEW i \in 0..n, i <= m + 1 PROVE g[i] = Rest(g, i)
    <3>1. CASE i = 0 BY <2>1, <3>1
    <3>2. CASE i # 0
      <4>1. i - 1 \in 0..n /\ i - 1 <= m BY <1>0, <2>2, <3>2
      <4>2. g[i - 1] = f[i - 1] BY <4>1
      <4>3. g[i] = Rest(f, i) BY <2>1
      <4> QED BY <3>2, <4>2, <4>3
    <3> QED BY <3>1, <3>2
  <2>3. Upto(m + 1, g) BY <2>2
  <2> HIDE DEF Upto, g
  <2>4. \E h : Upto(m + 1, h) BY <2>3
  <2> QED BY <2>4
<1>3. Nat \subseteq S BY <1>1, <1>2, SetInduction
<1>4. PICK f : Upto(n, f) BY <1>0, <1>3
<1> DEFINE Popped == CHOOSE g : g = [m \in 0..n |-> IF m = 0 THEN list ELSE Keylist_Data_Pop(g[m - 1])]
<1>5. Popped = [m \in 0..n |-> IF m = 0 THEN list ELSE Keylist_Data_Pop(Popped[m - 1])]
  <2> DEFINE g == [i \in 0..n |-> f[i]]
             h == [m \in 0..n |-> IF m = 0 THEN list ELSE Keylist_Data_Pop(g[m - 1])]
  <2>1. ASSUME NEW m \in 0..n PROVE g[m] = h[m]
    <3>1. f[m] = Rest(f, m) BY <1>0, <1>4
    <3>2. m # 0 => m - 1 \in 0..n BY <1>0
    <3> QED BY <3>1, <3>2
  <2>2. g = h BY <2>1
  <2>3. \E e : e = [m \in 0..n |-> IF m = 0 THEN list ELSE Keylist_Data_Pop(e[m - 1])] BY <2>2
  <2> QED BY <2>3
<1>6. VMAC_Cleanup(list) = Popped[n] BY DEF VMAC_Cleanup
<1> HIDE DEF Popped
<1>7. /\ Popped[0] = list
      /\ \A m \in 0..n : m # 0 => Popped[m] = Keylist_Data_Pop(Popped[m - 1])
  BY <1>0, <1>5
<1> DEFINE Remaining(m) == m <= n => Fits(Popped[m]) /\ Count(Popped[m]) = n - m
           U == {m \in Nat : Remaining(m)}
<1>8. 0 \in U BY <1>0, <1>7
<1>9. ASSUME NEW m \in Nat, m \in U PROVE m + 1 \in U
  <2>1. ASSUME m + 1 <= n PROVE Fits(Popped[m + 1]) /\ Count(Popped[m + 1]) = n - (m + 1)
    <3>1. Fits(Popped[m]) /\ Count(Popped[m]) = n - m BY <1>0, <1>9, <2>1
    <3>2. Popped[m + 1] = Keylist_Data_Delete_By_Index(Popped[m], n - m - 1)
      <4>1. m + 1 \in 0..n /\ (m + 1) - 1 = m BY <1>0, <2>1
      <4>2. Popped[m + 1] = Keylist_Data_Pop(Popped[m]) BY <1>7, <4>1
      <4> QED BY <3>1, <4>2 DEF Keylist_Data_Pop
    <3>3. n - m - 1 \in 0..(Count(Popped[m]) - 1) BY <1>0, <2>1, <3>1
    <3> HIDE DEF n
    <3>4. Fits(Popped[m + 1]) /\ Count(Popped[m + 1]) = Count(Popped[m]) - 1
      BY <3>1, <3>2, <3>3, DeletedBinding
    <3> QED BY <1>0, <3>1, <3>4
  <2>2. Remaining(m + 1) BY <2>1
  <2> HIDE DEF Remaining
  <2> QED BY <2>2
<1>10. Nat \subseteq U BY <1>8, <1>9, SetInduction
<1>11. Remaining(n) BY <1>0, <1>10
<1> QED BY <1>0, <1>6, <1>11

-----------------------------------------------------------------------------
(* The octets of the messages: what is read back of what was written. *)

(* The elements of two sequences in one. *)
LEMMA Joined ==
  ASSUME NEW T, NEW s \in Seq(T), NEW t \in Seq(T)
  PROVE  /\ s \o t \in Seq(T) /\ Len(s \o t) = Len(s) + Len(t) /\ Len(s) \in Nat /\ Len(t) \in Nat
         /\ \A i \in 1..Len(s \o t) : (s \o t)[i] = IF i <= Len(s) THEN s[i] ELSE t[i - Len(s)]
  BY ConcatProperties

(* Two sequences are taken apart where they were joined. *)
LEMMA ConcatParts ==
  ASSUME NEW T, NEW s \in Seq(T), NEW t \in Seq(T)
  PROVE  /\ SubSeq(s \o t, 1, Len(s)) = s
         /\ SubSeq(s \o t, Len(s) + 1, Len(s \o t)) = t
<1> DEFINE u == s \o t
<1>1. /\ u \in Seq(T) /\ Len(u) = Len(s) + Len(t) /\ Len(s) \in Nat /\ Len(t) \in Nat
      /\ \A i \in 1..Len(u) : u[i] = IF i <= Len(s) THEN s[i] ELSE t[i - Len(s)]
  BY Joined
<1> HIDE DEF u
<1>2. SubSeq(u, 1, Len(s)) = s
  <2> DEFINE a == SubSeq(u, 1, Len(s))
  <2>1. a \in Seq(T) /\ Len(a) = Len(s) /\ \A i \in 1..Len(s) : a[i] = u[i]
    BY <1>1, SubSeqProperties
  <2> HIDE DEF a
  <2>2. \A i \in 1..Len(s) : a[i] = s[i] BY <1>1, <2>1
  <2> QED BY <2>1, <2>2, SeqEqual DEF a
<1>3. SubSeq(u, Len(s) + 1, Len(u)) = t
  <2> DEFINE m == Len(s) + 1 b == SubSeq(u, m, Len(u))
  <2>0. m \in Nat /\ m \in 1..(Len(u) + 1) /\ Len(u) \in m - 1..Len(u) BY <1>1
  <2> HIDE DEF m
  <2>1. b \in Seq(T) /\ Len(b) = Len(u) - m + 1 /\ \A i \in 1..(Len(u) - m + 1) : b[i] = u[m + i - 1]
    BY <1>1, <2>0, SubSeqProperties
  <2> HIDE DEF b
  <2>2. ASSUME NEW i \in 1..Len(t) PROVE b[i] = t[i]
    <3> DEFINE k == m + i - 1
    <3>1. k \in 1..Len(u) /\ k > Len(s) /\ k - Len(s) = i /\ i \in 1..(Len(u) - m + 1)
      BY <1>1 DEF m
    <3>2. b[i] = u[k] BY <2>1, <3>1
    <3> QED BY <1>1, <3>1, <3>2
  <2>3. Len(b) = Len(t) BY <1>1, <2>1 DEF m
  <2> QED BY <2>1, <2>2, <2>3, SeqEqual DEF b, m
<1> QED BY <1>2, <1>3 DEF u

(* A virtual MAC address has 24 bits, a port and a result code 16. *)
IsVmac(v) == v \in Nat /\ v <= VMAC_MAX
IsShort(v) == v \in Nat /\ v <= 65535

(* All numbers up to the largest are virtual MAC addresses. *)
LEMMA VmacRange == \A v : v \in 0..VMAC_MAX => IsVmac(v)
<1>1. VMAC_MAX \in Nat BY SMT DEF VMAC_MAX
<1> QED BY <1>1, SMT DEF IsVmac

(* A number of 16 bits is read back from its octets. *)
LEMMA Unsigned16 ==
  ASSUME NEW v, IsShort(v)
  PROVE  /\ encode_unsigned16(v) \in Seq(Nat) /\ Len(encode_unsigned16(v)) = 2
         /\ decode_unsigned16(encode_unsigned16(v)) = v
<1> DEFINE b == (v \div 256) % 256 c == v % 256
<1>1. encode_unsigned16(v) = <<b, c>> BY SMT DEF encode_unsigned16
<1>2. v \in Nat /\ v <= 65535 BY DEF IsShort
<1>3. b \in 0..255 /\ c \in 0..255 BY <1>2, SMT
<1>4. v = b * 256 + c BY <1>2, SMT
<1> HIDE DEF b, c
<1>5. decode_unsigned16(<<b, c>>) = v BY <1>3, <1>4, SMT DEF decode_unsigned16
<1> QED BY <1>1, <1>3, <1>5, SMT

(* An octet before two of them. *)
LEMMA Three ==
  ASSUME NEW a \in Nat, NEW b \in Nat, NEW c \in Nat
  PROVE  <<a>> \o <<b, c>> = <<a, b, c>>
<1> DEFINE s == <<a>> t == <<b, c>> u == s \o t w == <<a, b, c>>
<1>1. /\ s \in Seq(Nat) /\ Len(s) = 1 /\ s[1] = a
      /\ t \in Seq(Nat) /\ Len(t) = 2 /\ t[1] = b /\ t[2] = c
      /\ w \in Seq(Nat) /\ Len(w) = 3 /\ w[1] = a /\ w[2] = b /\ w[3] = c
  OBVIOUS
<1> HIDE DEF s, t, w
<1>c. /\ u \in Seq(Nat) /\ Len(u) = Len(s) + Len(t)
      /\ \A i \in 1..Len(u) : u[i] = IF i <= Len(s) THEN s[i] ELSE t[i - Len(s)]
  BY <1>1, Joined
<1> HIDE DEF u
<1>2. /\ u \in Seq(Nat) /\ Len(u) = 3
      /\ \A i \in 1..3 : u[i] = IF i <= 1 THEN s[i] ELSE t[i - 1]
  BY <1>c, <1>1
<1>3. ASSUME NEW i \in 1..3 PROVE u[i] = w[i]
  <2>1. CASE i = 1 BY <1>1, <1>2, <2>1
  <2>2. CASE i = 2 BY <1>1, <1>2, <2>2
  <2>3. CASE i = 3 BY <1>1, <1>2, <2>3
  <2> QED BY <2>1, <2>2, <2>3
<1>4. u = w BY <1>1, <1>2, <1>3, SeqEqual
<1> QED BY <1>4 DEF u, s, t, w

(* A virtual MAC address is read back from its octets. *)
LEMMA Unsigned24 ==
  ASSUME NEW v, IsVmac(v)
  PROVE  /\ encode_unsigned24(v) \in Seq(Nat) /\ Len(encode_unsigned24(v)) = 3
         /\ decode_unsigned24(encode_unsigned24(v)) = v
<1> DEFINE a == (v \div 65536) % 256 b == (v \div 256) % 256 c == v % 256
<1>1. encode_unsigned24(v) = <<a>> \o <<b, c>>
  BY SMT DEF encode_unsigned24, encode_unsigned16
<1>2. v \in Nat /\ v <= 16777215 BY SMT DEF IsVmac, VMAC_MAX
<1>3. a \in 0..255 /\ b \in 0..255 /\ c \in 0..255 BY <1>2, SMT
<1>4. v = a * 65536 + b * 256 + c BY <1>2, SMT
<1> HIDE DEF a, b, c
<1>5. Tail(<<a, b, c>>) = <<b, c>> OBVIOUS
<1>6. decode_unsigned24(<<a, b, c>>) = v
  BY <1>3, <1>4, <1>5, SMT DEF decode_unsigned24, decode_unsigned16
<1>7. encode_unsigned24(v) = <<a, b, c>> BY <1>1, <1>3, Three
<1> QED BY <1>3, <1>6, <1>7, SMT

(* What a datagram holds: a message of a type, and what follows its header. *)
Says(mtu, type, p) ==
  bvlc6_decode_header(mtu).consumed = 4 =>
    /\ bvlc6_decode_header(mtu).type = type
    /\ SubSeq(mtu, 5, Len(mtu)) = p

(* An encoder that refused says nothing, whatever is asked. *)
LEMMA EmptySays == ASSUME NEW type, NEW p PROVE Says(<<>>, type, p)
  BY SMT DEF Says, bvlc6_decode_header, Nothing6

(* A header has four octets, the second of them the type. *)
LEMMA HeaderOctets ==
  ASSUME NEW type \in Nat, NEW length \in Nat
  PROVE  LET h == bvlc6_encode_header(type, length) IN
         h \in Seq(Nat) /\ Len(h) = 4 /\ h[1] = BVLL_TYPE_BACNET_IP6 /\ h[2] = type
<1> DEFINE b == (length \div 256) % 256 c == length % 256
<1>1. b \in Nat /\ c \in Nat BY SMT
<1>2. encode_unsigned16(length) = <<b, c>> BY SMT DEF encode_unsigned16
<1> HIDE DEF b, c
<1> DEFINE s == <<130, type>> t == <<b, c>> u == s \o t
<1>3. /\ s \in Seq(Nat) /\ Len(s) = 2 /\ s[1] = 130 /\ s[2] = type
      /\ t \in Seq(Nat) /\ Len(t) = 2
  BY <1>1
<1>4. bvlc6_encode_header(type, length) = u
  BY <1>2, SMT DEF bvlc6_encode_header, BVLL_TYPE_BACNET_IP6
<1> HIDE DEF s, t
<1>b. s \in Seq(Nat) /\ t \in Seq(Nat) BY <1>3
<1>c. /\ u \in Seq(Nat) /\ Len(u) = Len(s) + Len(t)
      /\ \A i \in 1..Len(u) : u[i] = IF i <= Len(s) THEN s[i] ELSE t[i - Len(s)]
  BY <1>b, Joined
<1> HIDE DEF u
<1>5. /\ u \in Seq(Nat) /\ Len(u) = 4
      /\ \A i \in 1..4 : u[i] = IF i <= 2 THEN s[i] ELSE t[i - 2]
  BY <1>c, <1>3
<1> QED BY <1>3, <1>4, <1>5, SMT DEF BVLL_TYPE_BACNET_IP6

(* What follows a header is read as the contents, with the type it gives. *)
LEMMA HeaderThenContents ==
  ASSUME NEW h \in Seq(Nat), Len(h) = 4, h[1] = BVLL_TYPE_BACNET_IP6, NEW p \in Seq(Nat)
  PROVE  Says(h \o p, h[2], p)
<1> DEFINE u == h \o p
<1>0. /\ u \in Seq(Nat) /\ Len(u) = Len(h) + Len(p) /\ Len(p) \in Nat
      /\ \A i \in 1..Len(u) : u[i] = IF i <= Len(h) THEN h[i] ELSE p[i - Len(h)]
  BY Joined
<1>1. /\ u \in Seq(Nat) /\ Len(u) = 4 + Len(p) /\ Len(p) \in Nat
      /\ u[1] = h[1] /\ u[2] = h[2]
  <2> HIDE DEF u
  <2> QED BY <1>0
<1>2. SubSeq(u, 4 + 1, Len(u)) = p BY ConcatParts
<1> HIDE DEF u
<1>3. bvlc6_decode_header(u).type = h[2]
  BY <1>1, SMT DEF bvlc6_decode_header
<1>4. Says(u, h[2], p) BY <1>2, <1>3, SMT DEF Says
<1> QED BY <1>4 DEF u

(* A message is read with the type and the contents it was made of. *)
LEMMA FramedSays ==
  ASSUME NEW type \in Nat, NEW vmacs, NEW p \in Seq(Nat)
  PROVE  Says(Framed(type, vmacs, p), type, p)
<1> DEFINE k == 4 + Len(p) h == bvlc6_encode_header(type, k)
<1>0. k \in Nat OBVIOUS
<1> HIDE DEF k
<1>1. h \in Seq(Nat) /\ Len(h) = 4 /\ h[1] = BVLL_TYPE_BACNET_IP6 /\ h[2] = type
  BY <1>0, HeaderOctets
<1>2. Framed(type, vmacs, p) \in {h \o p, <<>>} BY SMT DEF Framed, k
<1> HIDE DEF h
<1>3. Says(h \o p, type, p) BY <1>1, HeaderThenContents
<1> QED BY <1>2, <1>3, EmptySays

(* What a message starts with is read back, and what follows it.            *)
LEMMA VmacFirst ==
  ASSUME NEW s, IsVmac(s), NEW rest \in Seq(Nat)
  PROVE  LET p == encode_unsigned24(s) \o rest IN
         p \in Seq(Nat) /\ Vmac(p, 1) = s /\ From(p, 4) = rest
<1> DEFINE x == encode_unsigned24(s) p == x \o rest
<1>1. x \in Seq(Nat) /\ Len(x) = 3 /\ decode_unsigned24(x) = s BY Unsigned24
<1> HIDE DEF x
<1>2. p \in Seq(Nat) BY <1>1, Joined
<1>3. SubSeq(p, 1, 3) = x /\ SubSeq(p, 4, Len(p)) = rest
  <2>1. SubSeq(p, 1, Len(x)) = x /\ SubSeq(p, Len(x) + 1, Len(p)) = rest BY <1>1, ConcatParts
  <2> HIDE DEF p
  <2> QED BY <1>1, <2>1
<1> HIDE DEF p
<1>4. Vmac(p, 1) = s
  <2>1. Vmac(p, 1) = decode_unsigned24(SubSeq(p, 1, 3)) BY SMT DEF Vmac
  <2> QED BY <1>1, <1>3, <2>1
<1>5. From(p, 4) = rest BY <1>3, SMT DEF From
<1> QED BY <1>2, <1>4, <1>5 DEF p, x

(* So are the two addresses of a unicast and what follows them. *)
LEMMA VmacsFirst ==
  ASSUME NEW s, IsVmac(s), NEW d, IsVmac(d), NEW rest \in Seq(Nat)
  PROVE  LET p == encode_unsigned24(s) \o encode_unsigned24(d) \o rest IN
         /\ p \in Seq(Nat) /\ Vmac(p, 1) = s /\ Vmac(p, 4) = d /\ From(p, 7) = rest
<1> DEFINE x == encode_unsigned24(s) y == encode_unsigned24(d) z == x \o y p == z \o rest
<1>1. x \in Seq(Nat) /\ Len(x) = 3 /\ decode_unsigned24(x) = s BY Unsigned24
<1>2. y \in Seq(Nat) /\ Len(y) = 3 /\ decode_unsigned24(y) = d BY Unsigned24
<1> HIDE DEF x, y
<1>3. z \in Seq(Nat) /\ Len(z) = Len(x) + Len(y) BY <1>1, <1>2, Joined
<1>4. SubSeq(z, 1, 3) = x /\ SubSeq(z, 4, 6) = y
  <2>1. SubSeq(z, 1, Len(x)) = x /\ SubSeq(z, Len(x) + 1, Len(z)) = y BY <1>1, <1>2, ConcatParts
  <2> HIDE DEF z
  <2> QED BY <1>1, <1>2, <1>3, <2>1
<1> HIDE DEF z
<1>5. Len(z) = 6 BY <1>1, <1>2, <1>3
<1>6. p \in Seq(Nat) BY <1>3, Joined
<1>7. SubSeq(p, 1, 3) = x /\ SubSeq(p, 4, 6) = y
  <2>1. 1 \in 1..Len(z) /\ 3 \in 1..Len(z) /\ 4 \in 1..Len(z) /\ 6 \in 1..Len(z) BY <1>5
  <2>2. SubSeq(p, 1, 3) = SubSeq(z, 1, 3) BY <1>3, <2>1, SubSeqOfConcat1
  <2>3. SubSeq(p, 4, 6) = SubSeq(z, 4, 6) BY <1>3, <2>1, SubSeqOfConcat1
  <2> HIDE DEF p
  <2> QED BY <1>4, <2>2, <2>3
<1>8. SubSeq(p, 7, Len(p)) = rest
  <2>1. SubSeq(p, Len(z) + 1, Len(p)) = rest BY <1>3, ConcatParts
  <2> HIDE DEF p
  <2> QED BY <1>5, <2>1
<1> HIDE DEF p
<1>9. Vmac(p, 1) = s /\ Vmac(p, 4) = d
  <2>1. Vmac(p, 1) = decode_unsigned24(SubSeq(p, 1, 3)) BY SMT DEF Vmac
  <2>2. Vmac(p, 4) = decode_unsigned24(SubSeq(p, 4, 6)) BY SMT DEF Vmac
  <2> QED BY <1>1, <1>2, <1>7, <2>1, <2>2
<1>10. From(p, 7) = rest BY <1>8, SMT DEF From
<1> QED BY <1>6, <1>9, <1>10 DEF p, x, y, z

(* An address is sixteen octets and a port of 16 bits. *)
LEMMA AddressParts ==
  ASSUME NEW a \in BIP6_ADDRESS
  PROVE  /\ a.address \in Seq(Nat) /\ Len(a.address) = 16 /\ IsShort(a.port)
         /\ a = [address |-> a.address, port |-> a.port]
<1> DEFINE n == IP6_ADDRESS_MAX octet == 0..255 x == a.address
<1>1. n \in Nat /\ n = 16 BY DEF IP6_ADDRESS_MAX
<1>2. a \in [address : [1..n -> octet], port : 0..UINT16_MAX] BY DEF BIP6_ADDRESS
<1>3. octet \subseteq Nat OBVIOUS
<1> HIDE DEF n, octet
<1>4. a = [address |-> x, port |-> a.port] /\ x \in [1..n -> octet] /\ a.port \in 0..UINT16_MAX
  BY <1>2
<1> HIDE DEF x
<1>5. x \in [1..n -> Nat] BY <1>3, <1>4
<1>6. x \in Seq(Nat) /\ Len(x) = n
  <2>1. n \in Nat BY <1>1
  <2> QED BY <1>5, <2>1
<1>7. IsShort(a.port)
  <2>1. UINT16_MAX \in Nat BY SMT DEF UINT16_MAX
  <2>2. a.port \in Nat /\ a.port <= UINT16_MAX BY <1>4, <2>1
  <2> QED BY <2>2, SMT DEF IsShort, UINT16_MAX
<1> QED BY <1>1, <1>4, <1>6, <1>7 DEF x

(* An address is read back as it was written. *)
LEMMA AddressReadBack ==
  ASSUME NEW a \in BIP6_ADDRESS
  PROVE  /\ bvlc6_encode_address(a) \in Seq(Nat) /\ Len(bvlc6_encode_address(a)) = BIP6_ADDRESS_MAX
         /\ \A rest \in Seq(Nat) : bvlc6_decode_address(bvlc6_encode_address(a) \o rest) = a
         /\ bvlc6_decode_address(bvlc6_encode_address(a)) = a
<1> DEFINE x == a.address y == encode_unsigned16(a.port) z == x \o y
<1>1. x \in Seq(Nat) /\ Len(x) = 16 /\ a = [address |-> x, port |-> a.port] BY AddressParts
<1>2. y \in Seq(Nat) /\ Len(y) = 2 /\ decode_unsigned16(y) = a.port BY AddressParts, Unsigned16
<1> HIDE DEF x, y
<1>3. z \in Seq(Nat) /\ Len(z) = Len(x) + Len(y) BY <1>1, <1>2, Joined
<1>4. SubSeq(z, 1, 16) = x /\ SubSeq(z, 17, 18) = y
  <2>1. SubSeq(z, 1, Len(x)) = x /\ SubSeq(z, Len(x) + 1, Len(z)) = y BY <1>1, <1>2, ConcatParts
  <2> HIDE DEF z
  <2> QED BY <1>1, <1>2, <1>3, <2>1
<1>5. z = bvlc6_encode_address(a) BY DEF bvlc6_encode_address, x, y
<1> HIDE DEF z
<1>6. Len(z) = 18 BY <1>1, <1>2, <1>3
<1>7. ASSUME NEW o, SubSeq(o, 1, 16) = x, SubSeq(o, 17, 18) = y PROVE bvlc6_decode_address(o) = a
  <2>1. bvlc6_decode_address(o) = [address |-> SubSeq(o, 1, 16), port |-> decode_unsigned16(SubSeq(o, 17, 18))]
    BY SMT DEF bvlc6_decode_address, Short, IP6_ADDRESS_MAX
  <2> QED BY <1>1, <1>2, <1>7, <2>1
<1>8. ASSUME NEW rest \in Seq(Nat) PROVE bvlc6_decode_address(z \o rest) = a
  <2> DEFINE o == z \o rest
  <2>1. 1 \in 1..Len(z) /\ 16 \in 1..Len(z) /\ 17 \in 1..Len(z) /\ 18 \in 1..Len(z) BY <1>6
  <2>2. SubSeq(o, 1, 16) = SubSeq(z, 1, 16) BY <1>3, <2>1, SubSeqOfConcat1
  <2>3. SubSeq(o, 17, 18) = SubSeq(z, 17, 18) BY <1>3, <2>1, SubSeqOfConcat1
  <2> HIDE DEF o
  <2>4. bvlc6_decode_address(o) = a BY <1>4, <1>7, <2>2, <2>3
  <2> QED BY <2>4 DEF o
<1>9. bvlc6_decode_address(z) = a BY <1>4, <1>7
<1> QED BY <1>3, <1>5, <1>6, <1>8, <1>9 DEF BIP6_ADDRESS_MAX

(* So are the sender, its address and the NPDU of a Forwarded-NPDU. *)
LEMMA ForwardedParts ==
  ASSUME NEW s, IsVmac(s), NEW a \in BIP6_ADDRESS, NEW rest \in Seq(Nat)
  PROVE  LET p == encode_unsigned24(s) \o bvlc6_encode_address(a) \o rest IN
         /\ p \in Seq(Nat) /\ Vmac(p, 1) = s
         /\ bvlc6_decode_address(From(p, 4)) = a
         /\ From(p, 4 + BIP6_ADDRESS_MAX) = rest
<1> DEFINE x == encode_unsigned24(s) y == bvlc6_encode_address(a) z == x \o y p == z \o rest q == y \o rest
<1>1. x \in Seq(Nat) /\ Len(x) = 3 BY Unsigned24
<1>2. y \in Seq(Nat) /\ Len(y) = 18 BY AddressReadBack DEF BIP6_ADDRESS_MAX
<1>3. bvlc6_decode_address(q) = a BY AddressReadBack
<1> HIDE DEF y
<1>4. q \in Seq(Nat) BY <1>2, Joined
<1> HIDE DEF q
<1>5. x \o q \in Seq(Nat) /\ Vmac(x \o q, 1) = s /\ From(x \o q, 4) = q BY <1>4, VmacFirst
<1> HIDE DEF x
<1>6. p = x \o q BY <1>1, <1>2, ConcatAssociative DEF q
<1>7. z \in Seq(Nat) /\ Len(z) = Len(x) + Len(y) BY <1>1, <1>2, Joined
<1> HIDE DEF z
<1>8. Len(z) = 21 BY <1>1, <1>2, <1>7
<1>9. SubSeq(p, Len(z) + 1, Len(p)) = rest BY <1>7, ConcatParts
<1> HIDE DEF p
<1>10. From(p, 4 + BIP6_ADDRESS_MAX) = rest
  <2>1. SubSeq(p, 22, Len(p)) = rest BY <1>8, <1>9
  <2> QED BY <2>1 DEF From, BIP6_ADDRESS_MAX
<1> QED BY <1>3, <1>5, <1>6, <1>10 DEF p, x, y, z

-----------------------------------------------------------------------------
(* What the datagrams under way are, and that those that are sent are so. *)

(* No broadcast comes back to the BBMD that passes it on but by its own      *)
(* multicast: there is one, and the group is in none of its tables.         *)
OneForwarder ==
  /\ \A b, c \in BBMDs : b = c
  /\ \A n \in Nodes : Group \notin BBMD_Table[n] \cup FD_Table[n]

(* The messages a receiver learns their sender's address from. *)
Teaching ==
  {BVLC6_RESULT, BVLC6_ORIGINAL_UNICAST_NPDU, BVLC6_ORIGINAL_BROADCAST_NPDU,
   BVLC6_ADDRESS_RESOLUTION, BVLC6_ADDRESS_RESOLUTION_ACK,
   BVLC6_VIRTUAL_ADDRESS_RESOLUTION, BVLC6_VIRTUAL_ADDRESS_RESOLUTION_ACK}

(* Those from which it learns nothing. *)
NoLesson ==
  {BVLC6_REGISTER_FOREIGN_DEVICE, BVLC6_DELETE_FOREIGN_DEVICE, BVLC6_SECURE_BVLL,
   BVLC6_DISTRIBUTE_BROADCAST_TO_NETWORK, BVLC6_FORWARDED_ADDRESS_RESOLUTION}

(* Where the BBMD of another network is, or a BBMD of this one. *)
AtABBMD(ad, a) == a = Peer \/ \E b \in BBMDs : a = ad[b]

(* Where a table may have a device: at an address it has had or, at a node *)
(* that is no BBMD, a device of another network at a BBMD.                 *)
MayBe(h, ad, n, s, a) ==
  <<s, a>> \in h \/ (s = Remote.instance /\ n \notin BBMDs /\ AtABBMD(ad, a))

(* The sender that a message names is at the address it came from. *)
Teaches(h, p, from) == IsVmac(Vmac(p, 1)) /\ <<Vmac(p, 1), from>> \in h

(* A broadcast is from the sender it names and for everyone. *)
ForMany(p, npdu) == npdu = <<Vmac(p, 1), Everyone>>

(* A unicast is from the sender it names, and for the device whose virtual *)
(* MAC address it gives, if it gives one.                                  *)
ForOne(p) == \E w : From(p, 7) = <<Vmac(p, 1), w>> /\ Vmac(p, 4) \in {0, w}

(* Where a Forwarded-NPDU comes from. One that goes to a BBMD is of a      *)
(* device of another network, and comes by the multicast of that BBMD or   *)
(* from the peer that knows where the device is.                           *)
Comes(h, ad, s, a, from, to) ==
  /\ <<s, a>> \in h \/ (s = Remote.instance /\ AtABBMD(ad, a))
  /\ \A b \in BBMDs : to = ad[b] =>
       s = Remote.instance /\ (from = ad[b] \/ (from = Peer /\ <<s, a>> \in h))

(* What a Forwarded-NPDU says, from whom and of whom. *)
Forwarded(h, ad, p, from, to) ==
  LET s == Vmac(p, 1)
      a == bvlc6_decode_address(From(p, 4))
  IN /\ IsVmac(s) /\ a \in BIP6_ADDRESS /\ ForMany(p, From(p, 4 + BIP6_ADDRESS_MAX))
     /\ OneForwarder => Comes(h, ad, s, a, from, to)

(* What a message of a type contains. *)
Content(h, ad, t, p, from, to) ==
  /\ t \in Teaching => Teaches(h, p, from)
  /\ t = BVLC6_ORIGINAL_BROADCAST_NPDU => ForMany(p, From(p, 4))
  /\ t = BVLC6_ORIGINAL_UNICAST_NPDU => ForOne(p)
  /\ t = BVLC6_FORWARDED_NPDU => Forwarded(h, ad, p, from, to)

(* A datagram with the messages a device of the network sends. *)
Good(h, ad, d) ==
  /\ d.from \in BIP6_ADDRESS
  /\ bvlc6_decode_header(d.mtu).consumed = 4 =>
       Content(h, ad, bvlc6_decode_header(d.mtu).type, SubSeq(d.mtu, 5, Len(d.mtu)), d.from, d.to)

(* Every device is at an address it has had. *)
Homed(h, ad) ==
  /\ ad \in [Nodes -> Sites]
  /\ \A n \in Nodes : <<Instance[n], ad[n]>> \in h
  /\ <<Other.instance, Other.address>> \in h /\ <<Remote.instance, Remote.address>> \in h

(* The table of a node: sorted, no fuller than it is long, and of devices  *)
(* where they have been.                                                   *)
Tabled(h, ad, n, t) ==
  /\ Fits(t)
  /\ \A k, e : OneForwarder /\ Binds(t, k, e) => MayBe(h, ad, n, k, bvlc6_decode_address(e))

(* Datagrams that are all good. *)
AllGood(h, ad, datagrams) == \A d \in datagrams : Good(h, ad, d)

(* The types of messages are different numbers. *)
LEMMA TypesApart ==
  /\ Teaching \subseteq Nat /\ NoLesson \subseteq Nat /\ BVLC6_FORWARDED_NPDU \in Nat
  /\ Teaching \cap NoLesson = {} /\ BVLC6_FORWARDED_NPDU \notin Teaching \cup NoLesson
  /\ BVLC6_ORIGINAL_UNICAST_NPDU # BVLC6_ORIGINAL_BROADCAST_NPDU
  /\ BVLC6_ORIGINAL_UNICAST_NPDU \in Teaching /\ BVLC6_ORIGINAL_BROADCAST_NPDU \in Teaching
BY DEF Teaching, NoLesson, BVLC6_RESULT, BVLC6_ORIGINAL_UNICAST_NPDU, BVLC6_ORIGINAL_BROADCAST_NPDU,
       BVLC6_ADDRESS_RESOLUTION, BVLC6_ADDRESS_RESOLUTION_ACK, BVLC6_VIRTUAL_ADDRESS_RESOLUTION,
       BVLC6_VIRTUAL_ADDRESS_RESOLUTION_ACK, BVLC6_REGISTER_FOREIGN_DEVICE, BVLC6_DELETE_FOREIGN_DEVICE,
       BVLC6_SECURE_BVLL, BVLC6_DISTRIBUTE_BROADCAST_TO_NETWORK, BVLC6_FORWARDED_ADDRESS_RESOLUTION,
       BVLC6_FORWARDED_NPDU

(* A datagram is good if its message contains what its type asks for. *)
LEMMA SaidIsGood ==
  ASSUME NEW h, NEW ad, NEW from \in BIP6_ADDRESS, NEW to, NEW mtu, NEW t, NEW p,
         Says(mtu, t, p), Content(h, ad, t, p, from, to)
  PROVE  Good(h, ad, [from |-> from, to |-> to, mtu |-> mtu])
<1> DEFINE d == [from |-> from, to |-> to, mtu |-> mtu]
<1>1. d.from = from /\ d.to = to /\ d.mtu = mtu OBVIOUS
<1> HIDE DEF d
<1>2. Good(h, ad, d) BY <1>1 DEF Good, Says
<1> QED BY <1>2 DEF d

(* All datagrams of one message are the same but for whom they reach. *)
LEMMA Datagrams ==
  ASSUME NEW from, NEW to, NEW mtu, NEW d \in bip6_send_mpdu(from, to, mtu)
  PROVE  d = [from |-> from, to |-> d.to, mtu |-> mtu] /\ (to # Group => d.to = to)
BY DEF bip6_send_mpdu

(* A message with the contents its type asks for is good wherever it goes. *)
LEMMA SentAreGood ==
  ASSUME NEW h, NEW ad, NEW from \in BIP6_ADDRESS, NEW mtu, NEW t, NEW p,
         Says(mtu, t, p), \A to : Content(h, ad, t, p, from, to), NEW to
  PROVE  AllGood(h, ad, bip6_send_mpdu(from, to, mtu))
<1> SUFFICES ASSUME NEW d \in bip6_send_mpdu(from, to, mtu) PROVE Good(h, ad, d) BY DEF AllGood
<1>1. d = [from |-> from, to |-> d.to, mtu |-> mtu] BY Datagrams
<1>2. Good(h, ad, [from |-> from, to |-> d.to, mtu |-> mtu]) BY SaidIsGood
<1> QED BY <1>1, <1>2

(* A message that teaches nothing, whatever it contains. *)
LEMMA SilentAreGood ==
  ASSUME NEW h, NEW ad, NEW from \in BIP6_ADDRESS, NEW t \in NoLesson, NEW vmacs, NEW p \in Seq(Nat), NEW to
  PROVE  AllGood(h, ad, bip6_send_mpdu(from, to, Framed(t, vmacs, p)))
<1>1. Says(Framed(t, vmacs, p), t, p) BY TypesApart, FramedSays
<1>2. \A x : Content(h, ad, t, p, from, x) BY TypesApart DEF Content
<1> QED BY <1>1, <1>2, SentAreGood

(* A message without an NPDU that names its sender first. *)
LEMMA TeachersAreGood ==
  ASSUME NEW h, NEW ad, NEW from \in BIP6_ADDRESS,
         NEW t \in Teaching \ {BVLC6_ORIGINAL_UNICAST_NPDU, BVLC6_ORIGINAL_BROADCAST_NPDU},
         NEW vmacs, NEW s, IsVmac(s), <<s, from>> \in h, NEW rest \in Seq(Nat), NEW to
  PROVE  AllGood(h, ad, bip6_send_mpdu(from, to, Framed(t, vmacs, encode_unsigned24(s) \o rest)))
<1> DEFINE p == encode_unsigned24(s) \o rest
<1>1. p \in Seq(Nat) /\ Vmac(p, 1) = s BY VmacFirst
<1> HIDE DEF p
<1>2. Says(Framed(t, vmacs, p), t, p) BY <1>1, TypesApart, FramedSays
<1>3. \A x : Content(h, ad, t, p, from, x) BY <1>1, TypesApart DEF Content, Teaches
<1>4. AllGood(h, ad, bip6_send_mpdu(from, to, Framed(t, vmacs, p))) BY <1>2, <1>3, SentAreGood
<1> QED BY <1>4 DEF p

(* A broadcast in the name of a device is good. *)
LEMMA BroadcastsAreGood ==
  ASSUME NEW h, NEW ad, NEW from \in BIP6_ADDRESS, NEW s, IsVmac(s), <<s, from>> \in h, NEW to
  PROVE  AllGood(h, ad, bip6_send_mpdu(from, to, bvlc6_encode_original_broadcast(s, <<s, Everyone>>)))
<1> DEFINE npdu == <<s, Everyone>> p == encode_unsigned24(s) \o npdu t == BVLC6_ORIGINAL_BROADCAST_NPDU
<1>0. npdu \in Seq(Nat) BY DEF IsVmac, Everyone
<1> HIDE DEF npdu
<1>1. p \in Seq(Nat) /\ Vmac(p, 1) = s /\ From(p, 4) = npdu BY <1>0, VmacFirst
<1> HIDE DEF p
<1>2. Says(Framed(t, {s}, p), t, p) BY <1>1, TypesApart, FramedSays
<1>3. \A x : Content(h, ad, t, p, from, x)
  BY <1>1, TypesApart DEF Content, Teaches, ForMany, npdu
<1>4. AllGood(h, ad, bip6_send_mpdu(from, to, Framed(t, {s}, p))) BY <1>2, <1>3, SentAreGood
<1> QED BY <1>4 DEF p, npdu, bvlc6_encode_original_broadcast

(* So is a unicast, to the device it is for or to none. *)
LEMMA UnicastsAreGood ==
  ASSUME NEW h, NEW ad, NEW from \in BIP6_ADDRESS, NEW s, IsVmac(s), <<s, from>> \in h, NEW to,
         NEW w \in Nat, NEW dst \in {0, w}, IsVmac(dst)
  PROVE  AllGood(h, ad, bip6_send_mpdu(from, to, bvlc6_encode_original_unicast(s, dst, <<s, w>>)))
<1> DEFINE npdu == <<s, w>> p == encode_unsigned24(s) \o encode_unsigned24(dst) \o npdu
           t == BVLC6_ORIGINAL_UNICAST_NPDU
<1>0. npdu \in Seq(Nat) BY DEF IsVmac
<1> HIDE DEF npdu
<1>1. p \in Seq(Nat) /\ Vmac(p, 1) = s /\ Vmac(p, 4) = dst /\ From(p, 7) = npdu BY <1>0, VmacsFirst
<1> HIDE DEF p
<1>2. Says(Framed(t, {s, dst}, p), t, p) BY <1>1, TypesApart, FramedSays
<1>3. \A x : Content(h, ad, t, p, from, x)
  BY <1>1, TypesApart DEF Content, Teaches, ForOne, npdu
<1>4. AllGood(h, ad, bip6_send_mpdu(from, to, Framed(t, {s, dst}, p))) BY <1>2, <1>3, SentAreGood
<1> QED BY <1>4 DEF p, npdu, bvlc6_encode_original_unicast

(* So is a Forwarded-NPDU that comes from where it may. *)
LEMMA ForwardsAreGood ==
  ASSUME NEW h, NEW ad, NEW from \in BIP6_ADDRESS, NEW s, IsVmac(s), NEW a \in BIP6_ADDRESS, NEW to,
         OneForwarder => \A d \in bip6_send_mpdu(from, to,
                                   bvlc6_encode_forwarded_npdu(s, a, <<s, Everyone>>)) :
                           Comes(h, ad, s, a, from, d.to)
  PROVE  AllGood(h, ad, bip6_send_mpdu(from, to, bvlc6_encode_forwarded_npdu(s, a, <<s, Everyone>>)))
<1> DEFINE npdu == <<s, Everyone>> p == encode_unsigned24(s) \o bvlc6_encode_address(a) \o npdu
           t == BVLC6_FORWARDED_NPDU mtu == Framed(t, {s}, p)
<1>0. npdu \in Seq(Nat) BY DEF IsVmac, Everyone
<1>9. mtu = bvlc6_encode_forwarded_npdu(s, a, npdu) BY DEF bvlc6_encode_forwarded_npdu
<1> HIDE DEF npdu
<1>1. /\ p \in Seq(Nat) /\ Vmac(p, 1) = s /\ bvlc6_decode_address(From(p, 4)) = a
      /\ From(p, 4 + BIP6_ADDRESS_MAX) = npdu
  BY <1>0, ForwardedParts
<1> HIDE DEF p
<1>2. Says(mtu, t, p) BY <1>1, TypesApart, FramedSays
<1> HIDE DEF mtu
<1>3. ASSUME NEW x, OneForwarder => Comes(h, ad, s, a, from, x) PROVE Content(h, ad, t, p, from, x)
  BY <1>1, <1>3, TypesApart DEF Content, Forwarded, ForMany, npdu
<1>4. ASSUME NEW d \in bip6_send_mpdu(from, to, mtu) PROVE Good(h, ad, d)
  <2>1. d = [from |-> from, to |-> d.to, mtu |-> mtu] BY Datagrams
  <2>2. Content(h, ad, t, p, from, d.to) BY <1>3, <1>9 DEF npdu
  <2>3. Good(h, ad, [from |-> from, to |-> d.to, mtu |-> mtu]) BY <1>2, <2>2, SaidIsGood
  <2> QED BY <2>1, <2>3
<1> QED BY <1>4, <1>9 DEF AllGood, npdu

(* What is true of a datagram stays so when a node that is no BBMD moves. *)
LEMMA GoodRemains ==
  ASSUME NEW h, NEW ad, NEW h2, NEW ad2, h \subseteq h2, \A b \in BBMDs : ad2[b] = ad[b]
  PROVE  /\ \A d : Good(h, ad, d) => Good(h2, ad2, d)
         /\ \A n, t : Tabled(h, ad, n, t) => Tabled(h2, ad2, n, t)
<1>1. \A a : AtABBMD(ad, a) => AtABBMD(ad2, a) BY DEF AtABBMD
<1>2. \A n, s, a : MayBe(h, ad, n, s, a) => MayBe(h2, ad2, n, s, a) BY <1>1 DEF MayBe
<1>3. \A s, a, from, to : Comes(h, ad, s, a, from, to) => Comes(h2, ad2, s, a, from, to)
  BY <1>1 DEF Comes
<1>4. \A t, p, from, to : Content(h, ad, t, p, from, to) => Content(h2, ad2, t, p, from, to)
  BY <1>3 DEF Content, Teaches, Forwarded
<1>5. \A d : Good(h, ad, d) => Good(h2, ad2, d) BY <1>4 DEF Good
<1>6. \A n, t : Tabled(h, ad, n, t) => Tabled(h2, ad2, n, t) BY <1>2 DEF Tabled
<1> QED BY <1>5, <1>6

(* Instances are virtual MAC addresses and addresses are B/IPv6 addresses. *)
LEMMA ConstantsTyped ==
  /\ \A n \in Nodes : IsVmac(Instance[n]) /\ Instance[n] # 0
  /\ IsVmac(Other.instance) /\ IsVmac(Remote.instance)
  /\ Peer \in BIP6_ADDRESS /\ Other.address \in BIP6_ADDRESS /\ Remote.address \in BIP6_ADDRESS
  /\ Known \subseteq Nat /\ \A v \in Known : IsVmac(v)
  /\ \A n \in Nodes : Instance[n] \in Known
<1>1. VMAC_MAX \in Nat BY SMT DEF VMAC_MAX
<1>2. \A v : v \in 0..VMAC_MAX => IsVmac(v) BY VmacRange
<1>3. \A n \in Nodes : Instance[n] \in 0..VMAC_MAX /\ Instance[n] # 0 BY <1>1, BIP6Assumption
<1>4. Other.instance \in 0..VMAC_MAX /\ Remote.instance \in 0..VMAC_MAX BY BIP6Assumption
<1>5. Peer \in BIP6_ADDRESS /\ Other.address \in BIP6_ADDRESS /\ Remote.address \in BIP6_ADDRESS
  BY BIP6Assumption
<1>6. \A v \in Known : IsVmac(v) BY <1>2, <1>3, <1>4 DEF Known
<1> QED BY <1>2, <1>3, <1>4, <1>5, <1>6 DEF IsVmac, Known

(* A node has an address, and has had it. *)
LEMMA HomedTyped ==
  ASSUME NEW h, NEW ad, Homed(h, ad), NEW n \in Nodes
  PROVE  ad[n] \in BIP6_ADDRESS /\ <<Instance[n], ad[n]>> \in h
BY BIP6Assumption DEF Homed

(* The octets of a virtual MAC address are numbers. *)
LEMMA VmacOctets == ASSUME NEW v, IsVmac(v) PROVE encode_unsigned24(v) \in Seq(Nat)
BY Unsigned24

(* So are those of a number of 16 bits. *)
LEMMA CodeOctets == ASSUME NEW v \in Nat PROVE encode_unsigned16(v) \in Seq(Nat)
BY DEF encode_unsigned16

(* What the layer sends of its own in the name of a node. *)
LEMMA AnswersAreGood ==
  ASSUME Homed(held, address), NEW n \in Nodes, NEW dest
  PROVE  /\ \A code \in Nat : AllGood(held, address, bvlc6_send_result(n, dest, code))
         /\ \A v : IsVmac(v) =>
              /\ AllGood(held, address, bvlc6_send_address_resolution_ack(n, dest, Instance[n], v))
              /\ AllGood(held, address, bvlc6_send_virtual_address_resolution_ack(n, dest, Instance[n], v))
         /\ AllGood(held, address, bvlc6_register_with_bbmd(n, dest, 60))
<1> DEFINE s == Instance[n] from == address[n]
<1>1. IsVmac(s) /\ from \in BIP6_ADDRESS /\ <<s, from>> \in held BY ConstantsTyped, HomedTyped
<1>2. /\ BVLC6_RESULT \in Teaching \ {BVLC6_ORIGINAL_UNICAST_NPDU, BVLC6_ORIGINAL_BROADCAST_NPDU}
      /\ BVLC6_ADDRESS_RESOLUTION_ACK \in Teaching \ {BVLC6_ORIGINAL_UNICAST_NPDU, BVLC6_ORIGINAL_BROADCAST_NPDU}
      /\ BVLC6_VIRTUAL_ADDRESS_RESOLUTION_ACK \in Teaching \ {BVLC6_ORIGINAL_UNICAST_NPDU, BVLC6_ORIGINAL_BROADCAST_NPDU}
      /\ BVLC6_REGISTER_FOREIGN_DEVICE \in NoLesson
  BY DEF Teaching, NoLesson, BVLC6_RESULT, BVLC6_ORIGINAL_UNICAST_NPDU, BVLC6_ORIGINAL_BROADCAST_NPDU,
       BVLC6_ADDRESS_RESOLUTION, BVLC6_ADDRESS_RESOLUTION_ACK, BVLC6_VIRTUAL_ADDRESS_RESOLUTION,
       BVLC6_VIRTUAL_ADDRESS_RESOLUTION_ACK
<1> HIDE DEF s, from
<1>3. ASSUME NEW code \in Nat PROVE AllGood(held, address, bvlc6_send_result(n, dest, code))
  <2>1. encode_unsigned16(code) \in Seq(Nat) BY CodeOctets
  <2>2. AllGood(held, address, bip6_send_mpdu(from, dest, bvlc6_encode_result(s, code)))
    BY <1>1, <1>2, <2>1, TeachersAreGood DEF bvlc6_encode_result
  <2> QED BY <2>2 DEF bvlc6_send_result, Device_Object_Instance_Number, s, from
<1>4. ASSUME NEW v, IsVmac(v)
      PROVE  /\ AllGood(held, address, bvlc6_send_address_resolution_ack(n, dest, s, v))
             /\ AllGood(held, address, bvlc6_send_virtual_address_resolution_ack(n, dest, s, v))
  <2>1. encode_unsigned24(v) \in Seq(Nat) BY <1>4, VmacOctets
  <2>2. AllGood(held, address, bip6_send_mpdu(from, dest, bvlc6_encode_address_resolution_ack(s, v)))
    BY <1>1, <1>2, <2>1, TeachersAreGood DEF bvlc6_encode_address_resolution_ack, bvlc6_encode_address_ack
  <2>3. AllGood(held, address, bip6_send_mpdu(from, dest, bvlc6_encode_virtual_address_resolution_ack(s, v)))
    BY <1>1, <1>2, <2>1, TeachersAreGood DEF bvlc6_encode_virtual_address_resolution_ack, bvlc6_encode_address_ack
  <2> QED BY <2>2, <2>3 DEF bvlc6_send_address_resolution_ack, bvlc6_send_virtual_address_resolution_ack, from
<1>5. AllGood(held, address, bvlc6_register_with_bbmd(n, dest, 60))
  <2>1. encode_unsigned24(s) \in Seq(Nat) /\ encode_unsigned16(60) \in Seq(Nat)
    BY <1>1, VmacOctets, CodeOctets
  <2>2. encode_unsigned24(s) \o encode_unsigned16(60) \in Seq(Nat) BY <2>1, Joined
  <2>3. AllGood(held, address, bip6_send_mpdu(from, dest, bvlc6_encode_register_foreign_device(s, 60)))
    BY <1>1, <1>2, <2>2, SilentAreGood DEF bvlc6_encode_register_foreign_device
  <2> QED BY <2>3 DEF bvlc6_register_with_bbmd, Device_Object_Instance_Number, s, from
<1> QED BY <1>3, <1>4, <1>5 DEF s

(* Which of the messages bip6_send_pdu makes of a destination. *)
LEMMA PduKinds ==
  ASSUME NEW n, NEW dest, NEW for
  PROVE  LET s == Device_Object_Instance_Number(n)
             found == bbmd6_address_from_bacnet_address(vmac[n], dest)
             pdu == bip6_send_pdu(n, dest, for)
             all(to) == bip6_send_mpdu(address[n], to, bvlc6_encode_original_broadcast(s, Npdu(n, for)))
         IN /\ dest.net = 65535 \/ Len(dest.mac) = 0 => pdu = all(Group)
            /\ dest.net # 65535 /\ dest.net > 0 /\ dest.len = 0 /\ Len(dest.mac) > 0
                 => pdu = all(IF Len(dest.mac) = 3 THEN found.addr ELSE Group)
            /\ dest.net # 65535 /\ ~(dest.net > 0 /\ dest.len = 0) /\ Len(dest.mac) = 3
                 => pdu = bip6_send_mpdu(address[n], found.addr,
                            bvlc6_encode_original_unicast(s, found.vmac, Npdu(n, for)))
            /\ dest.net # 65535 /\ ~(dest.net > 0 /\ dest.len = 0) /\ Len(dest.mac) = 1 => pdu = {}
<1> DEFINE s == Device_Object_Instance_Number(n)
           found == bbmd6_address_from_bacnet_address(vmac[n], dest)
           pdu == bip6_send_pdu(n, dest, for)
           all(to) == bip6_send_mpdu(address[n], to, bvlc6_encode_original_broadcast(s, Npdu(n, for)))
           one == bip6_send_mpdu(address[n], found.addr,
                            bvlc6_encode_original_unicast(s, found.vmac, Npdu(n, for)))
           m == Len(dest.mac)
<1>1. pdu = CASE dest.net = 65535 \/ m = 0 -> all(Group)
              [] dest.net # 65535 /\ dest.net > 0 /\ dest.len = 0 /\ m > 0 ->
                   all(IF m = 3 THEN found.addr ELSE Group)
              [] dest.net # 65535 /\ ~(dest.net > 0 /\ dest.len = 0) /\ m = 3 -> one
              [] OTHER -> {}
  BY SMT DEF bip6_send_pdu, bip6_get_broadcast_addr
<1> HIDE DEF all, one, pdu, found, m
<1>2. /\ dest.net = 65535 \/ m = 0 => pdu = all(Group)
      /\ dest.net # 65535 /\ dest.net > 0 /\ dest.len = 0 /\ m > 0
           => pdu = all(IF m = 3 THEN found.addr ELSE Group)
      /\ dest.net # 65535 /\ ~(dest.net > 0 /\ dest.len = 0) /\ m = 3 => pdu = one
      /\ dest.net # 65535 /\ ~(dest.net > 0 /\ dest.len = 0) /\ m = 1 => pdu = {}
  BY <1>1, SMT
<1> QED BY <1>2 DEF all, one, pdu, found, m

(* What a node sends of the network layer's: whoever it is for is who it says. *)
LEMMA PdusAreGood ==
  ASSUME Homed(held, address), NEW n \in Nodes
  PROVE  /\ \A dest \in Broadcasts \cup {[net |-> RouterNetwork, mac |-> <<10>>, len |-> 0],
                                         [net |-> 0, mac |-> <<10>>, len |-> 0]} :
              AllGood(held, address, bip6_send_pdu(n, dest, Everyone))
         /\ \A v \in Known, r \in Routes :
              AllGood(held, address,
                bip6_send_pdu(n, [net |-> r.net, mac |-> bvlc6_vmac_address_set(v).mac, len |-> r.len],
                              IF r.net > 0 /\ r.len = 0 THEN Everyone ELSE v))
<1> DEFINE s == Instance[n] from == address[n]
           toAll(to) == bip6_send_mpdu(from, to, bvlc6_encode_original_broadcast(s, <<s, Everyone>>))
<1>1. IsVmac(s) /\ from \in BIP6_ADDRESS /\ <<s, from>> \in held BY ConstantsTyped, HomedTyped
<1>2. RouterNetwork \in Nat /\ RouterNetwork > 0 /\ RouterNetwork # 65535
  <2>1. RouterNetwork \in 1..UINT16_MAX - 1 BY BIP6Assumption
  <2>2. UINT16_MAX = 65535 BY DEF UINT16_MAX
  <2>3. UINT16_MAX \in Nat BY <2>2
  <2>4. RouterNetwork \in Nat /\ RouterNetwork > 0 /\ RouterNetwork <= UINT16_MAX - 1
    BY <2>1, <2>3, SMT
  <2> QED BY <2>2, <2>4, SMT
<1>3. ASSUME NEW to PROVE AllGood(held, address, toAll(to))
  <2> HIDE DEF s, from
  <2> QED BY <1>1, BroadcastsAreGood
<1>4. AllGood(held, address, {}) BY DEF AllGood
<1>5. Npdu(n, Everyone) = <<s, Everyone>> /\ Device_Object_Instance_Number(n) = s
  BY DEF Npdu, Device_Object_Instance_Number
<1>6. ASSUME NEW dest, \/ dest.net = 65535 \/ Len(dest.mac) = 0
                       \/ dest.net # 65535 /\ dest.net > 0 /\ dest.len = 0 /\ Len(dest.mac) > 0
                       \/ dest.net = 0 /\ dest.len = 0 /\ Len(dest.mac) = 1
      PROVE  AllGood(held, address, bip6_send_pdu(n, dest, Everyone))
  <2> DEFINE pdu == bip6_send_pdu(n, dest, Everyone)
  <2>1. CASE dest.net = 65535 \/ Len(dest.mac) = 0
    <3>1. pdu = toAll(Group) BY <1>5, <2>1, PduKinds
    <3> HIDE DEF toAll, pdu
    <3> QED BY <1>3, <3>1 DEF pdu
  <2>2. CASE dest.net # 65535 /\ dest.net > 0 /\ dest.len = 0 /\ Len(dest.mac) > 0
    <3> DEFINE to == IF Len(dest.mac) = 3
                     THEN bbmd6_address_from_bacnet_address(vmac[n], dest).addr ELSE Group
    <3>1. pdu = toAll(to) BY <1>5, <2>2, PduKinds
    <3> HIDE DEF toAll, pdu, to
    <3> QED BY <1>3, <3>1 DEF pdu
  <2>3. CASE dest.net = 0 /\ dest.len = 0 /\ Len(dest.mac) = 1
    <3>1. pdu = {} BY <2>3, PduKinds, SMT
    <3> QED BY <1>4, <3>1
  <2> QED BY <1>6, <2>1, <2>2, <2>3
<1>7. ASSUME NEW dest \in Broadcasts \cup {[net |-> RouterNetwork, mac |-> << 10 >>, len |-> 0],
                                         [net |-> 0, mac |-> << 10 >>, len |-> 0]}
      PROVE AllGood(held, address, bip6_send_pdu(n, dest, Everyone))
  <2>1. \/ dest.net = 65535 \/ Len(dest.mac) = 0
        \/ dest.net # 65535 /\ dest.net > 0 /\ dest.len = 0 /\ Len(dest.mac) > 0
        \/ dest.net = 0 /\ dest.len = 0 /\ Len(dest.mac) = 1
    BY <1>2, SMT DEF Broadcasts
  <2> QED BY <1>6, <2>1
<1>8. ASSUME NEW v \in Known, NEW r \in Routes
      PROVE  AllGood(held, address,
                bip6_send_pdu(n, [net |-> r.net, mac |-> bvlc6_vmac_address_set(v).mac, len |-> r.len],
                              IF r.net > 0 /\ r.len = 0 THEN Everyone ELSE v))
  <2> DEFINE mac == encode_unsigned24(v) dest == [net |-> r.net, mac |-> mac, len |-> r.len]
             for == IF r.net > 0 /\ r.len = 0 THEN Everyone ELSE v
             pdu == bip6_send_pdu(n, dest, for)
             found == bbmd6_address_from_bacnet_address(vmac[n], dest)
  <2>1. IsVmac(v) /\ Len(mac) = 3 /\ v \in Nat BY ConstantsTyped, Unsigned24 DEF IsVmac
  <2>2. bvlc6_vmac_address_set(v).mac = mac BY DEF bvlc6_vmac_address_set
  <2>3. r.net # 65535 /\ (r.net > 0 => r.net \in Nat) BY <1>2, SMT DEF Routes
  <2>4. dest.net = r.net /\ dest.len = r.len /\ dest.mac = mac OBVIOUS
  <2>5. CASE r.net > 0 /\ r.len = 0
    <3>1. for = Everyone BY <2>5
    <3> HIDE DEF dest, mac, for
    <3>2. AllGood(held, address, pdu) BY <1>6, <2>1, <2>3, <2>4, <2>5, <3>1
    <3> QED BY <2>2, <3>2 DEF dest, for
  <2>6. CASE ~(r.net > 0 /\ r.len = 0)
    <3>1. for = v BY <2>6
    <3>2. found.vmac \in {0, v} BY <2>1, Unsigned24 DEF bbmd6_address_from_bacnet_address, bvlc6_vmac_address_get
    <3> HIDE DEF dest, mac, for, found
    <3>3. pdu = bip6_send_mpdu(from, found.addr, bvlc6_encode_original_unicast(s, found.vmac, <<s, v>>))
      BY <2>1, <2>3, <2>4, <2>6, <3>1, PduKinds DEF Npdu, Device_Object_Instance_Number, found
    <3>4. IsVmac(found.vmac) BY <2>1, <3>2, SMT DEF IsVmac, VMAC_MAX
    <3> HIDE DEF s, from, pdu
    <3>5. AllGood(held, address, pdu) BY <1>1, <2>1, <3>2, <3>3, <3>4, UnicastsAreGood
    <3> QED BY <2>2, <3>5 DEF dest, for, pdu
  <2> QED BY <2>5, <2>6
<1> QED BY <1>7, <1>8

(* The first octets stay what they are when more follow. *)
LEMMA MoreFollows ==
  ASSUME NEW u \in Seq(Nat), Len(u) >= 2, NEW w \in Seq(Nat)
  PROVE  /\ u \o w \in Seq(Nat) /\ (u \o w)[2] = u[2]
         /\ Len(u \o w) = Len(u) + Len(w) /\ Len(u \o w) >= 2
<1> DEFINE v == u \o w
<1>1. /\ v \in Seq(Nat) /\ Len(v) = Len(u) + Len(w) /\ Len(u) \in Nat /\ Len(w) \in Nat
      /\ \A i \in 1..Len(v) : v[i] = IF i <= Len(u) THEN u[i] ELSE w[i - Len(u)]
  BY Joined
<1> HIDE DEF v
<1>2. v[2] = u[2] BY <1>1
<1> QED BY <1>1, <1>2 DEF v

(* A deletion of a foreign device is cut short, but its type is not.        *)
LEMMA DeletionsAreGood ==
  ASSUME NEW h, NEW ad, NEW from \in BIP6_ADDRESS, NEW s, IsVmac(s), NEW entry,
         entry.bip6_address \in BIP6_ADDRESS, entry.ttl_seconds \in Nat,
         entry.ttl_seconds_remaining \in Nat, NEW to
  PROVE  AllGood(h, ad, bip6_send_mpdu(from, to, bvlc6_encode_delete_foreign_device(s, entry)))
<1> DEFINE t == BVLC6_DELETE_FOREIGN_DEVICE
           a == bvlc6_encode_header(t, 25)
           b == encode_unsigned24(s)
           c == bvlc6_encode_address(entry.bip6_address)
           d == encode_unsigned16(entry.ttl_seconds)
           e == encode_unsigned16(entry.ttl_seconds_remaining)
           x == a \o b  y == x \o c  z == y \o d  all == z \o e
           mtu == bvlc6_encode_delete_foreign_device(s, entry)
           cut == SubSeq(all, 1, 25)
<1>0. t \in NoLesson /\ t \in Nat BY DEF NoLesson, BVLC6_DELETE_FOREIGN_DEVICE
<1>1. mtu \in {cut, <<>>} BY SMT DEF bvlc6_encode_delete_foreign_device
<1>2. a \in Seq(Nat) /\ Len(a) = 4 /\ a[2] = t BY <1>0, HeaderOctets
<1>3. b \in Seq(Nat) /\ Len(b) = 3 BY Unsigned24
<1>4. c \in Seq(Nat) /\ Len(c) = 18 BY AddressReadBack DEF BIP6_ADDRESS_MAX
<1>5. d \in Seq(Nat) /\ e \in Seq(Nat) BY CodeOctets
<1> HIDE DEF a, b, c, d, e, t, mtu, cut
<1>6. /\ all \in Seq(Nat) /\ all[2] = a[2]
      /\ Len(all) = Len(a) + Len(b) + Len(c) + Len(d) + Len(e)
  <2>0. Len(a) >= 2 BY <1>2
  <2> HIDE DEF x, y, z, all
  <2>1. x \in Seq(Nat) /\ x[2] = a[2] /\ Len(x) = Len(a) + Len(b) /\ Len(x) >= 2
    BY <1>2, <1>3, <2>0, MoreFollows DEF x
  <2>2. y \in Seq(Nat) /\ y[2] = x[2] /\ Len(y) = Len(x) + Len(c) /\ Len(y) >= 2
    BY <1>4, <2>1, MoreFollows DEF y
  <2>3. z \in Seq(Nat) /\ z[2] = y[2] /\ Len(z) = Len(y) + Len(d) /\ Len(z) >= 2
    BY <1>5, <2>2, MoreFollows DEF z
  <2>4. all \in Seq(Nat) /\ all[2] = z[2] /\ Len(all) = Len(z) + Len(e)
    BY <1>5, <2>3, MoreFollows DEF all
  <2> QED BY <2>1, <2>2, <2>3, <2>4
<1> HIDE DEF all
<1>7. Len(all) >= 25 /\ all[2] = t BY <1>2, <1>3, <1>4, <1>5, <1>6
<1>8. cut[2] = t
  <2>1. \A i \in 1..25 : all[i] \in Nat
    <3>1. all \in Seq(Nat) /\ Len(all) \in Nat BY <1>6, LenProperties
    <3>2. \A i \in 1..25 : i \in 1..Len(all) BY <1>7, <3>1
    <3> QED BY <3>1, <3>2, ElementOfSeq
  <2>2. \A i \in 1..(25 - 1 + 1) : cut[i] = all[1 + i - 1] BY <2>1, SubSeqProperties DEF cut
  <2>3. cut[2] = all[1 + 2 - 1] BY <2>2
  <2>4. 1 + 2 - 1 = 2 OBVIOUS
  <2> QED BY <1>7, <2>3, <2>4
<1>9. Says(mtu, t, SubSeq(mtu, 5, Len(mtu)))
  <2>1. CASE mtu = <<>> BY <2>1, EmptySays
  <2>2. CASE mtu = cut BY <1>8, <2>2, SMT DEF Says, bvlc6_decode_header, Nothing6
  <2> QED BY <1>1, <2>1, <2>2
<1>10. \A who : Content(h, ad, t, SubSeq(mtu, 5, Len(mtu)), from, who) BY <1>0, TypesApart DEF Content
<1>11. AllGood(h, ad, bip6_send_mpdu(from, to, mtu)) BY <1>9, <1>10, SentAreGood
<1> QED BY <1>11 DEF mtu

(* What the device of another make sends. *)
LEMMA OthersAreGood ==
  ASSUME Homed(held, address), NEW to
  PROVE  /\ \A mtu \in OtherToAll : AllGood(held, address, bip6_send_mpdu(Other.address, to, mtu))
         /\ \A n \in Nodes : \A mtu \in OtherToOne(n) :
              AllGood(held, address, bip6_send_mpdu(Other.address, to, mtu))
<1> DEFINE s == Other.instance from == Other.address
           Fine(mtu) == AllGood(held, address, bip6_send_mpdu(from, to, mtu))
<1>1. IsVmac(s) /\ from \in BIP6_ADDRESS /\ <<s, from>> \in held /\ encode_unsigned24(s) \in Seq(Nat)
  BY ConstantsTyped, VmacOctets DEF Homed
<1>2. /\ BVLC6_RESULT \in Teaching \ {BVLC6_ORIGINAL_UNICAST_NPDU, BVLC6_ORIGINAL_BROADCAST_NPDU}
      /\ BVLC6_ADDRESS_RESOLUTION \in Teaching \ {BVLC6_ORIGINAL_UNICAST_NPDU, BVLC6_ORIGINAL_BROADCAST_NPDU}
      /\ BVLC6_ADDRESS_RESOLUTION_ACK \in Teaching \ {BVLC6_ORIGINAL_UNICAST_NPDU, BVLC6_ORIGINAL_BROADCAST_NPDU}
      /\ BVLC6_VIRTUAL_ADDRESS_RESOLUTION \in Teaching \ {BVLC6_ORIGINAL_UNICAST_NPDU, BVLC6_ORIGINAL_BROADCAST_NPDU}
      /\ BVLC6_VIRTUAL_ADDRESS_RESOLUTION_ACK \in Teaching \ {BVLC6_ORIGINAL_UNICAST_NPDU, BVLC6_ORIGINAL_BROADCAST_NPDU}
  BY DEF Teaching, BVLC6_RESULT, BVLC6_ORIGINAL_UNICAST_NPDU, BVLC6_ORIGINAL_BROADCAST_NPDU,
       BVLC6_ADDRESS_RESOLUTION, BVLC6_ADDRESS_RESOLUTION_ACK, BVLC6_VIRTUAL_ADDRESS_RESOLUTION,
       BVLC6_VIRTUAL_ADDRESS_RESOLUTION_ACK
<1> HIDE DEF s, from
<1>3. Fine(bvlc6_encode_original_broadcast(s, <<s, Everyone>>)) BY <1>1, BroadcastsAreGood
<1>4. Fine(bvlc6_encode_virtual_address_resolution(s))
  <2>1. <<>> \in Seq(Nat) BY EmptySeq
  <2>2. encode_unsigned24(s) \o <<>> = encode_unsigned24(s) BY <1>1, ConcatEmptySeq
  <2>3. Fine(Framed(BVLC6_VIRTUAL_ADDRESS_RESOLUTION, {s}, encode_unsigned24(s) \o <<>>))
    BY <1>1, <1>2, <2>1, TeachersAreGood
  <2> QED BY <2>2, <2>3 DEF bvlc6_encode_virtual_address_resolution
<1>5. ASSUME NEW n \in Nodes PROVE Fine(bvlc6_encode_address_resolution(s, Instance[n]))
  <2>1. encode_unsigned24(Instance[n]) \in Seq(Nat) BY ConstantsTyped, VmacOctets
  <2> QED BY <1>1, <1>2, <2>1, TeachersAreGood DEF bvlc6_encode_address_resolution
<1>6. ASSUME NEW mtu \in OtherToAll PROVE Fine(mtu)
  <2> HIDE DEF Fine
  <2> QED BY <1>3, <1>4, <1>5 DEF OtherToAll, s
<1>7. ASSUME NEW n \in Nodes, NEW mtu \in OtherToOne(n) PROVE Fine(mtu)
  <2> DEFINE w == Instance[n]
  <2>0. IsVmac(w) /\ w \in Nat /\ encode_unsigned24(w) \in Seq(Nat)
    BY ConstantsTyped, VmacOctets DEF IsVmac
  <2> HIDE DEF w
  <2>1. Fine(bvlc6_encode_original_unicast(s, w, <<s, w>>)) BY <1>1, <2>0, UnicastsAreGood
  <2>2. Fine(bvlc6_encode_address_resolution_ack(s, w))
    BY <1>1, <1>2, <2>0, TeachersAreGood DEF bvlc6_encode_address_resolution_ack, bvlc6_encode_address_ack
  <2>3. Fine(bvlc6_encode_virtual_address_resolution_ack(s, w))
    BY <1>1, <1>2, <2>0, TeachersAreGood DEF bvlc6_encode_virtual_address_resolution_ack, bvlc6_encode_address_ack
  <2>4. Fine(bvlc6_encode_forwarded_address_resolution(Remote.instance, w, Remote.address))
    <3> DEFINE r == encode_unsigned24(Remote.instance) a == bvlc6_encode_address(Remote.address) q == encode_unsigned24(w)
    <3>1. r \in Seq(Nat) /\ a \in Seq(Nat) /\ q \in Seq(Nat)
      BY <2>0, ConstantsTyped, VmacOctets, AddressReadBack
    <3> HIDE DEF r, a, q
    <3>2. (r \o q) \o a \in Seq(Nat)
      <4>1. r \o q \in Seq(Nat) BY <3>1, Joined
      <4> QED BY <3>1, <4>1, Joined
    <3>3. BVLC6_FORWARDED_ADDRESS_RESOLUTION \in NoLesson BY DEF NoLesson
    <3>4. Fine(Framed(BVLC6_FORWARDED_ADDRESS_RESOLUTION, {Remote.instance, w}, (r \o q) \o a))
      BY <1>1, <3>2, <3>3, SilentAreGood
    <3> QED BY <3>4 DEF bvlc6_encode_forwarded_address_resolution, r, q, a
  <2>5. Fine(bvlc6_encode_register_foreign_device(s, 60))
    <3> DEFINE q == encode_unsigned16(60)
    <3>1. q \in Seq(Nat) BY CodeOctets
    <3> HIDE DEF q
    <3>2. encode_unsigned24(s) \o q \in Seq(Nat) BY <1>1, <3>1, Joined
    <3>3. BVLC6_REGISTER_FOREIGN_DEVICE \in NoLesson BY DEF NoLesson
    <3> QED BY <1>1, <3>2, <3>3, SilentAreGood DEF bvlc6_encode_register_foreign_device, q
  <2>6. Fine(bvlc6_encode_delete_foreign_device(s,
               [bip6_address |-> from, ttl_seconds |-> 60, ttl_seconds_remaining |-> 90]))
    <3> DEFINE entry == [bip6_address |-> from, ttl_seconds |-> 60, ttl_seconds_remaining |-> 90]
    <3>1. entry.bip6_address \in BIP6_ADDRESS /\ entry.ttl_seconds \in Nat /\ entry.ttl_seconds_remaining \in Nat
      BY <1>1
    <3> HIDE DEF entry
    <3>2. Fine(bvlc6_encode_delete_foreign_device(s, entry)) BY <1>1, <3>1, DeletionsAreGood
    <3> QED BY <3>2 DEF entry
  <2>7. Fine(bvlc6_encode_distribute_broadcast_to_network(s, <<s, Everyone>>))
    <3> DEFINE q == <<s, Everyone>>
    <3>1. q \in Seq(Nat) BY <1>1 DEF IsVmac, Everyone
    <3> HIDE DEF q
    <3>2. encode_unsigned24(s) \o q \in Seq(Nat) BY <1>1, <3>1, Joined
    <3>3. BVLC6_DISTRIBUTE_BROADCAST_TO_NETWORK \in NoLesson BY DEF NoLesson
    <3> QED BY <1>1, <3>2, <3>3, SilentAreGood DEF bvlc6_encode_distribute_broadcast_to_network, q
  <2>8. Fine(bvlc6_encode_result(s, BVLC6_RESULT_REGISTER_FOREIGN_DEVICE_NAK))
    <3> DEFINE q == encode_unsigned16(BVLC6_RESULT_REGISTER_FOREIGN_DEVICE_NAK)
    <3>1. q \in Seq(Nat) BY CodeOctets DEF BVLC6_RESULT_REGISTER_FOREIGN_DEVICE_NAK
    <3> HIDE DEF q
    <3> QED BY <1>1, <1>2, <3>1, TeachersAreGood DEF bvlc6_encode_result, q
  <2>9. Fine(bvlc6_encode_secure_bvll(<<1>>))
    <3>1. <<1>> \in Seq(Nat) OBVIOUS
    <3>2. BVLC6_SECURE_BVLL \in NoLesson BY DEF NoLesson
    <3> QED BY <1>1, <3>1, <3>2, SilentAreGood DEF bvlc6_encode_secure_bvll
  <2> HIDE DEF Fine
  <2> QED BY <1>7, <2>1, <2>2, <2>3, <2>4, <2>5, <2>6, <2>7, <2>8, <2>9 DEF OtherToOne, s, from, w
<1> QED BY <1>6, <1>7 DEF from

(* What the BBMD of another network passes on. *)
LEMMA PeersAreGood ==
  ASSUME Homed(held, address), NEW b \in BBMDs
  PROVE  AllGood(held, address,
           bip6_send_mpdu(Peer, address[b],
             bvlc6_encode_forwarded_npdu(Remote.instance, Remote.address, <<Remote.instance, Everyone>>)))
<1> DEFINE s == Remote.instance a == Remote.address
<1>1. IsVmac(s) /\ a \in BIP6_ADDRESS /\ Peer \in BIP6_ADDRESS /\ <<s, a>> \in held
  BY ConstantsTyped DEF Homed
<1>2. \A to : Comes(held, address, s, a, Peer, to) BY <1>1 DEF Comes
<1> HIDE DEF s, a
<1>3. AllGood(held, address, bip6_send_mpdu(Peer, address[b], bvlc6_encode_forwarded_npdu(s, a, <<s, Everyone>>)))
  BY <1>1, <1>2, ForwardsAreGood
<1> QED BY <1>3 DEF s, a

-----------------------------------------------------------------------------
(* The handlers. *)

(* What is handed up is for everyone or for the node, and its source is    *)
(* the device that sent it.                                                *)
UpFine(u) ==
  u # NothingUp =>
    /\ u.npdu[2] \in {Everyone, Instance[u.at]}
    /\ u.src \in {NoSource, bvlc6_vmac_address_set(u.npdu[1]).mac}

(* What a handler leaves in the table, sends and hands up is as it should  *)
(* be.                                                                     *)
Fine(n, o) ==
  /\ Tabled(held, address, n, o.list)
  /\ AllGood(held, address, o.sent)
  /\ UpFine(o.up)

(* A table that learns where a device has been stays right. *)
LEMMA LearntIsBound ==
  ASSUME NEW n, NEW t, Tabled(held, address, n, t), NEW id, IsVmac(id),
         NEW addr \in BIP6_ADDRESS, OneForwarder => MayBe(held, address, n, id, addr)
  PROVE  Tabled(held, address, n, bbmd6_add_vmac(t, id, addr))
<1> DEFINE e == bvlc6_encode_address(addr)
<1>1. e \in Seq(Nat) \ {Unbound} /\ bvlc6_decode_address(e) = addr
  <2>1. e \in Seq(Nat) /\ Len(e) = 18 /\ bvlc6_decode_address(e) = addr
    BY AddressReadBack DEF BIP6_ADDRESS_MAX
  <2> HIDE DEF e
  <2>2. e # <<>>
    <3> SUFFICES ASSUME e = <<>> PROVE FALSE OBVIOUS
    <3>1. Len(<<>>) = 0 OBVIOUS
    <3>2. Len(e) = 0 BY <3>1, Zenon
    <3> QED BY <2>1, <3>2
  <2> QED BY <2>1, <2>2 DEF Unbound
<1> HIDE DEF e
<1>2. id \in Nat BY DEF IsVmac
<1>3. bbmd6_add_vmac(t, id, addr) =
        IF Keylist_Data(t, id) = Unbound THEN Keylist_Data_Add(t, id, e) ELSE t
  BY DEF bbmd6_add_vmac, VMAC_Find_By_Key, VMAC_Add, bbmd6_address_to_vmac, e
<1>4. CASE Keylist_Data(t, id) = Unbound
  <2>1. Fits(t) BY DEF Tabled
  <2>2. /\ Fits(Keylist_Data_Add(t, id, e))
        /\ \A j, x : Binds(Keylist_Data_Add(t, id, e), j, x) <=> Binds(t, j, x) \/ (j = id /\ x = e)
    BY <1>1, <1>2, <1>4, <2>1, AddedBinding
  <2> QED BY <1>1, <1>3, <1>4, <2>2 DEF Tabled
<1>5. CASE Keylist_Data(t, id) # Unbound BY <1>3, <1>5
<1> QED BY <1>4, <1>5

(* A handler that does nothing does nothing wrong. *)
LEMMA QuietIsFine ==
  ASSUME NEW n, Tabled(held, address, n, vmac[n])
  PROVE  Fine(n, Quiet(n)) /\ Quiet(n).up = NothingUp
BY DEF Fine, Quiet, AllGood, UpFine

(* So does one that learns, and sends what is good or keeps a result. *)
LEMMA LearningIsFine ==
  ASSUME NEW n, Tabled(held, address, n, vmac[n]), NEW id, IsVmac(id),
         NEW addr \in BIP6_ADDRESS, OneForwarder => MayBe(held, address, n, id, addr)
  PROVE  /\ Fine(n, Learns(n, id, addr))
         /\ \A D : AllGood(held, address, D) => Fine(n, [Learns(n, id, addr) EXCEPT !.sent = D])
         /\ \A r : Fine(n, [Learns(n, id, addr) EXCEPT !.result = r])
<1> DEFINE l == bbmd6_add_vmac(vmac[n], id, addr)
<1>1. Tabled(held, address, n, l) BY LearntIsBound
<1>2. Learns(n, id, addr) = [list |-> l, sent |-> {}, up |-> NothingUp, result |-> lastResult[n]]
  BY DEF Learns, Quiet
<1> HIDE DEF l
<1>3. AllGood(held, address, {}) /\ UpFine(NothingUp) BY DEF AllGood, UpFine
<1> QED BY <1>1, <1>2, <1>3 DEF Fine

(* So does one that learns of the sender and hands its NPDU up. *)
LEMMA HandingUpIsFine ==
  ASSUME NEW n, Tabled(held, address, n, vmac[n]), NEW id, IsVmac(id),
         NEW addr \in BIP6_ADDRESS, OneForwarder => MayBe(held, address, n, id, addr),
         NEW w \in {Everyone, Instance[n]}
  PROVE  /\ Fine(n, HandsUp(n, id, addr, <<id, w>>))
         /\ \A D : AllGood(held, address, D) => Fine(n, [HandsUp(n, id, addr, <<id, w>>) EXCEPT !.sent = D])
<1> DEFINE l == bbmd6_add_vmac(vmac[n], id, addr)
           u == [at |-> n, src |-> bvlc6_vmac_address_set(id).mac, npdu |-> <<id, w>>]
<1>1. Tabled(held, address, n, l) BY LearntIsBound
<1>2. HandsUp(n, id, addr, <<id, w>>) = [list |-> l, sent |-> {}, up |-> u, result |-> lastResult[n]]
  <2>1. Learns(n, id, addr) = [list |-> l, sent |-> {}, up |-> NothingUp, result |-> lastResult[n]]
    BY DEF Learns, Quiet
  <2>2. Up(n, bvlc6_vmac_address_set(id).mac, <<id, w>>) = u BY DEF Up
  <2> HIDE DEF l, u
  <2> QED BY <2>1, <2>2 DEF HandsUp
<1>3. UpFine(u) BY DEF UpFine
<1>4. AllGood(held, address, {}) BY DEF AllGood
<1> HIDE DEF l, u
<1> QED BY <1>1, <1>2, <1>3, <1>4 DEF Fine

(* A BBMD that hands up its own broadcast. *)
LEMMA OwnIsFine ==
  ASSUME NEW n, Tabled(held, address, n, vmac[n]), NEW id
  PROVE  \A D : AllGood(held, address, D) =>
           Fine(n, [[Quiet(n) EXCEPT !.up = Up(n, NoSource, <<id, Everyone>>)] EXCEPT !.sent = D])
<1> DEFINE u == Up(n, NoSource, <<id, Everyone>>)
<1>1. UpFine(u) BY DEF UpFine, Up
<1> HIDE DEF u
<1> DEFINE q == [Quiet(n) EXCEPT !.up = u]
<1>2. q = [list |-> vmac[n], sent |-> {}, up |-> u, result |-> lastResult[n]] BY DEF Quiet
<1> HIDE DEF q
<1>3. ASSUME NEW D, AllGood(held, address, D)
      PROVE  Fine(n, [q EXCEPT !.sent = D])
  <2>1. [q EXCEPT !.sent = D] =
          [list |-> vmac[n], sent |-> D, up |-> u, result |-> lastResult[n]]
    BY <1>2
  <2> QED BY <1>1, <1>3, <2>1 DEF Fine
<1> QED BY <1>3 DEF u, q

(* So does one that refuses. *)
LEMMA NakIsFine ==
  ASSUME Homed(held, address), NEW n \in Nodes, Tabled(held, address, n, vmac[n]), NEW addr, NEW code \in Nat
  PROVE  Fine(n, Nak(n, addr, code))
<1>1. AllGood(held, address, bvlc6_send_result(n, addr, code)) BY AnswersAreGood
<1>2. UpFine(NothingUp) BY DEF UpFine
<1> QED BY <1>1, <1>2 DEF Fine, Nak, Quiet

(* Result codes are numbers. *)
LEMMA ResultCodes ==
  /\ BVLC6_RESULT_REGISTER_FOREIGN_DEVICE_NAK \in Nat /\ BVLC6_RESULT_DELETE_FOREIGN_DEVICE_NAK \in Nat
  /\ BVLC6_RESULT_DISTRIBUTE_BROADCAST_TO_NETWORK_NAK \in Nat /\ BVLC6_RESULT_ADDRESS_RESOLUTION_NAK \in Nat
BY DEF BVLC6_RESULT_REGISTER_FOREIGN_DEVICE_NAK, BVLC6_RESULT_DELETE_FOREIGN_DEVICE_NAK,
       BVLC6_RESULT_DISTRIBUTE_BROADCAST_TO_NETWORK_NAK, BVLC6_RESULT_ADDRESS_RESOLUTION_NAK

(* What both handlers do alike, at a node, of a datagram that is good. *)
LEMMA OtherIsFine ==
  ASSUME Homed(held, address), NEW n \in Nodes, Tabled(held, address, n, vmac[n]),
         NEW addr \in BIP6_ADDRESS, NEW t, NEW p, NEW to, Content(held, address, t, p, addr, to)
  PROVE  Fine(n, ReceiveOther(n, addr, t, p))
<1> DEFINE s == Vmac(p, 1)
<1>1. ASSUME t \in Teaching PROVE IsVmac(s) /\ (OneForwarder => MayBe(held, address, n, s, addr))
  BY <1>1 DEF Content, Teaches, MayBe
<1>2. t \in Teaching => Fine(n, Learns(n, s, addr)) BY <1>1, LearningIsFine
<1>3. Fine(n, Quiet(n)) BY QuietIsFine
<1>4. ASSUME t = BVLC6_RESULT PROVE Fine(n, ReceiveResult(n, addr, p))
  <2>1. t \in Teaching BY <1>4 DEF Teaching
  <2> DEFINE m == bvlc6_decode_result(p)
  <2>2. CASE m.consumed = 0 BY <1>3, <2>2 DEF ReceiveResult
  <2>3. CASE m.consumed # 0
    <3>1. m.vmac = s BY <2>3 DEF bvlc6_decode_result, Nothing6
    <3>2. ReceiveResult(n, addr, p) = [Learns(n, s, addr) EXCEPT !.result = m.code]
      BY <2>3, <3>1 DEF ReceiveResult
    <3> HIDE DEF m, s
    <3> QED BY <1>1, <2>1, <3>2, LearningIsFine
  <2> QED BY <2>2, <2>3
<1>5. ASSUME t = BVLC6_ORIGINAL_UNICAST_NPDU PROVE Fine(n, ReceiveOriginalUnicast(n, addr, p))
  <2>1. t \in Teaching BY <1>5 DEF Teaching
  <2> DEFINE m == bvlc6_decode_original_unicast(p)
  <2>2. CASE m.consumed # 0 /\ m.dst = Instance[n] /\ ~bip6_address_match_self(n, addr)
    <3>1. m.src = s /\ m.dst = Vmac(p, 4) /\ m.npdu = From(p, 7)
      BY <2>2 DEF bvlc6_decode_original_unicast, Nothing6
    <3>2. PICK w : From(p, 7) = <<s, w>> /\ Vmac(p, 4) \in {0, w} BY <1>5 DEF Content, ForOne
    <3>3. w = Instance[n] BY <2>2, <3>1, <3>2, ConstantsTyped
    <3>4. ReceiveOriginalUnicast(n, addr, p) = HandsUp(n, s, addr, <<s, w>>)
      BY <2>2, <3>1, <3>2 DEF ReceiveOriginalUnicast, Device_Object_Instance_Number
    <3> HIDE DEF m, s
    <3> QED BY <1>1, <2>1, <3>3, <3>4, HandingUpIsFine
  <2>3. CASE ~(m.consumed # 0 /\ m.dst = Instance[n] /\ ~bip6_address_match_self(n, addr))
    <3>1. ReceiveOriginalUnicast(n, addr, p) = Quiet(n)
      BY <2>3 DEF ReceiveOriginalUnicast, Device_Object_Instance_Number
    <3> QED BY <1>3, <3>1
  <2> QED BY <2>2, <2>3
<1>6. ASSUME t = BVLC6_ADDRESS_RESOLUTION PROVE Fine(n, bbmd6_address_resolution_handler(n, addr, p))
  <2>1. t \in Teaching BY <1>6 DEF Teaching
  <2> DEFINE m == bvlc6_decode_address_resolution(p)
             sent == bvlc6_send_address_resolution_ack(n, addr, Instance[n], s)
  <2>2. AllGood(held, address, sent) BY <1>1, <2>1, AnswersAreGood
  <2>3. Fine(n, [Learns(n, s, addr) EXCEPT !.sent = sent])
    <3> HIDE DEF sent, s
    <3> QED BY <1>1, <2>1, <2>2, LearningIsFine
  <2>4. m.consumed # 0 => m.src = s BY DEF bvlc6_decode_address_resolution, Nothing6
  <2>5. CASE bip6_address_match_self(n, addr) \/ m.consumed = 0
    BY <1>3, <2>5 DEF bbmd6_address_resolution_handler
  <2>6. CASE ~bip6_address_match_self(n, addr) /\ m.consumed # 0 /\ m.target = Instance[n]
    <3>1. bbmd6_address_resolution_handler(n, addr, p) = [Learns(n, s, addr) EXCEPT !.sent = sent]
      BY <2>4, <2>6 DEF bbmd6_address_resolution_handler, Device_Object_Instance_Number
    <3> QED BY <2>3, <3>1
  <2>7. CASE ~bip6_address_match_self(n, addr) /\ m.consumed # 0 /\ m.target # Instance[n]
    <3>1. bbmd6_address_resolution_handler(n, addr, p) = Learns(n, s, addr)
      BY <2>4, <2>7 DEF bbmd6_address_resolution_handler, Device_Object_Instance_Number
    <3> QED BY <1>2, <2>1, <3>1
  <2> QED BY <2>5, <2>6, <2>7
<1>7. ASSUME t \in {BVLC6_ADDRESS_RESOLUTION_ACK, BVLC6_VIRTUAL_ADDRESS_RESOLUTION_ACK}
      PROVE  /\ Fine(n, bbmd6_address_resolution_ack_handler(n, addr, p))
             /\ Fine(n, bbmd6_virtual_address_resolution_ack_handler(n, addr, p))
  <2>1. t \in Teaching BY <1>7 DEF Teaching
  <2> DEFINE m == bvlc6_decode_address_resolution_ack(p)
  <2>2. m.consumed # 0 => m.src = s BY DEF bvlc6_decode_address_resolution_ack, Nothing6
  <2>3. /\ bbmd6_address_resolution_ack_handler(n, addr, p) \in {Quiet(n), Learns(n, s, addr)}
        /\ bbmd6_virtual_address_resolution_ack_handler(n, addr, p) \in {Quiet(n), Learns(n, s, addr)}
    BY <2>2 DEF bbmd6_address_resolution_ack_handler, bbmd6_virtual_address_resolution_ack_handler,
         bvlc6_decode_virtual_address_resolution_ack
  <2> QED BY <1>2, <1>3, <2>1, <2>3
<1>8. ASSUME t = BVLC6_VIRTUAL_ADDRESS_RESOLUTION
      PROVE  Fine(n, bbmd6_virtual_address_resolution_handler(n, addr, p))
  <2>1. t \in Teaching BY <1>8 DEF Teaching
  <2> DEFINE m == bvlc6_decode_virtual_address_resolution(p)
             sent == bvlc6_send_virtual_address_resolution_ack(n, addr, Instance[n], s)
  <2>2. AllGood(held, address, sent) BY <1>1, <2>1, AnswersAreGood
  <2>3. Fine(n, [Learns(n, s, addr) EXCEPT !.sent = sent])
    <3> HIDE DEF sent, s
    <3> QED BY <1>1, <2>1, <2>2, LearningIsFine
  <2>4. m.consumed # 0 => m.src = s BY DEF bvlc6_decode_virtual_address_resolution, Nothing6
  <2>5. bbmd6_virtual_address_resolution_handler(n, addr, p) \in
          {Quiet(n), [Learns(n, s, addr) EXCEPT !.sent = sent]}
    BY <2>4 DEF bbmd6_virtual_address_resolution_handler, Device_Object_Instance_Number
  <2> QED BY <1>3, <2>3, <2>5
<1>9. \A code \in Nat : Fine(n, Nak(n, addr, code)) BY NakIsFine
<1> HIDE DEF s
<1> QED BY <1>3, <1>4, <1>5, <1>6, <1>7, <1>8, <1>9, ResultCodes DEF ReceiveOther

(* What a BBMD passes on to its tables comes from where it says. *)
LEMMA PassedOnAreGood ==
  ASSUME Homed(held, address), NEW b \in BBMDs, NEW s, IsVmac(s), NEW a \in BIP6_ADDRESS,
         OneForwarder => <<s, a>> \in held \/ (s = Remote.instance /\ AtABBMD(address, a))
  PROVE  LET copy == bvlc6_encode_forwarded_npdu(s, a, <<s, Everyone>>) IN
         /\ AllGood(held, address, bbmd6_send_pdu_bdt(b, copy))
         /\ AllGood(held, address, bbmd6_send_pdu_fdt(b, copy))
<1> DEFINE copy == bvlc6_encode_forwarded_npdu(s, a, <<s, Everyone>>)
<1>1. address[b] \in BIP6_ADDRESS BY BIP6Assumption, HomedTyped
<1>2. ASSUME NEW x \in BBMD_Table[b] \cup FD_Table[b], bvlc6_address_different(bip6_get_addr(b), x)
      PROVE  AllGood(held, address, bip6_send_mpdu(address[b], x, copy))
  <2>1. x # address[b] BY <1>2 DEF bvlc6_address_different, bip6_get_addr
  <2>2. ASSUME OneForwarder, NEW d \in bip6_send_mpdu(address[b], x, copy)
        PROVE  Comes(held, address, s, a, address[b], d.to)
    <3>1. x # Group BY <2>2, BIP6Assumption DEF OneForwarder
    <3>2. d.to = x BY <3>1, Datagrams
    <3>3. \A c \in BBMDs : c = b BY <2>2 DEF OneForwarder
    <3> QED BY <2>1, <2>2, <3>2, <3>3 DEF Comes
  <2> QED BY <1>1, <2>2, ForwardsAreGood
<1> HIDE DEF copy
<1>3. AllGood(held, address, bbmd6_send_pdu_bdt(b, copy)) BY <1>2 DEF AllGood, bbmd6_send_pdu_bdt
<1>4. AllGood(held, address, bbmd6_send_pdu_fdt(b, copy)) BY <1>2 DEF AllGood, bbmd6_send_pdu_fdt
<1> QED BY <1>3, <1>4 DEF copy

(* A node knows its own address. *)
LEMMA AddressesMatch ==
  ASSUME NEW n, NEW addr, addr = address[n]
  PROVE  bip6_address_match_self(n, addr)
BY DEF bip6_address_match_self, bvlc6_address_different, bip6_get_addr

(* Whatever good datagram a BBMD handles, it does so rightly (h_bbmd6.c    *)
(* handler_bbmd6_for_bbmd).                                                *)
LEMMA BBMDIsFine ==
  ASSUME Homed(held, address), NEW n \in BBMDs, Tabled(held, address, n, vmac[n]),
         NEW addr \in BIP6_ADDRESS, NEW t, NEW p, Content(held, address, t, p, addr, address[n])
  PROVE  Fine(n, handler_bbmd6_for_bbmd(n, addr, t, p))
<1> DEFINE s == Vmac(p, 1)
           original == bvlc6_decode_original_broadcast(p)
           forwarded == bvlc6_decode_forwarded_npdu(p)
           own == bip6_address_match_self(n, addr)
           result == handler_bbmd6_for_bbmd(n, addr, t, p)
           npdu == <<s, Everyone>>
<1>0. n \in Nodes BY BIP6Assumption
<1>1. CASE t = BVLC6_ORIGINAL_BROADCAST_NPDU /\ original.consumed # 0
  <2> DEFINE copy == bvlc6_encode_forwarded_npdu(s, addr, npdu)
             sent == bbmd6_send_pdu_bdt(n, copy) \cup bbmd6_send_pdu_fdt(n, copy)
  <2>1. t \in Teaching BY <1>1 DEF Teaching
  <2>2. IsVmac(s) /\ <<s, addr>> \in held /\ From(p, 4) = npdu
    BY <1>1, <2>1 DEF Content, Teaches, ForMany
  <2>3. original.src = s /\ original.npdu = npdu
    BY <1>1, <2>2 DEF bvlc6_decode_original_broadcast, Nothing6
  <2>4. /\ own => result = [[Quiet(n) EXCEPT !.up = Up(n, NoSource, npdu)] EXCEPT !.sent = sent]
        /\ ~own => result = [HandsUp(n, s, addr, npdu) EXCEPT !.sent = sent]
    BY <1>1, <2>3, TypesApart DEF handler_bbmd6_for_bbmd
  <2> HIDE DEF s
  <2>5. AllGood(held, address, sent) BY <2>2, PassedOnAreGood DEF AllGood
  <2> HIDE DEF sent, result, own
  <2>6. CASE own
    <3>1. Fine(n, [[Quiet(n) EXCEPT !.up = Up(n, NoSource, npdu)] EXCEPT !.sent = sent])
      BY <2>5, OwnIsFine
    <3>2. Fine(n, result) BY <2>4, <2>6, <3>1
    <3> QED BY <3>2 DEF result
  <2>7. CASE ~own
    <3>1. OneForwarder => MayBe(held, address, n, s, addr) BY <2>2 DEF MayBe
    <3>2. Fine(n, [HandsUp(n, s, addr, npdu) EXCEPT !.sent = sent])
      BY <2>2, <2>5, <3>1, HandingUpIsFine
    <3>3. Fine(n, result) BY <2>4, <2>7, <3>2
    <3> QED BY <3>3 DEF result
  <2> QED BY <2>6, <2>7
<1>2. CASE t = BVLC6_FORWARDED_NPDU /\ forwarded.consumed # 0
  <2> DEFINE a == bvlc6_decode_address(From(p, 4))
             copy == bvlc6_encode_forwarded_npdu(s, addr, npdu)
             again == bip6_send_mpdu(address[n], bip6_get_broadcast_addr, copy)
             sent == again \cup bbmd6_send_pdu_fdt(n, copy)
  <2>1. /\ IsVmac(s) /\ a \in BIP6_ADDRESS /\ From(p, 4 + BIP6_ADDRESS_MAX) = npdu
        /\ OneForwarder => Comes(held, address, s, a, addr, address[n])
    BY <1>2 DEF Content, Forwarded, ForMany
  <2>2. forwarded.src = s /\ forwarded.address = a /\ forwarded.npdu = npdu
    BY <1>2, <2>1 DEF bvlc6_decode_forwarded_npdu, Nothing6
  <2>3. /\ own => result = [[Quiet(n) EXCEPT !.up = Up(n, NoSource, npdu)] EXCEPT !.sent = sent]
        /\ ~own => result = [HandsUp(n, s, a, npdu) EXCEPT !.sent = sent]
    BY <1>2, <2>2, TypesApart DEF handler_bbmd6_for_bbmd
  <2> HIDE DEF s, a
  <2>4. OneForwarder => /\ s = Remote.instance /\ AtABBMD(address, addr)
                        /\ addr # address[n] => <<s, a>> \in held
    BY <2>1 DEF Comes, AtABBMD
  <2>5. AllGood(held, address, bbmd6_send_pdu_fdt(n, copy)) BY <2>1, <2>4, PassedOnAreGood
  <2>6. AllGood(held, address, again)
    <3>1. address[n] \in BIP6_ADDRESS BY <1>0, HomedTyped
    <3>2. ASSUME OneForwarder PROVE \A x : Comes(held, address, s, addr, address[n], x)
      <4>1. \A c \in BBMDs : c = n BY <3>2 DEF OneForwarder
      <4> QED BY <2>4, <3>2, <4>1 DEF Comes
    <3> QED BY <2>1, <3>1, <3>2, ForwardsAreGood
  <2>7. AllGood(held, address, sent) BY <2>5, <2>6 DEF AllGood
  <2> HIDE DEF sent, result, own
  <2>8. CASE own
    <3>1. Fine(n, [[Quiet(n) EXCEPT !.up = Up(n, NoSource, npdu)] EXCEPT !.sent = sent])
      BY <2>7, OwnIsFine
    <3>2. Fine(n, result) BY <2>3, <2>8, <3>1
    <3> QED BY <3>2 DEF result
  <2>9. CASE ~own
    <3>1. addr # address[n] BY <2>9, AddressesMatch DEF own
    <3>2. OneForwarder => MayBe(held, address, n, s, a) BY <2>4, <3>1 DEF MayBe
    <3>3. Fine(n, [HandsUp(n, s, a, npdu) EXCEPT !.sent = sent])
      BY <2>1, <2>7, <3>2, HandingUpIsFine
    <3>4. Fine(n, result) BY <2>3, <2>9, <3>3
    <3> QED BY <3>4 DEF result
  <2> QED BY <2>8, <2>9
<1>3. CASE /\ ~(t = BVLC6_ORIGINAL_BROADCAST_NPDU /\ original.consumed # 0)
           /\ ~(t = BVLC6_FORWARDED_NPDU /\ forwarded.consumed # 0)
  <2>1. result = ReceiveOther(n, addr, t, p) BY <1>3 DEF handler_bbmd6_for_bbmd
  <2> QED BY <1>0, <2>1, OtherIsFine
<1> QED BY <1>1, <1>2, <1>3

(* So does a node that is no BBMD (handler_bbmd6_for_non_bbmd). *)
LEMMA NonBBMDIsFine ==
  ASSUME Homed(held, address), NEW n \in Nodes \ BBMDs, Tabled(held, address, n, vmac[n]),
         NEW addr \in BIP6_ADDRESS, NEW t, NEW p, NEW to, Content(held, address, t, p, addr, to)
  PROVE  Fine(n, handler_bbmd6_for_non_bbmd(n, addr, t, p))
<1> DEFINE s == Vmac(p, 1)
           original == bvlc6_decode_original_broadcast(p)
           forwarded == bvlc6_decode_forwarded_npdu(p)
           own == bip6_address_match_self(n, addr)
           result == handler_bbmd6_for_non_bbmd(n, addr, t, p)
           npdu == <<s, Everyone>>
<1>1. CASE t = BVLC6_ORIGINAL_BROADCAST_NPDU /\ original.consumed # 0 /\ ~own
  <2>1. t \in Teaching BY <1>1 DEF Teaching
  <2>2. IsVmac(s) /\ <<s, addr>> \in held /\ From(p, 4) = npdu
    BY <1>1, <2>1 DEF Content, Teaches, ForMany
  <2>3. original.src = s /\ original.npdu = npdu
    BY <1>1, <2>2 DEF bvlc6_decode_original_broadcast, Nothing6
  <2>4. result = HandsUp(n, s, addr, npdu)
    BY <1>1, <2>3, TypesApart DEF handler_bbmd6_for_non_bbmd
  <2>5. OneForwarder => MayBe(held, address, n, s, addr) BY <2>2 DEF MayBe
  <2> HIDE DEF s, result
  <2>6. Fine(n, HandsUp(n, s, addr, npdu)) BY <2>2, <2>5, HandingUpIsFine
  <2>7. Fine(n, result) BY <2>4, <2>6
  <2> QED BY <2>7 DEF result
<1>2. CASE t = BVLC6_FORWARDED_NPDU /\ forwarded.consumed # 0 /\ ~own
  <2> DEFINE a == bvlc6_decode_address(From(p, 4))
  <2>1. /\ IsVmac(s) /\ a \in BIP6_ADDRESS /\ From(p, 4 + BIP6_ADDRESS_MAX) = npdu
        /\ OneForwarder => Comes(held, address, s, a, addr, to)
    BY <1>2 DEF Content, Forwarded, ForMany
  <2>2. forwarded.src = s /\ forwarded.address = a /\ forwarded.npdu = npdu
    BY <1>2, <2>1 DEF bvlc6_decode_forwarded_npdu, Nothing6
  <2>3. result = HandsUp(n, s, a, npdu) BY <1>2, <2>2, TypesApart DEF handler_bbmd6_for_non_bbmd
  <2>4. OneForwarder => MayBe(held, address, n, s, a) BY <2>1 DEF MayBe, Comes
  <2> HIDE DEF s, a, result
  <2>5. Fine(n, HandsUp(n, s, a, npdu)) BY <2>1, <2>4, HandingUpIsFine
  <2>6. Fine(n, result) BY <2>3, <2>5
  <2> QED BY <2>6 DEF result
<1>3. CASE /\ ~(t = BVLC6_ORIGINAL_BROADCAST_NPDU /\ original.consumed # 0 /\ ~own)
           /\ ~(t = BVLC6_FORWARDED_NPDU /\ forwarded.consumed # 0 /\ ~own)
  <2>1. result = ReceiveOther(n, addr, t, p) BY <1>3 DEF handler_bbmd6_for_non_bbmd
  <2> QED BY <2>1, OtherIsFine
<1> QED BY <1>1, <1>2, <1>3

-----------------------------------------------------------------------------
(* The steps of the network. *)

(* Whatever a node receives. *)
LEMMA HandlerIsFine ==
  ASSUME Homed(held, address), NEW n \in Nodes, Tabled(held, address, n, vmac[n]),
         NEW d, Good(held, address, d), d.to = address[n]
  PROVE  Fine(n, bvlc6_handler(n, d.from, d.mtu))
<1> DEFINE header == bvlc6_decode_header(d.mtu)
           p == SubSeq(d.mtu, 5, Len(d.mtu))
           result == bvlc6_handler(n, d.from, d.mtu)
<1>1. /\ header.consumed # 4 => result = Quiet(n)
      /\ header.consumed = 4 /\ n \in BBMDs => result = handler_bbmd6_for_bbmd(n, d.from, header.type, p)
      /\ header.consumed = 4 /\ n \notin BBMDs
           => result = handler_bbmd6_for_non_bbmd(n, d.from, header.type, p)
  BY DEF bvlc6_handler
<1>2. d.from \in BIP6_ADDRESS BY DEF Good
<1>3. header.consumed = 4 => Content(held, address, header.type, p, d.from, address[n])
  BY DEF Good
<1> HIDE DEF header, p, result
<1>4. CASE header.consumed # 4
  <2>1. Fine(n, result) BY <1>1, <1>4, QuietIsFine
  <2> QED BY <2>1 DEF result
<1>5. CASE header.consumed = 4 /\ n \in BBMDs
  <2>1. Fine(n, result) BY <1>1, <1>2, <1>3, <1>5, BBMDIsFine
  <2> QED BY <2>1 DEF result
<1>6. CASE header.consumed = 4 /\ n \notin BBMDs
  <2>1. Fine(n, result) BY <1>1, <1>2, <1>3, <1>6, NonBBMDIsFine
  <2> QED BY <2>1 DEF result
<1> QED BY <1>4, <1>5, <1>6

(* The inductive invariant: every table and every datagram under way is    *)
(* right, and so is what was handed up last.                               *)
LinkIInv ==
  /\ vmac = [n \in Nodes |-> vmac[n]]
  /\ Homed(held, address)
  /\ \A n \in Nodes : Tabled(held, address, n, vmac[n])
  /\ AllGood(held, address, wire)
  /\ UpFine(up)

(* A new table binds nothing. *)
LEMMA NewTable ==
  ASSUME NEW h, NEW ad, NEW n PROVE Tabled(h, ad, n, bvlc6_init)
<1>1. NewArray = [size |-> 0, array |-> <<>>] /\ Count(NewArray) = 0 BY DEF NewArray, Count
<1>2. CheckArraySize(NewArray) = [size |-> 0 + Chunk, array |-> <<>>]
  BY <1>1, ChunkAssumption DEF CheckArraySize
<1>3. bvlc6_init = [size |-> 0 + Chunk, array |-> <<>>] BY <1>2 DEF bvlc6_init, VMAC_Init, Keylist_Create
<1>4. 0 + Chunk \in Nat BY ChunkAssumption
<1>5. Count(bvlc6_init) = 0 /\ bvlc6_init.array = <<>> /\ bvlc6_init.size \in Nat
  BY <1>3, <1>4 DEF Count
<1>6. bvlc6_init \in [size : Nat, array : Seq(Pairs)]
  <2>1. <<>> \in Seq(Pairs) BY EmptySeq
  <2> QED BY <1>3, <1>4, <2>1
<1>7. Fits(bvlc6_init)
  BY <1>5, <1>6 DEF Fits, IsTable
<1>8. \A k, e : ~Binds(bvlc6_init, k, e) BY <1>5 DEF Binds
<1> QED BY <1>7, <1>8 DEF Tabled

(* The network starts so. *)
LEMMA LinkInitInvariant == LinkInit => LinkIInv
<1> SUFFICES ASSUME LinkInit PROVE LinkIInv OBVIOUS
<1> USE DEF LinkInit
<1>1. vmac = [n \in Nodes |-> vmac[n]] OBVIOUS
<1>2. Homed(held, address) BY BIP6Assumption DEF Homed
<1>3. \A n \in Nodes : Tabled(held, address, n, vmac[n])
  <2> SUFFICES ASSUME NEW n \in Nodes PROVE Tabled(held, address, n, vmac[n]) OBVIOUS
  <2>1. vmac[n] = bvlc6_init OBVIOUS
  <2> QED BY <2>1, NewTable
<1>4. AllGood(held, address, wire) /\ UpFine(up) BY DEF AllGood, UpFine
<1> QED BY <1>1, <1>2, <1>3, <1>4 DEF LinkIInv

(* A step that sends what is good and changes nothing else. *)
LEMMA SendingKeeps ==
  ASSUME LinkIInv, NEW sent, AllGood(held, address, sent), wire' = wire \cup sent,
         up' = NothingUp, UNCHANGED <<address, vmac, held>>
  PROVE  LinkIInv'
<1>1. AllGood(held, address, wire') BY DEF LinkIInv, AllGood
<1>2. UpFine(up') BY DEF UpFine
<1> QED BY <1>1, <1>2 DEF LinkIInv

(* What the network layer sends keeps it so. *)
LEMMA SendKeeps ==
  ASSUME LinkIInv, NEW n \in Nodes, Send(n) PROVE LinkIInv'
<1> USE DEF Send, Put
<1>0. Homed(held, address) BY DEF LinkIInv
<1>1. PICK sent : AllGood(held, address, sent) /\ wire' = wire \cup sent
  BY <1>0, PdusAreGood
<1> QED BY <1>1, SendingKeeps

(* So does a registration with a BBMD, *)
LEMMA RegisterKeeps ==
  ASSUME LinkIInv, NEW n \in Nodes, Register(n) PROVE LinkIInv'
<1>0. Homed(held, address) BY DEF LinkIInv
<1>1. AllGood(held, address, bvlc6_register_with_bbmd(n, Other.address, 60)) BY <1>0, AnswersAreGood
<1> QED BY <1>1, SendingKeeps DEF Register, Put

(* a node that starts again, with another address if it is no BBMD, *)
LEMMA RestartKeeps ==
  ASSUME LinkIInv, NEW n \in Nodes, Restart(n) PROVE LinkIInv'
<1>1. PICK a \in IF n \in BBMDs THEN {address[n]} ELSE Sites \ {address[m] : m \in Nodes \ {n}} :
         /\ address' = [address EXCEPT ![n] = a]
         /\ held' = held \cup {<<Instance[n], a>>}
  BY DEF Restart
<1>2. /\ vmac' = [vmac EXCEPT ![n] = bvlc6_init] /\ up' = NothingUp /\ wire' = wire
  BY DEF Restart
<1>3. Homed(held, address) BY DEF LinkIInv
<1>4. address \in [Nodes -> Sites] BY <1>3 DEF Homed
<1>5. a \in Sites BY <1>1, <1>4
<1>6. Homed(held', address') BY <1>1, <1>3, <1>5 DEF Homed
<1>7. held \subseteq held' BY <1>1
<1>8. \A b \in BBMDs : address'[b] = address[b] BY <1>1, <1>4, BIP6Assumption
<1>9. /\ \A d : Good(held, address, d) => Good(held', address', d)
      /\ \A m, t : Tabled(held, address, m, t) => Tabled(held', address', m, t)
  BY <1>7, <1>8, GoodRemains
<1>10. vmac' = [m \in Nodes |-> vmac'[m]] BY <1>2 DEF LinkIInv
<1>11. \A m \in Nodes : vmac'[m] = IF m = n THEN bvlc6_init ELSE vmac[m] BY <1>2 DEF LinkIInv
<1>12. \A m \in Nodes : Tabled(held', address', m, vmac'[m]) BY <1>9, <1>11, NewTable DEF LinkIInv
<1>13. AllGood(held', address', wire') BY <1>2, <1>9 DEF LinkIInv, AllGood
<1>14. UpFine(up') BY <1>2 DEF UpFine
<1> QED BY <1>6, <1>10, <1>12, <1>13, <1>14 DEF LinkIInv

(* a node that receives a datagram, which may have another copy, *)
LEMMA ReceiveKeeps ==
  ASSUME LinkIInv, NEW n \in Nodes, Receive(n) PROVE LinkIInv'
<1>1. PICK d \in wire :
        /\ d.to = address[n]
        /\ LET o == bvlc6_handler(n, d.from, d.mtu)
               left == (wire \ {d}) \cup o.sent
           IN /\ wire' = left \/ wire' = left \cup {d}
              /\ vmac' = [vmac EXCEPT ![n] = o.list]
              /\ up' = o.up
  BY DEF Receive
<1>2. address' = address /\ held' = held BY DEF Receive
<1> DEFINE o == bvlc6_handler(n, d.from, d.mtu)
<1>3. Fine(n, o) BY <1>1, HandlerIsFine DEF LinkIInv, AllGood
<1> HIDE DEF o
<1>4. wire' \subseteq wire \cup o.sent BY <1>1 DEF o
<1>5. vmac' = [vmac EXCEPT ![n] = o.list] /\ up' = o.up BY <1>1 DEF o
<1>6. vmac' = [m \in Nodes |-> vmac'[m]] BY <1>5 DEF LinkIInv
<1>7. \A m \in Nodes : vmac'[m] = IF m = n THEN o.list ELSE vmac[m] BY <1>5 DEF LinkIInv
<1>8. \A m \in Nodes : Tabled(held, address, m, vmac'[m]) BY <1>3, <1>7 DEF LinkIInv, Fine
<1>9. AllGood(held, address, wire') BY <1>3, <1>4 DEF LinkIInv, Fine, AllGood
<1>10. UpFine(up') BY <1>3, <1>5 DEF Fine
<1> QED BY <1>2, <1>6, <1>8, <1>9, <1>10 DEF LinkIInv

(* a datagram that is lost, *)
LEMMA LoseKeeps == ASSUME LinkIInv, Lose PROVE LinkIInv'
<1>1. /\ wire' \subseteq wire /\ up' = NothingUp
      /\ address' = address /\ vmac' = vmac /\ held' = held
  BY DEF Lose
<1>2. AllGood(held, address, wire') BY <1>1 DEF LinkIInv, AllGood
<1>3. UpFine(up') BY <1>1 DEF UpFine
<1> QED BY <1>1, <1>2, <1>3 DEF LinkIInv

(* what a device of another make sends, *)
LEMMA OtherSendsKeeps == ASSUME LinkIInv, OtherSends PROVE LinkIInv'
<1>0. Homed(held, address) BY DEF LinkIInv
<1>1. PICK sent : AllGood(held, address, sent) /\ wire' = wire \cup sent
  BY <1>0, OthersAreGood DEF OtherSends, Put
<1> QED BY <1>1, SendingKeeps DEF OtherSends

(* and what the BBMD of another network passes on. *)
LEMMA PeerForwardsKeeps == ASSUME LinkIInv, PeerForwards PROVE LinkIInv'
<1>0. Homed(held, address) BY DEF LinkIInv
<1>1. PICK sent : AllGood(held, address, sent) /\ wire' = wire \cup sent
  BY <1>0, PeersAreGood DEF PeerForwards, Put
<1> QED BY <1>1, SendingKeeps DEF PeerForwards

(* No step breaks it. *)
LEMMA LinkStepInvariant == LinkIInv /\ [LinkNext]_linkVars => LinkIInv'
<1> SUFFICES ASSUME LinkIInv, [LinkNext]_linkVars PROVE LinkIInv' OBVIOUS
<1>1. ASSUME NEW n \in Nodes, Send(n) PROVE LinkIInv' BY <1>1, SendKeeps
<1>2. ASSUME NEW n \in Nodes, Register(n) PROVE LinkIInv' BY <1>2, RegisterKeeps
<1>3. ASSUME NEW n \in Nodes, Restart(n) PROVE LinkIInv' BY <1>3, RestartKeeps
<1>4. ASSUME NEW n \in Nodes, Receive(n) PROVE LinkIInv' BY <1>4, ReceiveKeeps
<1>5. CASE Lose BY <1>5, LoseKeeps
<1>6. CASE OtherSends BY <1>6, OtherSendsKeeps
<1>7. CASE PeerForwards BY <1>7, PeerForwardsKeeps
<1>8. CASE UNCHANGED linkVars BY <1>8 DEF linkVars, LinkIInv
<1> QED BY <1>1, <1>2, <1>3, <1>4, <1>5, <1>6, <1>7, <1>8 DEF LinkNext

(* In every state all tables, all datagrams under way and what is handed   *)
(* up are as they should be, for any nodes, instances, addresses and       *)
(* tables of BBMDs, and any number of datagrams and copies.                *)
THEOREM LinkInvariant == LinkSpec => []LinkIInv
BY LinkInitInvariant, LinkStepInvariant, PTL DEF LinkSpec

(* No node hands up an NPDU that is for another device, nor under another  *)
(* name, whichever datagrams are lost, copied, late or meant for a node    *)
(* that had the address before.                                            *)
THEOREM OnlyMineHolds == LinkSpec => []OnlyMine
<1>1. LinkIInv => OnlyMine BY DEF LinkIInv, UpFine, OnlyMine
<1> QED BY <1>1, LinkInvariant, PTL

(* With one BBMD on the network, and the group in none of its tables, a    *)
(* table has a device at an address it has had, but for a device of        *)
(* another network, which a node that is no BBMD may have at a BBMD.       *)
THEOREM BoundWhereItWasHolds ==
  ASSUME OneForwarder PROVE LinkSpec => []BoundWhereItWas
<1>1. LinkIInv => BoundWhereItWas
  <2> SUFFICES ASSUME LinkIInv, NEW n \in Nodes, NEW i \in 0..(Count(vmac[n]) - 1)
               PROVE LET e == Node(vmac[n], i)
                         a == bvlc6_decode_address(e.data)
                     IN \/ <<e.key, a>> \in held
                        \/ /\ e.key = Remote.instance /\ n \notin BBMDs
                           /\ a = Peer \/ \E b \in BBMDs : a = address[b]
    BY DEF BoundWhereItWas
  <2> DEFINE e == Node(vmac[n], i)
  <2>1. Binds(vmac[n], e.key, e.data) BY DEF Binds
  <2>2. MayBe(held, address, n, e.key, bvlc6_decode_address(e.data)) BY <2>1 DEF LinkIInv, Tabled
  <2> HIDE DEF e
  <2> QED BY <2>2 DEF MayBe, AtABBMD, e
<1> QED BY <1>1, LinkInvariant, PTL

(* The table of every node is a map, whatever it has learnt in whatever    *)
(* order: every entry is found by its key and by its address, deleting one *)
(* leaves all others, the cleanup leaves none.                             *)
THEOREM TableIsAMapHolds == LinkSpec => []TableIsAMap
<1>1. ASSUME NEW t, Fits(t)
      PROVE  /\ Count(t) <= t.size
             /\ Count(VMAC_Cleanup(t)) = 0
             /\ \A i \in 0..(Count(t) - 1) :
                  LET e == Node(t, i) IN
                  /\ VMAC_Find_By_Key(t, e.key) = e.data
                  /\ VMAC_Find_By_Key(t, VMAC_Find_By_Data(t, e.data)) = e.data
             /\ \A v \in Known :
                  LET less == VMAC_Delete(t, v) IN
                  /\ Count(less) <= less.size
                  /\ \A w \in Known : VMAC_Find_By_Key(less, w) =
                       IF w = v THEN Unbound ELSE VMAC_Find_By_Key(t, w)
  <2>0. IsTable(t) BY <1>1 DEF Fits
  <2>1. Count(t) <= t.size /\ Count(VMAC_Cleanup(t)) = 0 BY <1>1, CleanupLeavesNone DEF Fits
  <2>2. ASSUME NEW i \in 0..(Count(t) - 1)
        PROVE  LET e == Node(t, i) IN
               /\ VMAC_Find_By_Key(t, e.key) = e.data
               /\ VMAC_Find_By_Key(t, VMAC_Find_By_Data(t, e.data)) = e.data
    <3> DEFINE e == Node(t, i)
    <3>1. e \in Pairs BY <2>0, KeysOrdered
    <3>2. Binds(t, e.key, e.data) BY DEF Binds
    <3> HIDE DEF e
    <3>3. VMAC_Find_By_Key(t, e.key) = e.data
      BY <2>0, <3>1, <3>2, LookupIsBinding DEF Pairs, VMAC_Find_By_Key
    <3> DEFINE k == VMAC_Find_By_Data(t, e.data)
    <3>4. Binds(t, k, e.data) BY <2>0, <3>2, FoundByAddress
    <3> HIDE DEF k
    <3>5. k \in Nat BY <2>0, <3>4, KeysOrdered DEF Binds, Pairs
    <3>6. VMAC_Find_By_Key(t, k) = e.data
      BY <2>0, <3>4, <3>5, LookupIsBinding DEF VMAC_Find_By_Key
    <3> QED BY <3>3, <3>6 DEF e, k
  <2>3. ASSUME NEW v \in Known
        PROVE  LET less == VMAC_Delete(t, v) IN
               /\ Count(less) <= less.size
               /\ \A w \in Known : VMAC_Find_By_Key(less, w) =
                    IF w = v THEN Unbound ELSE VMAC_Find_By_Key(t, w)
    <3> DEFINE less == VMAC_Delete(t, v)
    <3>1. v \in Nat BY ConstantsTyped
    <3>2. Fits(less) /\ \A j, e : Binds(less, j, e) <=> Binds(t, j, e) /\ j # v
      BY <1>1, <3>1, DeletingKeepsTheOthers
    <3> HIDE DEF less
    <3>3. IsTable(less) /\ Count(less) <= less.size BY <3>2 DEF Fits
    <3>4. ASSUME NEW w \in Known
          PROVE  VMAC_Find_By_Key(less, w) = IF w = v THEN Unbound ELSE VMAC_Find_By_Key(t, w)
      <4>0. w \in Nat BY ConstantsTyped
      <4>1. /\ \A e : Binds(t, w, e) => e # Unbound /\ Keylist_Data(t, w) = e
            /\ Keylist_Data(t, w) # Unbound => Binds(t, w, Keylist_Data(t, w))
        BY <2>0, <4>0, LookupIsBinding
      <4>2. /\ \A e : Binds(less, w, e) => e # Unbound /\ Keylist_Data(less, w) = e
            /\ Keylist_Data(less, w) # Unbound => Binds(less, w, Keylist_Data(less, w))
        BY <3>3, <4>0, LookupIsBinding
      <4>3. CASE w = v BY <3>2, <4>2, <4>3 DEF VMAC_Find_By_Key
      <4>4. CASE w # v BY <3>2, <4>1, <4>2, <4>4 DEF VMAC_Find_By_Key
      <4> QED BY <4>3, <4>4
    <3> QED BY <3>3, <3>4 DEF less
  <2> QED BY <2>1, <2>2, <2>3
<1>2. LinkIInv => TableIsAMap
  <2> SUFFICES ASSUME LinkIInv, NEW n \in Nodes, NEW t, t = vmac[n]
               PROVE /\ Count(t) <= t.size
                     /\ Count(VMAC_Cleanup(t)) = 0
                     /\ \A i \in 0..(Count(t) - 1) :
                          LET e == Node(t, i) IN
                          /\ VMAC_Find_By_Key(t, e.key) = e.data
                          /\ VMAC_Find_By_Key(t, VMAC_Find_By_Data(t, e.data)) = e.data
                     /\ \A v \in Known :
                          LET less == VMAC_Delete(t, v) IN
                          /\ Count(less) <= less.size
                          /\ \A w \in Known : VMAC_Find_By_Key(less, w) =
                               IF w = v THEN Unbound ELSE VMAC_Find_By_Key(t, w)
    BY DEF TableIsAMap
  <2>1. Fits(t) BY DEF LinkIInv, Tabled
  <2> QED BY <1>1, <2>1
<1> QED BY <1>2, LinkInvariant, PTL
=============================================================================
