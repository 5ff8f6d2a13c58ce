----------------------------- MODULE COV_proofs -----------------------------
(***************************************************************************)
(* Proofs about change-of-value subscriptions, for any numbers of entries, *)
(* addresses, clients, objects, transaction slots and invoke ids, and any  *)
(* lifetimes.                                                              *)
(***************************************************************************)
EXTENDS COV, TSM_proofs

(* The parts of the invariant, as predicates on values of the tables.      *)
SubsOK(subs) == subs \in [Subs -> Subscription \cup {NoSubscription}]

AddrsOK(addrs) == addrs \in [Addrs -> Sources \cup {NoSource}]

PointedAt(subs, a) ==
    \E i \in Subs : subs[i] # NoSubscription /\ subs[i].dest_index = a

Matched(subs, addrs) ==
    /\ \A a \in Addrs : addrs[a] # NoSource <=> PointedAt(subs, a)
    /\ \A a, b \in Addrs : addrs[a] = addrs[b] /\ addrs[a] # NoSource => a = b

Owner(sub, id) ==
    sub # NoSubscription /\ sub.issueConfirmedNotifications /\ sub.invokeID = id

Owned(list, subs) ==
    \A s \in Slots :
        list[s].InvokeID # 0 => \E i \in Subs : Owner(subs[i], list[s].InvokeID)

TaskOK ==
    /\ cov_task_state \in {"IDLE", "MARK", "CLEAR", "FREE", "SEND"}
    /\ index \in Subs
    /\ Change_Of_Value \subseteq Objects

OwedOK(set, subs) == set \subseteq {i \in Subs : subs[i] # NoSubscription}

(* The inductive invariant.  That transactions are owned needs unique      *)
(* invoke ids (TableOK): freeing the id of a subscription that ends must   *)
(* not leave another slot with it.  That freed addresses are unused needs  *)
(* the addresses to be distinct.                                           *)
COVInv ==
    /\ TSMInv
    /\ DCCTypeOK
    /\ TaskOK
    /\ SubsOK(COV_Subscriptions)
    /\ AddrsOK(COV_Addresses)
    /\ OwedOK(owed, COV_Subscriptions)
    /\ Matched(COV_Subscriptions, COV_Addresses)
    /\ Owned(TSM_List, COV_Subscriptions)

----------------------------------------------------------------------------
(* Facts about the constants.                                              *)

(* NO_INDEX, which is 255, is no entry of the address list.                *)
LEMMA IndexBounds ==
    /\ Subs \subseteq Nat /\ Addrs \subseteq Nat
    /\ 0 \in Subs /\ 0 \in Addrs
    /\ NO_INDEX \notin Addrs
    /\ 0 \in 0 .. MAX_INVOKE_ID /\ InvokeIDs \subseteq 0 .. MAX_INVOKE_ID
    /\ 0 \notin InvokeIDs
<1>1. /\ MAX_COV_SUBCRIPTIONS \in Nat \ {0} /\ MAX_COV_ADDRESSES \in 1 .. 255
      /\ MAX_INVOKE_ID \in Nat
  BY COVConstants, TSMConstants
<1>2. QED
  BY <1>1 DEF Subs, Addrs, NO_INDEX, InvokeIDs

(* A subscription is not the empty entry.                                  *)
LEMMA SubscriptionIsSome ==
    ASSUME NEW s \in Subscription
    PROVE  s # NoSubscription
  BY COVConstants

----------------------------------------------------------------------------
(* The address list.                                                       *)

(* cov_address_add finds the address where it is listed, else a free       *)
(* entry, else reports that there is none.                                 *)
LEMMA WhereAddressGoes ==
    ASSUME AddrsOK(COV_Addresses), NEW src \in Sources
    PROVE  \/ /\ AddressIndex(src) \in Addrs
              /\ COV_Addresses[AddressIndex(src)] = src
           \/ /\ AddressIndex(src) \in Addrs
              /\ COV_Addresses[AddressIndex(src)] = NoSource
              /\ \A a \in Addrs : COV_Addresses[a] # src
           \/ /\ AddressIndex(src) = NO_INDEX
              /\ \A a \in Addrs : COV_Addresses[a] \notin {src, NoSource}
<1>1. /\ AddressesOf(src) \in SUBSET Nat
      /\ AddressesOf(NoSource) \in SUBSET Nat
  BY IndexBounds DEF AddressesOf
<1>2. CASE AddressesOf(src) # {}
  <2>1. Lowest(AddressesOf(src)) \in AddressesOf(src)
    BY <1>1, <1>2, LowestIsFirst
  <2>2. QED
    BY <1>2, <2>1 DEF AddressIndex, AddressesOf
<1>3. CASE AddressesOf(src) = {} /\ AddressesOf(NoSource) # {}
  <2>1. Lowest(AddressesOf(NoSource)) \in AddressesOf(NoSource)
    BY <1>1, <1>3, LowestIsFirst
  <2>2. QED
    BY <1>3, <2>1 DEF AddressIndex, AddressesOf
<1>4. CASE AddressesOf(src) = {} /\ AddressesOf(NoSource) = {}
  BY <1>4 DEF AddressIndex, AddressesOf
<1>5. QED
  BY <1>2, <1>3, <1>4

(* Adding an address keeps the type of the list.                           *)
LEMMA AddingKeepsType ==
    ASSUME AddrsOK(COV_Addresses), NEW src \in Sources
    PROVE  AddrsOK(AddressesWith(src))
  BY DEF AddrsOK, AddressesWith

(* Storing a subscription together with its address keeps subscriptions    *)
(* and addresses matched.  The entry it goes to was empty, or had the same *)
(* address, or none.                                                       *)
LEMMA AddingKeepsMatch ==
    ASSUME SubsOK(COV_Subscriptions), AddrsOK(COV_Addresses),
           Matched(COV_Subscriptions, COV_Addresses),
           NEW src \in Sources, NEW i \in Subs, NEW new \in Subscription,
           new.dest_index = AddressIndex(src),
           Valid(i) => cov_address_get(COV_Subscriptions[i].dest_index)
                            \in {src, NoSource}
    PROVE  Matched([COV_Subscriptions EXCEPT ![i] = new], AddressesWith(src))
<1> DEFINE x == AddressIndex(src)
           subs == [COV_Subscriptions EXCEPT ![i] = new]
           addrs == AddressesWith(src)
<1>1. /\ subs[i] = new
      /\ \A j \in Subs \ {i} : subs[j] = COV_Subscriptions[j]
  BY DEF SubsOK
<1>2. \A a \in Addrs : addrs[a] = IF a = x THEN src ELSE COV_Addresses[a]
  BY DEF AddressesWith
<1>3. new # NoSubscription /\ src # NoSource
  BY SubscriptionIsSome, COVConstants
<1>4. ASSUME NEW a \in Addrs, Valid(i), COV_Subscriptions[i].dest_index = a
      PROVE  COV_Addresses[a] = src
  <2>1. COV_Addresses[a] \in {src, NoSource}
    BY <1>4 DEF cov_address_get
  <2>2. COV_Addresses[a] # NoSource
    BY <1>4 DEF Matched, PointedAt, Valid
  <2>3. QED
    BY <2>1, <2>2
<1>5. \/ x \in Addrs /\ COV_Addresses[x] = src
      \/ /\ x \in Addrs /\ COV_Addresses[x] = NoSource
         /\ \A a \in Addrs : COV_Addresses[a] # src
      \/ /\ x = NO_INDEX
         /\ \A a \in Addrs : COV_Addresses[a] \notin {src, NoSource}
  BY WhereAddressGoes
<1> HIDE DEF x, subs, addrs
<1>6. ASSUME NEW a \in Addrs, a # x
      PROVE  PointedAt(subs, a) <=> PointedAt(COV_Subscriptions, a)
  <2>1. subs[i].dest_index # a
    BY <1>1, <1>6 DEF x
  <2>2. ~(Valid(i) /\ COV_Subscriptions[i].dest_index = a)
    <3>1. SUFFICES ASSUME Valid(i), COV_Subscriptions[i].dest_index = a
                   PROVE  FALSE
      OBVIOUS
    <3>2. COV_Addresses[a] = src
      BY <1>4, <3>1
    <3>3. COV_Addresses[x] = src /\ x \in Addrs
      BY <1>5, <3>2
    <3>4. QED
      BY <1>3, <1>6, <3>2, <3>3 DEF Matched
  <2>3. QED
    BY <1>1, <2>1, <2>2 DEF PointedAt, Valid
<1>7. ASSUME NEW a \in Addrs
      PROVE  addrs[a] # NoSource <=> PointedAt(subs, a)
  <2>1. CASE a = x
    BY <1>1, <1>2, <1>3, <1>7, <2>1 DEF PointedAt, x
  <2>2. CASE a # x
    BY <1>2, <1>6, <2>2 DEF Matched
  <2>3. QED
    BY <2>1, <2>2
<1>8. ASSUME NEW a \in Addrs, NEW b \in Addrs,
             addrs[a] = addrs[b], addrs[a] # NoSource
      PROVE  a = b
  <2>1. CASE x \in Addrs /\ COV_Addresses[x] = src
    BY <1>2, <1>8, <2>1 DEF Matched
  <2>2. CASE \A c \in Addrs : COV_Addresses[c] # src
    BY <1>2, <1>8, <2>2 DEF Matched
  <2>3. QED
    BY <1>5, <2>1, <2>2
<1>9. QED
  BY <1>7, <1>8 DEF Matched, subs, addrs

(* When subscriptions end, cov_address_remove_unused leaves exactly the    *)
(* addresses that are still pointed at.                                    *)
LEMMA RemovalKeepsMatch ==
    ASSUME AddrsOK(COV_Addresses), Matched(COV_Subscriptions, COV_Addresses),
           NEW subs,
           \A a \in Addrs : PointedAt(subs, a) => PointedAt(COV_Subscriptions, a)
    PROVE  /\ AddrsOK(AddressesUsedBy(subs))
           /\ Matched(subs, AddressesUsedBy(subs))
<1>1. \A a \in Addrs : AddressesUsedBy(subs)[a] =
            IF PointedAt(subs, a) THEN COV_Addresses[a] ELSE NoSource
  BY DEF AddressesUsedBy, PointedAt
<1>2. AddrsOK(AddressesUsedBy(subs))
  BY DEF AddressesUsedBy, AddrsOK
<1>3. Matched(subs, AddressesUsedBy(subs))
  BY <1>1 DEF Matched
<1>4. QED
  BY <1>2, <1>3

----------------------------------------------------------------------------
(* The transaction table.                                                  *)

(* Freeing an id leaves every other one where it is, and that id nowhere.  *)
LEMMA FreedSlots ==
    ASSUME NEW list, TableOK(list), NEW id \in 0 .. MAX_INVOKE_ID
    PROVE  /\ TableOK(FreedIfAny(list, id))
           /\ \A s \in Slots :
                FreedIfAny(list, id)[s].InvokeID # 0 =>
                    /\ FreedIfAny(list, id)[s].InvokeID = list[s].InvokeID
                    /\ list[s].InvokeID # id
<1>1. list \in [Slots -> Transaction]
  BY DEF TableOK
<1>2. CASE id = 0
  BY <1>2 DEF FreedIfAny
<1>3. CASE id # 0 /\ SlotsOf(list, id) = {}
  BY <1>3 DEF FreedIfAny, Freed, SlotsOf
<1>4. CASE id # 0 /\ SlotsOf(list, id) # {}
  <2>1. PICK k \in SlotsOf(list, id) :
            Freed(list, id) = [list EXCEPT
                ![k] = [list[k] EXCEPT !.state = "IDLE", !.InvokeID = 0]]
    BY <1>1, <1>4, FreeingEmptiesOneSlot
  <2>2. k \in Slots /\ list[k].InvokeID = id /\ list[k] \in Transaction
    BY <1>1, <2>1 DEF SlotsOf
  <2>3. Freed(list, id)[k].InvokeID = 0
    BY <1>1, <2>1, <2>2 DEF Transaction
  <2>4. \A s \in Slots \ {k} :
            Freed(list, id)[s] = list[s] /\ list[s].InvokeID # id
    BY <1>1, <1>4, <2>1, <2>2 DEF TableOK
  <2>5. TableOK(Freed(list, id))
    BY FreedKeepsTable
  <2>6. QED
    BY <1>4, <2>2, <2>3, <2>4, <2>5 DEF FreedIfAny
<1>5. QED
  BY <1>2, <1>3, <1>4

(* The search for an id finds an unused one, and the transaction is set up *)
(* in a free slot; all others stay.                                        *)
LEMMA SentSlots ==
    ASSUME TSMInv, SendConfirmed
    PROVE  LET id == FirstUnusedID(TSM_List, Current_Invoke_ID)
           IN  /\ id \in InvokeIDs
               /\ TSMInv'
               /\ \A s \in Slots :
                    TSM_List'[s] = TSM_List[s] \/ TSM_List'[s].InvokeID = id
<1> DEFINE id == FirstUnusedID(TSM_List, Current_Invoke_ID)
<1>1. /\ TSM_List \in [Slots -> Transaction]
      /\ Current_Invoke_ID \in InvokeIDs
      /\ FreeSlots(TSM_List) # {}
  BY DEF TSMInv, TableOK, SendConfirmed, tsm_transaction_available
<1>2. id \in InvokeIDs \ UsedIDs(TSM_List)
  BY <1>1, FirstUnusedIDIsUnused
<1>3. TSM_List' = Transmitted(Reserved(TSM_List, id), id)
  BY DEF SendConfirmed
<1>4. TSMInv'
  BY TSMInvStep DEF TSMNext
<1> HIDE DEF id
<1>5. PICK k \in FreeSlots(TSM_List) :
            TSM_List' = [TSM_List EXCEPT ![k] = SlotWaitingFor(id)]
  BY <1>1, <1>2, <1>3, ReservationTakesOneSlot
<1>6. \A s \in Slots :
            TSM_List'[s] = TSM_List[s] \/ TSM_List'[s].InvokeID = id
  BY <1>1, <1>5 DEF FreeSlots, SlotWaitingFor
<1>7. QED
  BY <1>2, <1>4, <1>6 DEF id

(* The timer leaves every invoke id where it is.                           *)
LEMMA TickedIDs ==
    ASSUME NEW list, TableOK(list), NEW ms \in TICKS
    PROVE  /\ TableOK(Ticked(list, ms))
           /\ \A s \in Slots : Ticked(list, ms)[s].InvokeID = list[s].InvokeID
<1>1. \A s \in Slots : list[s] \in Transaction
  BY DEF TableOK
<1>2. QED
  BY <1>1, TickKeepsSlot, TickedKeepsTable DEF Ticked

(* The transactions of subscriptions that expire together can be dropped.  *)
LEMMA DroppedSlots ==
    ASSUME NEW list, TableOK(list), NEW ids,
           NEW new,
           new = [s \in Slots |->
                    IF list[s].InvokeID \in ids
                    THEN [list[s] EXCEPT !.state = "IDLE", !.InvokeID = 0]
                    ELSE list[s]]
    PROVE  /\ TableOK(new)
           /\ \A s \in Slots :
                new[s].InvokeID # 0 =>
                    new[s] = list[s] /\ list[s].InvokeID \notin ids
<1>1. ASSUME NEW s \in Slots
      PROVE  /\ list[s] \in Transaction
             /\ new[s] \in Transaction
             /\ \/ new[s] = list[s] /\ list[s].InvokeID \notin ids
                \/ new[s].InvokeID = 0 /\ new[s].state = "IDLE"
  <2>1. list[s] \in Transaction
    BY <1>1 DEF TableOK
  <2> DEFINE t == [list[s] EXCEPT !.state = "IDLE", !.InvokeID = 0]
  <2>2. t \in Transaction /\ t.InvokeID = 0 /\ t.state = "IDLE"
    BY <2>1, BoundaryValues DEF Transaction
  <2>3. new[s] = IF list[s].InvokeID \in ids THEN t ELSE list[s]
    BY <1>1
  <2> HIDE DEF t
  <2>4. QED
    BY <2>1, <2>2, <2>3
<1>2. new \in [Slots -> Transaction]
  <2>1. new = [s \in Slots |-> new[s]]
    OBVIOUS
  <2>2. QED
    BY <1>1, <2>1
<1>3. ASSUME NEW i \in Slots, NEW j \in Slots,
             new[i].InvokeID # 0, new[i].InvokeID = new[j].InvokeID
      PROVE  i = j
  BY <1>1, <1>3 DEF TableOK
<1>4. ASSUME NEW i \in Slots, new[i].state = "AWAIT_CONFIRMATION"
      PROVE  new[i].InvokeID # 0 /\ new[i].RequestTimer > 0
  BY <1>1, <1>4 DEF TableOK
<1>5. QED
  BY <1>1, <1>2, <1>3, <1>4 DEF TableOK

----------------------------------------------------------------------------
(* The steps.                                                              *)

(* Changing an entry without touching its address keeps types and matches. *)
LEMMA EditKeepsTables ==
    ASSUME SubsOK(COV_Subscriptions), OwedOK(owed, COV_Subscriptions),
           Matched(COV_Subscriptions, COV_Addresses),
           NEW i \in Subs, Valid(i), NEW t \in Subscription,
           t.dest_index = COV_Subscriptions[i].dest_index
    PROVE  LET new == [COV_Subscriptions EXCEPT ![i] = t]
           IN  /\ SubsOK(new)
               /\ OwedOK(owed, new)
               /\ Matched(new, COV_Addresses)
<1> DEFINE new == [COV_Subscriptions EXCEPT ![i] = t]
<1>1. SubsOK(new)
  BY DEF SubsOK
<1>2. /\ new[i] = t
      /\ \A j \in Subs \ {i} : new[j] = COV_Subscriptions[j]
  BY DEF SubsOK
<1>3. t # NoSubscription
  BY SubscriptionIsSome
<1> HIDE DEF new
<1>4. \A a : PointedAt(new, a) <=> PointedAt(COV_Subscriptions, a)
  BY <1>2, <1>3 DEF PointedAt, Valid
<1>5. Matched(new, COV_Addresses)
  BY <1>4 DEF Matched
<1>6. OwedOK(owed, new)
  BY <1>2, <1>3 DEF OwedOK
<1>7. QED
  BY <1>1, <1>5, <1>6 DEF new

(* The task's index never leaves the table.                                *)
LEMMA AdvanceKeepsTask ==
    ASSUME TaskOK, NEW phase \in {"IDLE", "MARK", "CLEAR", "FREE", "SEND"},
           Advance(phase), Change_Of_Value' \subseteq Objects
    PROVE  TaskOK'
<1>1. MAX_COV_SUBCRIPTIONS \in Nat \ {0}
  BY COVConstants
<1>2. index \in Nat /\ index < MAX_COV_SUBCRIPTIONS
  BY <1>1 DEF TaskOK, Subs
<1>3. index' \in Subs
  BY <1>1, <1>2 DEF Advance, Subs
<1>4. cov_task_state' \in {"IDLE", "MARK", "CLEAR", "FREE", "SEND"}
  BY DEF Advance, TaskOK
<1>5. QED
  BY <1>3, <1>4 DEF TaskOK

(* MARK.                                                                   *)
LEMMA MarkStep == COVInv /\ Mark => COVInv'
<1> SUFFICES ASSUME COVInv, Mark
             PROVE  COVInv'
  OBVIOUS
<1>1. TaskOK'
  BY AdvanceKeepsTask DEF COVInv, Mark, TaskOK
<1>2. CASE COV_Subscriptions' = COV_Subscriptions
  BY <1>1, <1>2 DEF COVInv, Mark, tsmVars, dccVars, TSMInv, DCCTypeOK
<1>3. CASE /\ Valid(index)
           /\ COV_Subscriptions' =
                [COV_Subscriptions EXCEPT ![index].send_requested = TRUE]
  <2> DEFINE t == [COV_Subscriptions[index] EXCEPT !.send_requested = TRUE]
  <2>1. /\ index \in Subs
        /\ COV_Subscriptions[index] \in Subscription
    BY <1>3 DEF COVInv, TaskOK, SubsOK, Valid
  <2>2. /\ t \in Subscription
        /\ t.dest_index = COV_Subscriptions[index].dest_index
        /\ \A id : Owner(COV_Subscriptions[index], id) => Owner(t, id)
    <3>1. t \in Subscription
      BY <2>1 DEF Subscription
    <3>2. t # NoSubscription
      BY <3>1, SubscriptionIsSome
    <3>3. /\ t.dest_index = COV_Subscriptions[index].dest_index
          /\ t.invokeID = COV_Subscriptions[index].invokeID
          /\ t.issueConfirmedNotifications =
                COV_Subscriptions[index].issueConfirmedNotifications
      BY <2>1 DEF Subscription
    <3> HIDE DEF t
    <3>4. QED
      BY <3>1, <3>2, <3>3 DEF Owner
  <2>3. COV_Subscriptions' = [COV_Subscriptions EXCEPT ![index] = t]
    BY <1>3
  <2> HIDE DEF t
  <2>4. /\ SubsOK(COV_Subscriptions')
        /\ OwedOK(owed, COV_Subscriptions')
        /\ Matched(COV_Subscriptions', COV_Addresses)
    BY <1>3, <2>1, <2>2, <2>3, EditKeepsTables DEF COVInv
  <2>5. /\ COV_Subscriptions'[index] = t
        /\ \A j \in Subs \ {index} :
                COV_Subscriptions'[j] = COV_Subscriptions[j]
    BY <2>1, <2>3 DEF COVInv, SubsOK
  <2>6. Owned(TSM_List, COV_Subscriptions')
    BY <2>1, <2>2, <2>5 DEF COVInv, Owned
  <2>7. QED
    BY <1>1, <2>4, <2>6 DEF COVInv, Mark, tsmVars, dccVars, TSMInv, DCCTypeOK
<1>4. QED
  BY <1>2, <1>3 DEF Mark

(* CLEAR, the start of a pass, and SEND without anything to send.          *)
LEMMA QuietSteps == COVInv /\ (StartPass \/ Clear \/ SendNothing) => COVInv'
<1> SUFFICES ASSUME COVInv, StartPass \/ Clear \/ SendNothing
             PROVE  COVInv'
  OBVIOUS
<1>1. TaskOK'
  <2>1. CASE StartPass
    BY <2>1, IndexBounds DEF COVInv, StartPass, TaskOK
  <2>2. CASE Clear
    <3>1. Change_Of_Value' \subseteq Objects
      BY <2>2 DEF COVInv, Clear, TaskOK
    <3>2. QED
      BY <2>2, <3>1, AdvanceKeepsTask DEF COVInv, Clear
  <2>3. CASE SendNothing
    <3>1. Change_Of_Value' \subseteq Objects
      BY <2>3 DEF COVInv, SendNothing, TaskOK
    <3>2. QED
      BY <2>3, <3>1, AdvanceKeepsTask DEF COVInv, SendNothing
  <2>4. QED
    BY <2>1, <2>2, <2>3
<1>2. UNCHANGED <<COV_Subscriptions, COV_Addresses, owed, TSM_List,
                  Current_Invoke_ID, DCC_Enable_Disable,
                  DCC_Time_Duration_Seconds>>
  BY DEF StartPass, Clear, SendNothing, tsmVars, dccVars
<1>3. QED
  BY <1>1, <1>2 DEF COVInv, TSMInv, DCCTypeOK

(* FREE: the entry gives up an id that no slot holds afterwards.           *)
LEMMA FreeStep == COVInv /\ Free => COVInv'
<1> SUFFICES ASSUME COVInv, Free
             PROVE  COVInv'
  OBVIOUS
<1> DEFINE s == COV_Subscriptions[index]
           confirmed == /\ Valid(index)
                        /\ s.issueConfirmedNotifications
                        /\ s.invokeID # 0
           failed == confirmed /\ tsm_invoke_id_failed(TSM_List, s.invokeID)
           over == /\ confirmed
                   /\ tsm_invoke_id_free(TSM_List, s.invokeID) \/ failed
           t == [s EXCEPT !.invokeID = 0]
<1>1. /\ index \in Subs
      /\ s \in Subscription \cup {NoSubscription}
      /\ TableOK(TSM_List)
  BY DEF COVInv, TaskOK, SubsOK, TSMInv
<1>2. /\ TSM_List' = IF failed THEN Freed(TSM_List, s.invokeID) ELSE TSM_List
      /\ COV_Subscriptions' =
            IF over THEN [COV_Subscriptions EXCEPT ![index].invokeID = 0]
            ELSE COV_Subscriptions
      /\ Advance("SEND")
      /\ UNCHANGED <<COV_Addresses, Change_Of_Value, owed, Current_Invoke_ID,
                     DCC_Enable_Disable, DCC_Time_Duration_Seconds>>
  BY DEF Free, dccVars
<1>3. TaskOK'
  BY <1>2, AdvanceKeepsTask DEF COVInv, TaskOK
<1>4. CASE ~over
  <2>1. UNCHANGED <<TSM_List, COV_Subscriptions>>
    BY <1>2, <1>4
  <2>2. QED
    BY <1>2, <1>3, <2>1 DEF COVInv, TSMInv, DCCTypeOK
<1>5. CASE over
  <2>1. /\ s \in Subscription /\ s # NoSubscription
        /\ s.invokeID \in 0 .. MAX_INVOKE_ID /\ s.invokeID # 0
        /\ s.issueConfirmedNotifications
    BY <1>1, <1>5 DEF Valid, Subscription
  <2>2. t \in Subscription /\ t.dest_index = s.dest_index
    BY <2>1, IndexBounds DEF Subscription
  <2>3. COV_Subscriptions' = [COV_Subscriptions EXCEPT ![index] = t]
    BY <1>2, <1>5
  <2>4. /\ TableOK(TSM_List')
        /\ \A k \in Slots :
            TSM_List'[k].InvokeID # 0 =>
                /\ TSM_List'[k].InvokeID = TSM_List[k].InvokeID
                /\ TSM_List[k].InvokeID # s.invokeID
    <3>1. CASE failed
      <4>1. TSM_List' = FreedIfAny(TSM_List, s.invokeID)
        BY <1>2, <2>1, <3>1 DEF FreedIfAny
      <4>2. QED
        BY <1>1, <2>1, <4>1, FreedSlots
    <3>2. CASE ~failed
      <4>1. TSM_List' = TSM_List /\ SlotsOf(TSM_List, s.invokeID) = {}
        BY <1>2, <1>5, <3>2 DEF tsm_invoke_id_free
      <4>2. QED
        BY <1>1, <4>1 DEF SlotsOf
    <3>3. QED
      BY <3>1, <3>2
  <2>5. /\ COV_Subscriptions'[index] = t
        /\ \A j \in Subs \ {index} :
                COV_Subscriptions'[j] = COV_Subscriptions[j]
    BY <1>1, <2>3 DEF COVInv, SubsOK
  <2> HIDE DEF t
  <2>6. /\ SubsOK(COV_Subscriptions')
        /\ OwedOK(owed, COV_Subscriptions')
        /\ Matched(COV_Subscriptions', COV_Addresses)
    BY <1>1, <1>5, <2>2, <2>3, EditKeepsTables DEF COVInv
  <2> HIDE DEF over, failed, confirmed
  <2>7. Owned(TSM_List', COV_Subscriptions')
    <3>1. SUFFICES ASSUME NEW k \in Slots, TSM_List'[k].InvokeID # 0
                   PROVE  \E i \in Subs :
                            Owner(COV_Subscriptions'[i], TSM_List'[k].InvokeID)
      BY DEF Owned
    <3>2. /\ TSM_List'[k].InvokeID = TSM_List[k].InvokeID
          /\ TSM_List[k].InvokeID # s.invokeID
      BY <2>4, <3>1
    <3>3. PICK i \in Subs : Owner(COV_Subscriptions[i], TSM_List[k].InvokeID)
      BY <3>1, <3>2 DEF COVInv, Owned
    <3>4. i # index
      BY <3>2, <3>3 DEF Owner
    <3>5. QED
      BY <2>5, <3>2, <3>3, <3>4
  <2>8. QED
    BY <1>2, <1>3, <2>4, <2>6, <2>7 DEF COVInv, TSMInv, DCCTypeOK
<1>6. QED
  BY <1>4, <1>5

(* SEND: a confirmed notification takes an id of its own; the entry had    *)
(* none.                                                                   *)
LEMMA SendStep ==
    ASSUME COVInv, NEW sent \in SEND_RESULTS, SendNotification(sent)
    PROVE  COVInv'
<1> DEFINE s == COV_Subscriptions[index]
           id == FirstUnusedID(TSM_List, Current_Invoke_ID)
           t == [s EXCEPT !.send_requested = ~sent,
                          !.invokeID =
                            IF s.issueConfirmedNotifications THEN id ELSE @]
<1>1. /\ index \in Subs /\ Valid(index)
      /\ s \in Subscription
      /\ s.issueConfirmedNotifications => s.invokeID = 0
      /\ sent \in BOOLEAN
  BY COVConstants
    DEF COVInv, TaskOK, SubsOK, SendNotification, Notifiable, MaySend, Valid
<1>2. /\ IF s.issueConfirmedNotifications THEN SendConfirmed
                                          ELSE UNCHANGED tsmVars
      /\ owed' \subseteq owed
      /\ Advance("IDLE")
      /\ UNCHANGED <<COV_Addresses, Change_Of_Value, DCC_Enable_Disable,
                     DCC_Time_Duration_Seconds>>
  BY DEF SendNotification, dccVars
<1>3. COV_Subscriptions' = [COV_Subscriptions EXCEPT ![index] = t]
  BY DEF SendNotification
<1>4. TaskOK'
  BY <1>2, AdvanceKeepsTask DEF COVInv, TaskOK
<1>5. s.issueConfirmedNotifications =>
        /\ id \in InvokeIDs
        /\ TSMInv'
        /\ \A k \in Slots :
                TSM_List'[k] = TSM_List[k] \/ TSM_List'[k].InvokeID = id
  BY <1>2, SentSlots DEF COVInv
<1>6. ~s.issueConfirmedNotifications => UNCHANGED <<TSM_List, Current_Invoke_ID>>
  BY <1>2 DEF tsmVars
<1>7. TSMInv'
  <2>1. CASE s.issueConfirmedNotifications
    BY <1>5, <2>1
  <2>2. CASE ~s.issueConfirmedNotifications
    BY <1>6, <2>2 DEF COVInv, TSMInv
  <2>3. QED
    BY <2>1, <2>2
<1> HIDE DEF id
<1>8. /\ t \in Subscription
      /\ t.dest_index = s.dest_index
      /\ t.issueConfirmedNotifications = s.issueConfirmedNotifications
      /\ t.invokeID = IF s.issueConfirmedNotifications THEN id ELSE s.invokeID
  BY <1>1, <1>5, IndexBounds DEF Subscription
<1> HIDE DEF t
<1>9. /\ SubsOK(COV_Subscriptions')
      /\ OwedOK(owed, COV_Subscriptions')
      /\ Matched(COV_Subscriptions', COV_Addresses)
  BY <1>1, <1>3, <1>8, EditKeepsTables DEF COVInv
<1>10. /\ COV_Subscriptions'[index] = t
       /\ \A j \in Subs \ {index} : COV_Subscriptions'[j] = COV_Subscriptions[j]
  BY <1>1, <1>3 DEF COVInv, SubsOK
<1>11. Owned(TSM_List', COV_Subscriptions')
  <2>1. SUFFICES ASSUME NEW k \in Slots, TSM_List'[k].InvokeID # 0
                 PROVE  \E i \in Subs :
                            Owner(COV_Subscriptions'[i], TSM_List'[k].InvokeID)
    BY DEF Owned
  <2>2. CASE TSM_List'[k] # TSM_List[k]
    <3>1. s.issueConfirmedNotifications /\ TSM_List'[k].InvokeID = id
      BY <1>5, <1>6, <2>2
    <3>2. t # NoSubscription
      BY <1>8, SubscriptionIsSome
    <3>3. QED
      BY <1>1, <1>8, <1>10, <3>1, <3>2 DEF Owner
  <2>3. CASE TSM_List'[k] = TSM_List[k]
    <3>1. PICK i \in Subs : Owner(COV_Subscriptions[i], TSM_List[k].InvokeID)
      BY <2>1, <2>3 DEF COVInv, Owned
    <3>2. i # index
      BY <1>1, <2>1, <2>3, <3>1 DEF Owner
    <3>3. QED
      BY <1>10, <2>3, <3>1, <3>2
  <2>4. QED
    BY <2>2, <2>3
<1>12. OwedOK(owed', COV_Subscriptions')
  BY <1>2, <1>9 DEF OwedOK
<1>13. QED
  BY <1>2, <1>4, <1>7, <1>9, <1>11, <1>12 DEF COVInv, DCCTypeOK

----------------------------------------------------------------------------
(* Subscriptions come and go.                                              *)

(* A request finds the first entry that matches.                           *)
LEMMA MatchingEntry ==
    ASSUME NEW src, NEW object, NEW process,
           Matching(src, object, process) # {}
    PROVE  Lowest(Matching(src, object, process))
                \in Matching(src, object, process)
<1>1. Matching(src, object, process) \in SUBSET Nat
  BY IndexBounds DEF Matching
<1>2. QED
  BY <1>1, LowestIsFirst

(* The entry that cov_list_subscribe writes: one of the requester's own,   *)
(* or an empty one.                                                        *)
LEMMA EntryOfRequest ==
    ASSUME NEW src, NEW object, NEW process,
           SubscribeSucceeds(src, object, process)
    PROVE  LET matching == Matching(src, object, process)
               i == Lowest(IF matching # {} THEN matching ELSE InvalidSubs)
           IN  /\ i \in Subs
               /\ matching # {} => i \in matching
               /\ matching = {} => ~Valid(i)
<1> DEFINE matching == Matching(src, object, process)
<1>1. CASE matching # {}
  <2>1. Lowest(matching) \in matching
    BY <1>1, MatchingEntry
  <2>2. matching \subseteq Subs
    BY DEF Matching
  <2>3. QED
    BY <1>1, <2>1, <2>2
<1>2. CASE matching = {}
  <2>1. InvalidSubs \in SUBSET Nat /\ InvalidSubs # {}
    BY <1>2, IndexBounds DEF InvalidSubs, SubscribeSucceeds
  <2>2. Lowest(InvalidSubs) \in InvalidSubs
    BY <2>1, LowestIsFirst
  <2>3. QED
    BY <1>2, <2>2 DEF InvalidSubs
<1>3. QED
  BY <1>1, <1>2

(* What a request stores is a subscription.                                *)
LEMMA NewSubscriptionType ==
    ASSUME AddrsOK(COV_Addresses),
           NEW src \in Sources, NEW object \in Objects, NEW process \in Processes,
           NEW confirmed \in BOOLEAN, NEW lifetime \in LIFETIMES
    PROVE  NewSubscription(src, object, process, confirmed, lifetime)
                \in Subscription
<1>1. AddressIndex(src) \in Addrs \cup {NO_INDEX}
  BY WhereAddressGoes
<1>2. lifetime \in Nat
  BY COVConstants
<1>3. QED
  BY <1>1, <1>2, IndexBounds DEF NewSubscription, Subscription

(* A new or renewed subscription: the transaction of the old one is freed. *)
LEMMA SubscribeStep ==
    ASSUME COVInv,
           NEW src \in Sources, NEW object \in Objects, NEW process \in Processes,
           NEW confirmed \in BOOLEAN, NEW lifetime \in LIFETIMES,
           Subscribe(src, object, process, confirmed, lifetime)
    PROVE  COVInv'
<1> DEFINE matching == Matching(src, object, process)
           i == Lowest(IF matching # {} THEN matching ELSE InvalidSubs)
           new == NewSubscription(src, object, process, confirmed, lifetime)
<1>1. /\ i \in Subs
      /\ matching # {} => i \in matching
      /\ matching = {} => ~Valid(i)
  BY EntryOfRequest DEF Subscribe
<1>2. /\ COV_Subscriptions' = [COV_Subscriptions EXCEPT ![i] = new]
      /\ COV_Addresses' = AddressesWith(src)
      /\ TSM_List' = IF matching # {}
                     THEN FreedIfAny(TSM_List, COV_Subscriptions[i].invokeID)
                     ELSE TSM_List
      /\ owed' = owed \cup {i}
      /\ UNCHANGED <<cov_task_state, index, Change_Of_Value,
                     Current_Invoke_ID, DCC_Enable_Disable,
                     DCC_Time_Duration_Seconds>>
  BY DEF Subscribe, fsmVars, dccVars
<1>3. new \in Subscription /\ new # NoSubscription
  BY NewSubscriptionType, SubscriptionIsSome DEF COVInv
<1>4. new.dest_index = AddressIndex(src)
  BY DEF NewSubscription
<1>5. Valid(i) =>
        /\ cov_address_get(COV_Subscriptions[i].dest_index) \in {src, NoSource}
        /\ COV_Subscriptions[i].invokeID \in 0 .. MAX_INVOKE_ID
        /\ matching # {}
  <2>1. SUFFICES ASSUME Valid(i)
                 PROVE  /\ cov_address_get(COV_Subscriptions[i].dest_index)
                                \in {src, NoSource}
                        /\ COV_Subscriptions[i].invokeID \in 0 .. MAX_INVOKE_ID
                        /\ matching # {}
    OBVIOUS
  <2>2. i \in matching
    BY <1>1, <2>1
  <2>3. COV_Subscriptions[i] \in Subscription
    BY <1>1, <2>1 DEF COVInv, SubsOK, Valid
  <2>4. QED
    BY <2>2, <2>3 DEF Matching, Subscription
<1> HIDE DEF i, new
<1>6. Matched(COV_Subscriptions', COV_Addresses')
  BY <1>1, <1>2, <1>3, <1>4, <1>5, AddingKeepsMatch DEF COVInv
<1>7. AddrsOK(COV_Addresses')
  BY <1>2, AddingKeepsType DEF COVInv
<1>8. SubsOK(COV_Subscriptions')
  BY <1>2, <1>3 DEF COVInv, SubsOK
<1>9. /\ COV_Subscriptions'[i] = new
      /\ \A j \in Subs \ {i} : COV_Subscriptions'[j] = COV_Subscriptions[j]
  BY <1>1, <1>2 DEF COVInv, SubsOK
<1>10. OwedOK(owed', COV_Subscriptions')
  BY <1>1, <1>2, <1>3, <1>9 DEF COVInv, OwedOK
<1>11. /\ TableOK(TSM_List')
       /\ \A k \in Slots :
            TSM_List'[k].InvokeID # 0 =>
                /\ TSM_List'[k].InvokeID = TSM_List[k].InvokeID
                /\ Valid(i) => TSM_List[k].InvokeID # COV_Subscriptions[i].invokeID
  <2>1. TableOK(TSM_List)
    BY DEF COVInv, TSMInv
  <2>2. CASE Valid(i)
    BY <1>2, <1>5, <2>1, <2>2, FreedSlots
  <2>3. CASE ~Valid(i)
    <3>1. matching = {}
      BY <1>1, <2>3 DEF Matching
    <3>2. QED
      BY <1>2, <2>1, <2>3, <3>1
  <2>4. QED
    BY <2>2, <2>3
<1>12. Owned(TSM_List', COV_Subscriptions')
  <2>1. SUFFICES ASSUME NEW k \in Slots, TSM_List'[k].InvokeID # 0
                 PROVE  \E j \in Subs :
                            Owner(COV_Subscriptions'[j], TSM_List'[k].InvokeID)
    BY DEF Owned
  <2>2. PICK j \in Subs : Owner(COV_Subscriptions[j], TSM_List[k].InvokeID)
    BY <1>11, <2>1 DEF COVInv, Owned
  <2>3. j # i
    BY <1>11, <2>1, <2>2 DEF Owner, Valid
  <2>4. QED
    BY <1>9, <1>11, <2>1, <2>2, <2>3
<1>13. TaskOK'
  BY <1>2 DEF COVInv, TaskOK
<1>14. QED
  BY <1>2, <1>6, <1>7, <1>8, <1>10, <1>11, <1>12, <1>13
    DEF COVInv, TSMInv, DCCTypeOK

(* When entries end and their ids are freed, the rest stays owned.         *)
LEMMA EndKeepsInvariant ==
    ASSUME COVInv, NEW ended \in SUBSET Subs,
           SubsOK(COV_Subscriptions'),
           \A j \in ended : COV_Subscriptions'[j] = NoSubscription,
           \A j \in Subs \ ended :
                IF Valid(j)
                THEN /\ COV_Subscriptions'[j] # NoSubscription
                     /\ COV_Subscriptions'[j].dest_index =
                            COV_Subscriptions[j].dest_index
                     /\ COV_Subscriptions'[j].issueConfirmedNotifications =
                            COV_Subscriptions[j].issueConfirmedNotifications
                     /\ COV_Subscriptions'[j].invokeID =
                            COV_Subscriptions[j].invokeID
                ELSE COV_Subscriptions'[j] = NoSubscription,
           \/ COV_Addresses' = AddressesUsedBy(COV_Subscriptions')
           \/ ended = {} /\ COV_Addresses' = COV_Addresses,
           owed' = owed \ ended,
           TableOK(TSM_List'),
           \A k \in Slots :
                TSM_List'[k].InvokeID # 0 =>
                    /\ TSM_List'[k].InvokeID = TSM_List[k].InvokeID
                    /\ \A j \in ended :
                            ~Owner(COV_Subscriptions[j], TSM_List[k].InvokeID),
           UNCHANGED <<cov_task_state, index, Change_Of_Value, Current_Invoke_ID,
                       DCC_Enable_Disable, DCC_Time_Duration_Seconds>>
    PROVE  COVInv'
<1>1. \A a : PointedAt(COV_Subscriptions', a) => PointedAt(COV_Subscriptions, a)
  BY DEF PointedAt, Valid
<1>2. AddrsOK(COV_Addresses') /\ Matched(COV_Subscriptions', COV_Addresses')
  <2>1. CASE COV_Addresses' = AddressesUsedBy(COV_Subscriptions')
    BY <1>1, <2>1, RemovalKeepsMatch DEF COVInv
  <2>2. CASE ended = {} /\ COV_Addresses' = COV_Addresses
    <3>1. \A a : PointedAt(COV_Subscriptions', a)
                    <=> PointedAt(COV_Subscriptions, a)
      BY <1>1, <2>2 DEF PointedAt, Valid
    <3>2. QED
      BY <2>2, <3>1 DEF COVInv, AddrsOK, Matched
  <2>3. QED
    BY <2>1, <2>2
<1>3. OwedOK(owed', COV_Subscriptions')
  BY DEF COVInv, OwedOK, Valid
<1>4. Owned(TSM_List', COV_Subscriptions')
  <2>1. SUFFICES ASSUME NEW k \in Slots, TSM_List'[k].InvokeID # 0
                 PROVE  \E j \in Subs :
                            Owner(COV_Subscriptions'[j], TSM_List'[k].InvokeID)
    BY DEF Owned
  <2>2. PICK j \in Subs : Owner(COV_Subscriptions[j], TSM_List[k].InvokeID)
    BY <2>1 DEF COVInv, Owned
  <2>3. j \notin ended
    BY <2>1, <2>2
  <2>4. QED
    BY <2>1, <2>2, <2>3 DEF Owner, Valid
<1>5. TaskOK'
  BY DEF COVInv, TaskOK
<1>6. QED
  BY <1>2, <1>3, <1>4, <1>5 DEF COVInv, TSMInv, DCCTypeOK

(* A cancellation.                                                         *)
LEMMA CancelStep ==
    ASSUME COVInv,
           NEW src \in Sources, NEW object \in Objects, NEW process \in Processes,
           Cancel(src, object, process)
    PROVE  COVInv'
<1> DEFINE i == Lowest(Matching(src, object, process))
<1>1. i \in Subs /\ Valid(i)
  <2>1. i \in Matching(src, object, process)
    BY MatchingEntry DEF Cancel
  <2> HIDE DEF i
  <2>2. QED
    BY <2>1 DEF Matching
<1>2. /\ COV_Subscriptions' = [COV_Subscriptions EXCEPT ![i] = NoSubscription]
      /\ COV_Addresses' = AddressesUsedBy(COV_Subscriptions')
      /\ TSM_List' = FreedIfAny(TSM_List, COV_Subscriptions[i].invokeID)
      /\ owed' = owed \ {i}
      /\ UNCHANGED <<cov_task_state, index, Change_Of_Value,
                     Current_Invoke_ID, DCC_Enable_Disable,
                     DCC_Time_Duration_Seconds>>
  BY DEF Cancel, fsmVars, dccVars
<1> HIDE DEF i
<1>3. /\ SubsOK(COV_Subscriptions')
      /\ COV_Subscriptions'[i] = NoSubscription
      /\ \A j \in Subs \ {i} : COV_Subscriptions'[j] = COV_Subscriptions[j]
  BY <1>1, <1>2 DEF COVInv, SubsOK
<1>4. COV_Subscriptions[i].invokeID \in 0 .. MAX_INVOKE_ID
  BY <1>1 DEF COVInv, SubsOK, Valid, Subscription
<1>5. TableOK(TSM_List)
  BY DEF COVInv, TSMInv
<1>6. /\ TableOK(TSM_List')
      /\ \A k \in Slots :
            TSM_List'[k].InvokeID # 0 =>
                /\ TSM_List'[k].InvokeID = TSM_List[k].InvokeID
                /\ ~Owner(COV_Subscriptions[i], TSM_List[k].InvokeID)
  BY <1>2, <1>4, <1>5, FreedSlots DEF Owner
<1> DEFINE ended == {i}
<1>7. /\ ended \in SUBSET Subs
      /\ \A j \in ended : COV_Subscriptions'[j] = NoSubscription
      /\ owed' = owed \ ended
      /\ \A k \in Slots :
            TSM_List'[k].InvokeID # 0 =>
                /\ TSM_List'[k].InvokeID = TSM_List[k].InvokeID
                /\ \A j \in ended :
                        ~Owner(COV_Subscriptions[j], TSM_List[k].InvokeID)
  BY <1>1, <1>2, <1>3, <1>6
<1>8. \A j \in Subs \ ended :
        IF Valid(j)
        THEN /\ COV_Subscriptions'[j] # NoSubscription
             /\ COV_Subscriptions'[j].dest_index = COV_Subscriptions[j].dest_index
             /\ COV_Subscriptions'[j].issueConfirmedNotifications =
                    COV_Subscriptions[j].issueConfirmedNotifications
             /\ COV_Subscriptions'[j].invokeID = COV_Subscriptions[j].invokeID
        ELSE COV_Subscriptions'[j] = NoSubscription
  BY <1>3 DEF Valid
<1> HIDE DEF ended
<1>9. QED
  BY <1>2, <1>3, <1>6, <1>7, <1>8, EndKeepsInvariant

(* Lifetimes run out.                                                      *)
LEMMA LifetimeStep ==
    ASSUME COVInv, NEW seconds \in SECONDS, handler_cov_timer_seconds(seconds)
    PROVE  COVInv'
<1> DEFINE expired == Expiring(seconds)
           ids == IDsToDrop(expired)
           older(j) == [COV_Subscriptions[j] EXCEPT
                            !.lifetime = TimeLeft(COV_Subscriptions[j], seconds)]
<1>1. /\ COV_Subscriptions' =
            [j \in Subs |->
                IF j \in expired THEN NoSubscription
                ELSE IF ~Valid(j) THEN NoSubscription
                ELSE older(j)]
      /\ COV_Addresses' = IF expired = {} THEN COV_Addresses
                          ELSE AddressesUsedBy(COV_Subscriptions')
      /\ TSM_List' =
            [k \in Slots |->
                IF TSM_List[k].InvokeID \in ids
                THEN [TSM_List[k] EXCEPT !.state = "IDLE", !.InvokeID = 0]
                ELSE TSM_List[k]]
      /\ owed' = owed \ expired
      /\ UNCHANGED <<cov_task_state, index, Change_Of_Value,
                     Current_Invoke_ID, DCC_Enable_Disable,
                     DCC_Time_Duration_Seconds>>
  BY DEF handler_cov_timer_seconds, fsmVars, dccVars
<1>2. expired \in SUBSET Subs
  BY DEF Expiring
<1>3. ASSUME NEW j \in Subs, Valid(j)
      PROVE  /\ older(j) \in Subscription
             /\ older(j) # NoSubscription
             /\ older(j).dest_index = COV_Subscriptions[j].dest_index
             /\ older(j).invokeID = COV_Subscriptions[j].invokeID
             /\ older(j).issueConfirmedNotifications =
                    COV_Subscriptions[j].issueConfirmedNotifications
  <2>1. COV_Subscriptions[j] \in Subscription
    BY <1>3 DEF COVInv, SubsOK, Valid
  <2>2. seconds \in Nat /\ COV_Subscriptions[j].lifetime \in Nat
    BY <2>1, COVConstants DEF Subscription
  <2>3. TimeLeft(COV_Subscriptions[j], seconds) \in Nat
    BY <2>2 DEF TimeLeft
  <2>4. older(j) \in Subscription
    BY <2>1, <2>3 DEF Subscription
  <2>5. older(j) # NoSubscription
    BY <2>4, SubscriptionIsSome
  <2>6. QED
    BY <2>1, <2>4, <2>5 DEF Subscription
<1>4. TableOK(TSM_List)
  BY DEF COVInv, TSMInv
<1>5. /\ TableOK(TSM_List')
      /\ \A k \in Slots :
            TSM_List'[k].InvokeID # 0 =>
                TSM_List'[k] = TSM_List[k] /\ TSM_List[k].InvokeID \notin ids
  BY <1>1, <1>4, DroppedSlots
<1>6. ASSUME NEW j \in expired, NEW k \in Slots, TSM_List'[k].InvokeID # 0
      PROVE  ~Owner(COV_Subscriptions[j], TSM_List[k].InvokeID)
  BY <1>5, <1>6 DEF Owner, IDsToDrop
<1> HIDE DEF expired, ids, older
<1>7. SubsOK(COV_Subscriptions')
  BY <1>1, <1>3 DEF SubsOK
<1>8. /\ \A j \in expired : COV_Subscriptions'[j] = NoSubscription
      /\ \A j \in Subs \ expired :
            COV_Subscriptions'[j] = IF ~Valid(j) THEN NoSubscription ELSE older(j)
  BY <1>1, <1>2
<1>9. \A j \in Subs \ expired :
        IF Valid(j)
        THEN /\ COV_Subscriptions'[j] # NoSubscription
             /\ COV_Subscriptions'[j].dest_index = COV_Subscriptions[j].dest_index
             /\ COV_Subscriptions'[j].issueConfirmedNotifications =
                    COV_Subscriptions[j].issueConfirmedNotifications
             /\ COV_Subscriptions'[j].invokeID = COV_Subscriptions[j].invokeID
        ELSE COV_Subscriptions'[j] = NoSubscription
  BY <1>3, <1>8
<1>10. \/ COV_Addresses' = AddressesUsedBy(COV_Subscriptions')
       \/ expired = {} /\ COV_Addresses' = COV_Addresses
  BY <1>1
<1>11. \A k \in Slots :
        TSM_List'[k].InvokeID # 0 =>
            /\ TSM_List'[k].InvokeID = TSM_List[k].InvokeID
            /\ \A j \in expired :
                    ~Owner(COV_Subscriptions[j], TSM_List[k].InvokeID)
  BY <1>5, <1>6
<1>12. QED
  BY <1>1, <1>2, <1>5, <1>7, <1>8, <1>9, <1>10, <1>11, EndKeepsInvariant

----------------------------------------------------------------------------
(* What happens around the subscriptions.                                  *)

(* An answer, or the transaction timer: ids are freed or stay.             *)
LEMMA TransactionSteps ==
    ASSUME COVInv, (\E id \in InvokeIDs : AnswerArrives(id)) \/ TransactionTimer
    PROVE  COVInv'
<1>1. UNCHANGED <<COV_Subscriptions, COV_Addresses, cov_task_state, index,
                  Change_Of_Value, owed, Current_Invoke_ID, DCC_Enable_Disable,
                  DCC_Time_Duration_Seconds>>
  BY DEF AnswerArrives, TransactionTimer, tsm_free_invoke_id,
         tsm_timer_milliseconds, covVars, dccVars
<1>2. TableOK(TSM_List)
  BY DEF COVInv, TSMInv
<1>3. /\ TableOK(TSM_List')
      /\ \A k \in Slots :
            TSM_List'[k].InvokeID # 0 =>
                TSM_List'[k].InvokeID = TSM_List[k].InvokeID
  <2>1. ASSUME NEW id \in InvokeIDs, AnswerArrives(id)
        PROVE  /\ TableOK(TSM_List')
               /\ \A k \in Slots :
                    TSM_List'[k].InvokeID # 0 =>
                        TSM_List'[k].InvokeID = TSM_List[k].InvokeID
    <3>1. id \in 0 .. MAX_INVOKE_ID /\ id # 0
      BY IndexBounds
    <3>2. TSM_List' = FreedIfAny(TSM_List, id)
      BY <2>1, <3>1 DEF AnswerArrives, tsm_free_invoke_id, FreedIfAny
    <3>3. QED
      BY <1>2, <3>1, <3>2, FreedSlots
  <2>2. ASSUME NEW ms \in TICKS, tsm_timer_milliseconds(ms)
        PROVE  /\ TableOK(TSM_List')
               /\ \A k \in Slots :
                    TSM_List'[k].InvokeID # 0 =>
                        TSM_List'[k].InvokeID = TSM_List[k].InvokeID
    BY <1>2, <2>2, TickedIDs DEF tsm_timer_milliseconds
  <2>3. QED
    BY <2>1, <2>2 DEF TransactionTimer
<1>4. Owned(TSM_List', COV_Subscriptions')
  BY <1>1, <1>3 DEF COVInv, Owned
<1>5. QED
  BY <1>1, <1>3, <1>4 DEF COVInv, TSMInv, DCCTypeOK, TaskOK

(* Communication control.                                                  *)
LEMMA CommunicationSteps ==
    ASSUME COVInv,
           \/ \E status \in Statuses, minutes \in MINUTES :
                    DeviceCommunicationControl(status, minutes)
           \/ CommunicationTimer
    PROVE  COVInv'
<1>1. UNCHANGED <<COV_Subscriptions, COV_Addresses, cov_task_state, index,
                  Change_Of_Value, owed, TSM_List, Current_Invoke_ID>>
  BY DEF DeviceCommunicationControl, CommunicationTimer, covVars, tsmVars
<1>2. DCCTypeOK'
  <2>1. ASSUME NEW status \in Statuses, NEW minutes \in MINUTES,
               dcc_set_status_duration(status, minutes)
        PROVE  DCCTypeOK'
    <3>1. minutes \in Nat /\ SECONDS_PER_MINUTE \in Nat
      BY COVConstants, DCCConstants
    <3>2. minutes * SECONDS_PER_MINUTE \in Nat
      BY <3>1
    <3>3. QED
      BY <2>1, <3>2 DEF dcc_set_status_duration, DCCTypeOK
  <2>2. ASSUME NEW seconds \in SECONDS, dcc_timer_seconds(seconds)
        PROVE  DCCTypeOK'
    <3>1. seconds \in Nat
      BY COVConstants
    <3>2. QED
      BY <2>2, <3>1 DEF dcc_timer_seconds, COVInv, DCCTypeOK, Statuses
  <2>3. QED
    BY <2>1, <2>2 DEF DeviceCommunicationControl, CommunicationTimer
<1>3. QED
  BY <1>1, <1>2 DEF COVInv, TSMInv, TaskOK

(* An object changes: everybody who subscribed to it is owed.              *)
LEMMA ObjectStep ==
    ASSUME COVInv, NEW object \in Objects, ObjectChanges(object)
    PROVE  COVInv'
  BY DEF COVInv, ObjectChanges, fsmVars, tsmVars, dccVars, TSMInv, DCCTypeOK,
         TaskOK, OwedOK, Valid

----------------------------------------------------------------------------
(* The invariant.                                                          *)

LEMMA COVInvInit == COVInit => COVInv
<1> SUFFICES ASSUME COVInit
             PROVE  COVInv
  OBVIOUS
<1>1. TSMInv
  BY TSMInvInit DEF COVInit
<1>2. DCCTypeOK
  BY DEF COVInit, DCCInit, DCCTypeOK, Statuses
<1>3. TaskOK
  BY IndexBounds DEF COVInit, TaskOK
<1>4. /\ SubsOK(COV_Subscriptions) /\ AddrsOK(COV_Addresses)
      /\ OwedOK(owed, COV_Subscriptions)
  BY DEF COVInit, SubsOK, AddrsOK, OwedOK
<1>5. Matched(COV_Subscriptions, COV_Addresses)
  BY DEF COVInit, Matched, PointedAt
<1>6. Owned(TSM_List, COV_Subscriptions)
  BY DEF COVInit, TSMInit, UnusedTransaction, Owned
<1>7. QED
  BY <1>1, <1>2, <1>3, <1>4, <1>5, <1>6 DEF COVInv

LEMMA COVInvStep == COVInv /\ [COVNext]_vars => COVInv'
<1> SUFFICES ASSUME COVInv, [COVNext]_vars
             PROVE  COVInv'
  OBVIOUS
<1>1. CASE handler_cov_fsm
  BY <1>1, QuietSteps, MarkStep, FreeStep, SendStep DEF handler_cov_fsm
<1>2. ASSUME NEW src \in Sources, NEW object \in Objects,
             NEW process \in Processes, NEW confirmed \in BOOLEAN,
             NEW lifetime \in LIFETIMES,
             Subscribe(src, object, process, confirmed, lifetime)
      PROVE  COVInv'
  BY <1>2, SubscribeStep
<1>3. ASSUME NEW src \in Sources, NEW object \in Objects,
             NEW process \in Processes, Cancel(src, object, process)
      PROVE  COVInv'
  BY <1>3, CancelStep
<1>4. ASSUME NEW seconds \in SECONDS, handler_cov_timer_seconds(seconds)
      PROVE  COVInv'
  BY <1>4, LifetimeStep
<1>5. ASSUME NEW object \in Objects, ObjectChanges(object)
      PROVE  COVInv'
  BY <1>5, ObjectStep
<1>6. CASE (\E id \in InvokeIDs : AnswerArrives(id)) \/ TransactionTimer
  BY <1>6, TransactionSteps
<1>7. CASE \/ \E status \in Statuses, minutes \in MINUTES :
                    DeviceCommunicationControl(status, minutes)
           \/ CommunicationTimer
  BY <1>7, CommunicationSteps
<1>8. CASE UNCHANGED vars
  BY <1>8 DEF vars, covVars, tsmVars, dccVars, COVInv, TSMInv, DCCTypeOK, TaskOK
<1>9. QED
  BY <1>1, <1>2, <1>3, <1>4, <1>5, <1>6, <1>7, <1>8 DEF COVNext

THEOREM COVInvariant == COVSpec => []COVInv
<1>1. QED
  BY COVInvInit, COVInvStep, PTL DEF COVSpec

(* All tables keep their types and the task never looks past them; only    *)
(* live subscriptions are owed anything.                                   *)
THEOREM COVTypeCorrect == COVSpec => []COVTypeOK
<1>1. COVInv => COVTypeOK
  BY DEF COVInv, COVTypeOK, TSMInv, TableOK, TSMTypeOK, TaskOK, SubsOK, AddrsOK,
         OwedOK, Valid
<1>2. QED
  BY <1>1, COVInvariant, PTL

(* cov_address_remove_unused neither leaks an address nor takes one that a *)
(* subscription needs, and no address is listed twice.                     *)
THEOREM AddressesStayMatched == COVSpec => []AddressesMatchSubscriptions
<1>1. COVInv => AddressesMatchSubscriptions
  BY DEF COVInv, Matched, PointedAt, AddressesMatchSubscriptions, Valid
<1>2. QED
  BY <1>1, COVInvariant, PTL

(* Every transaction that the notification task started belongs to a live  *)
(* subscription that will free it, however subscriptions end.              *)
THEOREM TransactionsAreNotLeaked == COVSpec => []NoTransactionLeak
<1>1. COVInv => NoTransactionLeak
  BY DEF COVInv, Owned, Owner, NoTransactionLeak, Valid
<1>2. QED
  BY <1>1, COVInvariant, PTL

----------------------------------------------------------------------------
(* One subscription per client, object and process.  This needs an address *)
(* entry for every client: a subscription that found the list full has no  *)
(* address and matches whoever asks.                                       *)

RoomForAll == IsFiniteSet(Sources) /\ Cardinality(Sources) <= MAX_COV_ADDRESSES

HaveAddresses ==
    \A i \in Subs : Valid(i) => COV_Subscriptions[i].dest_index \in Addrs

(* With room for all clients the search for an entry never comes back      *)
(* empty-handed: otherwise the addresses of the list were as many other    *)
(* clients.                                                                *)
LEMMA AddressFindsRoom ==
    ASSUME RoomForAll, COVInv, NEW src \in Sources
    PROVE  AddressIndex(src) \in Addrs
<1> SUFFICES ASSUME \A a \in Addrs : COV_Addresses[a] \notin {src, NoSource}
             PROVE  FALSE
  BY WhereAddressGoes DEF COVInv
<1> DEFINE others == Sources \ {src}
<1>1. /\ IsFiniteSet(others)
      /\ Cardinality(others) = Cardinality(Sources) - 1
  BY FS_RemoveElement DEF RoomForAll
<1>2. MAX_COV_ADDRESSES \in Nat /\ MAX_COV_ADDRESSES >= 1
  BY COVConstants
<1>3. Cardinality(Addrs) = MAX_COV_ADDRESSES
  <2>1. /\ 0 \in Int /\ MAX_COV_ADDRESSES - 1 \in Int
        /\ 0 <= MAX_COV_ADDRESSES - 1
    BY <1>2
  <2>2. Cardinality(0 .. MAX_COV_ADDRESSES - 1) = (MAX_COV_ADDRESSES - 1) - 0 + 1
    BY <2>1, FS_Interval
  <2>3. QED
    BY <1>2, <2>2 DEF Addrs
<1>4. COV_Addresses \in Injection(Addrs, others)
  <2>1. COV_Addresses \in [Addrs -> others]
    BY DEF COVInv, AddrsOK
  <2>2. \A a, b \in Addrs : COV_Addresses[a] = COV_Addresses[b] => a = b
    BY DEF COVInv, Matched
  <2>3. QED
    BY <2>1, <2>2 DEF Injection, IsInjective
<1>5. Cardinality(Addrs) <= Cardinality(others)
  BY <1>1, <1>4, FS_Injection
<1>6. Cardinality(Sources) \in Nat
  BY FS_CardinalityType DEF RoomForAll
<1>7. QED
  BY <1>1, <1>2, <1>3, <1>5, <1>6 DEF RoomForAll

(* A step that makes no subscription and leaves those that stay to the     *)
(* same client.                                                            *)
ClientsKept ==
    \A i \in Subs :
        COV_Subscriptions'[i] # NoSubscription =>
            /\ Valid(i)
            /\ COV_Subscriptions'[i].object = COV_Subscriptions[i].object
            /\ COV_Subscriptions'[i].process = COV_Subscriptions[i].process
            /\ COV_Subscriptions'[i].dest_index = COV_Subscriptions[i].dest_index
            /\ COV_Subscriptions[i].dest_index \in Addrs =>
                COV_Addresses'[COV_Subscriptions[i].dest_index] =
                    COV_Addresses[COV_Subscriptions[i].dest_index]

ClientsInv == HaveAddresses /\ NoDuplicateSubscription

LEMMA KeptClients == ClientsInv /\ ClientsKept => ClientsInv'
<1> SUFFICES ASSUME ClientsInv, ClientsKept
             PROVE  ClientsInv'
  OBVIOUS
<1>1. HaveAddresses'
  BY DEF ClientsInv, ClientsKept, HaveAddresses, Valid
<1>2. ASSUME NEW i \in Subs, NEW j \in Subs, Valid(i)', Valid(j)',
             COV_Subscriptions'[i].object = COV_Subscriptions'[j].object,
             COV_Subscriptions'[i].process = COV_Subscriptions'[j].process,
             cov_address_get(COV_Subscriptions[i].dest_index)' =
                cov_address_get(COV_Subscriptions[j].dest_index)'
      PROVE  i = j
  <2>1. /\ Valid(i) /\ Valid(j)
        /\ COV_Subscriptions[i].object = COV_Subscriptions[j].object
        /\ COV_Subscriptions[i].process = COV_Subscriptions[j].process
        /\ COV_Subscriptions[i].dest_index \in Addrs
        /\ COV_Subscriptions[j].dest_index \in Addrs
        /\ COV_Subscriptions'[i].dest_index = COV_Subscriptions[i].dest_index
        /\ COV_Subscriptions'[j].dest_index = COV_Subscriptions[j].dest_index
        /\ COV_Addresses'[COV_Subscriptions[i].dest_index] =
                COV_Addresses[COV_Subscriptions[i].dest_index]
        /\ COV_Addresses'[COV_Subscriptions[j].dest_index] =
                COV_Addresses[COV_Subscriptions[j].dest_index]
    BY <1>2 DEF ClientsInv, ClientsKept, HaveAddresses, Valid
  <2>2. cov_address_get(COV_Subscriptions[i].dest_index) =
            cov_address_get(COV_Subscriptions[j].dest_index)
    BY <1>2, <2>1 DEF cov_address_get
  <2>3. QED
    BY <2>1, <2>2 DEF ClientsInv, NoDuplicateSubscription
<1>3. QED
  BY <1>1, <1>2 DEF ClientsInv, NoDuplicateSubscription

(* Every step but a request keeps the clients.                             *)
LEMMA TaskKeepsClients == COVInv /\ handler_cov_fsm => ClientsKept
<1> SUFFICES ASSUME COVInv, handler_cov_fsm
             PROVE  ClientsKept
  OBVIOUS
<1>1. COV_Addresses' = COV_Addresses
  BY DEF handler_cov_fsm, StartPass, Mark, Clear, Free, SendNothing,
         SendNotification
<1>2. CASE COV_Subscriptions' = COV_Subscriptions
  BY <1>1, <1>2 DEF ClientsKept, Valid
<1>3. CASE \E requested, id :
            /\ Valid(index)
            /\ COV_Subscriptions' = [COV_Subscriptions EXCEPT
                    ![index].send_requested = requested, ![index].invokeID = id]
  <2>1. PICK requested, id :
            /\ Valid(index)
            /\ COV_Subscriptions' = [COV_Subscriptions EXCEPT
                    ![index].send_requested = requested, ![index].invokeID = id]
    BY <1>3
  <2>2. /\ index \in Subs /\ COV_Subscriptions[index] \in Subscription
        /\ COV_Subscriptions \in [Subs -> Subscription \cup {NoSubscription}]
    BY <2>1 DEF COVInv, TaskOK, SubsOK, Valid
  <2> DEFINE t == [COV_Subscriptions[index] EXCEPT
                        !.send_requested = requested, !.invokeID = id]
  <2>3. COV_Subscriptions' = [COV_Subscriptions EXCEPT ![index] = t]
    BY <2>1, <2>2
  <2>4. /\ t.object = COV_Subscriptions[index].object
        /\ t.process = COV_Subscriptions[index].process
        /\ t.dest_index = COV_Subscriptions[index].dest_index
    BY <2>2 DEF Subscription
  <2> HIDE DEF t
  <2>5. /\ COV_Subscriptions'[index] = t
        /\ \A j \in Subs \ {index} :
                COV_Subscriptions'[j] = COV_Subscriptions[j]
    BY <2>2, <2>3
  <2>6. QED
    BY <1>1, <2>1, <2>4, <2>5 DEF ClientsKept, Valid
<1>4. \/ COV_Subscriptions' = COV_Subscriptions
      \/ \E requested, id :
            /\ Valid(index)
            /\ COV_Subscriptions' = [COV_Subscriptions EXCEPT
                    ![index].send_requested = requested, ![index].invokeID = id]
  <2> DEFINE s == COV_Subscriptions[index]
  <2>1. /\ index \in Subs
        /\ COV_Subscriptions \in [Subs -> Subscription \cup {NoSubscription}]
        /\ Valid(index) => s \in Subscription
    BY DEF COVInv, TaskOK, SubsOK, Valid
  <2>2. CASE StartPass \/ Clear \/ SendNothing
    BY <2>2 DEF StartPass, Clear, SendNothing
  <2>3. CASE Mark
    <3>1. SUFFICES ASSUME Valid(index),
                          COV_Subscriptions' = [COV_Subscriptions EXCEPT
                                ![index].send_requested = TRUE]
                   PROVE  COV_Subscriptions' = [COV_Subscriptions EXCEPT
                                ![index].send_requested = TRUE,
                                ![index].invokeID = s.invokeID]
      BY <2>3 DEF Mark
    <3>2. [s EXCEPT !.send_requested = TRUE] =
            [s EXCEPT !.send_requested = TRUE, !.invokeID = s.invokeID]
      BY <2>1, <3>1 DEF Subscription
    <3>3. QED
      BY <2>1, <3>1, <3>2
  <2>4. CASE Free
    <3>1. SUFFICES ASSUME Valid(index),
                          COV_Subscriptions' = [COV_Subscriptions EXCEPT
                                ![index].invokeID = 0]
                   PROVE  \E requested :
                            COV_Subscriptions' = [COV_Subscriptions EXCEPT
                                ![index].send_requested = requested,
                                ![index].invokeID = 0]
      BY <2>4 DEF Free
    <3>2. /\ s.send_requested \in BOOLEAN
          /\ [s EXCEPT !.invokeID = 0] =
                [s EXCEPT !.send_requested = s.send_requested, !.invokeID = 0]
      BY <2>1, <3>1 DEF Subscription
    <3>3. COV_Subscriptions' = [COV_Subscriptions EXCEPT
                ![index].send_requested = s.send_requested, ![index].invokeID = 0]
      BY <2>1, <3>1, <3>2
    <3>4. QED
      BY <3>2, <3>3
  <2>5. ASSUME NEW sent \in SEND_RESULTS, SendNotification(sent)
        PROVE  \E requested, id :
                /\ Valid(index)
                /\ COV_Subscriptions' = [COV_Subscriptions EXCEPT
                        ![index].send_requested = requested,
                        ![index].invokeID = id]
    <3> DEFINE number == IF s.issueConfirmedNotifications
                         THEN FirstUnusedID(TSM_List, Current_Invoke_ID)
                         ELSE s.invokeID
    <3>1. Valid(index) /\ s \in Subscription /\ (~sent) \in BOOLEAN
      BY <2>1, <2>5 DEF SendNotification, Notifiable
    <3>2. COV_Subscriptions' = [COV_Subscriptions EXCEPT
                ![index].send_requested = ~sent,
                ![index].invokeID =
                    IF s.issueConfirmedNotifications
                    THEN FirstUnusedID(TSM_List, Current_Invoke_ID) ELSE @]
      BY <2>5 DEF SendNotification
    <3>3. COV_Subscriptions' = [COV_Subscriptions EXCEPT
                ![index].send_requested = ~sent, ![index].invokeID = number]
      BY <2>1, <3>1, <3>2 DEF Subscription
    <3> HIDE DEF number
    <3>4. QED
      BY <3>1, <3>3
  <2>6. QED
    BY <2>2, <2>3, <2>4, <2>5 DEF handler_cov_fsm
<1>5. QED
  BY <1>2, <1>3, <1>4

(* Subscriptions that end do not disturb the others.                       *)
LEMMA EndsKeepClients ==
    ASSUME COVInv,
           \/ \E src, object, process : Cancel(src, object, process)
           \/ \E seconds : handler_cov_timer_seconds(seconds)
    PROVE  ClientsKept
<1>1. \A i \in Subs : Valid(i) => COV_Subscriptions[i] \in Subscription
  BY DEF COVInv, SubsOK, Valid
<1>2. \/ COV_Addresses' = COV_Addresses
      \/ COV_Addresses' = AddressesUsedBy(COV_Subscriptions')
  BY DEF Cancel, handler_cov_timer_seconds
<1>3. ASSUME NEW i \in Subs, COV_Subscriptions'[i] # NoSubscription
      PROVE  /\ Valid(i)
             /\ COV_Subscriptions'[i].object = COV_Subscriptions[i].object
             /\ COV_Subscriptions'[i].process = COV_Subscriptions[i].process
             /\ COV_Subscriptions'[i].dest_index = COV_Subscriptions[i].dest_index
  <2>1. ASSUME NEW src, NEW object, NEW process, Cancel(src, object, process)
        PROVE  Valid(i) /\ COV_Subscriptions'[i] = COV_Subscriptions[i]
    <3> DEFINE k == Lowest(Matching(src, object, process))
    <3>1. COV_Subscriptions' = [COV_Subscriptions EXCEPT ![k] = NoSubscription]
      BY <2>1 DEF Cancel
    <3> HIDE DEF k
    <3>2. QED
      BY <1>3, <3>1 DEF COVInv, SubsOK, Valid
  <2>2. ASSUME NEW seconds, handler_cov_timer_seconds(seconds)
        PROVE  /\ Valid(i)
               /\ COV_Subscriptions'[i] = [COV_Subscriptions[i] EXCEPT
                    !.lifetime = TimeLeft(COV_Subscriptions[i], seconds)]
    <3>1. COV_Subscriptions'[i] =
            IF i \in Expiring(seconds) THEN NoSubscription
            ELSE IF ~Valid(i) THEN NoSubscription
            ELSE [COV_Subscriptions[i] EXCEPT
                    !.lifetime = TimeLeft(COV_Subscriptions[i], seconds)]
      BY <2>2 DEF handler_cov_timer_seconds
    <3>2. QED
      BY <1>3, <3>1
  <2>3. QED
    BY <1>1, <2>1, <2>2 DEF Subscription
<1>4. ASSUME NEW i \in Subs, COV_Subscriptions'[i] # NoSubscription,
             COV_Subscriptions[i].dest_index \in Addrs
      PROVE  COV_Addresses'[COV_Subscriptions[i].dest_index] =
                COV_Addresses[COV_Subscriptions[i].dest_index]
  BY <1>2, <1>3, <1>4 DEF AddressesUsedBy
<1>5. QED
  BY <1>3, <1>4 DEF ClientsKept

(* A request makes or renews the one subscription of its client.           *)
LEMMA RequestKeepsClients ==
    ASSUME RoomForAll, COVInv, ClientsInv,
           NEW src \in Sources, NEW object \in Objects, NEW process \in Processes,
           NEW confirmed \in BOOLEAN, NEW lifetime \in LIFETIMES,
           Subscribe(src, object, process, confirmed, lifetime)
    PROVE  ClientsInv'
<1> DEFINE matching == Matching(src, object, process)
           entry == Lowest(IF matching # {} THEN matching ELSE InvalidSubs)
           new == NewSubscription(src, object, process, confirmed, lifetime)
           x == AddressIndex(src)
<1>1. PICK i \in Subs : i = entry /\ (matching # {} => i \in matching)
  BY EntryOfRequest DEF Subscribe
<1>2. /\ COV_Subscriptions' = [COV_Subscriptions EXCEPT ![i] = new]
      /\ COV_Addresses' = AddressesWith(src)
  BY <1>1 DEF Subscribe
<1>3. /\ x \in Addrs
      /\ COV_Addresses[x] \in {src, NoSource}
  BY AddressFindsRoom, WhereAddressGoes, IndexBounds DEF COVInv
<1>4. new.object = object /\ new.process = process /\ new.dest_index = x
  BY DEF NewSubscription
<1>5. \A a \in Addrs : COV_Addresses'[a] =
                            IF a = x THEN src ELSE COV_Addresses[a]
  BY <1>2 DEF AddressesWith
<1> HIDE DEF entry, new, x, matching
<1>6. /\ COV_Subscriptions'[i] = new
      /\ \A j \in Subs \ {i} : COV_Subscriptions'[j] = COV_Subscriptions[j]
  BY <1>1, <1>2 DEF COVInv, SubsOK
<1>7. ASSUME NEW j \in Subs, Valid(j)
      PROVE  /\ COV_Subscriptions[j].dest_index \in Addrs
             /\ COV_Addresses[COV_Subscriptions[j].dest_index] # NoSource
             /\ COV_Addresses'[COV_Subscriptions[j].dest_index] =
                    COV_Addresses[COV_Subscriptions[j].dest_index]
  <2>1. COV_Subscriptions[j].dest_index \in Addrs
    BY <1>7 DEF ClientsInv, HaveAddresses
  <2>2. COV_Addresses[COV_Subscriptions[j].dest_index] # NoSource
    BY <1>7, <2>1 DEF COVInv, Matched, PointedAt, Valid
  <2>3. QED
    BY <1>3, <1>5, <2>1, <2>2
<1>8. ASSUME NEW j \in Subs, j # i, Valid(j),
             COV_Subscriptions[j].object = object,
             COV_Subscriptions[j].process = process
      PROVE  COV_Addresses[COV_Subscriptions[j].dest_index] # src
  <2>1. SUFFICES ASSUME COV_Addresses[COV_Subscriptions[j].dest_index] = src
                 PROVE  FALSE
    OBVIOUS
  <2>2. j \in matching
    BY <1>7, <1>8, <2>1 DEF matching, Matching, cov_address_get
  <2>3. i \in matching
    BY <1>1, <2>2
  <2>4. /\ Valid(i)
        /\ COV_Subscriptions[i].object = object
        /\ COV_Subscriptions[i].process = process
        /\ cov_address_get(COV_Subscriptions[i].dest_index) \in {src, NoSource}
    BY <2>3 DEF matching, Matching
  <2>5. cov_address_get(COV_Subscriptions[i].dest_index) = src
    BY <1>1, <1>7, <2>4 DEF cov_address_get
  <2>6. cov_address_get(COV_Subscriptions[j].dest_index) = src
    BY <1>7, <1>8, <2>1 DEF cov_address_get
  <2>7. QED
    BY <1>1, <1>8, <2>4, <2>5, <2>6 DEF ClientsInv, NoDuplicateSubscription
<1>9. HaveAddresses'
  <2>1. SUFFICES ASSUME NEW j \in Subs, COV_Subscriptions'[j] # NoSubscription
                 PROVE  COV_Subscriptions'[j].dest_index \in Addrs
    BY DEF HaveAddresses, Valid
  <2>2. CASE j = i
    BY <1>3, <1>4, <1>6, <2>2
  <2>3. CASE j # i
    BY <1>6, <1>7, <2>1, <2>3 DEF Valid
  <2>4. QED
    BY <2>2, <2>3
<1>10. ASSUME NEW j \in Subs, j # i, Valid(j)'
       PROVE  /\ Valid(j)
              /\ COV_Subscriptions'[j] = COV_Subscriptions[j]
              /\ cov_address_get(COV_Subscriptions[j].dest_index)' =
                    COV_Addresses[COV_Subscriptions[j].dest_index]
  <2>1. Valid(j) /\ COV_Subscriptions'[j] = COV_Subscriptions[j]
    BY <1>6, <1>10 DEF Valid
  <2>2. QED
    BY <1>7, <2>1 DEF cov_address_get
<1>11. cov_address_get(COV_Subscriptions[i].dest_index)' = src
  BY <1>3, <1>4, <1>5, <1>6 DEF cov_address_get
<1>12. ASSUME NEW j \in Subs, NEW k \in Subs, Valid(j)', Valid(k)',
              COV_Subscriptions'[j].object = COV_Subscriptions'[k].object,
              COV_Subscriptions'[j].process = COV_Subscriptions'[k].process,
              cov_address_get(COV_Subscriptions[j].dest_index)' =
                    cov_address_get(COV_Subscriptions[k].dest_index)'
       PROVE  j = k
  <2>1. CASE j = i /\ k # i
    BY <1>4, <1>6, <1>8, <1>10, <1>11, <1>12, <2>1
  <2>2. CASE k = i /\ j # i
    BY <1>4, <1>6, <1>8, <1>10, <1>11, <1>12, <2>2
  <2>3. CASE j # i /\ k # i
    <3>1. /\ Valid(j) /\ Valid(k)
          /\ COV_Subscriptions[j].object = COV_Subscriptions[k].object
          /\ COV_Subscriptions[j].process = COV_Subscriptions[k].process
          /\ cov_address_get(COV_Subscriptions[j].dest_index) =
                cov_address_get(COV_Subscriptions[k].dest_index)
      BY <1>7, <1>10, <1>12, <2>3 DEF cov_address_get
    <3>2. QED
      BY <3>1 DEF ClientsInv, NoDuplicateSubscription
  <2>4. QED
    BY <2>1, <2>2, <2>3
<1>13. QED
  BY <1>9, <1>12 DEF ClientsInv, NoDuplicateSubscription

LEMMA ClientsStep ==
    RoomForAll /\ COVInv /\ ClientsInv /\ [COVNext]_vars => ClientsInv'
<1> SUFFICES ASSUME RoomForAll, COVInv, ClientsInv, [COVNext]_vars
             PROVE  ClientsInv'
  OBVIOUS
<1>1. CASE handler_cov_fsm
  BY <1>1, TaskKeepsClients, KeptClients
<1>2. ASSUME NEW src \in Sources, NEW object \in Objects,
             NEW process \in Processes, NEW confirmed \in BOOLEAN,
             NEW lifetime \in LIFETIMES,
             Subscribe(src, object, process, confirmed, lifetime)
      PROVE  ClientsInv'
  BY <1>2, RequestKeepsClients
<1>3. CASE \/ \E src \in Sources, object \in Objects, process \in Processes :
                    Cancel(src, object, process)
           \/ \E seconds \in SECONDS : handler_cov_timer_seconds(seconds)
  BY <1>3, EndsKeepClients, KeptClients
<1>4. CASE UNCHANGED <<COV_Subscriptions, COV_Addresses>>
  BY <1>4, KeptClients DEF ClientsKept, Valid
<1>5. \/ handler_cov_fsm
      \/ \E src \in Sources, object \in Objects, process \in Processes :
            \/ \E confirmed \in BOOLEAN, lifetime \in LIFETIMES :
                    Subscribe(src, object, process, confirmed, lifetime)
            \/ Cancel(src, object, process)
      \/ \E seconds \in SECONDS : handler_cov_timer_seconds(seconds)
      \/ UNCHANGED <<COV_Subscriptions, COV_Addresses>>
  BY DEF COVNext, ObjectChanges, AnswerArrives, TransactionTimer,
         DeviceCommunicationControl, CommunicationTimer, vars, covVars
<1>6. QED
  BY <1>1, <1>2, <1>3, <1>4, <1>5

(* With an address entry for every client, a client that asks again renews *)
(* its subscription and never gets a second one, whatever ended or expired *)
(* in between.                                                             *)
THEOREM ClientsHoldOneSubscription ==
    ASSUME RoomForAll
    PROVE  COVSpec => []NoDuplicateSubscription
<1>1. COVInit => ClientsInv
  BY DEF COVInit, ClientsInv, HaveAddresses, NoDuplicateSubscription, Valid
<1>2. COVInv /\ ClientsInv /\ [COVNext]_vars => ClientsInv'
  BY ClientsStep
<1>3. ClientsInv => NoDuplicateSubscription
  BY DEF ClientsInv
<1>4. QED
  BY <1>1, <1>2, <1>3, COVInvariant, PTL DEF COVSpec
----------------------------------------------------------------------------
(* One owner per invoke id.  Ids are handed out round robin, so an id that *)
(* a subscription still holds is met again only after all the others.  The *)
(* task visits every subscription in FREE before it sends again, and hands *)
(* out at most one id per entry in SEND: with a single transaction at a    *)
(* time, as the stack is configured by default (MAX_TSM_TRANSACTIONS,      *)
(* config.h), an id is given up before its turn comes round.  With more    *)
(* transactions ids can be kept longer, and the property fails.            *)

OneTransaction == MAX_TSM_TRANSACTIONS = 1

(* How many ids were handed out since this one, this one included.         *)
Age(cur, id) == IF cur > id THEN cur - id ELSE cur - id + MAX_INVOKE_ID

(* How old the id of an entry may be, given where the task stands.         *)
Oldest(i) ==
    IF cov_task_state = "FREE" /\ i < index THEN 1
    ELSE IF cov_task_state = "SEND" THEN IF i < index THEN index ELSE index + 1
    ELSE MAX_COV_SUBCRIPTIONS

Holds(sub, id) == sub # NoSubscription /\ sub.invokeID = id /\ id # 0

IDsInv ==
    /\ \A s \in Slots : TSM_List[s].InvokeID # 0 =>
            Age(Current_Invoke_ID, TSM_List[s].InvokeID) = 1
    /\ \A i \in Subs, id \in InvokeIDs : Holds(COV_Subscriptions[i], id) =>
            /\ COV_Subscriptions[i].issueConfirmedNotifications
            /\ Age(Current_Invoke_ID, id) <= Oldest(i)
    /\ \A i, j \in Subs, id \in InvokeIDs :
            Holds(COV_Subscriptions[i], id) /\ Holds(COV_Subscriptions[j], id)
                => i = j

(* The table is never wider than the ids that may go round.                *)
LEMMA IndexRange ==
    ASSUME COVInv
    PROVE  /\ MAX_COV_SUBCRIPTIONS \in Nat \ {0}
           /\ MAX_INVOKE_ID \in Nat \ {0}
           /\ MAX_COV_SUBCRIPTIONS <= MAX_INVOKE_ID
           /\ Subs = 0 .. MAX_COV_SUBCRIPTIONS - 1
           /\ index \in 0 .. MAX_COV_SUBCRIPTIONS - 1
           /\ InvokeIDs = 1 .. MAX_INVOKE_ID
           /\ Current_Invoke_ID \in 1 .. MAX_INVOKE_ID
  BY COVConstants, TSMConstants DEF COVInv, TaskOK, TSMInv, Subs, InvokeIDs

(* A step that hands out no id keeps the invariant if slots and entries    *)
(* keep or lose their ids and none is older than it may be then.           *)
LEMMA KeptIDs ==
    ASSUME IDsInv, UNCHANGED Current_Invoke_ID,
           \A s \in Slots : TSM_List'[s].InvokeID # 0 =>
                TSM_List'[s].InvokeID = TSM_List[s].InvokeID,
           \A i \in Subs, id \in InvokeIDs : Holds(COV_Subscriptions'[i], id) =>
                /\ Holds(COV_Subscriptions[i], id)
                /\ COV_Subscriptions'[i].issueConfirmedNotifications =
                        COV_Subscriptions[i].issueConfirmedNotifications
                /\ Age(Current_Invoke_ID, id) <= Oldest(i)'
    PROVE  IDsInv'
  BY DEF IDsInv

(* Where the task goes next, the entries it has dealt with may be no       *)
(* older, and the others may be as old as before.                          *)
LEMMA NextLimits ==
    ASSUME COVInv, NEW i \in Subs
    PROVE  /\ StartPass \/ Mark \/ Clear \/ SendNothing => Oldest(i) <= Oldest(i)'
           /\ Free => IF i = index THEN 1 <= Oldest(i)' ELSE Oldest(i) <= Oldest(i)'
           /\ \A sent \in SEND_RESULTS : SendNotification(sent) =>
                IF i = index THEN 1 <= Oldest(i)' ELSE Oldest(i) + 1 <= Oldest(i)'
<1>1. /\ MAX_COV_SUBCRIPTIONS \in Nat \ {0}
      /\ i \in 0 .. MAX_COV_SUBCRIPTIONS - 1
      /\ index \in 0 .. MAX_COV_SUBCRIPTIONS - 1
  BY IndexRange
<1>2. CASE StartPass
  BY <1>1, <1>2 DEF StartPass, Oldest, Mark, Clear, Free, SendNothing, SendNotification
<1>3. CASE Mark
  BY <1>1, <1>3 DEF Mark, Oldest, Advance, StartPass, Clear, Free, SendNothing, SendNotification
<1>4. CASE Clear
  BY <1>1, <1>4 DEF Clear, Oldest, Advance, StartPass, Mark, Free, SendNothing, SendNotification
<1>5. CASE Free
  BY <1>1, <1>5 DEF Free, Oldest, Advance, StartPass, Mark, Clear, SendNothing, SendNotification
<1>6. CASE SendNothing
  BY <1>1, <1>6 DEF Free, Oldest, Advance, StartPass, Mark, Clear, SendNothing, SendNotification
<1>7. ASSUME NEW sent \in SEND_RESULTS, SendNotification(sent)
      PROVE  IF i = index THEN 1 <= Oldest(i)' ELSE Oldest(i) + 1 <= Oldest(i)'
  BY <1>1, <1>7 DEF Oldest, Advance, SendNotification
<1>8. QED
  BY <1>2, <1>3, <1>4, <1>5, <1>6, <1>7

(* Ages: the counter counts them round, from 1 to MAX_INVOKE_ID.           *)
LEMMA AgesGoRound ==
    ASSUME MAX_INVOKE_ID \in Nat \ {0},
           NEW cur \in 1 .. MAX_INVOKE_ID, NEW id \in 1 .. MAX_INVOKE_ID
    PROVE  /\ Age(cur, id) \in 1 .. MAX_INVOKE_ID
           /\ Age(cur, id) = MAX_INVOKE_ID <=> id = cur
           /\ Age(Following(cur), cur) = 1
           /\ id # cur => Age(Following(cur), id) = Age(cur, id) + 1
<1>1. CASE cur = MAX_INVOKE_ID
  BY <1>1 DEF Age, Following
<1>2. CASE cur # MAX_INVOKE_ID
  BY <1>2 DEF Age, Following
<1>3. QED
  BY <1>1, <1>2

(* With the only slot free, the search takes the id it starts with.        *)
LEMMA OnlySlotFree ==
    ASSUME OneTransaction, COVInv, tsm_transaction_available(TSM_List)
    PROVE  FirstUnusedID(TSM_List, Current_Invoke_ID) = Current_Invoke_ID
<1>1. Slots = {0} /\ TSM_List[0].InvokeID = 0
  BY DEF OneTransaction, tsm_transaction_available, FreeSlots, Slots
<1>2. UsedIDs(TSM_List) = {}
  BY <1>1 DEF UsedIDs
<1> DEFINE cur == Current_Invoke_ID
<1>3. cur \in InvokeIDs /\ InvokeIDs = 1 .. MAX_INVOKE_ID /\ MAX_INVOKE_ID \in Nat
  BY IndexRange
<1>4. \A id \in InvokeIDs :
            /\ Distance(cur, cur) <= Distance(cur, id)
            /\ Distance(cur, id) <= Distance(cur, cur) => id = cur
  BY <1>3 DEF Distance
<1>5. InvokeIDs \ UsedIDs(TSM_List) = InvokeIDs
  BY <1>2
<1> DEFINE Nearest(id) == \A other \in InvokeIDs :
                                Distance(cur, id) <= Distance(cur, other)
<1>6. FirstUnusedID(TSM_List, cur) = CHOOSE id \in InvokeIDs : Nearest(id)
  BY <1>5 DEF FirstUnusedID
<1>7. Nearest(cur) /\ \A id \in InvokeIDs : Nearest(id) => id = cur
  BY <1>3, <1>4
<1> HIDE DEF Nearest, cur
<1>8. QED
  BY <1>3, <1>6, <1>7 DEF cur

(* Phases other than FREE and SEND leave every id where it is.             *)
LEMMA QuietIDs ==
    ASSUME COVInv, IDsInv, StartPass \/ Mark \/ Clear \/ SendNothing
    PROVE  IDsInv'
<1>1. UNCHANGED <<TSM_List, Current_Invoke_ID>>
  BY DEF StartPass, Mark, Clear, SendNothing, tsmVars
<1>2. ASSUME NEW i \in Subs, NEW id \in InvokeIDs,
             Holds(COV_Subscriptions'[i], id)
      PROVE  /\ Holds(COV_Subscriptions[i], id)
             /\ COV_Subscriptions'[i].issueConfirmedNotifications =
                    COV_Subscriptions[i].issueConfirmedNotifications
  <2>1. CASE COV_Subscriptions' = COV_Subscriptions
    BY <1>2, <2>1
  <2>2. CASE /\ Valid(index)
             /\ COV_Subscriptions' =
                    [COV_Subscriptions EXCEPT ![index].send_requested = TRUE]
    <3>1. /\ index \in Subs
          /\ COV_Subscriptions[index] \in Subscription
          /\ COV_Subscriptions \in [Subs -> Subscription \cup {NoSubscription}]
      BY <2>2 DEF COVInv, TaskOK, SubsOK, Valid
    <3>2. CASE i = index
      BY <1>2, <2>2, <3>1, <3>2 DEF Holds, Subscription, Valid
    <3>3. CASE i # index
      BY <1>2, <2>2, <3>1, <3>3
    <3>4. QED
      BY <3>2, <3>3
  <2>3. QED
    BY <2>1, <2>2 DEF StartPass, Mark, Clear, SendNothing
<1>3. ASSUME NEW i \in Subs, NEW id \in InvokeIDs,
             Holds(COV_Subscriptions[i], id)
      PROVE  Age(Current_Invoke_ID, id) <= Oldest(i)'
  <2>1. Age(Current_Invoke_ID, id) <= Oldest(i)
    BY <1>3 DEF IDsInv
  <2>2. Oldest(i) <= Oldest(i)'
    BY NextLimits
  <2>3. Age(Current_Invoke_ID, id) \in Int
    BY IndexRange, AgesGoRound
  <2>4. Oldest(i) \in Int /\ Oldest(i)' \in Int
    BY IndexRange DEF Oldest, Subs, StartPass, Mark, Clear, SendNothing, Advance
  <2>5. QED
    BY <2>1, <2>2, <2>3, <2>4
<1>4. QED
  BY <1>1, <1>2, <1>3, KeptIDs

(* FREE: an entry that keeps its id keeps the latest one, for the slot is  *)
(* not free.                                                               *)
LEMMA FreeIDs ==
    ASSUME COVInv, IDsInv, Free
    PROVE  IDsInv'
<1> DEFINE s == COV_Subscriptions[index]
           confirmed == /\ Valid(index)
                        /\ s.issueConfirmedNotifications
                        /\ s.invokeID # 0
           failed == confirmed /\ tsm_invoke_id_failed(TSM_List, s.invokeID)
           over == /\ confirmed
                   /\ tsm_invoke_id_free(TSM_List, s.invokeID) \/ failed
<1>1. /\ TSM_List' = IF failed THEN Freed(TSM_List, s.invokeID) ELSE TSM_List
      /\ COV_Subscriptions' =
            IF over THEN [COV_Subscriptions EXCEPT ![index].invokeID = 0]
            ELSE COV_Subscriptions
      /\ UNCHANGED Current_Invoke_ID
  BY DEF Free
<1>2. /\ index \in Subs /\ TableOK(TSM_List)
      /\ COV_Subscriptions \in [Subs -> Subscription \cup {NoSubscription}]
      /\ Valid(index) => s \in Subscription
  BY DEF COVInv, TaskOK, SubsOK, TSMInv, Valid
<1>3. ASSUME NEW k \in Slots, TSM_List'[k].InvokeID # 0
      PROVE  TSM_List'[k].InvokeID = TSM_List[k].InvokeID
  <2>1. CASE failed
    <3>1. /\ s.invokeID \in 0 .. MAX_INVOKE_ID
          /\ TSM_List' = FreedIfAny(TSM_List, s.invokeID)
      BY <1>1, <1>2, <2>1 DEF FreedIfAny, Subscription
    <3>2. QED
      BY <1>2, <1>3, <3>1, FreedSlots
  <2>2. CASE ~failed
    BY <1>1, <2>2
  <2>3. QED
    BY <2>1, <2>2
<1>4. ASSUME NEW i \in Subs, NEW id \in InvokeIDs,
             Holds(COV_Subscriptions'[i], id)
      PROVE  /\ Holds(COV_Subscriptions[i], id)
             /\ COV_Subscriptions'[i] = COV_Subscriptions[i]
             /\ i = index => ~over
  <2>1. CASE over
    <3>1. s \in Subscription
      BY <1>2, <2>1
    <3>2. COV_Subscriptions' = [COV_Subscriptions EXCEPT ![index].invokeID = 0]
      BY <1>1, <2>1
    <3>3. i # index
      BY <1>2, <1>4, <3>1, <3>2 DEF Holds, Subscription
    <3>4. QED
      BY <1>2, <1>4, <3>2, <3>3
  <2>2. CASE ~over
    BY <1>1, <1>4, <2>2
  <2>3. QED
    BY <2>1, <2>2
<1>5. ASSUME NEW i \in Subs, NEW id \in InvokeIDs,
             Holds(COV_Subscriptions'[i], id)
      PROVE  Age(Current_Invoke_ID, id) <= Oldest(i)'
  <2>1. Age(Current_Invoke_ID, id) \in Int
    BY IndexRange, AgesGoRound
  <2>2. Oldest(i) \in Int /\ Oldest(i)' \in Int
    BY IndexRange DEF Oldest, Subs, Free, Advance
  <2>3. CASE i = index
    <3>1. s.invokeID = id /\ confirmed
      BY <1>4, <1>5, <2>3 DEF Holds, IDsInv, Valid
    <3>2. ~tsm_invoke_id_free(TSM_List, id)
      BY <1>4, <1>5, <2>3, <3>1
    <3>3. PICK k \in Slots : TSM_List[k].InvokeID = id
      BY <3>2 DEF tsm_invoke_id_free, SlotsOf
    <3>4. Age(Current_Invoke_ID, id) = 1
      BY <3>3, IndexBounds DEF IDsInv
    <3>5. 1 <= Oldest(i)'
      BY <2>3, NextLimits
    <3>6. QED
      BY <3>4, <3>5
  <2>4. CASE i # index
    <3>1. Age(Current_Invoke_ID, id) <= Oldest(i)
      BY <1>4, <1>5 DEF IDsInv
    <3>2. Oldest(i) <= Oldest(i)'
      BY <2>4, NextLimits
    <3>3. QED
      BY <2>1, <2>2, <3>1, <3>2
  <2>5. QED
    BY <2>3, <2>4
<1>6. QED
  BY <1>1, <1>3, <1>4, <1>5, KeptIDs

(* SEND: the new id is the one that is next, which no entry holds any      *)
(* more; the others are one older.                                         *)
LEMMA SendIDs ==
    ASSUME OneTransaction, COVInv, IDsInv,
           NEW sent \in SEND_RESULTS, SendNotification(sent)
    PROVE  IDsInv'
<1> DEFINE s == COV_Subscriptions[index]
           cur == Current_Invoke_ID
           held == IF s.issueConfirmedNotifications THEN cur ELSE s.invokeID
<1>1. /\ index \in Subs /\ Valid(index) /\ s \in Subscription
      /\ COV_Subscriptions \in [Subs -> Subscription \cup {NoSubscription}]
      /\ s.issueConfirmedNotifications =>
            s.invokeID = 0 /\ tsm_transaction_available(TSM_List)
  BY DEF COVInv, TaskOK, SubsOK, SendNotification, Notifiable, MaySend, Valid
<1>2. /\ IF s.issueConfirmedNotifications THEN SendConfirmed
                                          ELSE UNCHANGED tsmVars
      /\ cov_task_state = "SEND"
  BY DEF SendNotification
<1>3. /\ cur \in InvokeIDs /\ InvokeIDs = 1 .. MAX_INVOKE_ID
      /\ MAX_INVOKE_ID \in Nat \ {0}
  BY IndexRange
<1>4. /\ \A i \in Subs \ {index} : COV_Subscriptions'[i] = COV_Subscriptions[i]
      /\ COV_Subscriptions'[index].issueConfirmedNotifications =
                s.issueConfirmedNotifications
      /\ COV_Subscriptions'[index].invokeID = held
  <2>1. s.issueConfirmedNotifications =>
            FirstUnusedID(TSM_List, Current_Invoke_ID) = cur
    BY <1>1, OnlySlotFree
  <2>2. COV_Subscriptions' = [COV_Subscriptions EXCEPT
                ![index].send_requested = ~sent,
                ![index].invokeID =
                    IF s.issueConfirmedNotifications
                    THEN FirstUnusedID(TSM_List, Current_Invoke_ID) ELSE @]
    BY DEF SendNotification
  <2>3. QED
    BY <1>1, <2>1, <2>2 DEF Subscription
<1>5. ASSUME NEW i \in Subs \ {index}, NEW id \in InvokeIDs,
             Holds(COV_Subscriptions'[i], id)
      PROVE  /\ Holds(COV_Subscriptions[i], id)
             /\ COV_Subscriptions'[i].issueConfirmedNotifications
             /\ Age(cur, id) <= Oldest(i)
  BY <1>4, <1>5 DEF IDsInv
<1>6. ASSUME NEW i \in Subs \ {index}
      PROVE  /\ Oldest(i) \in Int /\ Oldest(i)' \in Int
             /\ Oldest(i) + 1 <= Oldest(i)'
             /\ Oldest(i) < MAX_INVOKE_ID
  <2>1. Oldest(i) + 1 <= Oldest(i)'
    BY <1>6, NextLimits
  <2>2. Oldest(i) \in Int /\ Oldest(i)' \in Int
    BY IndexRange DEF Oldest, Subs, SendNotification, Advance
  <2>3. Oldest(i) < MAX_INVOKE_ID
    BY <1>2, <1>6, IndexRange DEF Oldest
  <2>4. QED
    BY <2>1, <2>2, <2>3
<1>7. CASE ~s.issueConfirmedNotifications
  <2>1. UNCHANGED <<TSM_List, Current_Invoke_ID>>
    BY <1>2, <1>7 DEF tsmVars
  <2>2. \A id \in InvokeIDs : ~Holds(COV_Subscriptions'[index], id)
    <3>1. SUFFICES ASSUME NEW id \in InvokeIDs,
                          Holds(COV_Subscriptions'[index], id)
                   PROVE  FALSE
      OBVIOUS
    <3>2. Holds(s, id)
      BY <1>1, <1>4, <1>7, <3>1 DEF Holds, Valid
    <3>3. QED
      BY <1>1, <1>7, <3>2 DEF IDsInv
  <2>3. ASSUME NEW i \in Subs, NEW id \in InvokeIDs,
               Holds(COV_Subscriptions'[i], id)
        PROVE  /\ Holds(COV_Subscriptions[i], id)
               /\ COV_Subscriptions'[i] = COV_Subscriptions[i]
               /\ Age(cur, id) <= Oldest(i)'
    <3>1. i # index
      BY <2>2, <2>3
    <3>2. Age(cur, id) \in Int
      BY <1>3, AgesGoRound
    <3>3. QED
      BY <1>4, <1>5, <1>6, <2>3, <3>1, <3>2
  <2>4. QED
    BY <2>1, <2>3, KeptIDs
<1>8. CASE s.issueConfirmedNotifications
  <2>1. held = cur
    BY <1>8
  <2>2. /\ Current_Invoke_ID' = Following(cur)
        /\ \A k \in Slots : TSM_List'[k] = TSM_List[k]
                                \/ TSM_List'[k].InvokeID = cur
    <3>1. FirstUnusedID(TSM_List, Current_Invoke_ID) = cur
      BY <1>1, <1>8, OnlySlotFree
    <3>2. SendConfirmed /\ TSMInv
      BY <1>2, <1>8 DEF COVInv
    <3>3. QED
      BY <3>1, <3>2, SentSlots DEF SendConfirmed
  <2>3. Age(Following(cur), cur) = 1
    BY <1>3, AgesGoRound
  <2>4. \A k \in Slots : TSM_List'[k].InvokeID # 0 => TSM_List'[k].InvokeID = cur
    <3>1. Slots = {0} /\ TSM_List[0].InvokeID = 0
      BY <1>1, <1>8
        DEF OneTransaction, tsm_transaction_available, FreeSlots, Slots
    <3>2. QED
      BY <2>2, <3>1
  <2>5. ASSUME NEW i \in Subs \ {index}, NEW id \in InvokeIDs,
               Holds(COV_Subscriptions'[i], id)
        PROVE  /\ id # cur
               /\ Age(Following(cur), id) <= Oldest(i)'
    <3>1. /\ Age(cur, id) \in 1 .. MAX_INVOKE_ID
          /\ Age(cur, id) = MAX_INVOKE_ID <=> id = cur
          /\ id # cur => Age(Following(cur), id) = Age(cur, id) + 1
      BY <1>3, AgesGoRound
    <3>2. QED
      BY <1>3, <1>5, <1>6, <2>5, <3>1
  <2>6. ASSUME NEW id \in InvokeIDs, Holds(COV_Subscriptions'[index], id)
        PROVE  id = cur
    BY <1>4, <2>1, <2>6 DEF Holds
  <2>7. \A i \in Subs : i = index => 1 <= Oldest(i)'
    BY NextLimits
  <2>8. \A k \in Slots : TSM_List'[k].InvokeID # 0 =>
                Age(Current_Invoke_ID', TSM_List'[k].InvokeID) = 1
    BY <2>2, <2>3, <2>4
  <2>9. \A i \in Subs, id \in InvokeIDs : Holds(COV_Subscriptions'[i], id) =>
            /\ COV_Subscriptions'[i].issueConfirmedNotifications
            /\ Age(Current_Invoke_ID', id) <= Oldest(i)'
    BY <1>4, <1>5, <1>8, <2>2, <2>3, <2>5, <2>6, <2>7
  <2>10. \A i, j \in Subs, id \in InvokeIDs :
            Holds(COV_Subscriptions'[i], id) /\ Holds(COV_Subscriptions'[j], id)
                => i = j
    <3>1. SUFFICES ASSUME NEW i \in Subs, NEW j \in Subs, NEW id \in InvokeIDs,
                          Holds(COV_Subscriptions'[i], id),
                          Holds(COV_Subscriptions'[j], id)
                   PROVE  i = j
      OBVIOUS
    <3>2. CASE i # index /\ j # index
      BY <1>5, <3>1, <3>2 DEF IDsInv
    <3>3. QED
      BY <2>5, <2>6, <3>1, <3>2
  <2>11. QED
    BY <2>8, <2>9, <2>10 DEF IDsInv
<1>9. QED
  BY <1>7, <1>8

(* What clients, answers and timers do gives out no id and moves no task.  *)
LEMMA OtherIDs ==
    ASSUME COVInv, IDsInv,
           \/ \E src \in Sources, object \in Objects, process \in Processes :
                \/ \E confirmed \in BOOLEAN, lifetime \in LIFETIMES :
                        Subscribe(src, object, process, confirmed, lifetime)
                \/ Cancel(src, object, process)
           \/ \E seconds \in SECONDS : handler_cov_timer_seconds(seconds)
           \/ \E object \in Objects : ObjectChanges(object)
           \/ \E id \in InvokeIDs : AnswerArrives(id)
           \/ TransactionTimer
           \/ \E status \in Statuses, minutes \in MINUTES :
                    DeviceCommunicationControl(status, minutes)
           \/ CommunicationTimer
           \/ UNCHANGED vars
    PROVE  IDsInv'
<1> DEFINE Same == UNCHANGED <<cov_task_state, index, Current_Invoke_ID>>
<1>1. Same
  <2>1. ASSUME NEW src \in Sources, NEW object \in Objects,
               NEW process \in Processes,
               \/ \E confirmed \in BOOLEAN, lifetime \in LIFETIMES :
                    Subscribe(src, object, process, confirmed, lifetime)
               \/ Cancel(src, object, process)
        PROVE  Same
    BY <2>1 DEF Subscribe, Cancel, fsmVars
  <2>2. CASE \/ \E seconds \in SECONDS : handler_cov_timer_seconds(seconds)
             \/ \E object \in Objects : ObjectChanges(object)
    BY <2>2 DEF handler_cov_timer_seconds, ObjectChanges, fsmVars, tsmVars
  <2>3. ASSUME (\E id \in InvokeIDs : AnswerArrives(id)) \/ TransactionTimer
        PROVE  Same
    BY <2>3 DEF AnswerArrives, TransactionTimer, tsm_free_invoke_id,
                tsm_timer_milliseconds, covVars
  <2>4. CASE \/ \E status \in Statuses, minutes \in MINUTES :
                    DeviceCommunicationControl(status, minutes)
             \/ CommunicationTimer
             \/ UNCHANGED vars
    BY <2>4 DEF DeviceCommunicationControl, CommunicationTimer, vars, covVars,
                tsmVars
  <2>5. QED
    BY <2>1, <2>2, <2>3, <2>4
<1>2. \A i \in Subs : Oldest(i)' = Oldest(i)
  BY <1>1 DEF Oldest
<1>3. /\ TableOK(TSM_List)
      /\ COV_Subscriptions \in [Subs -> Subscription \cup {NoSubscription}]
      /\ \A i \in Subs : Valid(i) => COV_Subscriptions[i] \in Subscription
  BY DEF COVInv, SubsOK, TSMInv, Valid
<1> DEFINE Kept ==
            /\ \A k \in Slots : TSM_List'[k].InvokeID # 0 =>
                    TSM_List'[k].InvokeID = TSM_List[k].InvokeID
            /\ \A i \in Subs, id \in InvokeIDs :
                Holds(COV_Subscriptions'[i], id) =>
                    /\ Holds(COV_Subscriptions[i], id)
                    /\ COV_Subscriptions'[i].issueConfirmedNotifications =
                            COV_Subscriptions[i].issueConfirmedNotifications
<1>4. ASSUME NEW src \in Sources, NEW object \in Objects,
             NEW process \in Processes, NEW confirmed \in BOOLEAN,
             NEW lifetime \in LIFETIMES,
             Subscribe(src, object, process, confirmed, lifetime)
      PROVE  Kept
  <2> DEFINE matching == Matching(src, object, process)
             e == Lowest(IF matching # {} THEN matching ELSE InvalidSubs)
             new == NewSubscription(src, object, process, confirmed, lifetime)
  <2>1. e \in Subs /\ (matching # {} => e \in matching)
    BY <1>4, EntryOfRequest DEF Subscribe
  <2>2. /\ COV_Subscriptions' = [COV_Subscriptions EXCEPT ![e] = new]
        /\ TSM_List' = IF matching # {}
                       THEN FreedIfAny(TSM_List, COV_Subscriptions[e].invokeID)
                       ELSE TSM_List
    BY <1>4 DEF Subscribe
  <2>3. new.invokeID = 0
    BY DEF NewSubscription
  <2>4. matching # {} => COV_Subscriptions[e].invokeID \in 0 .. MAX_INVOKE_ID
    <3>1. SUFFICES ASSUME matching # {}
                   PROVE  COV_Subscriptions[e].invokeID \in 0 .. MAX_INVOKE_ID
      OBVIOUS
    <3>2. Valid(e)
      BY <2>1, <3>1 DEF Matching
    <3>3. QED
      BY <1>3, <2>1, <3>2 DEF Subscription
  <2> HIDE DEF e, new, matching
  <2>5. \A k \in Slots : TSM_List'[k].InvokeID # 0 =>
                    TSM_List'[k].InvokeID = TSM_List[k].InvokeID
    BY <1>3, <2>2, <2>4, FreedSlots
  <2>6. \A i \in Subs, id \in InvokeIDs :
            Holds(COV_Subscriptions'[i], id) =>
                COV_Subscriptions'[i] = COV_Subscriptions[i]
    BY <1>3, <2>1, <2>2, <2>3 DEF Holds
  <2>7. QED
    BY <2>5, <2>6
<1>5. ASSUME NEW src \in Sources, NEW object \in Objects,
             NEW process \in Processes, Cancel(src, object, process)
      PROVE  Kept
  <2> DEFINE e == Lowest(Matching(src, object, process))
  <2>1. e \in Matching(src, object, process)
    BY <1>5, MatchingEntry DEF Cancel
  <2>2. /\ COV_Subscriptions' = [COV_Subscriptions EXCEPT ![e] = NoSubscription]
        /\ TSM_List' = FreedIfAny(TSM_List, COV_Subscriptions[e].invokeID)
    BY <1>5 DEF Cancel
  <2> HIDE DEF e
  <2>3. e \in Subs /\ Valid(e)
    BY <2>1 DEF Matching
  <2>4. COV_Subscriptions[e].invokeID \in 0 .. MAX_INVOKE_ID
    BY <1>3, <2>3 DEF Subscription
  <2>5. QED
    BY <1>3, <2>2, <2>3, <2>4, FreedSlots DEF Holds
<1>6. ASSUME NEW seconds \in SECONDS, handler_cov_timer_seconds(seconds)
      PROVE  Kept
  <2> DEFINE ids == IDsToDrop(Expiring(seconds))
  <2>1. TSM_List' = [k \in Slots |->
            IF TSM_List[k].InvokeID \in ids
            THEN [TSM_List[k] EXCEPT !.state = "IDLE", !.InvokeID = 0]
            ELSE TSM_List[k]]
    BY <1>6 DEF handler_cov_timer_seconds
  <2> HIDE DEF ids
  <2>2. \A k \in Slots : TSM_List'[k].InvokeID # 0 => TSM_List'[k] = TSM_List[k]
    BY <1>3, <2>1, DroppedSlots
  <2>3. ASSUME NEW i \in Subs, COV_Subscriptions'[i] # NoSubscription
        PROVE  /\ Valid(i)
               /\ COV_Subscriptions'[i].invokeID = COV_Subscriptions[i].invokeID
               /\ COV_Subscriptions'[i].issueConfirmedNotifications =
                        COV_Subscriptions[i].issueConfirmedNotifications
    <3>1. COV_Subscriptions'[i] =
            IF i \in Expiring(seconds) THEN NoSubscription
            ELSE IF ~Valid(i) THEN NoSubscription
            ELSE [COV_Subscriptions[i] EXCEPT
                    !.lifetime = TimeLeft(COV_Subscriptions[i], seconds)]
      BY <1>6 DEF handler_cov_timer_seconds
    <3>2. /\ Valid(i) /\ COV_Subscriptions[i] \in Subscription
          /\ COV_Subscriptions'[i] = [COV_Subscriptions[i] EXCEPT
                    !.lifetime = TimeLeft(COV_Subscriptions[i], seconds)]
      BY <1>3, <2>3, <3>1
    <3>3. QED
      BY <3>2 DEF Subscription
  <2>4. QED
    BY <2>2, <2>3 DEF Holds, Valid
<1>7. ASSUME NEW id \in InvokeIDs, AnswerArrives(id)
      PROVE  Kept
  <2>1. UNCHANGED COV_Subscriptions /\ TSM_List' = Freed(TSM_List, id)
    BY <1>7 DEF AnswerArrives, covVars, tsm_free_invoke_id
  <2>2. id \in 0 .. MAX_INVOKE_ID /\ id # 0
    BY IndexBounds
  <2>3. TSM_List' = FreedIfAny(TSM_List, id)
    BY <2>1, <2>2 DEF FreedIfAny
  <2>4. QED
    BY <1>3, <2>1, <2>2, <2>3, FreedSlots
<1>8. ASSUME TransactionTimer
      PROVE  Kept
  <2>1. PICK ms \in TICKS : TSM_List' = Ticked(TSM_List, ms)
    BY <1>8 DEF TransactionTimer, tsm_timer_milliseconds
  <2>2. UNCHANGED COV_Subscriptions
    BY <1>8 DEF TransactionTimer, covVars
  <2>3. QED
    BY <1>3, <2>1, <2>2, TickedIDs
<1>9. ASSUME \/ \E object \in Objects : ObjectChanges(object)
             \/ \E status \in Statuses, minutes \in MINUTES :
                    DeviceCommunicationControl(status, minutes)
             \/ CommunicationTimer
             \/ UNCHANGED vars
      PROVE  Kept
  <2>1. UNCHANGED <<COV_Subscriptions, TSM_List>>
    BY <1>9 DEF ObjectChanges, DeviceCommunicationControl, CommunicationTimer,
                vars, covVars, tsmVars
  <2>2. QED
    BY <2>1
<1>10. Kept
  <2> HIDE DEF Kept
  <2>1. QED
    BY <1>4, <1>5, <1>6, <1>7, <1>8, <1>9
<1>11. QED
  BY <1>1, <1>2, <1>10, KeptIDs DEF IDsInv

LEMMA IDsStep == OneTransaction /\ COVInv /\ IDsInv /\ [COVNext]_vars => IDsInv'
  BY QuietIDs, FreeIDs, SendIDs, OtherIDs DEF COVNext, handler_cov_fsm

(* With one transaction at a time no two subscriptions ever hold the same  *)
(* invoke id, though a subscription keeps the id of a transaction that is  *)
(* over until the task comes by: none waits for, or frees, the             *)
(* notification of another.                                                *)
THEOREM InvokeIDsAreNotShared ==
    ASSUME OneTransaction
    PROVE  COVSpec => []InvokeIDsNotShared
<1>1. COVInit => IDsInv
  BY DEF COVInit, TSMInit, UnusedTransaction, IDsInv, Holds
<1>2. COVInv /\ IDsInv /\ [COVNext]_vars => IDsInv'
  BY IDsStep
<1>3. COVInv /\ IDsInv => InvokeIDsNotShared
  <2> SUFFICES ASSUME COVInv, IDsInv, NEW i \in Subs, NEW j \in Subs,
                      Valid(i), Valid(j), COV_Subscriptions[i].invokeID # 0,
                      COV_Subscriptions[i].invokeID =
                            COV_Subscriptions[j].invokeID
               PROVE  i = j
    BY DEF InvokeIDsNotShared
  <2>1. COV_Subscriptions[i].invokeID \in 0 .. MAX_INVOKE_ID
    BY DEF COVInv, SubsOK, Valid, Subscription
  <2>2. COV_Subscriptions[i].invokeID \in InvokeIDs
    BY <2>1, IndexRange
  <2>3. QED
    BY <2>2 DEF IDsInv, Holds, Valid
<1>4. QED
  BY <1>1, <1>2, <1>3, COVInvariant, PTL DEF COVSpec

----------------------------------------------------------------------------
(* Nothing is lost while every object has at most one subscriber.  CLEAR   *)
(* resets an object's flag on behalf of one subscription that will be      *)
(* sent; another subscriber of the object may not have been marked yet.    *)

OneSubscriber ==
    \A i, j \in Subs :
        /\ Valid(i) /\ Valid(j)
        /\ COV_Subscriptions[i].object = COV_Subscriptions[j].object
        => i = j

(* Every step but CLEAR leaves what is owed requested or flagged, however  *)
(* many subscribers there are.                                             *)
LEMMA FlagsKeepOwed ==
    ASSUME COVInv, NoLostNotification,
           Change_Of_Value \subseteq Change_Of_Value',
           \A i \in owed' :
              \/ COV_Subscriptions'[i].send_requested
              \/ COV_Subscriptions'[i].object \in Change_Of_Value'
              \/ /\ i \in owed
                 /\ COV_Subscriptions'[i].object = COV_Subscriptions[i].object
                 /\ COV_Subscriptions[i].send_requested =>
                        COV_Subscriptions'[i].send_requested
    PROVE  NoLostNotification'
  BY DEF NoLostNotification

(* The task.                                                               *)
LEMMA TaskKeepsOwed ==
    ASSUME COVInv, OneSubscriber, NoLostNotification, handler_cov_fsm
    PROVE  NoLostNotification'
<1>1. /\ index \in Subs
      /\ COV_Subscriptions \in [Subs -> Subscription \cup {NoSubscription}]
      /\ Valid(index) => COV_Subscriptions[index] \in Subscription
      /\ owed \subseteq {i \in Subs : Valid(i)}
  BY DEF COVInv, TaskOK, SubsOK, OwedOK, Valid
<1>2. CASE StartPass \/ Free \/ SendNothing
  <2>1. UNCHANGED <<Change_Of_Value, owed>>
    BY <1>2 DEF StartPass, Free, SendNothing
  <2>2. ASSUME NEW i \in Subs, Valid(i)
        PROVE  /\ COV_Subscriptions'[i].object = COV_Subscriptions[i].object
               /\ COV_Subscriptions'[i].send_requested =
                    COV_Subscriptions[i].send_requested
    <3>1. CASE COV_Subscriptions' = COV_Subscriptions
      BY <3>1
    <3>2. CASE COV_Subscriptions' =
                    [COV_Subscriptions EXCEPT ![index].invokeID = 0]
      <4>1. COV_Subscriptions[i] \in Subscription
        BY <1>1, <2>2 DEF Valid
      <4>2. QED
        BY <1>1, <2>2, <3>2, <4>1 DEF Subscription
    <3>3. QED
      BY <1>2, <3>1, <3>2 DEF StartPass, Free, SendNothing
  <2>3. QED
    BY <1>1, <2>1, <2>2, FlagsKeepOwed
<1>3. CASE Mark
  <2>1. UNCHANGED <<Change_Of_Value, owed>>
    BY <1>3 DEF Mark
  <2>2. ASSUME NEW i \in Subs, Valid(i)
        PROVE  /\ COV_Subscriptions'[i].object = COV_Subscriptions[i].object
               /\ COV_Subscriptions[i].send_requested =>
                    COV_Subscriptions'[i].send_requested
    <3>1. COV_Subscriptions[i] \in Subscription
      BY <1>1, <2>2 DEF Valid
    <3>2. QED
      BY <1>1, <1>3, <2>2, <3>1 DEF Mark, Subscription
  <2>3. QED
    BY <1>1, <2>1, <2>2, FlagsKeepOwed
<1>4. CASE Clear
  <2>1. /\ UNCHANGED <<COV_Subscriptions, owed>>
        /\ Change_Of_Value' =
            IF Valid(index) /\ COV_Subscriptions[index].send_requested
            THEN Change_Of_Value \ {COV_Subscriptions[index].object}
            ELSE Change_Of_Value
    BY <1>4 DEF Clear
  <2>2. ASSUME NEW i \in owed
        PROVE  \/ COV_Subscriptions[i].send_requested
               \/ COV_Subscriptions[i].object \in Change_Of_Value'
    <3>1. i \in Subs /\ Valid(i)
      BY <1>1, <2>2
    <3>2. CASE i = index
      BY <2>1, <2>2, <3>1, <3>2 DEF NoLostNotification
    <3>3. CASE i # index
      BY <1>1, <2>1, <2>2, <3>1, <3>3 DEF NoLostNotification, OneSubscriber
    <3>4. QED
      BY <3>2, <3>3
  <2>3. QED
    BY <2>1, <2>2 DEF NoLostNotification
<1>5. ASSUME NEW sent \in SEND_RESULTS, SendNotification(sent)
      PROVE  NoLostNotification'
  <2>1. /\ Valid(index)
        /\ UNCHANGED Change_Of_Value
        /\ owed' = IF sent THEN owed \ {index} ELSE owed
        /\ COV_Subscriptions' = [COV_Subscriptions EXCEPT
                ![index].send_requested = ~sent,
                ![index].invokeID =
                    IF COV_Subscriptions[index].issueConfirmedNotifications
                    THEN FirstUnusedID(TSM_List, Current_Invoke_ID) ELSE @]
    BY <1>5 DEF SendNotification, Notifiable
  <2>2. /\ \A i \in Subs \ {index} : COV_Subscriptions'[i] = COV_Subscriptions[i]
        /\ COV_Subscriptions'[index].send_requested = ~sent
    BY <1>1, <2>1 DEF Subscription
  <2>3. QED
    BY <1>1, <2>1, <2>2, FlagsKeepOwed
<1>6. QED
  BY <1>2, <1>3, <1>4, <1>5 DEF handler_cov_fsm

(* Clients, objects and timers.                                            *)
LEMMA OthersKeepOwed ==
    ASSUME COVInv, NoLostNotification, [COVNext]_vars, ~handler_cov_fsm
    PROVE  NoLostNotification'
<1>1. /\ COV_Subscriptions \in [Subs -> Subscription \cup {NoSubscription}]
      /\ owed \subseteq Subs
      /\ \A i \in owed : Valid(i)
  BY DEF COVInv, SubsOK, OwedOK, Valid
<1>2. ASSUME NEW src \in Sources, NEW object \in Objects,
             NEW process \in Processes, NEW confirmed \in BOOLEAN,
             NEW lifetime \in LIFETIMES,
             Subscribe(src, object, process, confirmed, lifetime)
      PROVE  NoLostNotification'
  <2> DEFINE matching == Matching(src, object, process)
             e == Lowest(IF matching # {} THEN matching ELSE InvalidSubs)
             new == NewSubscription(src, object, process, confirmed, lifetime)
  <2>1. e \in Subs
    BY <1>2, EntryOfRequest DEF Subscribe
  <2>2. /\ COV_Subscriptions' = [COV_Subscriptions EXCEPT ![e] = new]
        /\ owed' = owed \cup {e}
        /\ UNCHANGED Change_Of_Value
    BY <1>2 DEF Subscribe
  <2>3. new.send_requested
    BY DEF NewSubscription
  <2> HIDE DEF e, new
  <2>4. QED
    BY <1>1, <2>1, <2>2, <2>3, FlagsKeepOwed
<1>3. ASSUME NEW src \in Sources, NEW object \in Objects,
             NEW process \in Processes, Cancel(src, object, process)
      PROVE  NoLostNotification'
  <2> DEFINE e == Lowest(Matching(src, object, process))
  <2>1. /\ COV_Subscriptions' = [COV_Subscriptions EXCEPT ![e] = NoSubscription]
        /\ owed' = owed \ {e}
        /\ UNCHANGED Change_Of_Value
    BY <1>3 DEF Cancel
  <2> HIDE DEF e
  <2>2. QED
    BY <1>1, <2>1, FlagsKeepOwed
<1>4. ASSUME NEW seconds \in SECONDS, handler_cov_timer_seconds(seconds)
      PROVE  NoLostNotification'
  <2>1. /\ COV_Subscriptions' =
            [i \in Subs |->
                IF i \in Expiring(seconds) THEN NoSubscription
                ELSE IF ~Valid(i) THEN NoSubscription
                ELSE [COV_Subscriptions[i] EXCEPT
                        !.lifetime = TimeLeft(COV_Subscriptions[i], seconds)]]
        /\ owed' = owed \ Expiring(seconds)
        /\ UNCHANGED Change_Of_Value
    BY <1>4 DEF handler_cov_timer_seconds
  <2>2. ASSUME NEW i \in owed'
        PROVE  /\ i \in owed
               /\ COV_Subscriptions'[i].object = COV_Subscriptions[i].object
               /\ COV_Subscriptions'[i].send_requested =
                        COV_Subscriptions[i].send_requested
    <3>1. i \in owed /\ i \in Subs /\ Valid(i) /\ i \notin Expiring(seconds)
      BY <1>1, <2>1, <2>2
    <3>2. COV_Subscriptions[i] \in Subscription
      BY <1>1, <3>1 DEF Valid
    <3>3. COV_Subscriptions'[i] = [COV_Subscriptions[i] EXCEPT
                        !.lifetime = TimeLeft(COV_Subscriptions[i], seconds)]
      BY <2>1, <3>1
    <3>4. QED
      BY <3>1, <3>2, <3>3 DEF Subscription
  <2>3. QED
    BY <2>1, <2>2, FlagsKeepOwed
<1>5. ASSUME NEW object \in Objects, ObjectChanges(object)
      PROVE  NoLostNotification'
  BY <1>1, <1>5, FlagsKeepOwed DEF ObjectChanges
<1>6. CASE UNCHANGED covVars
  BY <1>6 DEF covVars, NoLostNotification
<1>7. QED
  BY <1>2, <1>3, <1>4, <1>5, <1>6
    DEF COVNext, AnswerArrives, TransactionTimer, DeviceCommunicationControl,
        CommunicationTimer, vars

(* As long as no object has two subscribers, a change, or a request, stays *)
(* marked until it is sent: through renewals, failed sends and changes at  *)
(* any moment of the task's pass.                                          *)
THEOREM ChangesOfOneSubscriberAreKept ==
    COVSpec /\ []OneSubscriber => []NoLostNotification
<1>1. COVInit => NoLostNotification
  BY DEF COVInit, NoLostNotification
<1>2. COVInv /\ OneSubscriber /\ NoLostNotification /\ [COVNext]_vars
        => NoLostNotification'
  BY TaskKeepsOwed, OthersKeepOwed
<1>3. QED
  BY <1>1, <1>2, COVInvariant, PTL DEF COVSpec

(* A network with one client that uses one process identifier.             *)
OneClient ==
    /\ \A a, b \in Sources : a = b
    /\ \A p, q \in Processes : p = q

LEMMA OneClientFits ==
    ASSUME OneClient
    PROVE  RoomForAll
<1>1. MAX_COV_ADDRESSES \in Nat /\ 1 <= MAX_COV_ADDRESSES
  BY COVConstants
<1>2. CASE Sources = {}
  BY <1>1, <1>2, FS_EmptySet DEF RoomForAll
<1>3. ASSUME NEW src \in Sources
      PROVE  RoomForAll
  <2>1. Sources = {src}
    BY <1>3 DEF OneClient
  <2>2. QED
    BY <1>1, <2>1, FS_Singleton DEF RoomForAll
<1>4. QED
  BY <1>2, <1>3

(* So with one client no notification is ever lost.                        *)
THEOREM NothingIsLostForOneClient ==
    ASSUME OneClient
    PROVE  COVSpec => []NoLostNotification
<1>1. RoomForAll
  BY OneClientFits
<1>2. COVInit => ClientsInv
  BY DEF COVInit, ClientsInv, HaveAddresses, NoDuplicateSubscription, Valid
<1>3. COVInv /\ ClientsInv /\ [COVNext]_vars => ClientsInv'
  BY <1>1, ClientsStep
<1>4. COVInv /\ ClientsInv => OneSubscriber
  <2> SUFFICES ASSUME COVInv, ClientsInv, NEW i \in Subs, NEW j \in Subs,
                      Valid(i), Valid(j),
                      COV_Subscriptions[i].object = COV_Subscriptions[j].object
               PROVE  i = j
    BY DEF OneSubscriber
  <2>1. ASSUME NEW k \in Subs, Valid(k)
        PROVE  /\ cov_address_get(COV_Subscriptions[k].dest_index) \in Sources
               /\ COV_Subscriptions[k].process \in Processes
    <3>1. /\ COV_Subscriptions[k] \in Subscription
          /\ COV_Subscriptions[k].dest_index \in Addrs
      BY <2>1 DEF COVInv, SubsOK, Valid, ClientsInv, HaveAddresses
    <3>2. COV_Addresses[COV_Subscriptions[k].dest_index] \in Sources
      BY <2>1, <3>1 DEF COVInv, AddrsOK, Matched, PointedAt, Valid
    <3>3. QED
      BY <3>1, <3>2 DEF cov_address_get, Subscription
  <2>2. /\ cov_address_get(COV_Subscriptions[i].dest_index) =
                cov_address_get(COV_Subscriptions[j].dest_index)
        /\ COV_Subscriptions[i].process = COV_Subscriptions[j].process
    BY <2>1 DEF OneClient
  <2>3. QED
    BY <2>2 DEF ClientsInv, NoDuplicateSubscription
<1>5. QED
  BY <1>2, <1>3, <1>4, COVInvariant, ChangesOfOneSubscriberAreKept, PTL
    DEF COVSpec
=============================================================================
