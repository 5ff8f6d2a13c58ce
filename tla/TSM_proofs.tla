----------------------------- MODULE TSM_proofs -----------------------------
(***************************************************************************)
(* Proofs about the transaction table, for every number of slots, invoke   *)
(* ids, timeout and retries.                                               *)
(***************************************************************************)
EXTENDS TSM, TLAPS, FiniteSetTheorems, WellFoundedInduction

(* A nonempty set of naturals has a least element.                         *)
LEMMA Minimum ==
    ASSUME NEW S \in SUBSET Nat, S # {}
    PROVE  \E m \in S : \A n \in S : m <= n
<1> DEFINE R == {ss \in Nat \X Nat : ss[1] < ss[2]}
<1>1. IsWellFoundedOn(R, Nat)
  BY NatLessThanWellFounded, Zenon DEF OpToRel
<1>2. PICK m \in S : \A n \in S : ~(<<n, m>> \in R)
  BY <1>1, WFMin, Zenon
<1>3. ASSUME NEW n \in S PROVE m <= n
  <2>1. ~(<<n, m>> \in R)
    BY <1>2, Zenon
  <2>2. n \in Nat /\ m \in Nat
    OBVIOUS
  <2>3. ~(n < m)
    BY <2>1, <2>2
  <2>4. QED
    BY <2>2, <2>3
<1>4. QED
  BY <1>3

(* Lowest finds the first slot: the loops of tsm.c that stop at a match.   *)
LEMMA LowestIsFirst ==
    ASSUME NEW S \in SUBSET Nat, S # {}
    PROVE  /\ Lowest(S) \in S
           /\ \A n \in S : Lowest(S) <= n
  BY Minimum DEF Lowest

(* While a slot is free some id is unused: the search loop of              *)
(* tsm_next_free_invokeID ends.                                            *)
LEMMA UnusedExists ==
    ASSUME NEW list \in [Slots -> Transaction], FreeSlots(list) # {}
    PROVE  InvokeIDs \ UsedIDs(list) # {}
<1> SUFFICES ASSUME InvokeIDs \subseteq UsedIDs(list)
             PROVE  FALSE
  OBVIOUS
<1>1. PICK k \in Slots : list[k].InvokeID = 0
  BY DEF FreeSlots
<1> DEFINE T == Slots \ {k}
           f == [id \in InvokeIDs |-> CHOOSE i \in T : list[i].InvokeID = id]
<1>2. \A id \in InvokeIDs : f[id] \in T /\ list[f[id]].InvokeID = id
  <2> TAKE id \in InvokeIDs
  <2>1. PICK i \in Slots : list[i].InvokeID = id
    BY DEF UsedIDs
  <2>2. i # k
    BY <2>1, <1>1, TSMConstants DEF InvokeIDs
  <2>3. QED
    BY <2>1, <2>2
<1>3. /\ IsFiniteSet(InvokeIDs)
      /\ Cardinality(InvokeIDs) = MAX_INVOKE_ID
  BY FS_Interval, TSMConstants DEF InvokeIDs
<1>4. /\ IsFiniteSet(Slots)
      /\ Cardinality(Slots) = MAX_TSM_TRANSACTIONS
  BY FS_Interval, TSMConstants DEF Slots
<1>5. /\ IsFiniteSet(T)
      /\ Cardinality(T) = MAX_TSM_TRANSACTIONS - 1
  BY <1>4, FS_RemoveElement
<1>6. f \in [InvokeIDs -> T]
  BY <1>2
<1>7. Cardinality(T) < Cardinality(InvokeIDs)
  BY <1>3, <1>5, TSMConstants
<1>8. PICK x, y \in InvokeIDs : x # y /\ f[x] = f[y]
  <2> HIDE DEF f, T
  <2>1. QED
    BY <1>3, <1>5, <1>6, <1>7, FS_PigeonHole
<1>9. QED
  BY <1>2, <1>8

(* The id that a reservation gets is one that no slot holds.               *)
LEMMA FirstUnusedIDIsUnused ==
    ASSUME NEW list \in [Slots -> Transaction], FreeSlots(list) # {},
           NEW cur \in InvokeIDs
    PROVE  FirstUnusedID(list, cur) \in InvokeIDs \ UsedIDs(list)
<1> DEFINE unused == InvokeIDs \ UsedIDs(list)
           dists == {Distance(cur, id) : id \in unused}
<1>1. unused # {}
  BY UnusedExists
<1>2. \A id \in unused : Distance(cur, id) \in Nat
  BY TSMConstants DEF Distance, InvokeIDs
<1>3. dists \in SUBSET Nat /\ dists # {}
  BY <1>1, <1>2
<1>4. PICK d \in dists : \A e \in dists : d <= e
  BY <1>3, Minimum
<1>5. PICK id \in unused : d = Distance(cur, id)
  BY <1>4
<1>6. \A other \in unused : Distance(cur, id) <= Distance(cur, other)
  BY <1>4, <1>5
<1>7. QED
  BY <1>5, <1>6 DEF FirstUnusedID

----------------------------------------------------------------------------
(* What the table operators do, slot by slot.                              *)

SlotWaitingFor(id) ==
    [InvokeID |-> id, state |-> "AWAIT_CONFIRMATION",
     RequestTimer |-> APDU_TIMEOUT, RetryCount |-> 0]

SlotGivenBack(t) ==
    [InvokeID |-> 0, state |-> "IDLE",
     RequestTimer |-> APDU_TIMEOUT, RetryCount |-> t.RetryCount]

LEMMA BoundaryValues ==
    /\ 0 \in 0 .. MAX_INVOKE_ID /\ InvokeIDs \subseteq 0 .. MAX_INVOKE_ID
    /\ 0 \in 0 .. APDU_TIMEOUT /\ APDU_TIMEOUT \in 0 .. APDU_TIMEOUT
    /\ 0 \in 0 .. APDU_RETRIES
    /\ Slots \subseteq Nat
  BY TSMConstants DEF InvokeIDs, Slots

(* Two transactions that agree on every field are the same.                *)
LEMMA SameFields ==
    ASSUME NEW t \in Transaction, NEW u \in Transaction,
           t.InvokeID = u.InvokeID, t.state = u.state,
           t.RequestTimer = u.RequestTimer, t.RetryCount = u.RetryCount
    PROVE  t = u
  BY DEF Transaction

(* A reservation takes one free slot and leaves the others alone, and what *)
(* follows it, transmission or release, finds that slot again.             *)
LEMMA ReservationTakesOneSlot ==
    ASSUME NEW list \in [Slots -> Transaction], FreeSlots(list) # {},
           NEW id \in InvokeIDs \ UsedIDs(list)
    PROVE  \E k \in FreeSlots(list) :
            /\ Transmitted(Reserved(list, id), id)
                = [list EXCEPT ![k] = SlotWaitingFor(id)]
            /\ Freed(Reserved(list, id), id)
                = [list EXCEPT ![k] = SlotGivenBack(list[k])]
<1> DEFINE k == Lowest(FreeSlots(list))
           res == Reserved(list, id)
<1>1. Slots \subseteq Nat
  BY TSMConstants DEF Slots
<1>2. k \in FreeSlots(list)
  BY <1>1, LowestIsFirst DEF FreeSlots
<1>3. k \in Slots /\ list[k] \in Transaction
  BY <1>2 DEF FreeSlots
<1> HIDE DEF k
<1> DEFINE u == [list[k] EXCEPT !.InvokeID = id, !.state = "IDLE",
                                !.RequestTimer = APDU_TIMEOUT]
           v == [u EXCEPT !.state = "AWAIT_CONFIRMATION", !.RetryCount = 0,
                          !.RequestTimer = APDU_TIMEOUT]
           w == [u EXCEPT !.state = "IDLE", !.InvokeID = 0]
<1>4. res = [list EXCEPT ![k] = u]
  BY <1>3 DEF Reserved, k
<1>5. /\ u \in Transaction /\ v \in Transaction /\ w \in Transaction
      /\ SlotWaitingFor(id) \in Transaction
      /\ SlotGivenBack(list[k]) \in Transaction
  <2> id \in 0 .. MAX_INVOKE_ID
    BY TSMConstants DEF InvokeIDs
  <2>1. u \in Transaction
    BY <1>3, BoundaryValues DEF Transaction
  <2> HIDE DEF u
  <2>2. v \in Transaction /\ w \in Transaction
    BY <2>1, BoundaryValues DEF Transaction
  <2>3. /\ SlotWaitingFor(id) \in Transaction
        /\ SlotGivenBack(list[k]) \in Transaction
    BY <1>3, TSMConstants DEF Transaction, SlotWaitingFor, SlotGivenBack
  <2>4. QED
    BY <2>1, <2>2, <2>3
<1>6. u.InvokeID = id /\ u.RequestTimer = APDU_TIMEOUT
      /\ u.RetryCount = list[k].RetryCount
  BY <1>3 DEF Transaction
<1> HIDE DEF u
<1>7. v = SlotWaitingFor(id) /\ w = SlotGivenBack(list[k])
  <2>1. /\ v.InvokeID = id /\ v.state = "AWAIT_CONFIRMATION"
        /\ v.RequestTimer = APDU_TIMEOUT /\ v.RetryCount = 0
        /\ w.InvokeID = 0 /\ w.state = "IDLE"
        /\ w.RequestTimer = APDU_TIMEOUT /\ w.RetryCount = list[k].RetryCount
    BY <1>5, <1>6 DEF Transaction
  <2> HIDE DEF v, w
  <2>2. v = SlotWaitingFor(id)
    BY <1>5, <2>1, SameFields DEF SlotWaitingFor
  <2>3. w = SlotGivenBack(list[k])
    BY <1>5, <2>1, SameFields DEF SlotGivenBack
  <2>4. QED
    BY <2>2, <2>3
<1>8. res \in [Slots -> Transaction] /\ res[k] = u
  BY <1>3, <1>4, <1>5
<1>9. SlotsOf(res, id) = {k}
  <2>1. res[k].InvokeID = id
    BY <1>6, <1>8
  <2>2. ASSUME NEW i \in Slots, i # k
        PROVE  res[i].InvokeID # id
    BY <1>4, <2>2 DEF UsedIDs, InvokeIDs
  <2> HIDE DEF res
  <2>3. QED
    BY <1>3, <2>1, <2>2 DEF SlotsOf
<1>10. Lowest(SlotsOf(res, id)) = k
  BY <1>1, <1>3, <1>9 DEF Lowest
<1> HIDE DEF res
<1>11. Transmitted(res, id) = [list EXCEPT ![k] = SlotWaitingFor(id)]
  <2>1. Transmitted(res, id) = [res EXCEPT ![k] = v]
    BY <1>8, <1>10 DEF Transmitted
  <2>2. QED
    BY <1>3, <1>4, <1>7, <2>1
<1>12. Freed(res, id) = [list EXCEPT ![k] = SlotGivenBack(list[k])]
  <2>1. Freed(res, id) = [res EXCEPT ![k] = w]
    BY <1>8, <1>9, <1>10 DEF Freed
  <2>2. QED
    BY <1>3, <1>4, <1>7, <2>1
<1>13. QED
  BY <1>2, <1>11, <1>12 DEF res

(* Freeing an id that no slot holds changes nothing; otherwise one slot    *)
(* that holds it is emptied.                                               *)
LEMMA FreeingEmptiesOneSlot ==
    ASSUME NEW list \in [Slots -> Transaction], NEW id,
           SlotsOf(list, id) # {}
    PROVE  \E k \in SlotsOf(list, id) :
            Freed(list, id) = [list EXCEPT
                ![k] = [list[k] EXCEPT !.state = "IDLE", !.InvokeID = 0]]
<1> DEFINE k == Lowest(SlotsOf(list, id))
<1>1. Slots \subseteq Nat
  BY TSMConstants DEF Slots
<1>2. k \in SlotsOf(list, id)
  BY <1>1, LowestIsFirst DEF SlotsOf
<1>3. QED
  BY <1>2 DEF Freed, SlotsOf

(* One tick keeps a slot's type and its id, and a slot that still waits    *)
(* afterwards has time left.                                               *)
LEMMA TickKeepsSlot ==
    ASSUME NEW t \in Transaction, NEW ms \in TICKS
    PROVE  /\ TickedSlot(t, ms) \in Transaction
           /\ TickedSlot(t, ms).InvokeID = t.InvokeID
           /\ TickedSlot(t, ms).state = "AWAIT_CONFIRMATION" =>
                /\ t.state = "AWAIT_CONFIRMATION"
                /\ TickedSlot(t, ms).RequestTimer > 0
<1> DEFINE left == IF t.RequestTimer > ms THEN t.RequestTimer - ms ELSE 0
<1>1. ms \in Nat \ {0}
  BY TSMConstants
<1>2. left \in 0 .. APDU_TIMEOUT
  BY <1>1, TSMConstants DEF Transaction
<1> HIDE DEF left
<1>3. CASE t.state # "AWAIT_CONFIRMATION"
  BY <1>3 DEF TickedSlot
<1>4. CASE t.state = "AWAIT_CONFIRMATION" /\ left # 0
  <2>1. TickedSlot(t, ms) = [t EXCEPT !.RequestTimer = left]
    BY <1>4 DEF TickedSlot, left
  <2>2. QED
    BY <1>2, <1>4, <2>1, TSMConstants DEF Transaction
<1>5. CASE /\ t.state = "AWAIT_CONFIRMATION" /\ left = 0
           /\ t.RetryCount < APDU_RETRIES
  <2>1. TickedSlot(t, ms) = [t EXCEPT !.RequestTimer = APDU_TIMEOUT,
                                      !.RetryCount = t.RetryCount + 1]
    BY <1>5 DEF TickedSlot, left
  <2>2. t.RetryCount + 1 \in 0 .. APDU_RETRIES
    BY <1>5, TSMConstants DEF Transaction
  <2>3. QED
    <3>1. TickedSlot(t, ms) \in Transaction
      BY <2>1, <2>2, BoundaryValues DEF Transaction
    <3>2. /\ TickedSlot(t, ms).InvokeID = t.InvokeID
          /\ TickedSlot(t, ms).RequestTimer = APDU_TIMEOUT
      BY <2>1 DEF Transaction
    <3>3. QED
      BY <1>5, <3>1, <3>2, TSMConstants
<1>6. CASE /\ t.state = "AWAIT_CONFIRMATION" /\ left = 0
           /\ ~ (t.RetryCount < APDU_RETRIES)
  <2>1. TickedSlot(t, ms) = [t EXCEPT !.RequestTimer = 0, !.state = "IDLE"]
    BY <1>6 DEF TickedSlot, left
  <2>2. QED
    <3>1. TickedSlot(t, ms) \in Transaction
      BY <2>1, BoundaryValues DEF Transaction
    <3>2. /\ TickedSlot(t, ms).InvokeID = t.InvokeID
          /\ TickedSlot(t, ms).state = "IDLE"
      BY <2>1 DEF Transaction
    <3>3. QED
      BY <3>1, <3>2
<1>7. QED
  BY <1>3, <1>4, <1>5, <1>6

----------------------------------------------------------------------------
(* The inductive invariant.  Unique ids need the type invariant (the       *)
(* search starts at an id); that the timer keeps unique ids apart is       *)
(* because it leaves every id alone.                                       *)

TableOK(list) ==
    /\ list \in [Slots -> Transaction]
    /\ \A i, j \in Slots :
        list[i].InvokeID # 0 /\ list[i].InvokeID = list[j].InvokeID => i = j
    /\ \A i \in Slots :
        list[i].state = "AWAIT_CONFIRMATION"
            => list[i].InvokeID # 0 /\ list[i].RequestTimer > 0

TSMInv == TableOK(TSM_List) /\ Current_Invoke_ID \in InvokeIDs

LEMMA TSMInvInit == TSMInit => TSMInv
<1> SUFFICES ASSUME TSMInit
             PROVE  TSMInv
  OBVIOUS
<1>1. UnusedTransaction \in Transaction
  BY BoundaryValues DEF UnusedTransaction, Transaction
<1>2. TableOK(TSM_List)
  BY <1>1 DEF TSMInit, TableOK, UnusedTransaction
<1>3. Current_Invoke_ID \in InvokeIDs
  BY TSMConstants DEF TSMInit, InvokeIDs
<1>4. QED
  BY <1>2, <1>3 DEF TSMInv

(* Putting an id that no other slot has, or none, into a slot is safe.     *)
LEMMA ReplacingOneSlot ==
    ASSUME NEW list, TableOK(list), NEW k \in Slots, NEW t \in Transaction,
           t.InvokeID = 0 \/ t.InvokeID \notin UsedIDs(list),
           t.state = "AWAIT_CONFIRMATION" =>
                t.InvokeID # 0 /\ t.RequestTimer > 0
    PROVE  TableOK([list EXCEPT ![k] = t])
<1> DEFINE new == [list EXCEPT ![k] = t]
<1>1. /\ new \in [Slots -> Transaction]
      /\ new[k] = t
      /\ \A i \in Slots \ {k} : new[i] = list[i]
  BY DEF TableOK
<1> HIDE DEF new
<1>2. ASSUME NEW i \in Slots, NEW j \in Slots,
             new[i].InvokeID # 0, new[i].InvokeID = new[j].InvokeID
      PROVE  i = j
  <2>1. CASE i # k /\ j # k
    BY <1>1, <1>2, <2>1 DEF TableOK
  <2>2. CASE i = k /\ j # k
    BY <1>1, <1>2, <2>2 DEF UsedIDs
  <2>3. CASE i # k /\ j = k
    BY <1>1, <1>2, <2>3 DEF UsedIDs
  <2>4. QED
    BY <2>1, <2>2, <2>3
<1>3. ASSUME NEW i \in Slots, new[i].state = "AWAIT_CONFIRMATION"
      PROVE  new[i].InvokeID # 0 /\ new[i].RequestTimer > 0
  BY <1>1, <1>3 DEF TableOK
<1>4. QED
  BY <1>1, <1>2, <1>3 DEF TableOK, new

LEMMA FreedKeepsTable ==
    ASSUME NEW list, TableOK(list), NEW id
    PROVE  TableOK(Freed(list, id))
<1>1. CASE SlotsOf(list, id) = {}
  BY <1>1 DEF Freed
<1>2. CASE SlotsOf(list, id) # {}
  <2>1. list \in [Slots -> Transaction]
    BY DEF TableOK
  <2>2. PICK k \in SlotsOf(list, id) :
            Freed(list, id) = [list EXCEPT
                ![k] = [list[k] EXCEPT !.state = "IDLE", !.InvokeID = 0]]
    BY <1>2, <2>1, FreeingEmptiesOneSlot
  <2> DEFINE t == [list[k] EXCEPT !.state = "IDLE", !.InvokeID = 0]
  <2>3. k \in Slots /\ list[k] \in Transaction
    BY <2>1 DEF SlotsOf
  <2>4. t \in Transaction
    BY <2>3, BoundaryValues DEF Transaction
  <2>5. t.InvokeID = 0 /\ t.state = "IDLE"
    BY <2>3 DEF Transaction
  <2> HIDE DEF t
  <2>6. TableOK([list EXCEPT ![k] = t])
    BY <2>3, <2>4, <2>5, ReplacingOneSlot
  <2>7. QED
    BY <2>2, <2>6 DEF t
<1>3. QED
  BY <1>1, <1>2

LEMMA TickedKeepsTable ==
    ASSUME NEW list, TableOK(list), NEW ms \in TICKS
    PROVE  TableOK(Ticked(list, ms))
<1> DEFINE new == Ticked(list, ms)
<1>1. \A i \in Slots : list[i] \in Transaction /\ new[i] = TickedSlot(list[i], ms)
  BY DEF Ticked, TableOK
<1>2. \A i \in Slots :
        /\ new[i] \in Transaction
        /\ new[i].InvokeID = list[i].InvokeID
        /\ new[i].state = "AWAIT_CONFIRMATION" =>
            list[i].state = "AWAIT_CONFIRMATION" /\ new[i].RequestTimer > 0
  BY <1>1, TickKeepsSlot
<1>3. new \in [Slots -> Transaction]
  BY <1>1, <1>2 DEF Ticked
<1> HIDE DEF new
<1>4. TableOK(new)
  BY <1>2, <1>3 DEF TableOK
<1>5. QED
  BY <1>4 DEF new

(* A reservation, kept or given back, leaves a good table.                 *)
LEMMA ReservationKeepsTable ==
    ASSUME NEW list, TableOK(list), FreeSlots(list) # {},
           NEW id \in InvokeIDs \ UsedIDs(list)
    PROVE  /\ TableOK(Transmitted(Reserved(list, id), id))
           /\ TableOK(Freed(Reserved(list, id), id))
<1>1. list \in [Slots -> Transaction]
  BY DEF TableOK
<1>2. PICK k \in FreeSlots(list) :
        /\ Transmitted(Reserved(list, id), id)
            = [list EXCEPT ![k] = SlotWaitingFor(id)]
        /\ Freed(Reserved(list, id), id)
            = [list EXCEPT ![k] = SlotGivenBack(list[k])]
  BY <1>1, ReservationTakesOneSlot
<1>3. k \in Slots /\ list[k] \in Transaction
  BY <1>1 DEF FreeSlots
<1>4. TableOK([list EXCEPT ![k] = SlotWaitingFor(id)])
  <2>1. id \in 0 .. MAX_INVOKE_ID /\ id # 0
    BY TSMConstants DEF InvokeIDs
  <2>2. SlotWaitingFor(id) \in Transaction
    BY <2>1, BoundaryValues DEF SlotWaitingFor, Transaction
  <2>3. /\ SlotWaitingFor(id).InvokeID = id
        /\ SlotWaitingFor(id).RequestTimer > 0
    BY TSMConstants DEF SlotWaitingFor
  <2>4. QED
    BY <1>3, <2>1, <2>2, <2>3, ReplacingOneSlot
<1>5. TableOK([list EXCEPT ![k] = SlotGivenBack(list[k])])
  <2>1. SlotGivenBack(list[k]) \in Transaction
    BY <1>3, BoundaryValues DEF SlotGivenBack, Transaction
  <2>2. /\ SlotGivenBack(list[k]).InvokeID = 0
        /\ SlotGivenBack(list[k]).state = "IDLE"
    BY DEF SlotGivenBack
  <2>3. QED
    BY <1>3, <2>1, <2>2, ReplacingOneSlot
<1>6. QED
  BY <1>2, <1>4, <1>5

LEMMA TSMInvStep == TSMInv /\ [TSMNext]_tsmVars => TSMInv'
<1> SUFFICES ASSUME TSMInv, [TSMNext]_tsmVars
             PROVE  TSMInv'
  OBVIOUS
<1> DEFINE id == FirstUnusedID(TSM_List, Current_Invoke_ID)
<1>1. TSM_List \in [Slots -> Transaction] /\ Current_Invoke_ID \in InvokeIDs
  BY DEF TSMInv, TableOK
<1>2. FreeSlots(TSM_List) # {} =>
        /\ id \in InvokeIDs \ UsedIDs(TSM_List)
        /\ Following(id) \in InvokeIDs
  <2> SUFFICES ASSUME FreeSlots(TSM_List) # {}
               PROVE  /\ id \in InvokeIDs \ UsedIDs(TSM_List)
                      /\ Following(id) \in InvokeIDs
    OBVIOUS
  <2>1. id \in InvokeIDs \ UsedIDs(TSM_List)
    BY <1>1, FirstUnusedIDIsUnused
  <2> HIDE DEF id
  <2>2. Following(id) \in InvokeIDs
    BY <2>1, TSMConstants DEF Following, InvokeIDs
  <2>3. QED
    BY <2>1, <2>2
<1> HIDE DEF id
<1>3. CASE SendConfirmed
  BY <1>2, <1>3, ReservationKeepsTable
    DEF TSMInv, SendConfirmed, tsm_transaction_available, id
<1>4. CASE SendTooLong
  BY <1>2, <1>4, ReservationKeepsTable
    DEF TSMInv, SendTooLong, tsm_transaction_available, id
<1>5. ASSUME NEW x \in 0 .. MAX_INVOKE_ID, tsm_free_invoke_id(x)
      PROVE  TSMInv'
  BY <1>5, FreedKeepsTable DEF TSMInv, tsm_free_invoke_id
<1>6. ASSUME NEW ms \in TICKS, tsm_timer_milliseconds(ms)
      PROVE  TSMInv'
  BY <1>6, TickedKeepsTable DEF TSMInv, tsm_timer_milliseconds
<1>7. ASSUME NEW x \in 0 .. MAX_INVOKE_ID, tsm_invokeID_set(x)
      PROVE  TSMInv'
  BY <1>7, TSMConstants DEF TSMInv, tsm_invokeID_set, InvokeIDs
<1>8. CASE UNCHANGED tsmVars
  BY <1>8 DEF TSMInv, tsmVars
<1>9. QED
  BY <1>3, <1>4, <1>5, <1>6, <1>7, <1>8 DEF TSMNext

THEOREM TSMInvariant == TSMSpec => []TSMInv
<1>1. QED
  BY TSMInvInit, TSMInvStep, PTL DEF TSMSpec

(* The table and the counter keep their types: the counter never rests at  *)
(* the reserved id 0, whatever the ids, slots and retries.                 *)
THEOREM TSMTypeCorrect == TSMSpec => []TSMTypeOK
<1>1. TSMInv => TSMTypeOK
  BY DEF TSMInv, TableOK, TSMTypeOK
<1>2. QED
  BY <1>1, TSMInvariant, PTL

(* No two slots hold the same invoke id.                                   *)
THEOREM InvokeIDsAreUnique == TSMSpec => []UniqueInvokeIDs
<1>1. TSMInv => UniqueInvokeIDs
  BY DEF TSMInv, TableOK, UniqueInvokeIDs
<1>2. QED
  BY <1>1, TSMInvariant, PTL

(* The timer never retransmits for a slot that was freed.                  *)
THEOREM AwaitingSlotsAreOwned == TSMSpec => []AwaitingIsOwned
<1>1. TSMInv => AwaitingIsOwned
  BY DEF TSMInv, TableOK, AwaitingIsOwned
<1>2. QED
  BY <1>1, TSMInvariant, PTL

----------------------------------------------------------------------------
(* Action properties.  A step changes a slot in one of four ways.          *)

Claimed(old, new) ==
    /\ old.InvokeID = 0
    /\ new = SlotGivenBack(old) \/ \E id \in InvokeIDs : new = SlotWaitingFor(id)

Emptied(old, new) == new = [old EXCEPT !.state = "IDLE", !.InvokeID = 0]

TimedSlot(old, new) == \E ms \in TICKS : new = TickedSlot(old, ms)

LEMMA SlotSteps ==
    ASSUME TSMInv, TSMNext, NEW i \in Slots
    PROVE  \/ TSM_List'[i] = TSM_List[i]
           \/ Claimed(TSM_List[i], TSM_List'[i])
           \/ Emptied(TSM_List[i], TSM_List'[i])
           \/ TimedSlot(TSM_List[i], TSM_List'[i])
<1> DEFINE id == FirstUnusedID(TSM_List, Current_Invoke_ID)
<1>1. TSM_List \in [Slots -> Transaction] /\ Current_Invoke_ID \in InvokeIDs
  BY DEF TSMInv, TableOK
<1>2. ASSUME FreeSlots(TSM_List) # {}
      PROVE  /\ id \in InvokeIDs
             /\ \E k \in FreeSlots(TSM_List) :
                /\ Transmitted(Reserved(TSM_List, id), id)
                    = [TSM_List EXCEPT ![k] = SlotWaitingFor(id)]
                /\ Freed(Reserved(TSM_List, id), id)
                    = [TSM_List EXCEPT ![k] = SlotGivenBack(TSM_List[k])]
  <2>1. id \in InvokeIDs \ UsedIDs(TSM_List)
    BY <1>1, <1>2, FirstUnusedIDIsUnused
  <2> HIDE DEF id
  <2>2. QED
    BY <1>1, <1>2, <2>1, ReservationTakesOneSlot
<1> HIDE DEF id
<1>3. CASE SendConfirmed
  <2>1. PICK k \in FreeSlots(TSM_List) :
            TSM_List' = [TSM_List EXCEPT ![k] = SlotWaitingFor(id)]
    BY <1>2, <1>3 DEF SendConfirmed, tsm_transaction_available, id
  <2>2. id \in InvokeIDs
    BY <1>2, <1>3 DEF SendConfirmed, tsm_transaction_available
  <2>3. QED
    BY <1>1, <2>1, <2>2 DEF Claimed, FreeSlots
<1>4. CASE SendTooLong
  <2>1. PICK k \in FreeSlots(TSM_List) :
            TSM_List' = [TSM_List EXCEPT ![k] = SlotGivenBack(TSM_List[k])]
    BY <1>2, <1>4 DEF SendTooLong, tsm_transaction_available, id
  <2>2. QED
    BY <1>1, <2>1 DEF Claimed, FreeSlots
<1>5. ASSUME NEW x \in 0 .. MAX_INVOKE_ID, tsm_free_invoke_id(x)
      PROVE  TSM_List'[i] = TSM_List[i] \/ Emptied(TSM_List[i], TSM_List'[i])
  <2>1. CASE SlotsOf(TSM_List, x) = {}
    BY <1>5, <2>1 DEF tsm_free_invoke_id, Freed
  <2>2. CASE SlotsOf(TSM_List, x) # {}
    <3>1. PICK k \in SlotsOf(TSM_List, x) :
            TSM_List' = [TSM_List EXCEPT
                ![k] = [TSM_List[k] EXCEPT !.state = "IDLE", !.InvokeID = 0]]
      BY <1>1, <1>5, <2>2, FreeingEmptiesOneSlot DEF tsm_free_invoke_id
    <3>2. QED
      BY <1>1, <3>1 DEF Emptied, SlotsOf
  <2>3. QED
    BY <2>1, <2>2
<1>6. ASSUME NEW ms \in TICKS, tsm_timer_milliseconds(ms)
      PROVE  TimedSlot(TSM_List[i], TSM_List'[i])
  BY <1>6 DEF tsm_timer_milliseconds, Ticked, TimedSlot
<1>7. ASSUME NEW x \in 0 .. MAX_INVOKE_ID, tsm_invokeID_set(x)
      PROVE  TSM_List'[i] = TSM_List[i]
  BY <1>7 DEF tsm_invokeID_set
<1>8. QED
  BY <1>3, <1>4, <1>5, <1>6, <1>7 DEF TSMNext

(* An id that is outstanding is never overwritten by another.              *)
THEOREM OutstandingIDsAreOnlyFreed == TSMSpec => IDsOnlyFreed
<1>1. ASSUME TSMInv, TSMNext, NEW i \in Slots, TSM_List[i].InvokeID # 0
      PROVE  TSM_List'[i].InvokeID \in {TSM_List[i].InvokeID, 0}
  <2> DEFINE old == TSM_List[i]
             new == TSM_List'[i]
  <2>1. old \in Transaction
    BY <1>1 DEF TSMInv, TableOK
  <2>2. CASE new = old
    BY <2>2
  <2>3. CASE Claimed(old, new)
    BY <1>1, <2>3 DEF Claimed
  <2>4. CASE Emptied(old, new)
    BY <2>1, <2>4 DEF Emptied, Transaction
  <2>5. CASE TimedSlot(old, new)
    BY <2>1, <2>5, TickKeepsSlot DEF TimedSlot
  <2>6. QED
    BY <1>1, <2>2, <2>3, <2>4, <2>5, SlotSteps
<1>2. TSMInv /\ [TSMNext]_tsmVars =>
        [\A i \in Slots : TSM_List[i].InvokeID # 0
            => TSM_List'[i].InvokeID \in {TSM_List[i].InvokeID, 0}]_tsmVars
  BY <1>1
<1>3. QED
  BY <1>2, TSMInvariant, PTL DEF TSMSpec, IDsOnlyFreed

(* What a timer call does to a slot that waits: it waits less, or fails on *)
(* its last retry.                                                         *)
LEMMA TickSpendsPatience ==
    ASSUME NEW t \in Transaction, NEW ms \in TICKS, Awaiting(t)
    PROVE  LET new == TickedSlot(t, ms)
           IN  /\ Awaiting(new) => Patience(new) <= Patience(t)
               /\ ~Awaiting(new) => t.RetryCount = APDU_RETRIES
<1> DEFINE left == IF t.RequestTimer > ms THEN t.RequestTimer - ms ELSE 0
           new == TickedSlot(t, ms)
<1>1. /\ ms \in Nat \ {0} /\ APDU_TIMEOUT \in Nat /\ APDU_RETRIES \in Nat
      /\ t.RequestTimer \in Nat /\ t.RetryCount \in Nat
      /\ t.RetryCount <= APDU_RETRIES
  BY TSMConstants DEF Transaction
<1>2. left \in Nat /\ left <= t.RequestTimer
  BY <1>1
<1> HIDE DEF left
<1>3. CASE left # 0
  <2>1. new = [t EXCEPT !.RequestTimer = left]
    BY <1>3 DEF TickedSlot, left, Awaiting
  <2>2. /\ new.RequestTimer = left /\ new.RetryCount = t.RetryCount
        /\ Awaiting(new)
    BY <2>1 DEF Transaction, Awaiting
  <2> HIDE DEF new
  <2>3. (APDU_RETRIES - t.RetryCount) * APDU_TIMEOUT \in Int
    BY <1>1
  <2>4. Patience(new) <= Patience(t)
    BY <1>1, <1>2, <2>2, <2>3 DEF Patience
  <2>5. QED
    BY <2>2, <2>4 DEF new
<1>4. CASE left = 0 /\ t.RetryCount < APDU_RETRIES
  <2>1. new = [t EXCEPT !.RequestTimer = APDU_TIMEOUT,
                        !.RetryCount = t.RetryCount + 1]
    BY <1>4 DEF TickedSlot, left, Awaiting
  <2>2. /\ new.RequestTimer = APDU_TIMEOUT
        /\ new.RetryCount = t.RetryCount + 1
        /\ Awaiting(new)
    BY <2>1 DEF Transaction, Awaiting
  <2> HIDE DEF new
  <2>3. \A a \in Int, b \in Int : (a - 1) * b + b = a * b
    OBVIOUS
  <2>4. (APDU_RETRIES - (t.RetryCount + 1)) * APDU_TIMEOUT + APDU_TIMEOUT
        = (APDU_RETRIES - t.RetryCount) * APDU_TIMEOUT
    <3>1. APDU_RETRIES - (t.RetryCount + 1) = (APDU_RETRIES - t.RetryCount) - 1
      BY <1>1
    <3>2. APDU_RETRIES - t.RetryCount \in Int /\ APDU_TIMEOUT \in Int
      BY <1>1
    <3>3. QED
      BY <2>3, <3>1, <3>2
  <2>5. (APDU_RETRIES - t.RetryCount) * APDU_TIMEOUT \in Int
    BY <1>1
  <2>6. Patience(new) <= Patience(t)
    BY <1>1, <2>2, <2>4, <2>5 DEF Patience
  <2>7. QED
    BY <2>2, <2>6 DEF new
<1>5. CASE left = 0 /\ ~ (t.RetryCount < APDU_RETRIES)
  <2>1. new = [t EXCEPT !.RequestTimer = 0, !.state = "IDLE"]
    BY <1>5 DEF TickedSlot, left, Awaiting
  <2>2. ~Awaiting(new)
    BY <2>1 DEF Transaction, Awaiting
  <2>3. t.RetryCount = APDU_RETRIES
    BY <1>1, <1>5
  <2>4. QED
    BY <2>2, <2>3
<1>6. QED
  BY <1>3, <1>4, <1>5

(* Every request waits through all its retries and no longer.              *)
THEOREM RetriesFollowTheSchedule == TSMSpec => RetrySchedule
<1> DEFINE Scheduled(old, new) ==
        LET same == new.InvokeID = old.InvokeID
        IN  /\ Awaiting(new) /\ Awaiting(old) /\ same
                => Patience(new) <= Patience(old)
            /\ Awaiting(new) /\ ~(Awaiting(old) /\ same)
                => Patience(new) = (APDU_RETRIES + 1) * APDU_TIMEOUT
            /\ Awaiting(old) /\ ~Awaiting(new) /\ same
                => old.RetryCount = APDU_RETRIES
<1>1. ASSUME TSMInv, TSMNext, NEW i \in Slots
      PROVE  Scheduled(TSM_List[i], TSM_List'[i])
  <2> DEFINE old == TSM_List[i]
             new == TSM_List'[i]
  <2>1. /\ old \in Transaction
        /\ Awaiting(old) => old.InvokeID # 0
    BY <1>1 DEF TSMInv, TableOK, Awaiting
  <2>2. Patience(old) \in Int
    BY <2>1, TSMConstants DEF Patience, Transaction
  <2>3. CASE new = old
    BY <2>2, <2>3
  <2>4. CASE Claimed(old, new)
    <3>1. ~Awaiting(old)
      BY <2>1, <2>4 DEF Claimed
    <3>2. CASE new = SlotGivenBack(old)
      BY <3>1, <3>2 DEF SlotGivenBack, Awaiting
    <3>3. ASSUME NEW id \in InvokeIDs, new = SlotWaitingFor(id)
          PROVE  Patience(new) = (APDU_RETRIES + 1) * APDU_TIMEOUT
      <4>1. new.RetryCount = 0 /\ new.RequestTimer = APDU_TIMEOUT
        BY <3>3 DEF SlotWaitingFor
      <4>2. \A a \in Int, b \in Int : (a - 0) * b + b = (a + 1) * b
        OBVIOUS
      <4>3. QED
        BY <4>1, <4>2, TSMConstants DEF Patience
    <3>4. QED
      BY <2>4, <3>1, <3>2, <3>3 DEF Claimed
  <2>5. CASE Emptied(old, new)
    <3>1. ~Awaiting(new) /\ new.InvokeID = 0
      BY <2>1, <2>5 DEF Emptied, Transaction, Awaiting
    <3>2. QED
      BY <2>1, <3>1
  <2>6. CASE TimedSlot(old, new)
    <3>1. PICK ms \in TICKS : new = TickedSlot(old, ms)
      BY <2>6 DEF TimedSlot
    <3>2. /\ new.InvokeID = old.InvokeID
          /\ Awaiting(new) => Awaiting(old)
      BY <2>1, <3>1, TickKeepsSlot DEF Awaiting
    <3>3. Awaiting(old) =>
            /\ Awaiting(new) => Patience(new) <= Patience(old)
            /\ ~Awaiting(new) => old.RetryCount = APDU_RETRIES
      BY <2>1, <3>1, TickSpendsPatience
    <3>4. QED
      BY <3>2, <3>3
  <2>7. QED
    BY <1>1, <2>3, <2>4, <2>5, <2>6, SlotSteps
<1>2. TSMInv /\ [TSMNext]_tsmVars =>
        [\A i \in Slots : Scheduled(TSM_List[i], TSM_List'[i])]_tsmVars
  BY <1>1
<1>3. QED
  BY <1>2, TSMInvariant, PTL DEF TSMSpec, RetrySchedule

----------------------------------------------------------------------------
(* The table implements the abstract transaction service, safety part.     *)

(* What the outside sees of a table.                                       *)
OutcomeIn(list, id) ==
    IF SlotsOf(list, id) = {} THEN "free"
    ELSE IF \E i \in SlotsOf(list, id) : Awaiting(list[i])
         THEN "pending" ELSE "failed"

LEMMA OutcomeIsOfTable ==
    /\ outcome = [id \in InvokeIDs |-> OutcomeIn(TSM_List, id)]
    /\ outcome' = [id \in InvokeIDs |-> OutcomeIn(TSM_List', id)]
  BY DEF outcome, Outcome, OutcomeIn, SlotsOf, Awaiting

(* With unique ids, the slot that holds an id decides its outcome.         *)
LEMMA OutcomeOfSlot ==
    ASSUME NEW list, TableOK(list), NEW i \in Slots, list[i].InvokeID # 0
    PROVE  OutcomeIn(list, list[i].InvokeID) =
            IF Awaiting(list[i]) THEN "pending" ELSE "failed"
<1>1. SlotsOf(list, list[i].InvokeID) = {i}
  BY DEF SlotsOf, TableOK
<1>2. QED
  BY <1>1 DEF OutcomeIn

(* A free slot means that fewer ids are busy than there are slots.         *)
LEMMA FreeSlotIsCapacity ==
    ASSUME NEW list, TableOK(list), FreeSlots(list) # {},
           NEW busy \in SUBSET InvokeIDs,
           \A id \in busy : SlotsOf(list, id) # {}
    PROVE  Cardinality(busy) < MAX_TSM_TRANSACTIONS
<1>1. PICK k \in Slots : list[k].InvokeID = 0
  BY DEF FreeSlots
<1> DEFINE T == Slots \ {k}
           f == [id \in busy |-> CHOOSE i \in T : list[i].InvokeID = id]
<1>2. \A id \in busy : f[id] \in T /\ list[f[id]].InvokeID = id
  <2> TAKE id \in busy
  <2>1. PICK i \in Slots : list[i].InvokeID = id
    BY DEF SlotsOf
  <2>2. i # k
    BY <2>1, <1>1, TSMConstants DEF InvokeIDs
  <2>3. QED
    BY <2>1, <2>2
<1>3. /\ IsFiniteSet(T)
      /\ Cardinality(T) = MAX_TSM_TRANSACTIONS - 1
  <2>1. /\ IsFiniteSet(Slots)
        /\ Cardinality(Slots) = MAX_TSM_TRANSACTIONS
    BY FS_Interval, TSMConstants DEF Slots
  <2>2. QED
    BY <2>1, FS_RemoveElement
<1>4. f \in Injection(busy, T)
  <2>1. f \in [busy -> T]
    BY <1>2
  <2>2. \A x, y \in busy : f[x] = f[y] => x = y
    BY <1>2
  <2> HIDE DEF f, T
  <2>3. QED
    BY <2>1, <2>2 DEF Injection, IsInjective
<1>5. IsFiniteSet(busy) /\ Cardinality(busy) <= MAX_TSM_TRANSACTIONS - 1
  <2> HIDE DEF f, T
  <2>1. QED
    BY <1>3, <1>4, FS_Injection
<1>6. Cardinality(busy) \in Nat
  BY <1>5, FS_CardinalityType
<1>7. QED
  BY <1>5, <1>6, TSMConstants

LEMMA SendImplementsStart ==
    ASSUME TSMInv, SendConfirmed
    PROVE  Requests!Next
<1> DEFINE id == FirstUnusedID(TSM_List, Current_Invoke_ID)
<1>1. TSM_List \in [Slots -> Transaction] /\ Current_Invoke_ID \in InvokeIDs
  BY DEF TSMInv, TableOK
<1>2. FreeSlots(TSM_List) # {}
  BY DEF SendConfirmed, tsm_transaction_available
<1>3. id \in InvokeIDs \ UsedIDs(TSM_List)
  BY <1>1, <1>2, FirstUnusedIDIsUnused
<1>4. TSM_List' = Transmitted(Reserved(TSM_List, id), id)
  BY DEF SendConfirmed
<1> HIDE DEF id
<1>5. PICK k \in FreeSlots(TSM_List) :
        TSM_List' = [TSM_List EXCEPT ![k] = SlotWaitingFor(id)]
  BY <1>1, <1>2, <1>3, <1>4, ReservationTakesOneSlot
<1>6. k \in Slots /\ TSM_List[k].InvokeID = 0
  BY <1>5 DEF FreeSlots
<1>7. /\ TSM_List'[k] = SlotWaitingFor(id)
      /\ \A i \in Slots \ {k} : TSM_List'[i] = TSM_List[i]
  BY <1>1, <1>5, <1>6
<1>8. outcome[id] = "free"
  BY <1>3, OutcomeIsOfTable DEF OutcomeIn, SlotsOf, UsedIDs, InvokeIDs
<1>9. OutcomeIn(TSM_List', id) = "pending"
  <2>1. k \in SlotsOf(TSM_List', id) /\ Awaiting(TSM_List'[k])
    BY <1>6, <1>7 DEF SlotsOf, SlotWaitingFor, Awaiting
  <2>2. QED
    BY <2>1 DEF OutcomeIn
<1>10. ASSUME NEW x \in InvokeIDs, x # id
       PROVE  OutcomeIn(TSM_List', x) = OutcomeIn(TSM_List, x)
  <2>1. x # 0
    BY TSMConstants DEF InvokeIDs
  <2>2. TSM_List'[k].InvokeID = id
    BY <1>7 DEF SlotWaitingFor
  <2>3. SlotsOf(TSM_List', x) = SlotsOf(TSM_List, x) /\ k \notin SlotsOf(TSM_List, x)
    BY <1>6, <1>7, <1>10, <2>1, <2>2 DEF SlotsOf
  <2>4. \A i \in SlotsOf(TSM_List, x) : TSM_List'[i] = TSM_List[i]
    BY <1>7, <2>3 DEF SlotsOf
  <2>5. QED
    BY <2>3, <2>4 DEF OutcomeIn
<1>11. outcome' = [outcome EXCEPT ![id] = "pending"]
  BY <1>3, <1>9, <1>10, OutcomeIsOfTable
<1>12. Cardinality(Requests!Busy) < MAX_TSM_TRANSACTIONS
  <2>1. Requests!Busy \in SUBSET InvokeIDs
    BY DEF Requests!Busy
  <2>2. \A x \in Requests!Busy : SlotsOf(TSM_List, x) # {}
    BY OutcomeIsOfTable DEF Requests!Busy, OutcomeIn
  <2>3. TableOK(TSM_List)
    BY DEF TSMInv
  <2>4. QED
    BY <1>2, <2>1, <2>2, <2>3, FreeSlotIsCapacity
<1>13. QED
  <2>1. Requests!Cardinality(Requests!Busy) = Cardinality(Requests!Busy)
    BY DEF Requests!Cardinality, Cardinality, Requests!IsFiniteSet, IsFiniteSet
  <2>2. Requests!Start(id)
    BY <1>8, <1>11, <1>12, <2>1 DEF Requests!Start
  <2>3. QED
    BY <1>3, <2>2 DEF Requests!Next

(* A request that is given back at once was never seen.                    *)
LEMMA SendTooLongIsInvisible ==
    ASSUME TSMInv, SendTooLong
    PROVE  UNCHANGED outcome
<1> DEFINE id == FirstUnusedID(TSM_List, Current_Invoke_ID)
<1>1. TSM_List \in [Slots -> Transaction] /\ Current_Invoke_ID \in InvokeIDs
  BY DEF TSMInv, TableOK
<1>2. FreeSlots(TSM_List) # {}
  BY DEF SendTooLong, tsm_transaction_available
<1>3. id \in InvokeIDs \ UsedIDs(TSM_List)
  BY <1>1, <1>2, FirstUnusedIDIsUnused
<1>4. TSM_List' = Freed(Reserved(TSM_List, id), id)
  BY DEF SendTooLong
<1> HIDE DEF id
<1>5. PICK k \in FreeSlots(TSM_List) :
        TSM_List' = [TSM_List EXCEPT ![k] = SlotGivenBack(TSM_List[k])]
  BY <1>1, <1>2, <1>3, <1>4, ReservationTakesOneSlot
<1>6. k \in Slots /\ TSM_List[k].InvokeID = 0 /\ TSM_List'[k].InvokeID = 0
  BY <1>1, <1>5 DEF FreeSlots, SlotGivenBack
<1>7. \A i \in Slots \ {k} : TSM_List'[i] = TSM_List[i]
  BY <1>1, <1>5, <1>6
<1>8. ASSUME NEW x \in InvokeIDs
      PROVE  OutcomeIn(TSM_List', x) = OutcomeIn(TSM_List, x)
  <2>1. x # 0
    BY TSMConstants DEF InvokeIDs
  <2>2. SlotsOf(TSM_List', x) = SlotsOf(TSM_List, x) /\ k \notin SlotsOf(TSM_List, x)
    BY <1>6, <1>7, <2>1 DEF SlotsOf
  <2>3. \A i \in SlotsOf(TSM_List, x) : TSM_List'[i] = TSM_List[i]
    BY <1>7, <2>2 DEF SlotsOf
  <2>4. QED
    BY <2>2, <2>3 DEF OutcomeIn
<1>9. QED
  BY <1>8, OutcomeIsOfTable

LEMMA FreeImplementsRelease ==
    ASSUME TSMInv, NEW id \in 0 .. MAX_INVOKE_ID, tsm_free_invoke_id(id)
    PROVE  Requests!Next \/ UNCHANGED outcome
<1>1. TSM_List \in [Slots -> Transaction] /\ TableOK(TSM_List)
  BY DEF TSMInv, TableOK
<1>2. CASE SlotsOf(TSM_List, id) = {}
  BY <1>2, OutcomeIsOfTable DEF tsm_free_invoke_id, Freed
<1>3. CASE SlotsOf(TSM_List, id) # {}
  <2>1. PICK k \in SlotsOf(TSM_List, id) :
            TSM_List' = [TSM_List EXCEPT
                ![k] = [TSM_List[k] EXCEPT !.state = "IDLE", !.InvokeID = 0]]
    BY <1>1, <1>3, FreeingEmptiesOneSlot DEF tsm_free_invoke_id
  <2>2. k \in Slots /\ TSM_List[k].InvokeID = id /\ TSM_List[k] \in Transaction
    BY <1>1, <2>1 DEF SlotsOf
  <2>3. /\ TSM_List'[k].InvokeID = 0
        /\ \A i \in Slots \ {k} : TSM_List'[i] = TSM_List[i]
    <3>1. TSM_List'[k] = [TSM_List[k] EXCEPT !.state = "IDLE", !.InvokeID = 0]
      BY <1>1, <2>1, <2>2
    <3>2. TSM_List'[k].InvokeID = 0
      BY <2>2, <3>1 DEF Transaction
    <3>3. QED
      BY <1>1, <2>1, <3>2
  <2>4. ASSUME NEW x \in InvokeIDs, x # id
        PROVE  OutcomeIn(TSM_List', x) = OutcomeIn(TSM_List, x)
    <3>1. x # 0
      BY TSMConstants DEF InvokeIDs
    <3>2. /\ SlotsOf(TSM_List', x) = SlotsOf(TSM_List, x)
          /\ k \notin SlotsOf(TSM_List, x)
      BY <2>2, <2>3, <2>4, <3>1 DEF SlotsOf
    <3>3. \A i \in SlotsOf(TSM_List, x) : TSM_List'[i] = TSM_List[i]
      BY <2>3, <3>2 DEF SlotsOf
    <3>4. QED
      BY <3>2, <3>3 DEF OutcomeIn
  <2>5. CASE id = 0
    <3>1. \A x \in InvokeIDs : OutcomeIn(TSM_List', x) = OutcomeIn(TSM_List, x)
      BY <2>4, <2>5, TSMConstants DEF InvokeIDs
    <3>2. QED
      BY <3>1, OutcomeIsOfTable
  <2>6. CASE id # 0
    <3>1. id \in InvokeIDs
      BY <2>6, TSMConstants DEF InvokeIDs
    <3>2. outcome[id] # "free"
      BY <1>3, <3>1, OutcomeIsOfTable DEF OutcomeIn
    <3>3. OutcomeIn(TSM_List', id) = "free"
      <4>1. \A i \in Slots \ {k} : TSM_List[i].InvokeID # id
        BY <1>1, <2>2, <2>6 DEF TableOK
      <4>2. SlotsOf(TSM_List', id) = {}
        BY <2>3, <2>6, <4>1 DEF SlotsOf
      <4>3. QED
        BY <4>2 DEF OutcomeIn
    <3>4. outcome' = [outcome EXCEPT ![id] = "free"]
      BY <2>4, <3>1, <3>3, OutcomeIsOfTable
    <3>5. QED
      BY <3>1, <3>2, <3>4 DEF Requests!Next, Requests!Release
  <2>7. QED
    BY <2>5, <2>6
<1>4. QED
  BY <1>2, <1>3

(* The requests that a timer call gives up, all in one abstract step.      *)
LEMMA TimerImplementsFail ==
    ASSUME TSMInv, TSMInv', NEW ms \in TICKS, tsm_timer_milliseconds(ms)
    PROVE  Requests!Next \/ UNCHANGED outcome
<1> DEFINE ids == {x \in InvokeIDs : OutcomeIn(TSM_List, x) = "pending"
                                    /\ OutcomeIn(TSM_List', x) = "failed"}
<1>1. /\ \A i \in Slots : TSM_List[i] \in Transaction
      /\ TableOK(TSM_List) /\ TableOK(TSM_List')
  BY DEF TSMInv, TableOK
<1>2. \A i \in Slots :
        /\ TSM_List'[i].InvokeID = TSM_List[i].InvokeID
        /\ Awaiting(TSM_List'[i]) => Awaiting(TSM_List[i])
  <2> TAKE i \in Slots
  <2>1. TSM_List'[i] = TickedSlot(TSM_List[i], ms)
    BY DEF tsm_timer_milliseconds, Ticked
  <2>2. QED
    BY <1>1, <2>1, TickKeepsSlot DEF Awaiting
<1>3. ASSUME NEW x \in InvokeIDs
      PROVE  OutcomeIn(TSM_List', x) =
                IF x \in ids THEN "failed" ELSE OutcomeIn(TSM_List, x)
  <2>1. SlotsOf(TSM_List', x) = SlotsOf(TSM_List, x)
    BY <1>2 DEF SlotsOf
  <2>2. CASE SlotsOf(TSM_List, x) = {}
    BY <2>1, <2>2 DEF OutcomeIn
  <2>3. CASE SlotsOf(TSM_List, x) # {}
    <3>1. PICK i \in Slots : TSM_List[i].InvokeID = x
      BY <2>3 DEF SlotsOf
    <3>2. x # 0
      BY TSMConstants DEF InvokeIDs
    <3>3. OutcomeIn(TSM_List, x) =
            IF Awaiting(TSM_List[i]) THEN "pending" ELSE "failed"
      BY <1>1, <3>1, <3>2, OutcomeOfSlot
    <3>4. OutcomeIn(TSM_List', x) =
            IF Awaiting(TSM_List'[i]) THEN "pending" ELSE "failed"
      BY <1>1, <1>2, <3>1, <3>2, OutcomeOfSlot
    <3>5. QED
      BY <1>2, <3>3, <3>4
  <2>4. QED
    BY <2>2, <2>3
<1>4. ids \subseteq Requests!Pending
  BY OutcomeIsOfTable DEF Requests!Pending
<1> HIDE DEF ids
<1>5. outcome' = [id \in InvokeIDs |-> IF id \in ids THEN "failed" ELSE outcome[id]]
  BY <1>3, OutcomeIsOfTable
<1>6. CASE ids = {}
  BY <1>5, <1>6, OutcomeIsOfTable
<1>7. CASE ids # {}
  <2>1. Requests!Fail(ids)
    BY <1>5 DEF Requests!Fail
  <2>2. QED
    BY <1>4, <1>7, <2>1 DEF Requests!Next
<1>8. QED
  BY <1>6, <1>7

(* Every behaviour of the table, its slots, timers and retries hidden, is  *)
(* one of the abstract service: requests start only under free ids and     *)
(* below capacity, are released only once, and fail only while pending.    *)
THEOREM TableImplementsTransactions ==
    TSMSpec => Requests!Init /\ [][Requests!Next]_outcome
<1>1. TSMInit => Requests!Init
  <2> SUFFICES ASSUME TSMInit
               PROVE  Requests!Init
    OBVIOUS
  <2>1. \A id \in InvokeIDs : OutcomeIn(TSM_List, id) = "free"
    BY TSMConstants
      DEF TSMInit, UnusedTransaction, OutcomeIn, SlotsOf, InvokeIDs
  <2>2. QED
    BY <2>1, OutcomeIsOfTable DEF Requests!Init
<1>2. TSMInv /\ TSMInv' /\ [TSMNext]_tsmVars => [Requests!Next]_outcome
  <2> SUFFICES ASSUME TSMInv, TSMInv', [TSMNext]_tsmVars
               PROVE  Requests!Next \/ UNCHANGED outcome
    OBVIOUS
  <2>1. CASE SendConfirmed
    BY <2>1, SendImplementsStart
  <2>2. CASE SendTooLong
    BY <2>2, SendTooLongIsInvisible
  <2>3. ASSUME NEW id \in 0 .. MAX_INVOKE_ID, tsm_free_invoke_id(id)
        PROVE  Requests!Next \/ UNCHANGED outcome
    BY <2>3, FreeImplementsRelease
  <2>4. ASSUME NEW ms \in TICKS, tsm_timer_milliseconds(ms)
        PROVE  Requests!Next \/ UNCHANGED outcome
    BY <2>4, TimerImplementsFail
  <2>5. ASSUME NEW id \in 0 .. MAX_INVOKE_ID, tsm_invokeID_set(id)
        PROVE  UNCHANGED outcome
    BY <2>5, OutcomeIsOfTable DEF tsm_invokeID_set
  <2>6. CASE UNCHANGED tsmVars
    BY <2>6, OutcomeIsOfTable DEF tsmVars
  <2>7. QED
    BY <2>1, <2>2, <2>3, <2>4, <2>5, <2>6 DEF TSMNext
<1>3. QED
  BY <1>1, <1>2, TSMInvariant, PTL DEF TSMSpec
=============================================================================
