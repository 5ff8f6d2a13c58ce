-------------------------------- MODULE TSM --------------------------------
(***************************************************************************)
(* The transaction state machine of the BACnet stack, src/tsm.c: a table   *)
(* of confirmed requests that wait for an answer.  A slot is in use when   *)
(* its invoke id is not 0; it is AWAIT_CONFIRMATION while the answer is    *)
(* outstanding, and IDLE with an invoke id once every retry has timed out, *)
(* which is how the table reports a failed request to its owner.           *)
(*                                                                         *)
(* The operators on a table value (Freed, Reserved, Transmitted, Ticked)   *)
(* are what the C functions do to TSM_List; COV uses them inside its own   *)
(* handlers.  Destination, NPDU and APDU copies are left out: nothing in   *)
(* tsm.c branches on them.                                                 *)
(***************************************************************************)
EXTENDS Integers, FiniteSets

CONSTANTS
    MAX_TSM_TRANSACTIONS,   \* number of slots of TSM_List
    MAX_INVOKE_ID,          \* largest value of the uint8_t invoke id (255)
    APDU_TIMEOUT,           \* apdu_timeout(), in timer ticks
    APDU_RETRIES,           \* apdu_retries()
    TICKS                   \* elapsed times the timer may be called with

ASSUME TSMConstants ==
    /\ MAX_TSM_TRANSACTIONS \in Nat \ {0}
    /\ MAX_INVOKE_ID \in Nat
    /\ MAX_TSM_TRANSACTIONS <= MAX_INVOKE_ID
    /\ APDU_TIMEOUT \in Nat \ {0}
    /\ APDU_RETRIES \in Nat
    /\ TICKS \subseteq Nat \ {0}

VARIABLES
    TSM_List,               \* the table of transactions
    Current_Invoke_ID       \* where the search for a free invoke id starts

tsmVars == <<TSM_List, Current_Invoke_ID>>

Slots == 0 .. MAX_TSM_TRANSACTIONS - 1
InvokeIDs == 1 .. MAX_INVOKE_ID

Transaction ==
    [InvokeID     : 0 .. MAX_INVOKE_ID,
     state        : {"IDLE", "AWAIT_CONFIRMATION"},
     RequestTimer : 0 .. APDU_TIMEOUT,
     RetryCount   : 0 .. APDU_RETRIES]

UnusedTransaction ==
    [InvokeID |-> 0, state |-> "IDLE", RequestTimer |-> 0, RetryCount |-> 0]

----------------------------------------------------------------------------
(* Searching the table.                                                    *)

FreeSlots(list) == {i \in Slots : list[i].InvokeID = 0}
UsedIDs(list) == {list[i].InvokeID : i \in Slots} \ {0}

tsm_transaction_available(list) == FreeSlots(list) # {}

Lowest(S) == CHOOSE i \in S : \A j \in S : i <= j

SlotsOf(list, id) == {i \in Slots : list[i].InvokeID = id}

tsm_invoke_id_free(list, id) == SlotsOf(list, id) = {}

tsm_invoke_id_failed(list, id) ==
    /\ SlotsOf(list, id) # {}
    /\ list[Lowest(SlotsOf(list, id))].state = "IDLE"

(* Fault: the counter stays at the id it has handed out.                   *)
FollowingSame(id) == id

(* The id after this one; 0 is skipped when the counter wraps.             *)
Following(id) == IF id = MAX_INVOKE_ID THEN 1 ELSE id + 1

(* How many increments lead from one id to another.                        *)
Distance(from, to) ==
    IF to >= from THEN to - from ELSE to - from + MAX_INVOKE_ID

(* Fault: the table is not searched for the id.                            *)
CurrentIDUnchecked(list, cur) == cur

(* The first id, counting on from cur, that no slot holds.                 *)
FirstUnusedID(list, cur) ==
    LET unused == InvokeIDs \ UsedIDs(list)
    IN  CHOOSE id \in unused :
            \A other \in unused : Distance(cur, id) <= Distance(cur, other)

----------------------------------------------------------------------------
(* What each function leaves in the table.                                 *)

Reserved(list, id) ==
    [list EXCEPT ![Lowest(FreeSlots(list))] =
        [@ EXCEPT !.InvokeID = id, !.state = "IDLE",
                  !.RequestTimer = APDU_TIMEOUT]]

Transmitted(list, id) ==
    [list EXCEPT ![Lowest(SlotsOf(list, id))] =
        [@ EXCEPT !.state = "AWAIT_CONFIRMATION", !.RetryCount = 0,
                  !.RequestTimer = APDU_TIMEOUT]]

Freed(list, id) ==
    IF SlotsOf(list, id) = {}
    THEN list
    ELSE [list EXCEPT ![Lowest(SlotsOf(list, id))] =
            [@ EXCEPT !.state = "IDLE", !.InvokeID = 0]]

(* Fault: a retransmission is not counted.                                 *)
TickedSlotUncounted(t, ms) ==
    LET left == IF t.RequestTimer > ms THEN t.RequestTimer - ms ELSE 0
    IN  IF t.state # "AWAIT_CONFIRMATION" THEN t
        ELSE [t EXCEPT !.RequestTimer = IF left = 0 THEN APDU_TIMEOUT ELSE left]

(* One slot after ms ticks: wait on, retransmit, or give up.               *)
TickedSlot(t, ms) ==
    LET left == IF t.RequestTimer > ms THEN t.RequestTimer - ms ELSE 0
    IN  IF t.state # "AWAIT_CONFIRMATION" THEN t
        ELSE IF left # 0 THEN [t EXCEPT !.RequestTimer = left]
        ELSE IF t.RetryCount < APDU_RETRIES
             THEN [t EXCEPT !.RequestTimer = APDU_TIMEOUT,
                            !.RetryCount = t.RetryCount + 1]
             ELSE [t EXCEPT !.RequestTimer = 0, !.state = "IDLE"]

Ticked(list, ms) == [i \in Slots |-> TickedSlot(list[i], ms)]

----------------------------------------------------------------------------
(* The actions.                                                            *)

TSMInit ==
    /\ TSM_List = [i \in Slots |-> UnusedTransaction]
    /\ Current_Invoke_ID = 1

(* tsm_next_free_invokeID followed by                                      *)
(* tsm_set_confirmed_unsegmented_transaction, as every sender of a         *)
(* confirmed request calls them.                                           *)
SendConfirmed ==
    LET id == FirstUnusedID(TSM_List, Current_Invoke_ID)
    IN  /\ tsm_transaction_available(TSM_List)
        /\ TSM_List' = Transmitted(Reserved(TSM_List, id), id)
        /\ Current_Invoke_ID' = Following(id)

(* The request does not fit: the reserved id is given back at once.        *)
SendTooLong ==
    LET id == FirstUnusedID(TSM_List, Current_Invoke_ID)
    IN  /\ tsm_transaction_available(TSM_List)
        /\ TSM_List' = Freed(Reserved(TSM_List, id), id)
        /\ Current_Invoke_ID' = Following(id)

(* An answer arrives, or the owner drops the request.  The id comes from   *)
(* the wire: it may be stale, unknown or (for a SegmentACK) always 0.      *)
tsm_free_invoke_id(id) ==
    /\ TSM_List' = Freed(TSM_List, id)
    /\ UNCHANGED Current_Invoke_ID

tsm_timer_milliseconds(ms) ==
    /\ TSM_List' = Ticked(TSM_List, ms)
    /\ UNCHANGED Current_Invoke_ID

tsm_invokeID_set(id) ==
    /\ Current_Invoke_ID' = IF id = 0 THEN 1 ELSE id
    /\ UNCHANGED TSM_List

TSMNext ==
    \/ SendConfirmed
    \/ SendTooLong
    \/ \E id \in 0 .. MAX_INVOKE_ID : tsm_free_invoke_id(id)
    \/ \E ms \in TICKS : tsm_timer_milliseconds(ms)
    \/ \E id \in 0 .. MAX_INVOKE_ID : tsm_invokeID_set(id)

(* The timer is the only thing the main loop is sure to call; answers may  *)
(* be lost for ever.                                                       *)
TSMSpec ==
    /\ TSMInit /\ [][TSMNext]_tsmVars
    /\ WF_tsmVars(\E ms \in TICKS : tsm_timer_milliseconds(ms))

----------------------------------------------------------------------------
(* Properties.                                                             *)

(* The table and the counter hold values of their types; in particular the *)
(* counter of tsm.c never stops at the reserved id 0.                      *)
TSMTypeOK ==
    /\ TSM_List \in [Slots -> Transaction]
    /\ Current_Invoke_ID \in InvokeIDs

(* No invoke id is in two slots, so tsm_find_invokeID_index, which stops   *)
(* at the first match, finds the transaction that is meant.                *)
UniqueInvokeIDs ==
    \A i, j \in Slots :
        /\ TSM_List[i].InvokeID # 0
        /\ TSM_List[i].InvokeID = TSM_List[j].InvokeID
        => i = j

(* The timer retransmits only for slots whose request is still owned: a    *)
(* slot that awaits an answer has an invoke id and time left.              *)
AwaitingIsOwned ==
    \A i \in Slots :
        TSM_List[i].state = "AWAIT_CONFIRMATION"
            => TSM_List[i].InvokeID # 0 /\ TSM_List[i].RequestTimer > 0

Awaiting(t) == t.state = "AWAIT_CONFIRMATION"

(* Ticks a request may still wait, over all its remaining retries.         *)
Patience(t) == (APDU_RETRIES - t.RetryCount) * APDU_TIMEOUT + t.RequestTimer

(* Every request waits through all its retries and no longer: it starts    *)
(* with the whole schedule whatever the slot held before, no call restarts *)
(* the timer or the retry count of one under way, and the timer gives up   *)
(* only on the last retry.                                                 *)
RetrySchedule ==
    [][\A i \in Slots :
        LET old == TSM_List[i]
            new == TSM_List'[i]
            same == new.InvokeID = old.InvokeID
        IN  /\ Awaiting(new) /\ Awaiting(old) /\ same
                => Patience(new) <= Patience(old)
            /\ Awaiting(new) /\ ~(Awaiting(old) /\ same)
                => Patience(new) = (APDU_RETRIES + 1) * APDU_TIMEOUT
            /\ Awaiting(old) /\ ~Awaiting(new) /\ same
                => old.RetryCount = APDU_RETRIES]_tsmVars

(* A slot in use changes its invoke id only by being freed: an id that is  *)
(* outstanding is never overwritten by a later reservation.                *)
IDsOnlyFreed ==
    [][\A i \in Slots :
        TSM_List[i].InvokeID # 0
            => TSM_List'[i].InvokeID \in {TSM_List[i].InvokeID, 0}]_tsmVars

(* What the table promises to its callers, per invoke id.                  *)
Outcome(id) ==
    IF SlotsOf(TSM_List, id) = {} THEN "free"
    ELSE IF \E i \in SlotsOf(TSM_List, id) : Awaiting(TSM_List[i])
         THEN "pending" ELSE "failed"

outcome == [id \in InvokeIDs |-> Outcome(id)]

Requests == INSTANCE Transactions
    WITH Capacity <- MAX_TSM_TRANSACTIONS, IDs <- InvokeIDs,
         outcome <- outcome

(* The table, with its timers and retries hidden, is the abstract          *)
(* transaction service: ids are handed out only when free and below        *)
(* capacity, a pending request ends as answered or failed, and it does end.*)
ImplementsTransactions == Requests!Spec
=============================================================================
