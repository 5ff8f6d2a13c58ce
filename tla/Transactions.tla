---------------------------- MODULE Transactions ----------------------------
(***************************************************************************)
(* What the transaction table promises: at most Capacity confirmed         *)
(* requests at a time, each under an id of its own.  A request is pending  *)
(* until it is released (answered or dropped by its owner) or has failed;  *)
(* a failed one keeps its id until its owner releases it.  Slots, timers   *)
(* and retries are not visible here.                                       *)
(***************************************************************************)
EXTENDS Naturals, FiniteSets

CONSTANTS Capacity, IDs

VARIABLE outcome        \* per id: "free", "pending" or "failed"

Busy == {id \in IDs : outcome[id] # "free"}
Pending == {id \in IDs : outcome[id] = "pending"}

Init == outcome = [id \in IDs |-> "free"]

(* A request goes out under a free id, if one more may be outstanding.     *)
Start(id) ==
    /\ outcome[id] = "free"
    /\ Cardinality(Busy) < Capacity
    /\ outcome' = [outcome EXCEPT ![id] = "pending"]

Release(id) ==
    /\ outcome[id] # "free"
    /\ outcome' = [outcome EXCEPT ![id] = "free"]

(* One timer call may give up several requests.                            *)
Fail(ids) ==
    outcome' = [id \in IDs |-> IF id \in ids THEN "failed" ELSE outcome[id]]

Next ==
    \/ \E id \in IDs : Start(id) \/ Release(id)
    \/ \E ids \in (SUBSET Pending) \ {{}} : Fail(ids)

(* A pending request is not left pending.                                  *)
Resolve(id) == outcome[id] = "pending" /\ Next /\ outcome'[id] # "pending"

Spec == Init /\ [][Next]_outcome /\ \A id \in IDs : WF_outcome(Resolve(id))
=============================================================================
