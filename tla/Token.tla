------------------------------- MODULE Token -------------------------------
(***************************************************************************)
(* What the master nodes of an MS/TP bus promise together: at most one of  *)
(* them answers for the token.  It is created only when nobody does, goes  *)
(* from node to node, and may be lost.                                     *)
(***************************************************************************)
EXTENDS Naturals, FiniteSets

CONSTANT Nodes

VARIABLE holders        \* the nodes that answer for the token

Init == holders = {}

Create(n) == holders = {} /\ holders' = {n}

Pass(n) == holders # {} /\ holders' = {n}

Lose == holders # {} /\ holders' = {}

Next == Lose \/ \E n \in Nodes : Create(n) \/ Pass(n)

Spec == Init /\ [][Next]_holders
=============================================================================
