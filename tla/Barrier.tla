------------------------------- MODULE Barrier -------------------------------
(***************************************************************************)
(* The synchronisation a node's lifecycle promises twice: no node passes   *)
(* the barrier before every node has arrived at it.                        *)
(***************************************************************************)
CONSTANT Node

VARIABLES arrived, passed

vars == <<arrived, passed>>

Init ==
  /\ arrived = {}
  /\ passed = {}

Arrive(n) ==
  /\ n \notin arrived
  /\ arrived' = arrived \cup {n}
  /\ UNCHANGED passed

Pass(n) ==
  /\ arrived = Node
  /\ passed' = passed \cup {n}
  /\ UNCHANGED arrived

Next == \E n \in Node : Arrive(n) \/ Pass(n)

Spec == Init /\ [][Next]_vars
=============================================================================
