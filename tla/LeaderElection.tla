--------------------------- MODULE LeaderElection ---------------------------
(***************************************************************************)
(* What an election promises: whoever decides first decides for all, every *)
(* later decision is the same one, and no node ever changes its mind.      *)
(***************************************************************************)
CONSTANTS Node, None

VARIABLE leader

Init == leader = [n \in Node |-> None]

Decide(n, w) ==
  /\ leader[n] = None
  /\ \A k \in Node : leader[k] \in {None, w}
  /\ leader' = [leader EXCEPT ![n] = w]

Next == \E n, w \in Node : Decide(n, w)

Spec == Init /\ [][Next]_leader
=============================================================================
