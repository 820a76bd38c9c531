-------------------------- MODULE ReliableBroadcast --------------------------
(***************************************************************************)
(* What Bracha's and Dolev's broadcast promise to the layer above them,    *)
(* whatever the topology, the thresholds and the interleaving: a message   *)
(* is delivered only after its source has broadcast it, and by each node   *)
(* at most once.                                                           *)
(***************************************************************************)
EXTENDS Naturals

CONSTANTS Node, Msg

VARIABLES
  broadcast,   \* messages whose source has begun to broadcast them
  times        \* node -> message -> how often it was delivered

vars == <<broadcast, times>>

Init ==
  /\ broadcast = {}
  /\ times = [n \in Node |-> [m \in Msg |-> 0]]

Initiate(m) ==
  /\ m \notin broadcast
  /\ broadcast' = broadcast \cup {m}
  /\ UNCHANGED times

Deliver(n, m) ==
  /\ m \in broadcast
  /\ times[n][m] = 0
  /\ times' = [times EXCEPT ![n][m] = 1]
  /\ UNCHANGED broadcast

Next ==
  \/ \E m \in Msg : Initiate(m)
  \/ \E n \in Node, m \in Msg : Deliver(n, m)

Spec == Init /\ [][Next]_vars
=============================================================================
