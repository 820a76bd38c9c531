------------------------ MODULE DistributedAlgorithm ------------------------
(***************************************************************************)
(* How a node of the in4150 template begins: DistributedAlgorithm of       *)
(* in4150/cs4545/system/da_types.py, over a library that finds peers and   *)
(* sends datagrams.  These may overtake each other.                        *)
(*                                                                         *)
(* The library finds the peers at some time.                               *)
(***************************************************************************)
EXTENDS Naturals, Sequences, FiniteSets, Bags, SequencesExt

CONSTANTS
  Node,        \* the keys of the topology file, which are the node ids
  Neighbour    \* node -> its list in the topology file, as a set

VARIABLES
  hellos,      \* ConnectionMessages in transit
  nodes,       \* node -> the keys of self.nodes, in the order of the dict
  states,      \* node -> neighbour -> node_states
  phase,       \* node -> "connecting", "polling" (sleeps in a poll), "delayed"
               \* (on_start is to run), "waited" (its starter's part is), "begun"
  transit,     \* the algorithm's messages in transit, a bag
  stopped,     \* nodes that have called stop()
  ended        \* nodes whose process has ended

connectionVars == <<hellos, nodes, states>>
vars == <<connectionVars, phase, transit, stopped, ended>>

Init ==
  /\ hellos = {}
  /\ nodes = [n \in Node |-> <<>>]
  /\ states = [n \in Node |-> [q \in Neighbour[n] |-> "init"]]
  /\ phase = [n \in Node |-> "connecting"]
  /\ transit = EmptyBag
  /\ stopped = {}
  /\ ended = {}

Knows(n) == ToSet(nodes[n])

Hellos(n, state) == {[src |-> n, dst |-> q, state |-> state] : q \in Neighbour[n]}

(***************************************************************************)
(* _ensure_nodes_connected, which runs again and again until all           *)
(* neighbours have been heard of.  Each time it sets their states to       *)
(* "init", whatever they have said, and sleeps; messages that are handled  *)
(* meanwhile count.                                                        *)
(***************************************************************************)
BeginPoll(n) ==
  /\ phase[n] = "connecting" /\ n \notin ended
  /\ phase' = [phase EXCEPT ![n] = "polling"]
  /\ states' = [states EXCEPT ![n] = [q \in Neighbour[n] |-> "init"]]
  /\ UNCHANGED <<hellos, nodes, transit, stopped, ended>>

\* After the sleep.  The library may not have found all peers yet.
PollInVain(n) ==
  /\ phase[n] = "polling" /\ n \notin ended
  /\ phase' = [phase EXCEPT ![n] = "connecting"]
  /\ UNCHANGED <<connectionVars, transit, stopped, ended>>

Poll(n) ==
  /\ phase[n] = "polling" /\ n \notin ended
  /\ hellos' = hellos \cup Hellos(n, "init")
  /\ phase' = [phase EXCEPT ![n] = IF Knows(n) = Neighbour[n]
                                   THEN "delayed" ELSE "connecting"]
  /\ UNCHANGED <<nodes, states, transit, stopped, ended>>

\* Slip: to be heard of is enough to be ready.
OnManualConnectReady(m) ==
  /\ hellos' = hellos \ {m}
  /\ nodes' = IF m.src \in Knows(m.dst) THEN nodes
              ELSE [nodes EXCEPT ![m.dst] = Append(@, m.src)]
  /\ states' = [states EXCEPT ![m.dst][m.src] = "ready"]
  /\ UNCHANGED <<phase, transit, stopped, ended>>

\* _on_manual_connect
OnManualConnect(m) ==
  /\ hellos' = hellos \ {m}
  /\ nodes' = IF m.src \in Knows(m.dst) THEN nodes
              ELSE [nodes EXCEPT ![m.dst] = Append(@, m.src)]
  /\ states' = [states EXCEPT ![m.dst][m.src] = m.state]
  /\ UNCHANGED <<phase, transit, stopped, ended>>

\* ez_send: what is sent to a process that has ended is lost.
Datagram(type, src, dst, value) ==
  IF dst \in ended THEN EmptyBag
  ELSE SetToBag({[type |-> type, src |-> src, dst |-> dst, value |-> value]})

\* The event is set, and run.py stops the library.
End(n) ==
  /\ n \in stopped \ ended
  /\ ended' = ended \cup {n}
  /\ hellos' = {m \in hellos : m.dst # n}
  /\ transit' = [m \in {k \in BagToSet(transit) : k.dst # n} |-> transit[m]]
  /\ UNCHANGED <<nodes, states, phase, stopped>>

Connect ==
  \/ \E n \in Node : BeginPoll(n) \/ PollInVain(n) \/ Poll(n) \/ End(n)
  \/ \E m \in hellos : OnManualConnect(m)

\* Nothing is left to do but to end processes.
Quiet == transit = EmptyBag /\ \A n \in Node \ ended : phase[n] = "begun"
=============================================================================
