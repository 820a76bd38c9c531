-------------------------------- MODULE Dolev --------------------------------
(***************************************************************************)
(* Dolev's broadcast with the optimisations MD1 - MD5, as the child        *)
(* distbench/algorithms/dolev.py of a Bracha node.  The code keeps all its *)
(* state per Dolev msg_id and messages do not interact, so the module      *)
(* follows one broadcast of one source.                                    *)
(*                                                                         *)
(* A handler that sends sleeps for a random time before each send, and a   *)
(* message may be on its way for any time.  A send therefore is modelled   *)
(* where the handler decides on it, and the sleep counts as part of the    *)
(* way.  `transit' is a set: only announcements can be sent twice, and     *)
(* handling one twice changes nothing.                                     *)
(***************************************************************************)
EXTENDS Naturals, Sequences, FiniteSets

CONSTANTS
  Node,        \* the nodes of the configuration file
  Neighbour,   \* node -> the nodes in its field neighbours
  Source,      \* the node that broadcasts
  Silent,      \* those with behavior_mode BYZANTINE_SILENT
  F            \* the field f

ASSUME DolevAssumption ==
  /\ IsFiniteSet(Node)
  /\ Source \in Node
  /\ Silent \subseteq Node
  /\ Neighbour \in [Node -> SUBSET Node]
  /\ F \in Nat

\* Those that do not drop what n sends: its neighbours, if they name n as a
\* neighbour too and are not silent.
Hearers(n) == {q \in Neighbour[n] \ Silent : n \in Neighbour[q] /\ q # n}

Path == Seq(Node)

\* A path that is empty, and not the source's, announces a delivery (MD2).
DMsg == [src : Node, dst : Node, path : Path]

Task == [at : Node, path : Path, todo : SUBSET Node,
         pc : {"parent", "announcing", "relaying", "failed"}]

VARIABLES
  begun,        \* the source has begun its broadcast
  transit,      \* messages on their way
  paths,        \* node -> the paths it has stored
  delivered,    \* nodes that have delivered the message
  announced,    \* forwarded_empty: nodes that have finished their announcement
  told,         \* neighbour_delivered: node -> who is said to have delivered
  tasks,        \* handlers at an await; the path is the new_path of each
  deliveries    \* node -> calls of the parent's dolev_deliver

vars == <<begun, transit, paths, delivered, announced, told, tasks, deliveries>>

TypeOK ==
  /\ begun \in BOOLEAN
  /\ transit \subseteq DMsg
  /\ paths \in [Node -> SUBSET Path]
  /\ delivered \subseteq Node
  /\ announced \subseteq Node
  /\ told \in [Node -> SUBSET Node]
  /\ tasks \subseteq Task
  /\ deliveries \in [Node -> Nat]

\* Slip: the sets are read with no default for a message not seen before.
InitTablesMissing == paths = <<>> /\ told = <<>>

InitTables ==
  /\ paths = [n \in Node |-> {}]
  /\ told = [n \in Node |-> {}]

Init ==
  /\ begun = FALSE
  /\ transit = {}
  /\ InitTables
  /\ delivered = {}
  /\ announced = {}
  /\ tasks = {}
  /\ deliveries = [n \in Node |-> 0]

-----------------------------------------------------------------------------
\* The nodes on a path.
On(path) == {path[i] : i \in DOMAIN path}

\* The hops of a path that ends at n.
Hops(path, n) ==
  {{path[i], path[i + 1]} : i \in 1..(Len(path) - 1)} \cup {{path[Len(path)], n}}

\* Without the nodes of C, the edges do not lead from the source to n.
Separates(C, edges, n) ==
  \E S \in SUBSET (Node \ C) :
    /\ Source \in S /\ n \notin S
    /\ \A e \in edges : e \cap S # {} => e \subseteq S \cup C

Connects(edges, n, k) ==
  \A C \in SUBSET (Node \ {Source, n}) :
    Cardinality(C) < k => ~Separates(C, edges, n)

StoredHops(n) == UNION {Hops(p, n) : p \in paths[n]}

\* Slip: f paths are taken for enough.
DistPathsFew(n) == Connects(StoredHops(n), n, F)

\* distPaths: in the graph of the stored paths no f nodes cut n off from the
\* source (networkx computes it as a maximal flow, by Menger's theorem).  A hop
\* from the source itself is stored only after the delivery, so that the nodes
\* that ask are not adjacent to it in this graph.
DistPaths(n) == Connects(StoredHops(n), n, F + 1)

Messages(n, peers, path) == {[src |-> n, dst |-> q, path |-> path] : q \in peers}

Goes(t, pc) == [t EXCEPT !.pc = pc]

-----------------------------------------------------------------------------
\* yes_daddy_bracha: every neighbour is sent the message with no path.
Broadcast ==
  /\ ~begun
  /\ begun' = TRUE
  /\ transit' = transit \cup Messages(Source, Hearers(Source), <<>>)
  /\ UNCHANGED <<paths, delivered, announced, told, tasks, deliveries>>

(***************************************************************************)
(* The handler `dolev', up to its first await.                             *)
(***************************************************************************)
IsAnnouncement(m) == m.path = <<>> /\ m.src # Source

\* MD5: nothing is left to do.
Finished(n) == n \in delivered /\ n \in announced

RecvFinished(m) ==
  /\ Finished(m.dst)
  /\ transit' = transit \ {m}
  /\ UNCHANGED <<begun, paths, delivered, announced, told, tasks, deliveries>>

\* ND3
RecvAnnouncement(m) ==
  /\ IsAnnouncement(m)
  /\ ~Finished(m.dst)
  /\ transit' = transit \ {m}
  /\ told' = [told EXCEPT ![m.dst] = @ \cup {m.src}]
  /\ UNCHANGED <<begun, paths, delivered, announced, tasks, deliveries>>

\* The message is delivered, and the parent's dolev_deliver awaited.
Deliver(n) ==
  /\ delivered' = delivered \cup {n}
  /\ deliveries' = [deliveries EXCEPT ![n] = @ + 1]

\* Slip: no path is taken for the source's own message.
RecvDirectClaimed(m) ==
  /\ m.path = <<>>
  /\ m.dst \notin delivered
  /\ Deliver(m.dst)
  /\ transit' = transit \ {m}
  /\ tasks' = tasks \cup
       {[at |-> m.dst, path |-> <<Source>>, todo |-> {}, pc |-> "parent"]}
  /\ UNCHANGED <<begun, paths, announced, told>>

\* MD1
RecvDirect(m) ==
  /\ m.src = Source
  /\ m.dst \notin delivered
  /\ Deliver(m.dst)
  /\ transit' = transit \ {m}
  /\ tasks' = tasks \cup
       {[at |-> m.dst, path |-> <<Source>>, todo |-> {}, pc |-> "parent"]}
  /\ UNCHANGED <<begun, paths, announced, told>>

\* Slip: the node may get its own message back.
TargetsAll(n, path) == Hearers(n)

\* Whom the relay loop considers.
Targets(n, path) == Hearers(n) \ On(path)

\* The relay loop of n begins.  delivered_neighbours is the live set if the
\* node has an entry in neighbour_delivered, and an empty set for the whole
\* loop otherwise: then all sends are decided.
Relayed(n, path) ==
  [at |-> n, path |-> path, pc |-> "relaying",
   todo |-> IF told[n] = {} THEN {} ELSE Targets(n, path)]

RelayedAtOnce(n, path) ==
  IF told[n] = {} THEN Messages(n, Targets(n, path), path) ELSE {}

Store(n, path) == paths' = [paths EXCEPT ![n] = @ \cup {path}]

\* MD4
SecondHop(m) == m.src \in told[m.dst] /\ m.src \in On(m.path)

RecvPath(m) ==
  LET newPath == Append(m.path, m.src) IN
  /\ ~IsAnnouncement(m)
  /\ ~Finished(m.dst)
  /\ m.src = Source => m.dst \in delivered
  /\ IF SecondHop(m)
     THEN /\ transit' = transit \ {m}
          /\ UNCHANGED <<paths, tasks>>
     ELSE /\ Store(m.dst, newPath)
          /\ transit' = (transit \ {m}) \cup RelayedAtOnce(m.dst, newPath)
          /\ tasks' = tasks \cup {Relayed(m.dst, newPath)}
  /\ UNCHANGED <<begun, delivered, announced, told, deliveries>>

-----------------------------------------------------------------------------
(***************************************************************************)
(* What the handler does after its awaits.                                 *)
(***************************************************************************)
\* The announcement, which goes to every neighbour.
Announce(t) ==
  /\ told' = [told EXCEPT ![t.at] = @ \cup {t.at}]
  /\ transit' = transit \cup Messages(t.at, Hearers(t.at), <<>>)
  /\ tasks' = (tasks \ {t}) \cup {Goes(t, "announcing")}

\* Slip: the handler of the direct message does not relay.
ContinueReturns(t) == tasks' = tasks \ {t} /\ UNCHANGED <<paths, transit>>

\* After my_deliver: the handler of the direct message goes on to its relay
\* loop, any other is over.
Continue(t) ==
  IF t.path = <<Source>>
  THEN /\ Store(t.at, t.path)
       /\ transit' = transit \cup RelayedAtOnce(t.at, t.path)
       /\ tasks' = (tasks \ {t}) \cup {Relayed(t.at, t.path)}
  ELSE /\ tasks' = tasks \ {t}
       /\ UNCHANGED <<paths, transit>>

\* dolev_deliver returns.
ParentReturns(t) ==
  /\ t.pc = "parent"
  /\ IF t.at \notin announced
     THEN Announce(t) /\ UNCHANGED paths
     ELSE Continue(t) /\ UNCHANGED told
  /\ UNCHANGED <<begun, delivered, announced, deliveries>>

\* dolev_deliver raises: neither the announcement nor the relay happens.
ParentRaises(t) ==
  /\ t.pc = "parent"
  /\ tasks' = (tasks \ {t}) \cup {Goes(t, "failed")}
  /\ UNCHANGED <<begun, transit, paths, delivered, announced, told, deliveries>>

\* The last announcement is sent.
Announced(t) ==
  /\ t.pc = "announcing"
  /\ announced' = announced \cup {t.at}
  /\ Continue(t)
  /\ UNCHANGED <<begun, delivered, told, deliveries>>

\* The next neighbour that is not known to have delivered.
Relay(t, q) ==
  /\ t.pc = "relaying"
  /\ q \in t.todo \ told[t.at]
  /\ transit' = transit \cup Messages(t.at, {q}, t.path)
  /\ tasks' = (tasks \ {t}) \cup {[t EXCEPT !.todo = @ \ {q}]}
  /\ UNCHANGED <<begun, paths, delivered, announced, told, deliveries>>

(***************************************************************************)
(* my_deliver after the relay loop.  The announcement is not conditional   *)
(* on the delivery: a node that has not enough paths announces too.        *)
(***************************************************************************)
Looped(t) == t.pc = "relaying" /\ t.todo \subseteq told[t.at]

\* Slip: every further path delivers again.
CheckDeliversAgain(t) ==
  /\ Looped(t)
  /\ DistPaths(t.at)
  /\ Deliver(t.at)
  /\ told' = [told EXCEPT ![t.at] = @ \cup {t.at}]
  /\ tasks' = (tasks \ {t}) \cup {Goes(t, "parent")}
  /\ UNCHANGED <<begun, transit, paths, announced>>

CheckDelivers(t) ==
  /\ Looped(t)
  /\ t.at \notin delivered
  /\ DistPaths(t.at)
  /\ Deliver(t.at)
  /\ told' = [told EXCEPT ![t.at] = @ \cup {t.at}]
  /\ tasks' = (tasks \ {t}) \cup {Goes(t, "parent")}
  /\ UNCHANGED <<begun, transit, paths, announced>>

CheckAnnounces(t) ==
  /\ Looped(t)
  /\ t.at \notin delivered \cup announced
  /\ ~DistPaths(t.at)
  /\ Announce(t)
  /\ UNCHANGED <<begun, paths, delivered, announced, deliveries>>

CheckEnds(t) ==
  /\ Looped(t)
  /\ t.at \in delivered \/ (t.at \in announced /\ ~DistPaths(t.at))
  /\ tasks' = tasks \ {t}
  /\ UNCHANGED <<begun, transit, paths, delivered, announced, told, deliveries>>

-----------------------------------------------------------------------------
Receive(m) ==
  \/ RecvFinished(m)
  \/ RecvAnnouncement(m)
  \/ RecvDirect(m)
  \/ RecvPath(m)

Resume(t) ==
  \/ ParentReturns(t)
  \/ ParentRaises(t)
  \/ Announced(t)
  \/ \E q \in t.todo : Relay(t, q)
  \/ CheckDelivers(t)
  \/ CheckAnnounces(t)
  \/ CheckEnds(t)

Next ==
  \/ Broadcast
  \/ \E m \in transit : Receive(m)
  \/ \E t \in tasks : Resume(t)

Spec == Init /\ [][Next]_vars

-----------------------------------------------------------------------------
(***************************************************************************)
(* Properties.                                                             *)
(***************************************************************************)
\* A stored or travelling path is what its message did: it starts at the
\* source, hops between neighbours that relay, meets no node twice and never
\* its receiver (the relay loop of dolev.py:311-315).  So relaying stops.
Real(path, n) ==
  /\ path # <<>> /\ path[1] = Source
  /\ \A i, j \in DOMAIN path : i # j => path[i] # path[j]
  /\ \A i \in DOMAIN path : path[i] # n
  /\ \A i \in 1..(Len(path) - 1) : path[i + 1] \in Hearers(path[i])
  /\ n \in Hearers(path[Len(path)])

PathsAreReal ==
  /\ \A n \in Node : \A p \in paths[n] : Real(p, n)
  /\ \A m \in transit : ~IsAnnouncement(m) => Real(Append(m.path, m.src), m.dst)

\* The hops the message has made, by what all nodes have stored.
MadeHops == UNION {{{p[Len(p)], n} : p \in paths[n]} : n \in Node}

\* A node that is no neighbour of the source delivers only what has come to it
\* on ways that no f other nodes could all have cut: ways that exist in what
\* the other nodes have stored, not only in the paths it was shown
\* (dolev.py:345 and 373-403).
DeliveryIsBackedByPaths ==
  \A n \in delivered : n \in Hearers(Source) \/ Connects(MadeHops, n, F + 1)

\* All is quiet: nothing on its way, and no handler is waiting or has failed.
Quiet == begun /\ transit = {} /\ tasks = {}

Listeners == Node \ (Silent \cup {Source})

\* The hops that messages can make.
RelayHops == UNION {{{n, q} : q \in Hearers(n)} : n \in Node \ (Silent \ {Source})}

\* The skipping of neighbours that have announced (MD3, MD4, MD5) never keeps
\* the message from a node: when all is quiet, every listener that the relaying
\* nodes connect to the source has delivered, or has announced that it has.
FloodReachesAll ==
  Quiet =>
    \A n \in Listeners :
      Connects(RelayHops, n, 1) => n \in delivered \/ n \in announced

\* dolev_f_faulty.yaml:3, of a configuration with f = 1 and one silent node:
\* "RC-Validity holds - all correct nodes still deliver despite f faulty nodes".
AllCorrectDeliver == Quiet => Listeners \subseteq delivered

\* Dolev is the channel of which Bracha's model makes use: each node is handed
\* the message at most once, and after its source has begun to broadcast it.
RB == INSTANCE ReliableBroadcast WITH
        Msg <- {Source},
        broadcast <- IF begun THEN {Source} ELSE {},
        times <- [n \in Node |-> [m \in {Source} |-> deliveries[n]]]

ImplementsBroadcast == RB!Spec
=============================================================================
