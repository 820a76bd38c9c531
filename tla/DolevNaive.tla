----------------------------- MODULE DolevNaive -----------------------------
(***************************************************************************)
(* Dolev's broadcast without optimisations, distbench/algorithms/          *)
(* dolev_naive.py.  Messages do not interact, so the module follows one    *)
(* broadcast of one source.                                                *)
(*                                                                         *)
(* A node knows its neighbours only once on_start has run, and drops what  *)
(* comes before.  Whom the relay loop sends to is fixed when it begins:    *)
(* its sends are modelled there, and the pauses between them count as part *)
(* of the way.  What is left of a handler is the call of my_deliver.       *)
(***************************************************************************)
EXTENDS Naturals, Sequences, FiniteSets, SequencesExt

CONSTANTS
  Node,        \* the nodes of the configuration file
  Neighbour,   \* node -> the nodes in its field neighbours
  Source,      \* the node with is_sender
  F            \* GLOBAL_F

VARIABLES
  started,     \* nodes whose neighbour_ids are set
  transit,     \* messages on their way
  paths,       \* node -> the list of the paths it has stored
  checks,      \* handlers that have yet to call my_deliver
  delivered,   \* nodes that have delivered the message
  missed       \* nodes that have dropped a message since they had not started

vars == <<started, transit, paths, checks, delivered, missed>>

Init ==
  /\ started = {}
  /\ transit = {}
  /\ paths = [n \in Node |-> <<>>]
  /\ checks = {}
  /\ delivered = {}
  /\ missed = {}

On(path) == {path[i] : i \in DOMAIN path}

Messages(n, path) ==
  {[src |-> n, dst |-> q, path |-> path] : q \in Neighbour[n] \ ({n} \cup On(path))}

\* on_start: the neighbours are set, and the sender broadcasts.
Start(n) ==
  /\ n \notin started
  /\ started' = started \cup {n}
  /\ transit' = IF n = Source THEN transit \cup Messages(n, <<>>) ELSE transit
  /\ UNCHANGED <<paths, checks, delivered, missed>>

\* The handler: a message of no neighbour, or before on_start.
Drop(m) ==
  /\ m.dst \notin started \/ m.src \notin Neighbour[m.dst]
  /\ transit' = transit \ {m}
  /\ missed' = missed \cup {m.dst}
  /\ UNCHANGED <<started, paths, checks, delivered>>

\* The path is stored if it is new, and relayed to the neighbours not on it.
Receive(m) ==
  LET newPath == Append(m.path, m.src) IN
  /\ m.dst \in started /\ m.src \in Neighbour[m.dst]
  /\ paths' = IF newPath \in On(paths[m.dst]) THEN paths
              ELSE [paths EXCEPT ![m.dst] = Append(@, newPath)]
  /\ transit' = (transit \ {m}) \cup Messages(m.dst, newPath)
  /\ checks' = checks \cup {[at |-> m.dst, path |-> newPath]}
  /\ UNCHANGED <<started, delivered, missed>>

\* The nodes of a path between the source and n.
Internal(path, n) == On(path) \ {Source, n}

\* Slip: f disjoint paths are taken for enough.
DistPathsFew(n) == Len(paths[n]) >= F

\* distPaths: greedy, in the order of the list.
DistPaths(n) ==
  LET Choose(chosen, path) ==
        IF \E i \in DOMAIN chosen : chosen[i] \cap Internal(path, n) # {}
        THEN chosen ELSE Append(chosen, Internal(path, n))
  IN  Len(FoldLeft(Choose, <<>>, paths[n])) >= F + 1

\* my_deliver after the relay loop, with the paths stored by then.
MyDeliver(c) ==
  /\ checks' = checks \ {c}
  /\ delivered' = IF DistPaths(c.at) THEN delivered \cup {c.at} ELSE delivered
  /\ UNCHANGED <<started, transit, paths, missed>>

Next ==
  \/ \E n \in Node : Start(n)
  \/ \E m \in transit : Drop(m) \/ Receive(m)
  \/ \E c \in checks : MyDeliver(c)

-----------------------------------------------------------------------------
Quiet == started = Node /\ transit = {} /\ checks = {}

\* A way from the source to n, which meets no node twice.
IsWay(path, n) ==
  /\ path # <<>> /\ path[1] = Source
  /\ n \notin On(path)
  /\ \A i, j \in DOMAIN path : path[i] = path[j] => i = j
  /\ \A i \in 1..(Len(path) - 1) : path[i + 1] \in Neighbour[path[i]]
  /\ n \in Neighbour[path[Len(path)]]

Ways(n) == {path \in SeqOf(Node, Cardinality(Node)) : IsWay(path, n)}

\* Whichever shortest way comes first, another one leads past all its nodes.
WaysApart ==
  \A n \in Node \ {Source} :
    /\ Ways(n) # {}
    /\ \A first \in Ways(n) :
         \/ \E path \in Ways(n) : Len(path) < Len(first)
         \/ \E path \in Ways(n) \ {first} : Internal(path, n) \cap Internal(first, n) = {}

\* No f nodes can have made up what n delivers: a path leads past any f of them.
CannotBeCut(n) ==
  \A C \in SUBSET (Node \ {Source, n}) :
    Cardinality(C) <= F => \E i \in DOMAIN paths[n] : On(paths[n][i]) \cap C = {}

\* The greedy choice begins with the path that came first.
FirstOvertookShorter(n) ==
  \E i \in DOMAIN paths[n] : Len(paths[n][i]) < Len(paths[n][1])

\* A node delivers only what no f nodes can have made up; and when all is quiet
\* and nobody has missed a message for it had not started, it has delivered
\* unless its first path had overtaken a shorter one (dolev_naive.py:150-166).
OnlyOvertakingHinders ==
  /\ \A n \in delivered : CannotBeCut(n)
  /\ Quiet /\ missed = {} =>
       \A n \in Node \ {Source} : n \in delivered \/ FirstOvertookShorter(n)
=============================================================================
