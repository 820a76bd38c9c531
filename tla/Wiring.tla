------------------------------- MODULE Wiring -------------------------------
(***************************************************************************)
(* How the nodes of distbench find and recognise each other: run_offline,  *)
(* run_local and run_network (distbench/main.py), the addresses of a       *)
(* Community, and what a transport tells the receiver about the sender.    *)
(*                                                                         *)
(* Over TCP a node is known by a number that every process works out from  *)
(* its own copy of the configuration file.  A name of the file is modelled *)
(* by its place in the order of names.  That at most 2^16 nodes can be     *)
(* numbered is left out: build_tcp_mappings refuses more.                  *)
(***************************************************************************)
EXTENDS Naturals, Sequences, FiniteSets, SequencesExt

CONSTANTS
  Template,   \* the keys of the file with a leading underscore
  File,       \* copies of the file: the same keys, in any order
  Listed      \* name -> the nodes in its list `neighbours'

VARIABLES
  mode,       \* the command line: offline, local or network
  delayed,    \* a latency is given
  copy,       \* node -> the copy of the file that its process reads
  community,  \* wired nodes -> Community
  servers,    \* node -> names registered at its LocalTransport
  serving,    \* nodes whose start() has been called
  crashed,    \* the process has ended with an exception
  heard       \* messages handled: from whom, at whom, for whom, and as whose

vars == <<mode, delayed, copy, community, servers, serving, crashed, heard>>

-----------------------------------------------------------------------------
\* load_config
Loaded(file) == {k \in ToSet(file) : k \notin Template}

\* The nodes that every copy of the file names.
Names == UNION {Loaded(file) : file \in File}

\* Slip: numbers in the order of the file.
NumberInFile(file, n) ==
  Cardinality({i \in DOMAIN file : /\ file[i] \in Loaded(file)
                                   /\ \E j \in DOMAIN file : i < j /\ file[j] = n})

\* build_tcp_mappings: numbers in the order of the names.
NumberOf(file, n) == Cardinality({k \in Loaded(file) : k < n})

\* extract_neighbours, without the node itself.  No name is looked up.
NeighboursOf(n) ==
  (IF Listed[n] = {} THEN Loaded(copy[n]) ELSE Listed[n]) \ {n}

\* How n addresses p, and itself.
Address(n, p) == IF mode = "offline" THEN p ELSE NumberOf(copy[n], p)

\* Community.__init__; `peers' leads from an address back to its peer.
CommunityOf(n) ==
  LET others == Loaded(copy[n]) \ {n} IN
  [neighbours |-> NeighboursOf(n),
   addresses |-> [p \in others |-> Address(n, p)],
   peers |-> [a \in {Address(n, p) : p \in others} |->
                CHOOSE p \in others : Address(n, p) = a]]

Init ==
  /\ mode \in {"offline", "local", "network"}
  /\ delayed \in BOOLEAN
  /\ copy \in [Names -> File]
  /\ mode # "network" => \A n, p \in Names : copy[n] = copy[p]
  /\ community = <<>>
  /\ servers = [n \in Names |-> {}]
  /\ serving = {}
  /\ crashed = FALSE
  /\ heard = {}

-----------------------------------------------------------------------------
\* run_offline registers every server at every transport; a DelayedTransport
\* has no such method, and the exception ends the process.
RunOffline ==
  /\ mode = "offline" /\ community = <<>>
  /\ community' = [n \in Names |-> CommunityOf(n)]
  /\ IF delayed
     THEN crashed' = TRUE /\ UNCHANGED servers
     ELSE servers' = [n \in Names |-> Loaded(copy[n])] /\ UNCHANGED crashed
  /\ UNCHANGED <<mode, delayed, copy, serving, heard>>

RunLocal ==
  /\ mode = "local" /\ community = <<>>
  /\ community' = [n \in Names |-> CommunityOf(n)]
  /\ UNCHANGED <<mode, delayed, copy, servers, serving, crashed, heard>>

\* One process per node.
RunNetwork(n) ==
  /\ mode = "network" /\ n \notin DOMAIN community
  /\ community' = [k \in DOMAIN community \cup {n} |->
                     IF k = n THEN CommunityOf(n) ELSE community[k]]
  /\ UNCHANGED <<mode, delayed, copy, servers, serving, crashed, heard>>

\* The tasks of _run_nodes begin in any order.
Serve(n) ==
  /\ ~crashed /\ n \in DOMAIN community \ serving
  /\ serving' = serving \cup {n}
  /\ UNCHANGED <<mode, delayed, copy, community, servers, crashed, heard>>

-----------------------------------------------------------------------------
\* The nodes that accept a connection of n to an address: by registered name,
\* by port, or by the name of the host.  A local server answers always, one
\* behind a socket once it is bound.
Accepts(n, addr) ==
  {q \in Names :
     \/ mode = "offline" /\ q \in servers[n] /\ q = addr
     \/ mode = "local" /\ q \in serving /\ NumberOf(copy[q], q) = addr
     \/ mode = "network" /\ q \in serving /\ NumberOf(copy[n], q) = addr}

\* The address under which the receiver sees the sender, the u16 that begins
\* every TCP connection, and id_of.  Whose address is unknown is not heard.
Cast(n, p) ==
  /\ n \in serving
  /\ p \in DOMAIN community[n].addresses
  /\ \E q \in Accepts(n, community[n].addresses[p]) :
       LET peers == community[q].peers
           source == Address(n, n)
       IN  heard' = heard \cup
             {[src |-> n, dst |-> p, at |-> q,
               as |-> IF source \in DOMAIN peers THEN {peers[source]} ELSE {}]}
  /\ UNCHANGED <<mode, delayed, copy, community, servers, serving, crashed>>

Next ==
  \/ RunOffline \/ RunLocal
  \/ \E n \in Names : RunNetwork(n) \/ Serve(n)
  \/ \E n, p \in Names : Cast(n, p)

-----------------------------------------------------------------------------
\* Whatever the mode, and however each process has its copy of the file sorted,
\* a message comes to the node it is for, which knows whose it is; STARTED, the
\* keys and the votes of a quorum are attributed by this alone (node.py:202).
SendersAreRecognised ==
  \A h \in heard : h.at = h.dst /\ h.as = {h.src}
=============================================================================
