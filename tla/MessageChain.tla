---------------------------- MODULE MessageChain ----------------------------
(***************************************************************************)
(* distbench/algorithms/message_chain.py.  A chain of signed messages is   *)
(* the sequence of the nodes that have signed them.  The peers that a loop *)
(* sends to are fixed when it begins, and nobody changes what they are     *)
(* sent; so a loop's sends are modelled at its beginning, and its end as a *)
(* step of its own.                                                        *)
(*                                                                         *)
(* A node that has terminated goes on handling messages while its process  *)
(* lasts.  In network mode that is the end of Node.start, and what others  *)
(* send to it from then on fails; with all nodes in one process it lasts   *)
(* until all have terminated, and only sends that its close_all meets may  *)
(* fail.  Over local queues nothing fails.                                 *)
(***************************************************************************)
EXTENDS Naturals, Sequences

CONSTANTS
  Node,        \* the nodes of the configuration file
  Initiator,   \* the node with is_initiator
  MaxHops      \* max_hops

VARIABLES
  mode,        \* the command line: offline, local or network
  started,     \* the initiator has signed its message
  transit,     \* chains on their way
  received,    \* node -> received_chains, and as a set processed_chains
  loops,       \* loops over the peers that are not over
  terminated,  \* nodes that have called terminate()
  ended,       \* nodes whose process has ended
  lost         \* a send has failed

vars == <<mode, started, transit, received, loops, terminated, ended, lost>>

Init ==
  /\ mode \in {"offline", "local", "network"}
  /\ started = FALSE
  /\ transit = {}
  /\ received = [n \in Node |-> {}]
  /\ loops = {}
  /\ terminated = {}
  /\ ended = {}
  /\ lost = FALSE

\* on_start of the initiator.
OnStart ==
  /\ ~started
  /\ started' = TRUE
  /\ transit' = transit \cup
       {[src |-> Initiator, dst |-> q, chain |-> <<Initiator>>] :
          q \in Node \ {Initiator}}
  /\ loops' = loops \cup {[at |-> Initiator, stops |-> TRUE]}
  /\ UNCHANGED <<mode, received, terminated, ended, lost>>

\* Slip: a node that has signed is left out.
TargetsUnsigned(n, src, chain) ==
  Node \ ({n, src} \cup {chain[i] : i \in DOMAIN chain})

\* All peers but the one it came from: nodes that have signed, too.
Targets(n, src, chain) == Node \ {n, src}

\* What is sent to a process that has ended fails, and the loop goes on.
Forward(n, src, chain) ==
  {[src |-> n, dst |-> q, chain |-> Append(chain, n)] :
     q \in Targets(n, src, chain) \ ended}

\* The hop count of the node's own message, which is forwarded in any case.
HopCount(chain) == Len(chain)

ReceiveChain(m) ==
  LET new == m.chain \notin received[m.dst] IN
  /\ m.dst \notin ended
  /\ transit' = (transit \ {m}) \cup
       IF new THEN Forward(m.dst, m.src, m.chain) ELSE {}
  /\ received' = [received EXCEPT ![m.dst] = @ \cup {m.chain}]
  /\ loops' = IF new
       THEN loops \cup {[at |-> m.dst, stops |-> HopCount(m.chain) >= MaxHops]}
       ELSE loops
  /\ lost' = (lost \/ (new /\ Targets(m.dst, m.src, m.chain) \cap ended # {}))
  /\ UNCHANGED <<mode, started, terminated, ended>>

\* The loop of a handler, or of on_start, is over.
Forwarded(t) ==
  /\ loops' = loops \ {t}
  /\ terminated' = IF t.stops THEN terminated \cup {t.at} ELSE terminated
  /\ UNCHANGED <<mode, started, transit, received, ended, lost>>

\* A node that has terminated closes its connections, or its process ends: what
\* a loop of it still has to send, or is sending, fails and is logged.
SendFails(m) ==
  /\ mode # "offline"
  /\ m.src \in terminated
  /\ transit' = transit \ {m}
  /\ lost' = TRUE
  /\ UNCHANGED <<mode, started, received, loops, terminated, ended>>

\* Node.start returns, and with it the process of the node ends.
Exit(n) ==
  LET to == {m \in transit : m.dst = n} IN
  /\ mode = "network"
  /\ n \in terminated \ ended
  /\ ended' = ended \cup {n}
  /\ transit' = transit \ to
  /\ lost' = (lost \/ to # {})
  /\ loops' = {t \in loops : t.at # n}
  /\ UNCHANGED <<mode, started, received, terminated>>

Next ==
  \/ OnStart
  \/ \E m \in transit : ReceiveChain(m) \/ SendFails(m)
  \/ \E t \in loops : Forwarded(t)
  \/ \E n \in Node : Exit(n)

-----------------------------------------------------------------------------
\* Chains walk round until every node has met one that is long enough: when
\* those on their way have more than max_hops + 2 messages and no loop goes on,
\* everyone has terminated, unless a send has failed (message_chain.py:76-85,
\* 139-151).
LongChainsStopEveryone ==
  (started /\ loops = {} /\ ~lost /\ \A m \in transit : Len(m.chain) > MaxHops + 2)
     => terminated = Node
=============================================================================
