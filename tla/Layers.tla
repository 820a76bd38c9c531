------------------------------- MODULE Layers -------------------------------
(***************************************************************************)
(* SimpleBroadcast and its parent SimpleBroadcastUpper                     *)
(* (distbench/algorithms/simple_broadcast.py), with what the @distbench    *)
(* decorator adds to them: how a message from a peer finds the handler of  *)
(* a child, and how the child's delivery finds the handler of its parent   *)
(* (distbench/decorators.py, distbench/algorithm.py).                      *)
(*                                                                         *)
(* Casts of one node to another arrive in their order, or fail.  That is   *)
(* an assumption: Connection promises it while no connection breaks, and   *)
(* a cast that fails here is one that leaves the order of the others, as   *)
(* when the receiver does not listen.  No handler here awaits anything     *)
(* that could let another run.                                             *)
(***************************************************************************)
EXTENDS Naturals, Sequences, FiniteSets, SequencesExt

CONSTANTS
  Node,      \* the nodes of the configuration file
  Starter,   \* those with start_node
  Sends      \* how many entries the field messages of a starter has

\* The k-th broadcast of a starter: the messages, then one BroadcastEcho.
Type(k) == IF k <= Sends THEN "BroadcastSend" ELSE "BroadcastEcho"

Broadcasts == 1..(Sends + 1)

\* interface: what the upper layer hands to its child; `number' is its content.
Envelope(k) == [type |-> Type(k), number |-> k]

VARIABLES
  current,     \* starter -> its broadcast in progress, 0 before on_start
  todo,        \* starter -> peers that the gather has yet to send to
  transit,     \* src -> dst -> numbers of the broadcasts on their way
  sends,       \* node -> send_received, each with its sender and number
  echoes       \* node -> echo_received

vars == <<current, todo, transit, sends, echoes>>

Init ==
  /\ current = [n \in Starter |-> 0]
  /\ todo = [n \in Starter |-> {}]
  /\ transit = [n \in Starter |-> [q \in Node |-> <<>>]]
  /\ sends = [n \in Node |-> <<>>]
  /\ echoes = [n \in Node |-> <<>>]

-----------------------------------------------------------------------------
(***************************************************************************)
(* The classes: which messages of peers, and which deliveries of its       *)
(* child, an algorithm has a handler for.                                  *)
(***************************************************************************)
\* The methods marked with @handler: their names, the types of their messages
\* and whether `from_child' is given.
Methods == [
  upper |->
    {[name |-> "broadcast_send", type |-> "BroadcastSend", fromChild |-> TRUE],
     [name |-> "broadcast_echo", type |-> "BroadcastEcho", fromChild |-> TRUE]},
  broadcast |->
    {[name |-> "simple_broadcast_message", type |-> "SimpleBroadcastMessage",
      fromChild |-> FALSE]}]

Children == [upper |-> <<"broadcast">>, broadcast |-> <<>>]

\* Messages of peers are told apart by the names of the methods ...
Handlers(alg) == {h.name : h \in {k \in Methods[alg] : ~k.fromChild}}

\* ... deliveries of children by the types, whichever child delivers.
FromChild(alg) == {h.type : h \in {k \in Methods[alg] : k.fromChild}}

\* handle: the algorithm itself, or else its first child that has the handler.
\* Peers send no path, and children of children are not asked.
HandledBy(alg, type) ==
  IF type \in Handlers(alg) THEN {alg}
  ELSE LET able == {i \in DOMAIN Children[alg] : type \in Handlers(Children[alg][i])}
       IN  {Children[alg][i] : i \in {k \in able : \A j \in able : k <= j}}

\* register_child
ParentOf(alg) == {p \in DOMAIN Children : alg \in ToSet(Children[p])}

\* deliver: the parent's handler of the type in the envelope, if it has one.
Deliver(alg, n, src, envelope) ==
  LET received == [src |-> src, number |-> envelope.number]
      Handles(type) == envelope.type = type /\ type \in FromChild(alg)
  IN
  /\ sends' = IF Handles("BroadcastSend")
              THEN [sends EXCEPT ![n] = Append(@, received)] ELSE sends
  /\ echoes' = IF Handles("BroadcastEcho")
               THEN [echoes EXCEPT ![n] = Append(@, received)] ELSE echoes

\* deliver_message: an algorithm without a parent delivers to nobody.
DeliverMessage(alg, n, src, k) ==
  IF ParentOf(alg) = {} THEN UNCHANGED <<sends, echoes>>
  ELSE \E parent \in ParentOf(alg) : Deliver(parent, n, src, Envelope(k))

-----------------------------------------------------------------------------
\* on_start of the upper layer: the first broadcast begins.
Start(n) ==
  /\ current[n] = 0
  /\ current' = [current EXCEPT ![n] = 1]
  /\ todo' = [todo EXCEPT ![n] = Node \ {n}]
  /\ UNCHANGED <<transit, sends, echoes>>

\* Slip: a later cast overtakes an earlier one.
SendToPeerOvertakes(n, q) ==
  /\ q \in todo[n]
  /\ todo' = [todo EXCEPT ![n] = @ \ {q}]
  /\ transit' = [transit EXCEPT ![n][q] = <<current[n]>> \o @]
  /\ UNCHANGED <<current, sends, echoes>>

\* The method of the peer, a cast.
SendToPeer(n, q) ==
  /\ q \in todo[n]
  /\ todo' = [todo EXCEPT ![n] = @ \ {q}]
  /\ transit' = [transit EXCEPT ![n][q] = Append(@, current[n])]
  /\ UNCHANGED <<current, sends, echoes>>

\* The exception is logged.
SendFails(n, q) ==
  /\ q \in todo[n]
  /\ todo' = [todo EXCEPT ![n] = @ \ {q}]
  /\ UNCHANGED <<current, transit, sends, echoes>>

\* All sends are over: the message is delivered here, and the next begins.
Gathered(n) ==
  /\ current[n] \in Broadcasts /\ todo[n] = {}
  /\ DeliverMessage("broadcast", n, n, current[n])
  /\ current' = [current EXCEPT ![n] = @ + 1]
  /\ todo' = IF current[n] + 1 \in Broadcasts
             THEN [todo EXCEPT ![n] = Node \ {n}] ELSE todo
  /\ UNCHANGED transit

\* A message of a peer comes to the root algorithm, and from the child that
\* handles it back to the root.
Handle(n, src) ==
  /\ transit[src][n] # <<>>
  /\ transit' = [transit EXCEPT ![src][n] = Tail(@)]
  /\ \E alg \in HandledBy("upper", "simple_broadcast_message") :
       DeliverMessage(alg, n, src, Head(transit[src][n]))
  /\ UNCHANGED <<current, todo>>

Next ==
  \E n \in Starter :
    \/ Start(n)
    \/ Gathered(n)
    \/ \E q \in Node : SendToPeer(n, q) \/ SendFails(n, q) \/ Handle(q, n)

-----------------------------------------------------------------------------
\* The places of what came from src.
From(list, src) == {i \in DOMAIN list : list[i].src = src}

\* Across the layers, and with sends that fail, every parent gets the messages
\* of a starter in their order and none twice; its echo comes last, when the
\* starter has all its own messages and none is on its way to that parent
\* (simple_broadcast.py:43-81, 132-150).  Casts of a pair do not overtake.
EchoComesLast ==
  \A n \in Node, src \in Starter :
    LET sent == From(sends[n], src)
        ended == From(echoes[n], src)
    IN
    /\ \A i, j \in sent : i < j => sends[n][i].number < sends[n][j].number
    /\ \A i, j \in ended : i < j => echoes[n][i].number < echoes[n][j].number
    /\ \A i \in sent, j \in ended : sends[n][i].number < echoes[n][j].number
    /\ ended # {} =>
         /\ Cardinality(From(sends[src], src)) = Sends
         /\ transit[src][n] = <<>>
=============================================================================
