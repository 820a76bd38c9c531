------------------------------- MODULE Bracha -------------------------------
(***************************************************************************)
(* Bracha's reliable broadcast as distbench/algorithms/bracha.py runs it   *)
(* on top of its Dolev child.                                              *)
(*                                                                         *)
(* A sender initiates exactly one message, under a fresh uuid, so a        *)
(* message is named by its sender.  Every await inside a handler is a      *)
(* point where other tasks of the node run: the part of `ready' after the  *)
(* awaited READY broadcast and the parts of `on_start' after each awaited  *)
(* broadcast are actions of their own.  The Dolev child is a channel here: *)
(* once a broadcast has begun, each other node may receive it at any later *)
(* time, at most once (Dolev.delivered), with the broadcaster as `src'.    *)
(***************************************************************************)
EXTENDS Integers, FiniteSets

CONSTANTS
  Node,          \* the nodes of the configuration file
  Sender,        \* those with is_sender: true
  Silent,        \* those whose Dolev child runs BYZANTINE_SILENT
  F,             \* the field f
  ProcessExit,   \* network mode: the process ends when its node has terminated
  Synchronised   \* no message arrives before the receiver's on_start has begun

ASSUME BrachaAssumption ==
  /\ IsFiniteSet(Node)
  /\ Sender \subseteq Node
  /\ Silent \subseteq Node
  /\ F \in Nat
  /\ ProcessExit \in BOOLEAN
  /\ Synchronised \in BOOLEAN

N == Cardinality(Node)

\* math.ceil((N + f + 1) / 2)
ReadyThreshold == (N + F + 2) \div 2

DeliverThreshold == 2 * F + 1

Phase == {"send", "echo", "ready"}

DMsg == [phase : Phase, msg : Sender, src : Node]

VARIABLES
  onStart,      \* how far the node's on_start task has come
  seen,         \* seen_messages
  echos,        \* node -> message -> nodes whose ECHO was counted
  readys,       \* node -> message -> nodes whose READY was counted
  sentReady,    \* messages with sent_ready set
  delivered,    \* messages with delivered set
  deliveries,   \* node -> message -> times the delivery was logged
  expected,     \* expected_senders
  phaseCount,   \* bracha_send_count, bracha_echo_count, bracha_ready_count
  resuming,     \* messages whose `ready' handler awaits its READY broadcast
  terminated,   \* nodes that called terminate()
  exited,       \* nodes whose process has ended
  dolev,        \* Dolev broadcasts begun so far
  got           \* node -> broadcasts its Dolev child has delivered

nodeVars == <<seen, echos, readys, sentReady>>
deliveryVars == <<delivered, deliveries, terminated>>
vars == <<onStart, nodeVars, deliveryVars, expected, phaseCount, resuming,
          exited, dolev, got>>

TypeOK ==
  /\ onStart \in [Node -> {"idle", "sending", "echoing", "done", "failed"}]
  /\ seen \in [Node -> SUBSET Sender]
  /\ echos \in [Node -> [Sender -> SUBSET Node]]
  /\ readys \in [Node -> [Sender -> SUBSET Node]]
  /\ sentReady \in [Node -> SUBSET Sender]
  /\ delivered \in [Node -> SUBSET Sender]
  /\ deliveries \in [Node -> [Sender -> Nat]]
  /\ expected \in [Node -> SUBSET Sender]
  /\ phaseCount \in [Node -> [Phase -> Nat]]
  /\ resuming \in [Node -> SUBSET Sender]
  /\ terminated \in SUBSET Node
  /\ exited \in SUBSET Node
  /\ dolev \in SUBSET DMsg
  /\ got \in [Node -> SUBSET DMsg]

\* init_state, never called for the message: its tables do not exist.
InitStateMissing ==
  /\ echos = [n \in Node |-> <<>>]
  /\ readys = [n \in Node |-> <<>>]

InitState ==
  /\ echos = [n \in Node |-> [m \in Sender |-> {}]]
  /\ readys = [n \in Node |-> [m \in Sender |-> {}]]

Init ==
  /\ onStart = [n \in Node |-> IF Synchronised /\ n \notin Sender
                               THEN "done" ELSE "idle"]
  /\ seen = [n \in Node |-> {}]
  /\ InitState
  /\ sentReady = [n \in Node |-> {}]
  /\ delivered = [n \in Node |-> {}]
  /\ deliveries = [n \in Node |-> [m \in Sender |-> 0]]
  /\ expected = [n \in Node |-> {}]
  /\ phaseCount = [n \in Node |-> [p \in Phase |-> 0]]
  /\ resuming = [n \in Node |-> {}]
  /\ terminated = {}
  /\ exited = {}
  /\ dolev = {}
  /\ got = [n \in Node |-> {}]

-----------------------------------------------------------------------------
\* bracha(phase, ...): count the phase and hand the message to the Dolev child.
Broadcast(n, p, m) ==
  /\ phaseCount' = [phaseCount EXCEPT ![n][p] = @ + 1]
  /\ dolev' = dolev \cup {[phase |-> p, msg |-> m, src |-> n]}

NoBroadcast == UNCHANGED <<phaseCount, dolev>>

(***************************************************************************)
(* The conditions of the handlers.  Each is preceded by the slips a        *)
(* maintainer could make in it; the slips are not part of the              *)
(* specification and serve to show that the properties notice them.        *)
(***************************************************************************)
EnoughEchoesLow(echosNow) == Cardinality(echosNow) >= F + 1

EnoughEchoesWhole(echosNow) == Cardinality(echosNow) >= N + F + 1

EnoughEchoes(echosNow) == Cardinality(echosNow) >= ReadyThreshold

EnoughReadiesOwn(readysNow) == Cardinality(readysNow) + 1 >= DeliverThreshold

EnoughReadies(readysNow) == Cardinality(readysNow) >= DeliverThreshold

AmplifiesAgain(n, m, readysNow) == Cardinality(readysNow) >= F + 1

Amplifies(n, m, readysNow) ==
  m \notin sentReady[n] /\ Cardinality(readysNow) >= F + 1

DeliversAgain(n, m, readysNow) == EnoughReadies(readysNow)

Delivers(n, m, readysNow) == m \notin delivered[n] /\ EnoughReadies(readysNow)

\* check_completion: as many messages delivered as there are known senders.
Complete(n, deliveredNow) ==
  /\ expected[n] # {}
  /\ Cardinality(deliveredNow) >= Cardinality(expected[n])

\* The tail of `ready': deliver once enough READYs are counted.
DeliverCheck(n, m, readysNow) ==
  IF Delivers(n, m, readysNow)
  THEN /\ delivered' = [delivered EXCEPT ![n] = @ \cup {m}]
       /\ deliveries' = [deliveries EXCEPT ![n][m] = @ + 1]
       /\ terminated' = IF Complete(n, delivered[n] \cup {m})
                        THEN terminated \cup {n} ELSE terminated
  ELSE UNCHANGED deliveryVars

-----------------------------------------------------------------------------
(***************************************************************************)
(* on_start.  A non-sender only sets up its logger; a sender broadcasts    *)
(* SEND, then marks the message seen and echoed, broadcasts its ECHO and   *)
(* terminates.                                                             *)
(***************************************************************************)
Start(n) ==
  /\ n \notin Sender
  /\ onStart[n] = "idle"
  /\ onStart' = [onStart EXCEPT ![n] = "done"]
  /\ UNCHANGED <<nodeVars, deliveryVars, expected, resuming, exited, got>>
  /\ NoBroadcast

StartSend(n) ==
  /\ n \in Sender
  /\ onStart[n] = "idle"
  /\ onStart' = [onStart EXCEPT ![n] = "sending"]
  /\ expected' = [expected EXCEPT ![n] = @ \cup {n}]
  /\ Broadcast(n, "send", n)
  /\ UNCHANGED <<nodeVars, deliveryVars, resuming, exited, got>>

StartEcho(n) ==
  /\ onStart[n] = "sending"
  /\ n \notin exited
  /\ onStart' = [onStart EXCEPT ![n] = "echoing"]
  /\ seen' = [seen EXCEPT ![n] = @ \cup {n}]
  /\ echos' = [echos EXCEPT ![n][n] = @ \cup {n}]
  /\ Broadcast(n, "echo", n)
  /\ UNCHANGED <<readys, sentReady, deliveryVars, expected, resuming,
                 exited, got>>

StartFinish(n) ==
  /\ onStart[n] = "echoing"
  /\ n \notin exited
  /\ onStart' = [onStart EXCEPT ![n] = "done"]
  /\ terminated' = terminated \cup {n}
  /\ UNCHANGED <<nodeVars, delivered, deliveries, expected, resuming,
                 exited, got>>
  /\ NoBroadcast

\* A send to a neighbour whose process has ended raises out of the broadcast
\* loop, and so out of on_start: nothing after that await runs.
StartFails(n) ==
  /\ onStart[n] \in {"sending", "echoing"}
  /\ n \notin exited
  /\ exited # {}
  /\ onStart' = [onStart EXCEPT ![n] = "failed"]
  /\ UNCHANGED <<nodeVars, deliveryVars, expected, resuming, exited, got>>
  /\ NoBroadcast

-----------------------------------------------------------------------------
(***************************************************************************)
(* dolev_deliver, called by the Dolev child with a message broadcast by    *)
(* another node.                                                           *)
(***************************************************************************)
Receives(n, d) ==
  /\ d \in dolev \ got[n]
  /\ d.src # n
  /\ n \notin Silent \cup exited
  /\ got' = [got EXCEPT ![n] = @ \cup {d}]

Takes(n, d, phase) ==
  /\ Receives(n, d)
  /\ d.phase = phase
  /\ UNCHANGED <<onStart, exited>>

RecvSend(n, d) ==
  LET m == d.msg IN
  /\ onStart[n] # "idle"
  /\ Takes(n, d, "send")
  /\ expected' = [expected EXCEPT ![n] = @ \cup {m}]
  /\ IF m \notin seen[n]
     THEN /\ seen' = [seen EXCEPT ![n] = @ \cup {m}]
          /\ echos' = [echos EXCEPT ![n][m] = @ \cup {n}]
          /\ Broadcast(n, "echo", m)
     ELSE UNCHANGED <<seen, echos>> /\ NoBroadcast
  /\ UNCHANGED <<readys, sentReady, deliveryVars, resuming>>

EchoHandler(n, d) ==
  LET m == d.msg
      echosNow == echos[n][m] \cup {d.src}
  IN
  /\ Takes(n, d, "echo")
  /\ echos' = [echos EXCEPT ![n][m] = echosNow]
  /\ IF m \notin sentReady[n] /\ EnoughEchoes(echosNow)
     THEN /\ sentReady' = [sentReady EXCEPT ![n] = @ \cup {m}]
          /\ Broadcast(n, "ready", m)
     ELSE UNCHANGED sentReady /\ NoBroadcast
  /\ UNCHANGED <<seen, readys, deliveryVars, expected, resuming>>

\* Amplifying suspends the handler before its delivery check.
ReadyHandler(n, d) ==
  LET m == d.msg
      readysNow == readys[n][m] \cup {d.src}
  IN
  /\ Takes(n, d, "ready")
  /\ readys' = [readys EXCEPT ![n][m] = readysNow]
  /\ IF Amplifies(n, m, readysNow)
     THEN /\ sentReady' = [sentReady EXCEPT ![n] = @ \cup {m}]
          /\ Broadcast(n, "ready", m)
          /\ resuming' = [resuming EXCEPT ![n] = @ \cup {m}]
          /\ UNCHANGED deliveryVars
     ELSE /\ DeliverCheck(n, m, readysNow)
          /\ UNCHANGED <<sentReady, resuming>>
          /\ NoBroadcast
  /\ UNCHANGED <<seen, echos, expected>>

\* The handlers need the logger that on_start sets up.
RecvEcho(n, d) == onStart[n] # "idle" /\ EchoHandler(n, d)

RecvReady(n, d) == onStart[n] # "idle" /\ ReadyHandler(n, d)

\* Slip: the handler returns after the broadcast.
ReadyResumeReturns(n, m) ==
  /\ m \in resuming[n]
  /\ n \notin exited
  /\ resuming' = [resuming EXCEPT ![n] = @ \ {m}]
  /\ UNCHANGED <<onStart, nodeVars, deliveryVars, expected, exited, got>>
  /\ NoBroadcast

ReadyResume(n, m) ==
  /\ m \in resuming[n]
  /\ n \notin exited
  /\ resuming' = [resuming EXCEPT ![n] = @ \ {m}]
  /\ DeliverCheck(n, m, readys[n][m])
  /\ UNCHANGED <<onStart, nodeVars, expected, exited, got>>
  /\ NoBroadcast

\* The awaited READY broadcast raises: the delivery check never runs.
ReadyFails(n, m) ==
  /\ m \in resuming[n]
  /\ n \notin exited
  /\ exited # {}
  /\ resuming' = [resuming EXCEPT ![n] = @ \ {m}]
  /\ UNCHANGED <<onStart, nodeVars, deliveryVars, expected, exited, got>>
  /\ NoBroadcast

\* Before on_start self.logger does not exist: the handler raises at its first
\* line, after the Dolev child has marked the message delivered.
RecvEarly(n, d) ==
  /\ ~Synchronised
  /\ onStart[n] = "idle"
  /\ Receives(n, d)
  /\ expected' = IF d.phase = "send"
                 THEN [expected EXCEPT ![n] = @ \cup {d.msg}] ELSE expected
  /\ UNCHANGED <<onStart, nodeVars, deliveryVars, resuming, exited>>
  /\ NoBroadcast

\* Node.start returns once the algorithm has terminated; in network mode that
\* ends the process and every task in it.
Exit(n) ==
  /\ ProcessExit
  /\ n \in terminated \ exited
  /\ exited' = exited \cup {n}
  /\ UNCHANGED <<onStart, nodeVars, deliveryVars, expected, resuming, got>>
  /\ NoBroadcast

-----------------------------------------------------------------------------
Next ==
  \/ \E n \in Node : \/ Start(n)
                     \/ StartSend(n)
                     \/ StartEcho(n)
                     \/ StartFinish(n)
                     \/ StartFails(n)
                     \/ Exit(n)
  \/ \E n \in Node : \E d \in dolev \ got[n] : \/ RecvSend(n, d)
                                             \/ RecvEcho(n, d)
                                             \/ RecvReady(n, d)
                                             \/ RecvEarly(n, d)
  \/ \E n \in Node, m \in Sender : \/ ReadyResume(n, m)
                                   \/ ReadyFails(n, m)

Spec == Init /\ [][Next]_vars

(***************************************************************************)
(* asyncio runs every ready task, and the channel is assumed to hand every *)
(* broadcast to every node that still listens.                             *)
(***************************************************************************)
Fairness ==
  /\ \A n \in Node : /\ WF_vars(Start(n))
                     /\ WF_vars(StartSend(n))
                     /\ WF_vars(StartEcho(n))
                     /\ WF_vars(StartFinish(n))
  /\ \A n \in Node, d \in DMsg : /\ WF_vars(RecvSend(n, d))
                                 /\ WF_vars(RecvEcho(n, d))
                                 /\ WF_vars(RecvReady(n, d))
  /\ \A n \in Node, m \in Sender : WF_vars(ReadyResume(n, m))

FairSpec == Spec /\ Fairness

-----------------------------------------------------------------------------
(***************************************************************************)
(* Properties.                                                             *)
(***************************************************************************)
Broadcasters(p, m) ==
  {n \in Node : [phase |-> p, msg |-> m, src |-> n] \in dolev}

\* The quorums behind a READY: it exists only if ReadyThreshold nodes have
\* broadcast ECHO (amplification cannot start the chain), and an ECHO exists
\* only if the sender has broadcast SEND (bracha.py:90-102 and 152-182).
ReadyBackedByEchoes ==
  \A m \in Sender :
    /\ Broadcasters("ready", m) # {} =>
         Cardinality(Broadcasters("echo", m)) >= ReadyThreshold
    /\ Broadcasters("echo", m) # {} => m \in Broadcasters("send", m)

\* A node delivers only what DeliverThreshold other nodes have broadcast READY
\* for: its own READY is never among those it counts (bracha.py:184).
DeliveryBackedByReadies ==
  \A n \in Node : \A m \in delivered[n] :
    Cardinality(Broadcasters("ready", m) \ {n}) >= DeliverThreshold

\* Not counting its own READY costs a node one of the 3f + 1: when the silent
\* nodes leave no more than 2f + 1 listeners nobody ever delivers anything,
\* so with f silent nodes Bracha needs 3f + 2 nodes.
StarvedBySilence ==
  Cardinality(Node \ Silent) <= DeliverThreshold =>
    \A n \in Node : delivered[n] = {}

\* No phase of a message is broadcast twice by a node, however its on_start,
\* send, echo and ready tasks interleave at their awaits: the phase counters
\* of the report are the numbers of messages seen and of READYs recorded.
OncePerPhase ==
  \A n \in Node :
    /\ phaseCount[n]["echo"] = Cardinality(seen[n])
    /\ phaseCount[n]["ready"] = Cardinality(sentReady[n])

\* Once every broadcast has reached every listener and no handler is waiting,
\* every listener has delivered every message.
Drained ==
  /\ \A n \in Node : onStart[n] = "done" /\ resuming[n] = {}
  /\ \A n \in Node \ Silent : {d \in dolev : d.src # n} \subseteq got[n]

DrainedMeansDelivered ==
  Drained => \A n \in Node \ Silent : delivered[n] = Sender

\* Validity and totality: every listener eventually delivers every message,
\* even one whose `ready' handler is suspended when the last READY arrives.
Validity ==
  \A n \in Node \ Silent, m \in Sender : <>(m \in delivered[n])

\* check_completion, bracha.py:198: "If we've delivered all messages from known
\* senders, we're done" - when nothing more can arrive, at the latest.
CompletionNoticed ==
  Drained =>
    \A n \in Node :
      expected[n] # {} /\ expected[n] \subseteq delivered[n] => n \in terminated

\* Algorithm.on_start, algorithm.py:141: "This is called after all nodes have
\* started and are ready to communicate": what reaches a node is handled, a
\* READY or ECHO delivered by its Dolev child being counted.
ReceivedIsHandled ==
  \A n \in Node : \A d \in got[n] :
    /\ d.phase = "send" => d.msg \in seen[n]
    /\ d.phase = "echo" => d.src \in echos[n][d.msg]
    /\ d.phase = "ready" => d.src \in readys[n][d.msg]

\* Bracha implements the abstract broadcast: deliveries are at most one per
\* node and message and follow the SEND.
RB == INSTANCE ReliableBroadcast WITH
        Msg <- Sender,
        broadcast <- {m \in Sender : m \in Broadcasters("send", m)},
        times <- deliveries

ImplementsBroadcast == RB!Spec
=============================================================================
