--------------------------- MODULE BrachaOptimized ---------------------------
(***************************************************************************)
(* Bracha's broadcast with the optimisations MBD.2 (SEND goes to the       *)
(* neighbours only) and MBD.11 (only some nodes broadcast ECHO and READY)  *)
(* and with ECHO amplification, distbench/algorithms/bracha_optimized.py,  *)
(* for one message per sender.  State and channel are those of Bracha.     *)
(* Handlers may run before on_start: the logger exists from the beginning. *)
(***************************************************************************)
EXTENDS Bracha

CONSTANTS
  Neighbour,          \* node -> the nodes in its field neighbours
  Rank,               \* node -> its place among the sorted node names
  EchoAmplification,  \* enable_echo_amplification
  SingleHopSend,      \* enable_single_hop_send
  ReducedMessages     \* enable_reduced_messages

ASSUME OptimizedAssumption ==
  /\ Neighbour \in [Node -> SUBSET Node]
  /\ Rank \in [Node -> 0..(N - 1)]
  /\ \A n, k \in Node : Rank[n] = Rank[k] => n = k
  /\ EchoAmplification \in BOOLEAN
  /\ ReducedMessages \in BOOLEAN
  /\ SingleHopSend => EchoAmplification

VARIABLES
  sentEcho,   \* messages with sent_echo set
  afterEcho   \* <<handler, message>>: handlers that await their ECHO broadcast

optimizedVars == <<vars, sentEcho, afterEcho>>

OptimizedTypeOK ==
  /\ TypeOK
  /\ sentEcho \in [Node -> SUBSET Sender]
  /\ afterEcho \in [Node -> SUBSET ({"echo", "ready"} \X Sender)]

OptimizedInit ==
  /\ Init
  /\ sentEcho = [n \in Node |-> {}]
  /\ afterEcho = [n \in Node |-> {}]

-----------------------------------------------------------------------------
\* calculate_eligible_nodes: the next `count' nodes in the circle of the names,
\* the sender itself among them once the circle is closed.
Eligible(m, count) ==
  {n \in Node : \E i \in 1..count : Rank[n] = (Rank[m] + i) % N}

\* should_generate_echo
MayEcho(n, m) == n \in Eligible(m, ReadyThreshold + F)

\* Slip: the committee after the node itself instead of the sender, which makes
\* no difference while the committee is the whole circle.
MayReadyOwn(n, m) == n \in Eligible(n, DeliverThreshold + F)

\* should_generate_ready
MayReady(n, m) == n \in Eligible(m, DeliverThreshold + F)

Echoes(n, m) ==
  /\ sentEcho' = [sentEcho EXCEPT ![n] = @ \cup {m}]
  /\ Broadcast(n, "echo", m)

NoEcho == UNCHANGED sentEcho /\ NoBroadcast

Registers(n, m) == expected' = [expected EXCEPT ![n] = @ \cup {m}]

-----------------------------------------------------------------------------
OptStart(n) ==
  /\ Start(n)
  /\ UNCHANGED <<sentEcho, afterEcho>>

\* SEND to the neighbours, or a broadcast of the Dolev child.
OptStartSend(n) ==
  /\ n \in Sender
  /\ onStart[n] = "idle"
  /\ onStart' = [onStart EXCEPT ![n] = "sending"]
  /\ Registers(n, n)
  /\ IF SingleHopSend
     THEN /\ dolev' = dolev \cup {[phase |-> "send", msg |-> n, src |-> n]}
          /\ UNCHANGED phaseCount
     ELSE Broadcast(n, "send", n)
  /\ UNCHANGED <<nodeVars, deliveryVars, resuming, exited, got, sentEcho, afterEcho>>

\* The sender's own ECHO, which amplification may have sent before.
OptStartEcho(n) ==
  /\ onStart[n] = "sending"
  /\ onStart' = [onStart EXCEPT ![n] = "done"]
  /\ seen' = [seen EXCEPT ![n] = @ \cup {n}]
  /\ IF MayEcho(n, n)
     THEN echos' = [echos EXCEPT ![n][n] = @ \cup {n}] /\ Echoes(n, n)
     ELSE UNCHANGED echos /\ NoEcho
  /\ UNCHANGED <<readys, sentReady, deliveryVars, expected, resuming, exited, got,
                 afterEcho>>

-----------------------------------------------------------------------------
\* A SEND to the neighbours does not pass the Dolev child, not even a silent one.
OptReceives(n, d, phase) ==
  /\ d \in dolev \ got[n]
  /\ d.src # n
  /\ d.phase = phase
  /\ IF phase = "send" /\ SingleHopSend THEN n \in Neighbour[d.src] ELSE n \notin Silent
  /\ got' = [got EXCEPT ![n] = @ \cup {d}]
  /\ UNCHANGED <<onStart, exited>>

EchoesOnSend(n, m) ==
  IF SingleHopSend THEN m \notin sentEcho[n] ELSE ~ReducedMessages \/ MayEcho(n, m)

OptSend(n, d) ==
  LET m == d.msg IN
  /\ OptReceives(n, d, "send")
  /\ Registers(n, m)
  /\ seen' = [seen EXCEPT ![n] = @ \cup {m}]
  /\ IF m \notin seen[n] /\ EchoesOnSend(n, m)
     THEN echos' = [echos EXCEPT ![n][m] = @ \cup {n}] /\ Echoes(n, m)
     ELSE UNCHANGED echos /\ NoEcho
  /\ UNCHANGED <<readys, sentReady, deliveryVars, resuming, afterEcho>>

\* Slip: sent_echo is not looked at.
AmplifiesEchoAgain(n, m, echosNow) ==
  EchoAmplification /\ Cardinality(echosNow) >= F + 1 /\ MayEcho(n, m)

\* The amplification of ECHO.
AmplifiesEcho(n, m, echosNow) ==
  /\ EchoAmplification
  /\ m \notin sentEcho[n]
  /\ Cardinality(echosNow) >= F + 1
  /\ MayEcho(n, m)

\* The standard trigger of READY.
ReadyCheck(n, m, echosNow) ==
  IF m \notin sentReady[n] /\ EnoughEchoes(echosNow) /\ MayReady(n, m)
  THEN /\ sentReady' = [sentReady EXCEPT ![n] = @ \cup {m}]
       /\ Broadcast(n, "ready", m)
  ELSE UNCHANGED sentReady /\ NoBroadcast

OptEcho(n, d) ==
  LET m == d.msg
      echosNow == echos[n][m] \cup {d.src}
  IN
  /\ OptReceives(n, d, "echo")
  /\ Registers(n, m)
  /\ IF AmplifiesEcho(n, m, echosNow)
     THEN /\ echos' = [echos EXCEPT ![n][m] = echosNow \cup {n}]
          /\ Echoes(n, m)
          /\ afterEcho' = [afterEcho EXCEPT ![n] = @ \cup {<<"echo", m>>}]
          /\ UNCHANGED sentReady
     ELSE /\ echos' = [echos EXCEPT ![n][m] = echosNow]
          /\ ReadyCheck(n, m, echosNow)
          /\ UNCHANGED <<sentEcho, afterEcho>>
  /\ UNCHANGED <<seen, readys, deliveryVars, resuming>>

\* `echo' goes on after its ECHO broadcast.
OptEchoResume(n, m) ==
  /\ <<"echo", m>> \in afterEcho[n]
  /\ afterEcho' = [afterEcho EXCEPT ![n] = @ \ {<<"echo", m>>}]
  /\ ReadyCheck(n, m, echos[n][m])
  /\ UNCHANGED <<onStart, seen, echos, readys, deliveryVars, expected, resuming,
                 exited, got, sentEcho>>

\* A READY implies an ECHO of its receiver, which is only broadcast if the
\* receiver does not broadcast READY itself.
OptReady(n, d) ==
  LET m == d.msg
      readysNow == readys[n][m] \cup {d.src}
      willSendReady == Amplifies(n, m, readysNow) /\ MayReady(n, m)
      implicitEcho == EchoAmplification /\ m \notin sentEcho[n]
      sendsEcho == implicitEcho /\ ~willSendReady /\ MayEcho(n, m)
  IN
  /\ OptReceives(n, d, "ready")
  /\ Registers(n, m)
  /\ readys' = [readys EXCEPT ![n][m] = readysNow]
  /\ IF implicitEcho
     THEN /\ sentEcho' = [sentEcho EXCEPT ![n] = @ \cup {m}]
          /\ echos' = [echos EXCEPT ![n][m] = @ \cup {n}]
     ELSE UNCHANGED <<sentEcho, echos>>
  /\ IF willSendReady
     THEN /\ sentReady' = [sentReady EXCEPT ![n] = @ \cup {m}]
          /\ Broadcast(n, "ready", m)
          /\ resuming' = [resuming EXCEPT ![n] = @ \cup {m}]
     ELSE UNCHANGED <<sentReady, resuming>>
  /\ IF sendsEcho
     THEN /\ Broadcast(n, "echo", m)
          /\ afterEcho' = [afterEcho EXCEPT ![n] = @ \cup {<<"ready", m>>}]
     ELSE UNCHANGED afterEcho
  /\ IF willSendReady \/ sendsEcho
     THEN UNCHANGED deliveryVars
     ELSE DeliverCheck(n, m, readysNow) /\ NoBroadcast
  /\ UNCHANGED seen

\* `ready' goes on after its ECHO, or its READY, broadcast.
OptReadyResume(n, m) ==
  /\ \/ /\ <<"ready", m>> \in afterEcho[n]
        /\ afterEcho' = [afterEcho EXCEPT ![n] = @ \ {<<"ready", m>>}]
        /\ UNCHANGED resuming
     \/ /\ m \in resuming[n]
        /\ resuming' = [resuming EXCEPT ![n] = @ \ {m}]
        /\ UNCHANGED afterEcho
  /\ DeliverCheck(n, m, readys[n][m])
  /\ UNCHANGED <<onStart, nodeVars, expected, exited, got, sentEcho>>
  /\ NoBroadcast

OptimizedNext ==
  \/ \E n \in Node : OptStart(n) \/ OptStartSend(n) \/ OptStartEcho(n)
  \/ \E n \in Node : \E d \in dolev \ got[n] :
       OptSend(n, d) \/ OptEcho(n, d) \/ OptReady(n, d)
  \/ \E n \in Node, m \in Sender : OptEchoResume(n, m) \/ OptReadyResume(n, m)

OptimizedSpec == OptimizedInit /\ [][OptimizedNext]_optimizedVars

-----------------------------------------------------------------------------
(***************************************************************************)
(* Properties.                                                             *)
(***************************************************************************)
\* ECHO is broadcast once per message by every node but the sender, although a
\* SEND, ECHOs and READYs may each give rise to it; the sender's on_start does
\* not look whether amplification has sent it (bracha_optimized.py:201-205).
\* Without single-hop SEND `send' does not look either (line 266).
EchoedOnce ==
  \A n \in Node :
    /\ phaseCount[n]["ready"] = Cardinality(sentReady[n])
    /\ phaseCount[n]["echo"] <= Cardinality(sentEcho[n]) + Cardinality(seen[n])
    /\ SingleHopSend =>
         phaseCount[n]["echo"] <= Cardinality(sentEcho[n]) + Cardinality(seen[n] \cap {n})

OptimizedDrained ==
  /\ \A n \in Node : onStart[n] = "done" /\ resuming[n] = {} /\ afterEcho[n] = {}
  /\ \A n \in Node \ Silent, d \in dolev :
       \/ d \in got[n] \/ d.src = n
       \/ d.phase = "send" /\ SingleHopSend /\ n \notin Neighbour[d.src]

\* SEND reaches the neighbours only, ECHOs and READYs come from a committee only
\* (bracha_optimized.py:79-124 and 189-230), and an ECHO is left out when its node
\* broadcasts READY: still every node has delivered every message when nothing is
\* on its way any more.
FewMessagesSuffice ==
  OptimizedDrained => \A n \in Node \ Silent : delivered[n] = Sender
=============================================================================
