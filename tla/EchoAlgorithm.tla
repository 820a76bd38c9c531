---------------------------- MODULE EchoAlgorithm ----------------------------
(***************************************************************************)
(* The ping-pong of in4150/cs4545/implementation/echo_algorithm.py.        *)
(***************************************************************************)
EXTENDS DistributedAlgorithm

CONSTANTS
  StartingNode,   \* starting_node
  MaxEchoCount    \* max_echo_count

VARIABLE counter   \* node -> echo_counter

echoVars == <<vars, counter>>

EchoInit == Init /\ counter = [n \in Node |-> 0]

OnStartAsStarter(n) ==
  \E q \in Neighbour[n] :
    transit' = transit (+) Datagram("echo", n, q, counter[n])

\* on_start: the starting node waits until the states are all ready, and sleeps.
AllReady(n) ==
  /\ n = StartingNode
  /\ phase[n] = "delayed" /\ n \notin ended
  /\ \A q \in Neighbour[n] : states[n][q] = "ready"
  /\ phase' = [phase EXCEPT ![n] = "waited"]
  /\ UNCHANGED <<connectionVars, transit, stopped, ended, counter>>

\* Then it begins, and says as any other does at once that it is ready.
OnStart(n) ==
  /\ phase[n] = (IF n = StartingNode THEN "waited" ELSE "delayed") /\ n \notin ended
  /\ phase' = [phase EXCEPT ![n] = "begun"]
  /\ hellos' = hellos \cup Hellos(n, "ready")
  /\ IF n = StartingNode
     THEN OnStartAsStarter(n)
     ELSE UNCHANGED transit
  /\ UNCHANGED <<nodes, states, stopped, ended, counter>>

\* on_message: a node that stops answers all the same.
OnMessage(m) ==
  /\ counter' = [counter EXCEPT ![m.dst] = m.value + 1]
  /\ stopped' = IF m.value + 1 >= MaxEchoCount
                THEN stopped \cup {m.dst} ELSE stopped
  /\ transit' = (transit (-) SetToBag({m}))
                  (+) Datagram("echo", m.dst, m.src, m.value + 1)
  /\ UNCHANGED <<connectionVars, phase, ended>>

EchoNext ==
  \/ Connect /\ UNCHANGED counter
  \/ \E n \in Node : AllReady(n) \/ OnStart(n)
  \/ \E m \in BagToSet(transit) : OnMessage(m)

-----------------------------------------------------------------------------
\* The game begins when every node has said in its on_start that it is ready,
\* though states are reset and messages may overtake each other; from then on
\* one message goes to and fro (da_types.py:102-161, echo_algorithm.py:34-47).
OneMessageAmongReady ==
  transit # EmptyBag =>
    /\ \A n \in Node : phase[n] = "begun"
    /\ \E m \in BagToSet(transit) : transit = SetToBag({m})
=============================================================================
