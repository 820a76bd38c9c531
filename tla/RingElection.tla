----------------------------- MODULE RingElection -----------------------------
(***************************************************************************)
(* Leader election by in4150/cs4545/implementation/ring_election.py.  A    *)
(* node knows both its neighbours but no direction of the ring: it begins  *)
(* with the one that it heard of first, and passes a message on to the one *)
(* it did not come from.                                                   *)
(***************************************************************************)
EXTENDS DistributedAlgorithm

CONSTANT
  Right        \* node -> its neighbour on one side of the ring

VARIABLES
  running,     \* nodes with self.running
  elected,     \* nodes that their own id has come back to
  begun,       \* <<n, q>>: node n has begun an election with its neighbour q
  lost         \* messages whose handler has raised an IndexError

ringVars == <<vars, running, elected, begun, lost>>

RingInit ==
  /\ Init
  /\ running = {}
  /\ elected = {}
  /\ begun = {}
  /\ lost = {}

\* on_start, after its delays.  A node that the election has reached does not
\* begin one.
OnStart(n) ==
  /\ phase[n] = "delayed" /\ n \notin ended
  /\ phase' = [phase EXCEPT ![n] = "begun"]
  /\ IF n \notin running
     THEN /\ transit' = transit (+) Datagram("elect", n, nodes[n][1], n)
          /\ begun' = begun \cup {<<n, nodes[n][1]>>}
     ELSE UNCHANGED <<transit, begun>>
  /\ UNCHANGED <<connectionVars, stopped, ended, running, elected, lost>>

\* The places, in self.nodes of the receiver, of those that did not send m.
Others(m) == {i \in DOMAIN nodes[m.dst] : nodes[m.dst][i] # m.src}

NextPeer(m) == nodes[m.dst][CHOOSE i \in Others(m) : \A j \in Others(m) : i <= j]

\* The first of them gets the answer; without one the handler raises.
PassOn(m, type, value) ==
  IF Others(m) = {}
  THEN /\ transit' = transit (-) SetToBag({m})
       /\ lost' = lost \cup {m}
  ELSE /\ transit' = (transit (-) SetToBag({m}))
                       (+) Datagram(type, m.dst, NextPeer(m), value)
       /\ UNCHANGED lost

\* Slip: the comparison is turned round.
LargerOfSmaller(e, n) == IF e < n THEN e ELSE n

LargerOf(e, n) == IF e < n THEN n ELSE e

OnMessage(m) ==
  /\ m.type = "elect"
  /\ running' = running \cup {m.dst}
  /\ IF m.value = m.dst
     THEN /\ PassOn(m, "terminate", m.dst)
          /\ elected' = IF Others(m) = {} THEN elected ELSE elected \cup {m.dst}
     ELSE /\ PassOn(m, "elect", LargerOf(m.value, m.dst))
          /\ UNCHANGED elected
  /\ UNCHANGED <<connectionVars, phase, stopped, ended, begun>>

\* Slip: a node stops without passing the news on.
OnTerminateKept(m) ==
  /\ m.type = "terminate"
  /\ transit' = transit (-) SetToBag({m})
  /\ running' = running \ {m.dst}
  /\ stopped' = stopped \cup {m.dst}
  /\ UNCHANGED <<connectionVars, phase, ended, elected, begun, lost>>

\* A node that is not running any more lets the news die.
OnTerminate(m) ==
  /\ m.type = "terminate"
  /\ IF m.dst \in running
     THEN PassOn(m, "terminate", m.value)
     ELSE transit' = transit (-) SetToBag({m}) /\ UNCHANGED lost
  /\ IF m.dst \in running /\ Others(m) # {}
     THEN running' = running \ {m.dst} /\ stopped' = stopped \cup {m.dst}
     ELSE UNCHANGED <<running, stopped>>
  /\ UNCHANGED <<connectionVars, phase, ended, elected, begun>>

RingNext ==
  \/ Connect /\ UNCHANGED <<running, elected, begun, lost>>
  \/ \E n \in Node : OnStart(n)
  \/ \E m \in BagToSet(transit) : OnMessage(m) \/ OnTerminate(m)

-----------------------------------------------------------------------------
\* Whichever ways round the elections go, and whenever nodes begin theirs, only
\* the largest id comes back to its node, and nobody stops before that
\* (ring_election.py:46-74).
OnlyTheLargestIsElected ==
  /\ \A n \in elected, k \in Node : k <= n
  /\ stopped # {} => elected # {}

\* All elections were begun the same way round.  Where a node comes in the list
\* of its neighbour tells nothing of this.
OneWay ==
  \/ \A b \in begun : b[2] = Right[b[1]]
  \/ \A b \in begun : b[1] = Right[b[2]]

\* When all is quiet everyone has stopped, although nodes may begin after the
\* election or even after they have stopped, unless elections went opposite
\* ways or a message met a node too early (ring_election.py:41-52).
OneWayElectionStops ==
  Quiet /\ OneWay /\ lost = {} => stopped = Node
=============================================================================
