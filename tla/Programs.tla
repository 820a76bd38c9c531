------------------------------ MODULE Programs ------------------------------
(***************************************************************************)
(* The life of a distbench node, how its messages find their receivers,    *)
(* two example algorithms of distbench, and a node of the in4150 template  *)
(* with its two algorithms: `program' says what a behaviour is of.         *)
(***************************************************************************)
EXTENDS NodeLifecycle, Naturals, Sequences, Bags

CONSTANTS
  RingNode, Right,           \* a ring of the template, and one way round it
  EchoNode, StartingNode, MaxEchoCount,
  Peer,                      \* the nodes of the example algorithms
  Starter, Sends,            \* simple_broadcast
  Initiator, MaxHops,        \* message_chain
  Template, File, Listed     \* as in Wiring

\* election.yaml: whoever follows Right comes through the whole ring.
ASSUME RingAssumption ==
  /\ RingNode \subseteq Nat /\ IsFiniteSet(RingNode)
  /\ Cardinality(RingNode) >= 3
  /\ \E Place \in [RingNode -> 0..(Cardinality(RingNode) - 1)] :
       \A n \in RingNode :
         /\ \A k \in RingNode : Place[n] = Place[k] => n = k
         /\ Right[n] \in RingNode
         /\ Place[Right[n]] = (Place[n] + 1) % Cardinality(RingNode)

ASSUME EchoAssumption ==
  /\ StartingNode \in EchoNode
  /\ MaxEchoCount \in Nat

ASSUME ExamplesAssumption ==
  /\ IsFiniteSet(Peer) /\ Cardinality(Peer) >= 3
  /\ Starter \subseteq Peer /\ Sends \in Nat
  /\ Initiator \in Peer /\ MaxHops \in Nat

\* Every process has a copy of one file, in which no key comes twice.
ASSUME FileAssumption ==
  /\ File # {}
  /\ \A file \in File :
       /\ file \in Seq(Nat)
       /\ \A i, j \in DOMAIN file : file[i] = file[j] => i = j
  /\ \A f, g \in File : {f[i] : i \in DOMAIN f} = {g[i] : i \in DOMAIN g}

VARIABLES program, hellos, nodes, states, phase, transit, stopped, ended,
          running, elected, begun, lost, counter,
          lCurrent, lTodo, lTransit, lSends, lEchoes,
          started, chains, received, loops, terminated, chainEnded, chainLost,
          mode, delayed, copy, community, servers, serving, crashed, heard

templateVars == <<hellos, nodes, states, phase, transit, stopped, ended>>
ringVars == <<running, elected, begun, lost>>
layerVars == <<lCurrent, lTodo, lTransit, lSends, lEchoes>>
chainVars == <<started, chains, received, loops, terminated, chainEnded, chainLost>>
wiringVars == <<mode, delayed, copy, community, servers, serving, crashed, heard>>

\* The list of a node: whoever is beside it.
Beside == [n \in RingNode |-> {k \in RingNode : k = Right[n] \/ n = Right[k]}]

Ring == INSTANCE RingElection WITH Node <- RingNode, Neighbour <- Beside

Echo == INSTANCE EchoAlgorithm WITH
  Node <- EchoNode, Neighbour <- [n \in EchoNode |-> EchoNode \ {n}]

Layered == INSTANCE Layers WITH
  Node <- Peer, current <- lCurrent, todo <- lTodo, transit <- lTransit,
  sends <- lSends, echoes <- lEchoes

Chain == INSTANCE MessageChain WITH
  Node <- Peer, transit <- chains, ended <- chainEnded, lost <- chainLost

Wired == INSTANCE Wiring

ProgramsInit ==
  /\ program \in {"distbench", "ring_election", "echo_algorithm",
                   "simple_broadcast", "message_chain", "wiring"}
  /\ Init /\ Layered!Init /\ Chain!Init
  /\ IF program = "echo_algorithm"
     THEN Echo!EchoInit /\ running = {} /\ elected = {} /\ begun = {} /\ lost = {}
     ELSE Ring!RingInit /\ counter = <<>>
  /\ Wired!Init
  /\ program \notin {"wiring", "message_chain"} => mode = "local"
  /\ program # "wiring" =>
       /\ ~delayed
       /\ copy = [n \in Wired!Names |-> CHOOSE file \in File : TRUE]

ProgramsNext ==
  /\ program' = program
  /\ \/ /\ program = "distbench" /\ Next
        /\ UNCHANGED <<templateVars, ringVars, counter, layerVars, chainVars,
                        wiringVars>>
     \/ /\ program = "ring_election" /\ Ring!RingNext
        /\ UNCHANGED <<vars, counter, layerVars, chainVars, wiringVars>>
     \/ /\ program = "echo_algorithm" /\ Echo!EchoNext
        /\ UNCHANGED <<vars, ringVars, layerVars, chainVars, wiringVars>>
     \/ /\ program = "simple_broadcast" /\ Layered!Next
        /\ UNCHANGED <<vars, templateVars, ringVars, counter, chainVars, wiringVars>>
     \/ /\ program = "wiring" /\ Wired!Next
        /\ UNCHANGED <<vars, templateVars, ringVars, counter, layerVars, chainVars>>
     \/ /\ program = "message_chain" /\ Chain!Next
        /\ UNCHANGED <<vars, templateVars, ringVars, counter, layerVars, wiringVars>>

ProgramsSpec ==
  /\ ProgramsInit
  /\ [][ProgramsNext]_<<program, vars, templateVars, ringVars, counter,
                        layerVars, chainVars, wiringVars>>

RingOnlyTheLargest == program = "ring_election" => Ring!OnlyTheLargestIsElected
RingOneWayStops == program = "ring_election" => Ring!OneWayElectionStops
LayersEchoLast == Layered!EchoComesLast
ChainsStopEveryone == Chain!LongChainsStopEveryone
EchoOneMessage == program = "echo_algorithm" => Echo!OneMessageAmongReady
WiredSendersAreRecognised == Wired!SendersAreRecognised
=============================================================================
