---------------------------- MODULE ChangRoberts ----------------------------
(***************************************************************************)
(* Leader election on a ring, distbench/algorithms/chang_roberts.py.       *)
(*                                                                         *)
(* A node is its place in the ring, the order of the sorted node names;    *)
(* its node_id is any other number.  A message names the node whose        *)
(* node_id it carries.  Messages are casts: the handlers of a node are     *)
(* tasks, and with a simulated latency every cast sleeps for a time of its *)
(* own, so those in transit to a node arrive in any order.                 *)
(***************************************************************************)
EXTENDS Integers, FiniteSets

CONSTANTS
  N,            \* the number of nodes
  Id,           \* node -> the field node_id
  ProcessExit   \* network mode: the process ends when its node has terminated

Node == 1..N

None == 0

ASSUME RingAssumption ==
  /\ N \in Nat \ {0, 1}
  /\ Id \in [Node -> Int]
  /\ \A n, k \in Node : Id[n] = Id[k] => n = k
  /\ \E w \in Node : \A n \in Node : Id[n] <= Id[w]
  /\ ProcessExit \in BOOLEAN

\* _get_next_peer_tuple
NextPeer(n) == IF n = N THEN 1 ELSE n + 1

PrevPeer(n) == IF n = 1 THEN N ELSE n - 1

VARIABLES
  delayed,        \* nodes whose on_start sleeps
  leader,         \* node -> self.leader
  elections,      \* node -> elector -> election messages in transit to node
  terminations,   \* node -> leader -> termination messages in transit to node
  announcing,     \* nodes with handlers that await their termination cast
  terminated,     \* nodes that called terminate()
  exited          \* nodes whose process has ended

vars == <<delayed, leader, elections, terminations, announcing, terminated,
          exited>>

TypeOK ==
  /\ delayed \in SUBSET Node
  /\ leader \in [Node -> Node \cup {None}]
  /\ elections \in [Node -> [Node -> Nat]]
  /\ terminations \in [Node -> [Node -> Nat]]
  /\ announcing \in SUBSET Node
  /\ terminated \in SUBSET Node
  /\ exited \in SUBSET Node

\* Slip: self.leader is not set by __init__.
InitLeaderMissing == leader = <<>>

InitLeader == leader = [n \in Node |-> None]

Init ==
  /\ delayed = Node
  /\ InitLeader
  /\ elections = [n \in Node |-> [e \in Node |-> 0]]
  /\ terminations = [n \in Node |-> [w \in Node |-> 0]]
  /\ announcing = {}
  /\ terminated = {}
  /\ exited = {}

-----------------------------------------------------------------------------
Sent(pool, dst, x) == [pool EXCEPT ![dst][x] = @ + 1]

Taken(pool, dst, x) == [pool EXCEPT ![dst][x] = @ - 1]

(***************************************************************************)
(* on_start wakes up after its random delay and sends its own id, unless   *)
(* the election is over.                                                   *)
(***************************************************************************)
Wake(n) ==
  /\ n \in delayed \ exited
  /\ delayed' = delayed \ {n}
  /\ elections' = IF leader[n] = None
                  THEN Sent(elections, NextPeer(n), n) ELSE elections
  /\ UNCHANGED <<leader, terminations, announcing, terminated, exited>>

(***************************************************************************)
(* election.                                                               *)
(***************************************************************************)
\* Slip: the comparison is turned round.
PassedOnSmaller(n, e) == IF Id[e] < Id[n] THEN e ELSE n

\* Slip: every id is forwarded.
PassedOnAny(n, e) == e

\* A larger id is forwarded, a smaller one replaced.
PassedOn(n, e) == IF Id[e] > Id[n] THEN e ELSE n

\* Slip: the winner passes its id on once more.
ElectionCirculates(n, e) ==
  /\ n \notin exited
  /\ elections[n][e] > 0
  /\ elections' = Sent(Taken(elections, n, e), NextPeer(n), PassedOn(n, e))
  /\ IF Id[e] = Id[n]
     THEN /\ leader' = [leader EXCEPT ![n] = n]
          /\ announcing' = announcing \cup {n}
     ELSE UNCHANGED <<leader, announcing>>
  /\ UNCHANGED <<delayed, terminations, terminated, exited>>

Election(n, e) ==
  /\ n \notin exited
  /\ elections[n][e] > 0
  /\ IF Id[e] = Id[n]
     THEN /\ leader' = [leader EXCEPT ![n] = n]
          /\ elections' = Taken(elections, n, e)
          /\ terminations' = Sent(terminations, NextPeer(n), n)
          /\ announcing' = announcing \cup {n}
     ELSE /\ elections' = Sent(Taken(elections, n, e), NextPeer(n), PassedOn(n, e))
          /\ UNCHANGED <<leader, terminations, announcing>>
  /\ UNCHANGED <<delayed, terminated, exited>>

(***************************************************************************)
(* termination.  A node that knows the leader drops the message; the leader*)
(* always does, so the last branch of the code is never taken.             *)
(***************************************************************************)
\* Slip: the news is not passed on.
TerminationKept(n, w) ==
  /\ n \notin exited
  /\ terminations[n][w] > 0
  /\ terminations' = Taken(terminations, n, w)
  /\ leader' = [leader EXCEPT ![n] = w]
  /\ announcing' = announcing \cup {n}
  /\ UNCHANGED <<delayed, elections, terminated, exited>>

\* Slip: the news is passed on but not recorded.
TerminationUnrecorded(n, w) ==
  /\ n \notin exited
  /\ terminations[n][w] > 0
  /\ leader[n] = None
  /\ terminations' = Sent(Taken(terminations, n, w), NextPeer(n), w)
  /\ announcing' = announcing \cup {n}
  /\ UNCHANGED <<delayed, leader, elections, terminated, exited>>

Termination(n, w) ==
  /\ n \notin exited
  /\ terminations[n][w] > 0
  /\ IF leader[n] # None
     THEN /\ terminations' = Taken(terminations, n, w)
          /\ UNCHANGED <<leader, announcing>>
     ELSE /\ leader' = [leader EXCEPT ![n] = w]
          /\ terminations' = IF Id[w] # Id[n]
                             THEN Sent(Taken(terminations, n, w), NextPeer(n), w)
                             ELSE Taken(terminations, n, w)
          /\ announcing' = announcing \cup {n}
  /\ UNCHANGED <<delayed, elections, terminated, exited>>

\* The awaited cast is done (or has failed, which is caught).
Terminate(n) ==
  /\ n \in announcing \ exited
  /\ announcing' = announcing \ {n}
  /\ terminated' = terminated \cup {n}
  /\ UNCHANGED <<delayed, leader, elections, terminations, exited>>

\* Network mode: node.start returns, and the process ends with what its other
\* tasks were about to do.
Exit(n) ==
  /\ ProcessExit
  /\ n \in terminated \ exited
  /\ exited' = exited \cup {n}
  /\ UNCHANGED <<delayed, leader, elections, terminations, announcing, terminated>>

\* An election message that the ended process was sending never arrives.
Lose(n, e) ==
  /\ PrevPeer(n) \in exited
  /\ elections[n][e] > 0
  /\ elections' = Taken(elections, n, e)
  /\ UNCHANGED <<delayed, leader, terminations, announcing, terminated, exited>>

-----------------------------------------------------------------------------
Next ==
  \/ \E n \in Node : Wake(n) \/ Terminate(n) \/ Exit(n)
  \/ \E n, e \in Node : Election(n, e) \/ Termination(n, e) \/ Lose(n, e)

Spec == Init /\ [][Next]_vars

(***************************************************************************)
(* Every delay ends, every task runs, and every message in transit to a    *)
(* living process is handled.                                              *)
(***************************************************************************)
Fairness ==
  /\ \A n \in Node : WF_vars(Wake(n)) /\ WF_vars(Terminate(n))
  /\ \A n, e \in Node : WF_vars(Election(n, e)) /\ WF_vars(Termination(n, e))

FairSpec == Spec /\ Fairness

-----------------------------------------------------------------------------
(***************************************************************************)
(* Properties.                                                             *)
(***************************************************************************)
\* The node with the largest node_id.
Winner == CHOOSE w \in Node : \A n \in Node : Id[n] <= Id[w]

\* How far a node is from the winner, along the ring.
Distance(n) == IF n >= Winner THEN n - Winner ELSE n - Winner + N

\* Whoever knows a leader knows the node with the largest id, whatever the
\* order and the number of the election messages (chang_roberts.py:93-122).
OnlyTheLargestWins == \A n \in Node : leader[n] \in {None, Winner}

\* The news travels along the ring without a gap: whoever knows the leader,
\* or is about to be told, has only nodes that know it between the winner and
\* itself, though every node stops as soon as it has passed the news on.
NoGapInTheNews ==
  \A n \in Node :
    leader[n] # None \/ (\E w \in Node : terminations[n][w] > 0) =>
      \A k \in Node : Distance(k) < Distance(n) => leader[k] # None

\* A node stops only when it knows the leader and has told its successor,
\* which knows it or has the message in transit: no process ends with the news.
ToldBeforeStopping ==
  \A n \in terminated \cup announcing :
    \/ leader[NextPeer(n)] # None
    \/ terminations[NextPeer(n)][Winner] > 0

\* Every node learns the leader and terminates, and what is in transit to
\* living nodes runs out, although the winner answers each smaller id it meets
\* with its own once more.
EveryNodeStops == \A n \in Node : <>(n \in terminated)

RunsOut ==
  <>[](\A n \in Node \ exited, k \in Node :
         elections[n][k] = 0 /\ terminations[n][k] = 0)

\* The election decides once and for all.
LE == INSTANCE LeaderElection

ImplementsElection == LE!Spec
=============================================================================
