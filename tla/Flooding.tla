------------------------------ MODULE Flooding ------------------------------
(***************************************************************************)
(* The three programs that flood a message along paths: dolev.py as a      *)
(* child of Bracha and as the algorithm of a node, and dolev_naive.py.     *)
(* `program' says which of them the nodes run.                             *)
(***************************************************************************)
EXTENDS DolevStandalone

CONSTANTS NaiveNode, NaiveNeighbour, NaiveSource   \* as in DolevNaive

ASSUME NaiveAssumption ==
  /\ IsFiniteSet(NaiveNode)
  /\ NaiveSource \in NaiveNode
  /\ NaiveNeighbour \in [NaiveNode -> SUBSET NaiveNode]

VARIABLES program, nStarted, nTransit, nPaths, nChecks, nDelivered, nMissed

Naive == INSTANCE DolevNaive WITH
  Node <- NaiveNode, Neighbour <- NaiveNeighbour, Source <- NaiveSource, F <- F,
  started <- nStarted, transit <- nTransit, paths <- nPaths,
  checks <- nChecks, delivered <- nDelivered, missed <- nMissed

naiveVars == <<nStarted, nTransit, nPaths, nChecks, nDelivered, nMissed>>

FloodingInit ==
  /\ program \in {"child", "standalone", "naive"}
  /\ StandaloneInit
  /\ Naive!Init

FloodingNext ==
  /\ program' = program
  /\ \/ program = "child" /\ Next /\ UNCHANGED <<spoofers, naiveVars>>
     \/ program = "standalone" /\ StandaloneNext /\ UNCHANGED naiveVars
     \/ program = "naive" /\ Naive!Next /\ UNCHANGED standaloneVars

FloodingSpec ==
  FloodingInit /\ [][FloodingNext]_<<program, standaloneVars, naiveVars>>

NaiveOnlyOvertakingHinders == Naive!OnlyOvertakingHinders
=============================================================================
