------------------------- MODULE ChangRobertsProofs -------------------------
(***************************************************************************)
(* Proofs about the election: for every number of nodes, every order of    *)
(* the ids along the ring, and whether or not processes end.               *)
(***************************************************************************)
EXTENDS ChangRoberts, FiniteSetTheorems, WellFoundedInduction, TLAPS

Pool == [Node -> [Node -> Nat]]

(***************************************************************************)
(* The ring, measured from the winner.                                     *)
(***************************************************************************)
\* The winner exists and no id is larger than its.
LEMMA WinnerIsLargest ==
  Winner \in Node /\ \A n \in Node : Id[n] <= Id[Winner]
BY RingAssumption DEF Winner

\* Distances start at the winner, tell nodes apart, and grow by one along the
\* ring until it closes.
LEMMA Ring ==
  ASSUME NEW n \in Node
  PROVE  /\ NextPeer(n) \in Node
         /\ Distance(n) \in Nat
         /\ Distance(Winner) = 0
         /\ Distance(n) = 0 => n = Winner
         /\ \A k \in Node : Distance(k) = Distance(n) => k = n
         /\ NextPeer(n) = Winner \/ Distance(NextPeer(n)) = Distance(n) + 1
<1>1. N \in Nat /\ N > 1 /\ Winner \in 1..N /\ n \in 1..N
  BY RingAssumption, WinnerIsLargest DEF Node
<1>2. NextPeer(n) \in Node
  BY <1>1 DEF NextPeer, Node
<1>3. /\ Distance(n) \in Nat
      /\ Distance(Winner) = 0
      /\ Distance(n) = 0 => n = Winner
  BY <1>1 DEF Distance
<1>4. \A k \in Node : Distance(k) = Distance(n) => k = n
  BY <1>1 DEF Distance, Node
<1>5. NextPeer(n) = Winner \/ Distance(NextPeer(n)) = Distance(n) + 1
  BY <1>1 DEF Distance, NextPeer
<1>. QED  BY <1>2, <1>3, <1>4, <1>5

\* The first of some distances.
LEMMA LeastOf ==
  ASSUME NEW S \in SUBSET Nat, S # {}
  PROVE  \E i \in S : \A j \in S : i <= j
<1>1. PICK s \in S : TRUE
  OBVIOUS
<1>. DEFINE T == {0..x : x \in {y \in S : y <= s}}
<1>2. T \subseteq SUBSET (0..s) /\ T # {}
  BY <1>1
<1>3. \A U \in SUBSET (0..s) : IsFiniteSet(U)
  <2>1. IsFiniteSet(0..s)
    BY FS_Interval
  <2>. QED  BY <2>1, FS_Subset
<1>4. PICK U \in T : \A V \in T : <<V, U>> \notin StrictSubsetOrdering(0..s)
  <2>. HIDE DEF T
  <2>1. T \subseteq FiniteSubsetsOf(0..s)
    BY <1>2, <1>3 DEF FiniteSubsetsOf
  <2>. QED  BY <1>2, <2>1, FS_StrictSubsetOrderingWellFounded, WFMin
<1>5. PICK i \in S : i <= s /\ U = 0..i
  BY <1>4
<1>6. ASSUME NEW j \in S, ~(i <= j)  PROVE FALSE
  <2>1. 0..j \in T
    BY <1>5, <1>6
  <2>2. 0..j \subseteq 0..i /\ i \in 0..i /\ i \notin 0..j
    BY <1>6
  <2>3. <<0..j, 0..i>> \in StrictSubsetOrdering(0..s)
    BY <2>1, <2>2, <1>2, <1>5 DEF StrictSubsetOrdering
  <2>. QED  BY <2>1, <2>3, <1>4, <1>5
<1>. QED  BY <1>5, <1>6

\* What sending and taking a message does to those in transit.
LEMMA Sending ==
  ASSUME NEW pool \in Pool, NEW d \in Node, NEW x \in Node
  PROVE  /\ Sent(pool, d, x) \in Pool
         /\ Sent(pool, d, x)[d][x] > 0
         /\ \A k, y \in Node :
              /\ pool[k][y] > 0 => Sent(pool, d, x)[k][y] > 0
              /\ Sent(pool, d, x)[k][y] > 0 => pool[k][y] > 0 \/ (k = d /\ y = x)
BY DEF Sent, Pool

LEMMA Taking ==
  ASSUME NEW pool \in Pool, NEW d \in Node, NEW x \in Node, pool[d][x] > 0
  PROVE  /\ Taken(pool, d, x) \in Pool
         /\ \A k, y \in Node :
              /\ Taken(pool, d, x)[k][y] > 0 => pool[k][y] > 0
              /\ pool[k][y] > 0 /\ (k # d \/ y # x) => Taken(pool, d, x)[k][y] > 0
BY DEF Taken, Pool

-----------------------------------------------------------------------------
(***************************************************************************)
(* The inductive invariant.  An id in transit has not passed the winner,   *)
(* unless it is the winner's: this is why only the winner's comes back.    *)
(***************************************************************************)
StoppedByTheWinner ==
  \A n, e \in Node :
    elections[n][e] > 0 => e = Winner \/ n = Winner \/ Distance(e) < Distance(n)

NewsIsTrue ==
  \A n, w \in Node :
    terminations[n][w] > 0 => w = Winner /\ leader[Winner] # None

IInv ==
  /\ TypeOK
  /\ StoppedByTheWinner
  /\ NewsIsTrue
  /\ OnlyTheLargestWins
  /\ NoGapInTheNews
  /\ ToldBeforeStopping

LEMMA InitIInv == Init => IInv
<1>. SUFFICES ASSUME Init PROVE IInv
  OBVIOUS
<1>1. TypeOK
  BY DEF Init, InitLeader, TypeOK
<1>2. StoppedByTheWinner /\ NewsIsTrue /\ OnlyTheLargestWins
  BY DEF Init, InitLeader, StoppedByTheWinner, NewsIsTrue, OnlyTheLargestWins
<1>3. NoGapInTheNews /\ ToldBeforeStopping
  BY DEF Init, InitLeader, NoGapInTheNews, ToldBeforeStopping
<1>. QED  BY <1>1, <1>2, <1>3 DEF IInv

\* Types are preserved by every step.
LEMMA TypeStep == ASSUME TypeOK, [Next]_vars PROVE TypeOK'
<1>. USE DEF TypeOK
<1>1. elections \in Pool /\ terminations \in Pool
  BY DEF Pool
<1>2. ASSUME NEW n \in Node, Wake(n) PROVE TypeOK'
  BY <1>1, <1>2, Ring, Sending DEF Wake, Pool
<1>3. ASSUME NEW n \in Node, NEW e \in Node, Election(n, e) PROVE TypeOK'
  <2>1. /\ Taken(elections, n, e) \in Pool
        /\ NextPeer(n) \in Node
        /\ PassedOn(n, e) \in Node
    BY <1>1, <1>3, Taking, Ring DEF Election, PassedOn
  <2>2. /\ Sent(Taken(elections, n, e), NextPeer(n), PassedOn(n, e)) \in Pool
        /\ Sent(terminations, NextPeer(n), n) \in Pool
    BY <1>1, <2>1, Sending
  <2>3. elections' \in Pool /\ terminations' \in Pool
    BY <1>1, <1>3, <2>1, <2>2 DEF Election
  <2>4. leader' \in [Node -> Node \cup {None}] /\ announcing' \in SUBSET Node
    BY <1>3 DEF Election
  <2>. QED  BY <1>3, <2>3, <2>4 DEF Election, Pool
<1>4. ASSUME NEW n \in Node, NEW w \in Node, Termination(n, w) PROVE TypeOK'
  <2>1. Taken(terminations, n, w) \in Pool /\ NextPeer(n) \in Node
    BY <1>1, <1>4, Taking, Ring DEF Termination
  <2>2. Sent(Taken(terminations, n, w), NextPeer(n), w) \in Pool
    BY <2>1, Sending
  <2>3. terminations' \in Pool
    BY <1>1, <1>4, <2>1, <2>2 DEF Termination
  <2>4. leader' \in [Node -> Node \cup {None}] /\ announcing' \in SUBSET Node
    BY <1>4 DEF Termination
  <2>. QED  BY <1>4, <2>3, <2>4 DEF Termination, Pool
<1>5. ASSUME NEW n \in Node, Terminate(n) \/ Exit(n) PROVE TypeOK'
  BY <1>5 DEF Terminate, Exit
<1>6. ASSUME NEW n \in Node, NEW e \in Node, Lose(n, e) PROVE TypeOK'
  BY <1>1, <1>6, Taking DEF Lose, Pool
<1>7. CASE UNCHANGED vars
  BY <1>7 DEF vars
<1>. QED  BY <1>2, <1>3, <1>4, <1>5, <1>6, <1>7 DEF Next

\* Only the winner meets its own id again.
LEMMA OwnIdReturns ==
  ASSUME IInv, NEW n \in Node, NEW e \in Node, Election(n, e), Id[e] = Id[n]
  PROVE  n = Winner /\ e = n
<1>1. e = n
  BY RingAssumption
<1>2. elections[n][n] > 0
  BY <1>1 DEF Election
<1>3. n = Winner \/ Distance(n) < Distance(n)
  BY <1>2 DEF IInv, StoppedByTheWinner
<1>. QED  BY <1>1, <1>3, Ring

LEMMA StoppedStep ==
  ASSUME IInv, TypeOK', [Next]_vars PROVE StoppedByTheWinner'
<1>1. elections \in Pool /\ terminations \in Pool /\ StoppedByTheWinner
  BY DEF IInv, TypeOK, Pool
<1>2. ASSUME NEW n \in Node, Wake(n) PROVE StoppedByTheWinner'
  <2>1. NextPeer(n) \in Node
    BY Ring
  <2>2. \A k, y \in Node : Sent(elections, NextPeer(n), n)[k][y] > 0 =>
          elections[k][y] > 0 \/ (k = NextPeer(n) /\ y = n)
    BY ZenonT(40), <1>1, <2>1, Sending
  <2>3. \A k, y \in Node : elections'[k][y] > 0 =>
          elections[k][y] > 0 \/ (k = NextPeer(n) /\ y = n)
    BY <1>2, <2>2 DEF Wake
  <2>. QED  BY <1>1, <2>3, Ring DEF StoppedByTheWinner
<1>3. ASSUME NEW n \in Node, NEW e \in Node, Election(n, e)
      PROVE  StoppedByTheWinner'
  <2>1. /\ Taken(elections, n, e) \in Pool
        /\ \A k, y \in Node : Taken(elections, n, e)[k][y] > 0 => elections[k][y] > 0
    <3>1. elections[n][e] > 0
      BY <1>3 DEF Election
    <3>. QED  BY <1>1, <3>1, Taking
  <2>2. CASE Id[e] = Id[n]
    BY <1>1, <1>3, <2>1, <2>2 DEF Election, StoppedByTheWinner
  <2>3. CASE Id[e] # Id[n]
    <3>1. PassedOn(n, e) \in Node /\ NextPeer(n) \in Node
      BY Ring DEF PassedOn
    <3>2. \A k, y \in Node : elections'[k][y] > 0 =>
            elections[k][y] > 0 \/ (k = NextPeer(n) /\ y = PassedOn(n, e))
      <4>1. \A k, y \in Node :
              Sent(Taken(elections, n, e), NextPeer(n), PassedOn(n, e))[k][y] > 0 =>
                Taken(elections, n, e)[k][y] > 0
                  \/ (k = NextPeer(n) /\ y = PassedOn(n, e))
        BY <2>1, <3>1, Sending
      <4>2. elections' = Sent(Taken(elections, n, e), NextPeer(n), PassedOn(n, e))
        BY <1>3, <2>3 DEF Election
      <4>. QED  BY <2>1, <4>1, <4>2
    <3>3. \/ PassedOn(n, e) = Winner
          \/ NextPeer(n) = Winner
          \/ Distance(PassedOn(n, e)) < Distance(NextPeer(n))
      <4>1. CASE Id[e] > Id[n]
        <5>1. PassedOn(n, e) = e /\ n # Winner
          BY <4>1, WinnerIsLargest, RingAssumption DEF PassedOn
        <5>2. e = Winner \/ Distance(e) < Distance(n)
          BY <1>1, <1>3, <5>1 DEF Election, StoppedByTheWinner
        <5>3. /\ Distance(e) \in Nat
              /\ Distance(n) \in Nat
              /\ NextPeer(n) = Winner \/ Distance(NextPeer(n)) = Distance(n) + 1
          BY Ring
        <5>. QED  BY <5>1, <5>2, <5>3
      <4>2. CASE ~(Id[e] > Id[n])
        <5>1. PassedOn(n, e) = n
          BY <4>2 DEF PassedOn
        <5>. QED  BY <5>1, Ring
      <4>. QED  BY <4>1, <4>2
    <3>. QED  BY <1>1, <3>2, <3>3 DEF StoppedByTheWinner
  <2>. QED  BY <2>2, <2>3
<1>4. ASSUME NEW n \in Node, NEW e \in Node, Lose(n, e)
      PROVE  StoppedByTheWinner'
  <2>1. \A k, y \in Node : elections'[k][y] > 0 => elections[k][y] > 0
    <3>1. elections[n][e] > 0 /\ elections' = Taken(elections, n, e)
      BY <1>4 DEF Lose
    <3>. QED  BY <1>1, <3>1, Taking
  <2>. QED  BY <1>1, <2>1 DEF StoppedByTheWinner
<1>5. CASE UNCHANGED elections
  BY <1>1, <1>5 DEF StoppedByTheWinner
<1>. QED
  BY <1>2, <1>3, <1>4, <1>5 DEF Next, Termination, Terminate, Exit, vars

\* At most one node decides in a step, and for the winner.
LEMMA OneDecides ==
  ASSUME IInv, [Next]_vars
  PROVE  UNCHANGED leader \/ \E n \in Node : leader' = [leader EXCEPT ![n] = Winner]
<1>1. ASSUME NEW n \in Node, NEW e \in Node, Election(n, e), Id[e] = Id[n]
      PROVE  leader' = [leader EXCEPT ![n] = Winner]
  BY <1>1, OwnIdReturns DEF Election
<1>2. ASSUME NEW n \in Node, NEW w \in Node, Termination(n, w), leader[n] = None
      PROVE  leader' = [leader EXCEPT ![n] = Winner]
  BY <1>2 DEF Termination, IInv, NewsIsTrue
<1>. QED
  BY <1>1, <1>2 DEF Next, Wake, Election, Termination, Terminate, Exit, Lose, vars

\* A decision once taken stays, and is for the winner.
LEMMA LeaderStep ==
  ASSUME IInv, [Next]_vars
  PROVE  /\ \A k \in Node : leader[k] # None => leader'[k] = leader[k]
         /\ OnlyTheLargestWins'
<1>. USE DEF OnlyTheLargestWins
<1>1. leader \in [Node -> Node \cup {None}] /\ OnlyTheLargestWins
  BY DEF IInv, TypeOK
<1>. QED  BY <1>1, OneDecides

-----------------------------------------------------------------------------
(***************************************************************************)
(* How the news travels, one step at a time: a node learns it from the     *)
(* message in transit to it or is the winner; a message comes from a node  *)
(* that knows; a message is gone only when its node knows; and whoever is  *)
(* about to stop has told its successor.                                   *)
(***************************************************************************)
Learns ==
  \A k \in Node : leader'[k] # None =>
    leader[k] # None \/ k = Winner \/ \E w \in Node : terminations[k][w] > 0

ComesFrom ==
  \A k, y \in Node : terminations'[k][y] > 0 =>
    \/ terminations[k][y] > 0
    \/ y = Winner /\ \E n \in Node : k = NextPeer(n) /\ leader'[n] # None

Arrives ==
  \A k \in Node : terminations[k][Winner] > 0 =>
    terminations'[k][Winner] > 0 \/ leader'[k] # None

Tells ==
  \A k \in terminated' \cup announcing' :
    k \in terminated \cup announcing \/ terminations'[NextPeer(k)][Winner] > 0

NewsFlow == Learns /\ ComesFrom /\ Arrives /\ Tells

LEMMA ElectionFlow ==
  ASSUME IInv, NEW n \in Node, NEW e \in Node, Election(n, e) PROVE NewsFlow
<1>. USE DEF NewsFlow, Learns, ComesFrom, Arrives, Tells
<1>1. /\ leader \in [Node -> Node \cup {None}]
      /\ terminations \in Pool
      /\ terminated \in SUBSET Node /\ announcing \in SUBSET Node
  BY DEF IInv, TypeOK, Pool
<1>2. CASE Id[e] = Id[n]
  <2>1. n = Winner /\ NextPeer(n) \in Node /\ Winner # None
    BY <1>2, OwnIdReturns, Ring, RingAssumption DEF None, Node
  <2>2. /\ leader' = [leader EXCEPT ![n] = n]
        /\ terminations' = Sent(terminations, NextPeer(n), n)
        /\ announcing' = announcing \cup {n}
        /\ terminated' = terminated
    BY <1>2 DEF Election
  <2>3. /\ terminations'[NextPeer(n)][n] > 0
        /\ \A k, y \in Node :
             /\ terminations[k][y] > 0 => terminations'[k][y] > 0
             /\ terminations'[k][y] > 0 =>
                  terminations[k][y] > 0 \/ (k = NextPeer(n) /\ y = n)
    <3>1. LET pool == Sent(terminations, NextPeer(n), n)
          IN  /\ pool[NextPeer(n)][n] > 0
              /\ \A k, y \in Node :
                   /\ terminations[k][y] > 0 => pool[k][y] > 0
                   /\ pool[k][y] > 0 =>
                        terminations[k][y] > 0 \/ (k = NextPeer(n) /\ y = n)
      BY <1>1, <2>1, Sending
    <3>. QED  BY <2>2, <3>1
  <2>4. Learns
    BY <1>1, <2>1, <2>2
  <2>5. ComesFrom
    BY <1>1, <2>1, <2>2, <2>3
  <2>6. Arrives /\ Tells
    BY <2>1, <2>2, <2>3, WinnerIsLargest
  <2>. QED  BY <2>4, <2>5, <2>6
<1>3. CASE Id[e] # Id[n]
  BY <1>3 DEF Election
<1>. QED  BY <1>2, <1>3

LEMMA TerminationFlow ==
  ASSUME IInv, NEW n \in Node, NEW w \in Node, Termination(n, w) PROVE NewsFlow
<1>. USE DEF NewsFlow, Learns, ComesFrom, Arrives, Tells
<1>1. /\ leader \in [Node -> Node \cup {None}]
      /\ terminations \in Pool
      /\ terminated \in SUBSET Node /\ announcing \in SUBSET Node
  BY DEF IInv, TypeOK, Pool
<1>2. w = Winner /\ leader[Winner] # None /\ terminations[n][w] > 0
  BY DEF Termination, IInv, NewsIsTrue
<1>3. /\ Taken(terminations, n, w) \in Pool
      /\ \A k, y \in Node :
           /\ Taken(terminations, n, w)[k][y] > 0 => terminations[k][y] > 0
           /\ terminations[k][y] > 0 /\ k # n => Taken(terminations, n, w)[k][y] > 0
  BY <1>1, <1>2, Taking
<1>4. CASE leader[n] # None
  <2>1. /\ terminations' = Taken(terminations, n, w)
        /\ leader' = leader /\ announcing' = announcing /\ terminated' = terminated
    BY <1>4 DEF Termination
  <2>. QED  BY <1>3, <1>4, <2>1, WinnerIsLargest
<1>5. CASE leader[n] = None
  <2>1. Id[w] # Id[n] /\ w # None /\ NextPeer(n) \in Node
    <3>1. w # n
      BY <1>2, <1>5
    <3>2. w # None
      BY DEF None, Node
    <3>. QED  BY <3>1, <3>2, Ring, RingAssumption
  <2>2. /\ leader' = [leader EXCEPT ![n] = w]
        /\ terminations' = Sent(Taken(terminations, n, w), NextPeer(n), w)
        /\ announcing' = announcing \cup {n}
        /\ terminated' = terminated
    BY <1>5, <2>1 DEF Termination
  <2>3. /\ terminations'[NextPeer(n)][w] > 0
        /\ \A k, y \in Node :
             /\ Taken(terminations, n, w)[k][y] > 0 => terminations'[k][y] > 0
             /\ terminations'[k][y] > 0 =>
                  Taken(terminations, n, w)[k][y] > 0 \/ (k = NextPeer(n) /\ y = w)
    <3>1. LET pool == Sent(Taken(terminations, n, w), NextPeer(n), w)
          IN  /\ pool[NextPeer(n)][w] > 0
              /\ \A k, y \in Node :
                   /\ Taken(terminations, n, w)[k][y] > 0 => pool[k][y] > 0
                   /\ pool[k][y] > 0 =>
                        Taken(terminations, n, w)[k][y] > 0
                          \/ (k = NextPeer(n) /\ y = w)
      BY <1>3, <2>1, Sending
    <3>. QED  BY <2>2, <3>1
  <2>4. leader'[n] # None
    BY <1>1, <2>1, <2>2
  <2>5. Learns
    BY <1>1, <1>2, <2>2
  <2>6. ComesFrom
    BY <1>2, <1>3, <2>3, <2>4
  <2>7. Arrives /\ Tells
    BY <1>2, <1>3, <2>2, <2>3, <2>4
  <2>. QED  BY <2>5, <2>6, <2>7
<1>. QED  BY <1>4, <1>5

LEMMA Flow == ASSUME IInv, [Next]_vars PROVE NewsFlow
<1>1. ASSUME UNCHANGED <<leader, terminations, terminated \cup announcing>>
      PROVE  NewsFlow
  BY <1>1 DEF NewsFlow, Learns, ComesFrom, Arrives, Tells
<1>2. ASSUME NEW n \in Node, Terminate(n) PROVE NewsFlow
  BY <1>1, <1>2 DEF Terminate
<1>3. ASSUME NEW n \in Node, Wake(n) \/ Exit(n) PROVE NewsFlow
  BY <1>1, <1>3 DEF Wake, Exit
<1>4. ASSUME NEW n \in Node, NEW e \in Node, Lose(n, e) PROVE NewsFlow
  BY <1>1, <1>4 DEF Lose
<1>5. CASE UNCHANGED vars
  BY <1>1, <1>5 DEF vars
<1>. QED  BY <1>2, <1>3, <1>4, <1>5, ElectionFlow, TerminationFlow DEF Next

LEMMA NewsStep ==
  ASSUME IInv, TypeOK', [Next]_vars PROVE NewsIsTrue' /\ NoGapInTheNews'
<1>1. /\ \A k \in Node : leader[k] # None => leader'[k] # None
      /\ OnlyTheLargestWins'
  BY LeaderStep
<1>2. Learns /\ ComesFrom
  BY Flow DEF NewsFlow
<1>3. /\ \A k, y \in Node : terminations[k][y] > 0 => y = Winner /\ leader[Winner] # None
      /\ \A k, j \in Node :
           /\ leader[k] # None \/ \E w \in Node : terminations[k][w] > 0
           /\ Distance(j) < Distance(k)
           => leader[j] # None
  BY DEF IInv, NewsIsTrue, NoGapInTheNews
<1>4. Winner \in Node /\ Distance(Winner) = 0 /\ \A k \in Node : Distance(k) \in Nat
  BY WinnerIsLargest, Ring
<1>5. ASSUME NEW n \in Node, leader'[n] # None, NEW j \in Node,
             Distance(j) < Distance(n)
      PROVE  leader'[j] # None
  <2>1. n # Winner
    BY <1>4, <1>5
  <2>. QED  BY <1>1, <1>2, <1>3, <1>5, <2>1 DEF Learns
<1>6. ASSUME NEW n \in Node, leader'[n] # None, NEW j \in Node,
             Distance(j) < Distance(NextPeer(n))
      PROVE  leader'[j] # None
  <2>1. /\ NextPeer(n) # Winner
        /\ Distance(NextPeer(n)) = Distance(n) + 1
        /\ Distance(j) = Distance(n) => j = n
    BY <1>4, <1>6, Ring
  <2>2. Distance(j) < Distance(n) \/ j = n
    BY <1>4, <1>6, <2>1
  <2>. QED  BY <1>5, <1>6, <2>2
<1>7. ASSUME NEW n \in Node, leader'[n] # None PROVE leader'[Winner] # None
  <2>1. n = Winner \/ Distance(Winner) < Distance(n)
    BY <1>4, Ring
  <2>. QED  BY <1>4, <1>5, <1>7, <2>1
<1>8. NewsIsTrue'
  BY <1>1, <1>2, <1>3, <1>4, <1>7 DEF ComesFrom, NewsIsTrue
<1>9. NoGapInTheNews'
  <2>1. ASSUME NEW k \in Node, NEW w \in Node, terminations'[k][w] > 0,
               NEW j \in Node, Distance(j) < Distance(k)
        PROVE  leader'[j] # None
    BY <1>1, <1>2, <1>3, <1>6, <2>1 DEF ComesFrom
  <2>. QED  BY <1>5, <2>1 DEF NoGapInTheNews
<1>. QED  BY <1>8, <1>9

LEMMA ToldStep ==
  ASSUME IInv, TypeOK', [Next]_vars PROVE ToldBeforeStopping'
<1>1. \A k \in Node : leader[k] # None => leader'[k] # None
  BY LeaderStep
<1>2. Arrives /\ Tells
  BY Flow DEF NewsFlow
<1>3. \A k \in terminated \cup announcing :
        leader[NextPeer(k)] # None \/ terminations[NextPeer(k)][Winner] > 0
  BY DEF IInv, ToldBeforeStopping
<1>4. \A k \in terminated' \cup announcing' : NextPeer(k) \in Node
  BY Ring DEF TypeOK
<1>. QED  BY <1>1, <1>2, <1>3, <1>4 DEF Arrives, Tells, ToldBeforeStopping

-----------------------------------------------------------------------------
(***************************************************************************)
(* What keeps the ring going: until the winner knows, its id is to be sent *)
(* or on its way; and whoever knows has stopped or is about to.            *)
(***************************************************************************)
WinnerGoesRound ==
  \/ leader[Winner] # None
  \/ Winner \in delayed
  \/ \E n \in Node : elections[n][Winner] > 0

KnowersStop ==
  /\ exited \subseteq terminated
  /\ \A n \in Node : leader[n] # None <=> n \in announcing \cup terminated

\* No step is left of those that must happen.
Idle ==
  /\ delayed \subseteq exited
  /\ announcing \subseteq exited
  /\ \A n \in Node \ exited, k \in Node : elections[n][k] = 0 /\ terminations[n][k] = 0

LEMMA NobodyBeforeTheWinner ==
  ASSUME IInv, KnowersStop, leader[Winner] = None
  PROVE  exited = {}
<1>1. \A n \in Node : leader[n] = None
  <2>1. ASSUME NEW n \in Node, leader[n] # None PROVE FALSE
    <3>1. n = Winner \/ Distance(Winner) < Distance(n)
      BY WinnerIsLargest, Ring
    <3>. QED  BY <2>1, <3>1, WinnerIsLargest DEF IInv, NoGapInTheNews
  <2>. QED  BY <2>1
<1>2. terminated \subseteq Node
  BY DEF IInv, TypeOK
<1>. QED  BY <1>1, <1>2 DEF KnowersStop

LEMMA KnowersStep ==
  ASSUME IInv, KnowersStop, [Next]_vars PROVE KnowersStop'
<1>1. /\ leader \in [Node -> Node \cup {None}] /\ None \notin Node
      /\ exited \subseteq terminated
      /\ \A n \in Node : leader[n] # None <=> n \in announcing \cup terminated
  BY DEF IInv, TypeOK, KnowersStop, None, Node
<1>2. ASSUME NEW n \in Node, leader' = [leader EXCEPT ![n] = Winner],
             announcing' = announcing \cup {n}, UNCHANGED <<terminated, exited>>
      PROVE  KnowersStop'
  BY <1>1, <1>2, WinnerIsLargest DEF KnowersStop
<1>3. ASSUME NEW n \in Node, NEW e \in Node, Election(n, e) PROVE KnowersStop'
  BY <1>1, <1>2, <1>3, OwnIdReturns DEF Election, KnowersStop
<1>4. ASSUME NEW n \in Node, NEW w \in Node, Termination(n, w) PROVE KnowersStop'
  <2>1. w = Winner
    BY <1>4 DEF Termination, IInv, NewsIsTrue
  <2>. QED  BY <1>1, <1>2, <1>4, <2>1 DEF Termination, KnowersStop
<1>5. ASSUME NEW n \in Node, Terminate(n) \/ Exit(n) \/ Wake(n) PROVE KnowersStop'
  BY <1>1, <1>5 DEF Terminate, Exit, Wake, KnowersStop
<1>6. ASSUME NEW n \in Node, NEW e \in Node, Lose(n, e) PROVE KnowersStop'
  BY <1>1, <1>6 DEF Lose, KnowersStop
<1>. QED  BY <1>1, <1>3, <1>4, <1>5, <1>6 DEF Next, vars, KnowersStop

LEMMA RoundStep ==
  ASSUME IInv, KnowersStop, WinnerGoesRound, [Next]_vars PROVE WinnerGoesRound'
<1>1. CASE leader[Winner] # None
  BY <1>1, LeaderStep, WinnerIsLargest DEF WinnerGoesRound
<1>2. CASE leader[Winner] = None
  <2>1. /\ elections \in Pool /\ Winner \in Node /\ exited = {}
        /\ Winner \in delayed \/ \E k \in Node : elections[k][Winner] > 0
    BY <1>2, WinnerIsLargest, NobodyBeforeTheWinner
    DEF IInv, TypeOK, Pool, WinnerGoesRound
  <2>2. ASSUME NEW n \in Node, Wake(n) PROVE WinnerGoesRound'
    <3>1. /\ NextPeer(n) \in Node
          /\ leader[n] = None => elections' = Sent(elections, NextPeer(n), n)
          /\ leader[n] # None => elections' = elections
      BY <2>2, Ring DEF Wake
    <3>2. Sent(elections, NextPeer(n), n)[NextPeer(n)][n] > 0
      BY <2>1, <3>1, Sending
    <3>3. \A k \in Node : elections[k][Winner] > 0 =>
            Sent(elections, NextPeer(n), n)[k][Winner] > 0
      <4>1. \A k, y \in Node : elections[k][y] > 0 =>
              Sent(elections, NextPeer(n), n)[k][y] > 0
        BY ZenonT(40), <2>1, <3>1, Sending
      <4>. QED  BY <2>1, <4>1
    <3>4. CASE n = Winner
      BY <1>2, <3>1, <3>2, <3>4 DEF WinnerGoesRound
    <3>5. CASE n # Winner
      BY <2>1, <2>2, <3>1, <3>3, <3>5 DEF Wake, WinnerGoesRound
    <3>. QED  BY <3>4, <3>5
  <2>3. ASSUME NEW n \in Node, NEW e \in Node, Election(n, e) PROVE WinnerGoesRound'
    <3>. DEFINE rest == Taken(elections, n, e)
    <3>1. /\ rest \in Pool /\ elections[n][e] > 0
          /\ \A k \in Node : elections[k][Winner] > 0 /\ (k # n \/ Winner # e) =>
               rest[k][Winner] > 0
      <4>1. elections[n][e] > 0
        BY <2>3 DEF Election
      <4>. QED  BY <2>1, <4>1, Taking
    <3>2. CASE Id[e] = Id[n]
      <4>1. leader' = [leader EXCEPT ![Winner] = Winner] /\ Winner # None
        BY <2>1, <2>3, <3>2, OwnIdReturns DEF Election, None, Node
      <4>2. leader'[Winner] # None
        BY <2>1, <4>1 DEF IInv, TypeOK
      <4>. QED  BY <4>2 DEF WinnerGoesRound
    <3>3. CASE Id[e] # Id[n]
      <4>1. elections' = Sent(rest, NextPeer(n), PassedOn(n, e)) /\ delayed' = delayed
        BY <2>3, <3>3 DEF Election
      <4>2. PassedOn(n, e) \in Node /\ NextPeer(n) \in Node
        BY Ring DEF PassedOn
      <4>. HIDE DEF rest
      <4>3. /\ elections'[NextPeer(n)][PassedOn(n, e)] > 0
            /\ \A k \in Node : rest[k][Winner] > 0 => elections'[k][Winner] > 0
        <5>1. /\ Sent(rest, NextPeer(n), PassedOn(n, e))[NextPeer(n)][PassedOn(n, e)] > 0
              /\ \A k \in Node : rest[k][Winner] > 0 =>
                   Sent(rest, NextPeer(n), PassedOn(n, e))[k][Winner] > 0
          BY <2>1, <3>1, <4>2, Sending
        <5>. QED  BY <4>1, <5>1
      <4>4. CASE e = Winner
        <5>1. PassedOn(n, e) = Winner
          <6>1. Id[n] <= Id[Winner] /\ Id[n] # Id[Winner] /\ Id[n] \in Int /\ Id[Winner] \in Int
            BY <2>1, <3>3, <4>4, WinnerIsLargest, RingAssumption
          <6>. QED  BY <4>4, <6>1 DEF PassedOn
        <5>. QED  BY <4>2, <4>3, <5>1 DEF WinnerGoesRound
      <4>5. CASE e # Winner
        BY <2>1, <3>1, <4>1, <4>3, <4>5 DEF WinnerGoesRound
      <4>. QED  BY <4>4, <4>5
    <3>. QED  BY <3>2, <3>3
  <2>4. ASSUME NEW n \in Node, NEW e \in Node, Lose(n, e) PROVE FALSE
    BY <2>1, <2>4 DEF Lose
  <2>5. ASSUME UNCHANGED <<delayed, elections>> PROVE WinnerGoesRound'
    BY <2>1, <2>5 DEF WinnerGoesRound
  <2>. QED
    BY <2>2, <2>3, <2>4, <2>5 DEF Next, Termination, Terminate, Exit, vars
<1>. QED  BY <1>1, <1>2

\* The news is passed from the winner to the last node: of those that have not
\* stopped, the first along the ring would have been told by its predecessor.
LEMMA IdleStops ==
  ASSUME IInv, KnowersStop, WinnerGoesRound, Idle PROVE terminated = Node
<1>1. /\ Winner \in Node /\ exited \subseteq terminated /\ terminated \subseteq Node
      /\ \A n \in Node : leader[n] # None <=> n \in announcing \cup terminated
      /\ elections \in Pool /\ terminations \in Pool
  BY WinnerIsLargest DEF KnowersStop, IInv, TypeOK, Pool
<1>2. announcing \subseteq terminated
  BY <1>1 DEF Idle
<1>3. leader[Winner] # None
  <2>. SUFFICES ASSUME leader[Winner] = None PROVE FALSE
    OBVIOUS
  <2>1. exited = {}
    BY NobodyBeforeTheWinner
  <2>. QED  BY <1>1, <2>1 DEF Idle, WinnerGoesRound
<1>. DEFINE Left == Node \ terminated
<1>. SUFFICES ASSUME Left # {} PROVE FALSE
  BY <1>1
<1>4. PICK n \in Left : \A k \in Left : Distance(n) <= Distance(k)
  <2>. DEFINE D == {Distance(k) : k \in Left}
  <2>1. D \in SUBSET Nat /\ D # {}
    BY Ring
  <2>. HIDE DEF D
  <2>2. PICK d \in D : \A x \in D : d <= x
    BY <2>1, LeastOf
  <2>. QED  BY <2>2 DEF D
<1>5. n \in Node /\ n \notin terminated /\ n # Winner /\ leader[n] = None
  BY <1>1, <1>2, <1>3, <1>4
<1>6. PrevPeer(n) \in Node /\ NextPeer(PrevPeer(n)) = n
  BY <1>5, RingAssumption DEF PrevPeer, NextPeer, Node
<1>7. PrevPeer(n) \in terminated
  <2>1. Distance(n) = Distance(PrevPeer(n)) + 1 /\ Distance(PrevPeer(n)) \in Nat
    BY <1>5, <1>6, Ring
  <2>. QED  BY <1>4, <1>6, <2>1
<1>8. terminations[n][Winner] > 0
  BY <1>5, <1>6, <1>7 DEF IInv, ToldBeforeStopping
<1>. QED  BY <1>1, <1>5, <1>8 DEF Idle

-----------------------------------------------------------------------------
(***************************************************************************)
(* The theorems.                                                           *)
(***************************************************************************)
LEMMA Step == IInv /\ [Next]_vars => IInv'
<1>. SUFFICES ASSUME IInv, [Next]_vars PROVE IInv'
  OBVIOUS
<1>1. TypeOK'
  BY TypeStep DEF IInv
<1>. QED  BY <1>1, StoppedStep, NewsStep, LeaderStep, ToldStep DEF IInv

\* The inductive invariant holds in every reachable state.
THEOREM Invariance == Spec => []IInv
BY InitIInv, Step, PTL DEF Spec

\* The state of chang_roberts.py has its types.
THEOREM TypeCorrect == Spec => []TypeOK
BY Invariance, PTL DEF IInv

\* Only the node with the largest node_id is ever anyone's leader
\* (chang_roberts.py:93-122), on rings of any size and order of ids.
THEOREM Agreement == Spec => []OnlyTheLargestWins
BY Invariance, PTL DEF IInv

\* The termination message leaves no node out on its way round
\* (chang_roberts.py:93-102, 124-140).
THEOREM NoGap == Spec => []NoGapInTheNews
BY Invariance, PTL DEF IInv

\* Whoever terminates has told its successor (chang_roberts.py:93-102, 124-140).
THEOREM ToldFirst == Spec => []ToldBeforeStopping
BY Invariance, PTL DEF IInv

\* The ring cannot get stuck: while a node has not terminated, some delay,
\* handler or message to a living process is left (chang_roberts.py:65-140).
\* What is not proved here is that those run out.
THEOREM NeverStuck == Spec => [](Idle => terminated = Node)
<1>1. Init => KnowersStop /\ WinnerGoesRound
  BY WinnerIsLargest DEF Init, InitLeader, KnowersStop, WinnerGoesRound
<1>2. IInv /\ KnowersStop /\ WinnerGoesRound /\ [Next]_vars
        => KnowersStop' /\ WinnerGoesRound'
  BY KnowersStep, RoundStep
<1>3. IInv /\ KnowersStop /\ WinnerGoesRound => (Idle => terminated = Node)
  BY IdleStops
<1>. QED  BY <1>1, <1>2, <1>3, Invariance, PTL DEF Spec

\* The ring implements an election that is decided once and for all.
THEOREM Refinement == Spec => ImplementsElection
<1>1. Init => LE!Init
  BY DEF Init, InitLeader, LE!Init
<1>2. ASSUME IInv, IInv', [Next]_vars PROVE [LE!Next]_leader
  <2>1. leader \in [Node -> Node \cup {None}] /\ leader' \in [Node -> Node \cup {None}]
    BY <1>2 DEF IInv, TypeOK
  <2>2. /\ \A k \in Node : leader[k] \in {None, Winner}
        /\ \A k \in Node : leader[k] # None => leader'[k] = leader[k]
    BY <1>2, LeaderStep DEF IInv, OnlyTheLargestWins
  <2>3. \/ UNCHANGED leader
        \/ \E n \in Node : leader' = [leader EXCEPT ![n] = Winner]
    BY <1>2, OneDecides
  <2>4. CASE UNCHANGED leader
    BY <2>4
  <2>5. ASSUME NEW n \in Node, leader' = [leader EXCEPT ![n] = Winner], leader' # leader
        PROVE  LE!Next
    <3>1. leader[n] = None
      BY <2>1, <2>2, <2>5
    <3>. QED  BY <2>2, <2>5, <3>1, WinnerIsLargest DEF LE!Next, LE!Decide
  <2>. QED  BY <2>3, <2>4, <2>5
<1>. QED  BY <1>1, <1>2, Invariance, PTL DEF Spec, ImplementsElection, LE!Spec
=============================================================================
