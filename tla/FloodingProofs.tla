--------------------------- MODULE FloodingProofs ---------------------------
EXTENDS Flooding, DolevProofs, WellFoundedInduction

LEMMA LeastOf ==
  ASSUME NEW S \in SUBSET Nat, S # {}
  PROVE  \E i \in S : \A j \in S : i <= j
<1>1. PICK s \in S : TRUE
  OBVIOUS
<1>. DEFINE T == {0..x : x \in {y \in S : y <= s}}
<1>2. T \subseteq SUBSET (0..s) /\ T # {}
  BY <1>1
<1>3. \A U \in SUBSET (0..s) : IsFiniteSet(U)
  <2>1. IsFiniteSet(0..s)
    BY FS_Interval
  <2>. QED  BY <2>1, FS_Subset
<1>4. PICK U \in T : \A V \in T : <<V, U>> \notin StrictSubsetOrdering(0..s)
  <2>. HIDE DEF T
  <2>1. T \subseteq FiniteSubsetsOf(0..s)
    BY <1>2, <1>3 DEF FiniteSubsetsOf
  <2>. QED  BY <1>2, <2>1, FS_StrictSubsetOrderingWellFounded, WFMin
<1>5. PICK i \in S : i <= s /\ U = 0..i
  BY <1>4
<1>6. ASSUME NEW j \in S, ~(i <= j)  PROVE FALSE
  <2>1. 0..j \in T
    BY <1>5, <1>6
  <2>2. 0..j \subseteq 0..i /\ i \in 0..i /\ i \notin 0..j
    BY <1>6
  <2>3. <<0..j, 0..i>> \in StrictSubsetOrdering(0..s)
    BY <2>1, <2>2, <1>2, <1>5 DEF StrictSubsetOrdering
  <2>. QED  BY <2>1, <2>3, <1>4, <1>5
<1>. QED  BY <1>5, <1>6

-----------------------------------------------------------------------------
Pick(chosen, set) ==
  IF \E i \in DOMAIN chosen : chosen[i] \cap set # {} THEN chosen
  ELSE Append(chosen, set)

\* The function that the fold over seq[1], ..., seq[k] is defined by.
Iterates(h, seq, n, k) ==
  h = [S \in SUBSET (1..k) |->
         IF S = {} THEN <<>>
         ELSE Pick(h[S \ {Naive!Max(S)}], Naive!Internal(seq[Naive!Max(S)], n))]

LEMMA MaxOfInterval ==
  ASSUME NEW k \in Nat, NEW S \in SUBSET (1..k), S # {}
  PROVE  /\ Naive!Max(S) \in S
         /\ k \in S => Naive!Max(S) = k
<1>. DEFINE D == {k - x : x \in S}
<1>0. \A x \in S : x \in Nat /\ x <= k /\ k - x \in Nat
  <2>1. \A x \in S : x \in 1..k
    OBVIOUS
  <2>. QED  BY <2>1
<1>1. D \in SUBSET Nat /\ D # {}
  BY <1>0
<1>2. PICK d \in D : \A e \in D : d <= e
  <2>. HIDE DEF D
  <2>. QED  BY <1>1, LeastOf
<1>3. PICK x \in S : d = k - x
  BY <1>2
<1>4. \A y \in S : x >= y
  <2>1. \A y \in S : k - x <= k - y
    BY <1>2, <1>3
  <2>. QED  BY <1>0, <2>1
<1>5. Naive!Max(S) \in S /\ \A y \in S : Naive!Max(S) >= y
  BY <1>4 DEF Naive!Max
<1>6. ASSUME k \in S PROVE Naive!Max(S) = k
  <2>1. Naive!Max(S) >= k /\ Naive!Max(S) <= k /\ Naive!Max(S) \in Nat
    BY <1>0, <1>5, <1>6
  <2>. QED  BY <2>1
<1>. QED  BY <1>5, <1>6

LEMMA IterationExists ==
  ASSUME NEW seq, NEW n, NEW k \in Nat
  PROVE  \E h : Iterates(h, seq, n, k)
<1>. DEFINE Bad == {i \in Nat : ~\E h : Iterates(h, seq, n, i)}
<1>. SUFFICES ASSUME Bad # {} PROVE FALSE
  OBVIOUS
<1>1. PICK i \in Bad : \A j \in Bad : i <= j
  <2>1. Bad \in SUBSET Nat
    OBVIOUS
  <2>. HIDE DEF Bad
  <2>. QED  BY <2>1, LeastOf
<1>2. i \in Nat /\ ~\E h : Iterates(h, seq, n, i)
  BY <1>1
<1>3. CASE i = 0
  <2>1. SUBSET (1..i) = {{}}
    BY <1>3
  <2>2. Iterates([S \in SUBSET (1..i) |-> <<>>], seq, n, i)
    BY <2>1 DEF Iterates
  <2>. QED  BY <1>2, <2>2
<1>4. CASE i # 0
  <2>1. i - 1 \in Nat /\ i - 1 \notin Bad
    BY <1>1, <1>2, <1>4
  <2>2. PICK h : Iterates(h, seq, n, i - 1)
    BY <2>1
  <2>. DEFINE Last(S) == Naive!Internal(seq[i], n)
              g == [S \in SUBSET (1..i) |->
                      IF i \in S THEN Pick(h[S \ {i}], Naive!Internal(seq[i], n)) ELSE h[S]]
  <2>3. \A S \in SUBSET (1..i) : i \notin S => S \in SUBSET (1..(i - 1))
    BY <1>2
  <2>4. ASSUME NEW S \in SUBSET (1..i), S # {}
        PROVE  g[S] = Pick(g[S \ {Naive!Max(S)}], Naive!Internal(seq[Naive!Max(S)], n))
    <3>. DEFINE m == Naive!Max(S)
    <3>1. CASE i \in S
      <4>1. m = i
        BY <1>2, <2>4, <3>1, MaxOfInterval
      <4>2. g[S \ {i}] = h[S \ {i}]
        OBVIOUS
      <4>3. g[S] = Pick(h[S \ {i}], Naive!Internal(seq[i], n))
        BY <3>1
      <4>. HIDE DEF m, g
      <4>. QED  BY <4>1, <4>2, <4>3 DEF m
    <3>2. CASE i \notin S
      <4>1. S \in SUBSET (1..(i - 1)) /\ m \in S
        BY <1>2, <2>3, <2>4, <3>2, MaxOfInterval
      <4>2. g[S] = h[S] /\ g[S \ {m}] = h[S \ {m}]
        BY <3>2
      <4>3. h[S] = Pick(h[S \ {m}], Naive!Internal(seq[m], n))
        BY <2>2, <2>4, <4>1 DEF Iterates
      <4>. HIDE DEF g, m
      <4>. QED  BY <4>2, <4>3 DEF m
    <3>. QED  BY <3>1, <3>2
  <2>5. g[{}] = <<>>
    <3>1. h[{}] = <<>>
      BY <2>2 DEF Iterates
    <3>2. i \notin {} /\ {} \in SUBSET (1..i)
      OBVIOUS
    <3>. QED  BY <3>1, <3>2
  <2>6. Iterates(g, seq, n, i)
    <3>1. g = [S \in SUBSET (1..i) |-> g[S]]
      OBVIOUS
    <3>. HIDE DEF g
    <3>. QED  BY <2>4, <2>5, <3>1 DEF Iterates
  <2>. QED  BY <1>2, <2>6
<1>. QED  BY <1>3, <1>4

\* What has been chosen after each path of the list.
Runs(g, seq, n) ==
  /\ g[0] = <<>>
  /\ \A k \in 1..Len(seq) : g[k] = Pick(g[k - 1], Naive!Internal(seq[k], n))

LEMMA GreedyRuns ==
  ASSUME NEW n, Len(nPaths[n]) \in Nat, DOMAIN nPaths[n] = 1..Len(nPaths[n])
  PROVE  \E g : /\ Runs(g, nPaths[n], n)
                /\ Naive!DistPaths(n) <=> Len(g[Len(nPaths[n])]) >= F + 1
<1>. DEFINE seq == nPaths[n]
            L == Len(seq)
            h == CHOOSE f : Iterates(f, seq, n, L)
            g == [k \in 0..L |-> h[1..k]]
<1>1. Naive!DistPaths(n) <=> Len(h[1..L]) >= F + 1
  BY DEF Naive!DistPaths, Naive!FoldLeft, Naive!MapThenFoldSet, Iterates, Pick
<1>2. Iterates(h, seq, n, L)
  <2>. HIDE DEF seq
  <2>. QED  BY IterationExists DEF seq
<1>. HIDE DEF h
<1>3. ASSUME NEW k \in 1..L
      PROVE  h[1..k] = Pick(h[1..(k - 1)], Naive!Internal(seq[k], n))
  <2>0. k \in Nat \ {0} /\ k <= L
    OBVIOUS
  <2>. HIDE DEF L
  <2>1. 1..k \in SUBSET (1..L) /\ k \in 1..k /\ (1..k) \ {k} = 1..(k - 1) /\ 1..k # {}
    <3>1. k \in 1..k /\ \A x \in 1..k : x \in 1..L
      BY <2>0 DEF L
    <3>2. \A x : x \in 1..k /\ x # k <=> x \in 1..(k - 1)
      BY <2>0
    <3>. QED  BY <3>1, <3>2
  <2>2. Naive!Max(1..k) = k
    BY <2>0, <2>1, MaxOfInterval
  <2>. QED  BY <1>2, <2>1, <2>2 DEF Iterates
<1>4. h[1..0] = <<>>
  <2>1. 1..0 = {} /\ {} \in SUBSET (1..L)
    OBVIOUS
  <2>. QED  BY <1>2, <2>1 DEF Iterates
<1>5. Runs(g, seq, n)
  <2>1. \A k \in 0..L : g[k] = h[1..k]
    OBVIOUS
  <2>2. 0 \in 0..L /\ \A k \in 1..L : k \in 0..L /\ k - 1 \in 0..L
    OBVIOUS
  <2>. HIDE DEF g, seq
  <2>. QED  BY <1>3, <1>4, <2>1, <2>2 DEF Runs
<1>6. g[L] = h[1..L]
  OBVIOUS
<1>. QED  BY <1>1, <1>5, <1>6

-----------------------------------------------------------------------------
(***************************************************************************)
(* What the greedy choice has found: disjoint paths of the list, of which  *)
(* every path of the list is one or meets one.                             *)
(***************************************************************************)
Paths == Seq(Seq(NaiveNode))

Chosen(G, seq, n, k) ==
  /\ G \in Seq(SUBSET NaiveNode)
  /\ \A j \in DOMAIN G : \E i \in 1..k : G[j] = Naive!Internal(seq[i], n)
  /\ \A i, j \in DOMAIN G : i # j => G[i] \cap G[j] = {}
  /\ \A i \in 1..k : \E j \in DOMAIN G :
       \/ G[j] = Naive!Internal(seq[i], n)
       \/ G[j] \cap Naive!Internal(seq[i], n) # {}
  /\ k > 0 => Len(G) > 0 /\ G[1] = Naive!Internal(seq[1], n)

LEMMA Picking ==
  ASSUME NEW G \in Seq(SUBSET NaiveNode), NEW S \in SUBSET NaiveNode
  PROVE  \/ /\ \E i \in DOMAIN G : G[i] \cap S # {}
            /\ Pick(G, S) = G
         \/ /\ \A i \in DOMAIN G : G[i] \cap S = {}
            /\ Pick(G, S) \in Seq(SUBSET NaiveNode)
            /\ DOMAIN Pick(G, S) = 1..(Len(G) + 1) /\ Len(Pick(G, S)) = Len(G) + 1
            /\ Pick(G, S)[Len(G) + 1] = S
            /\ \A i \in DOMAIN G : Pick(G, S)[i] = G[i]
<1>. DEFINE more == Append(G, S)
<1>1. /\ more \in Seq(SUBSET NaiveNode) /\ Len(more) = Len(G) + 1
      /\ DOMAIN more = 1..(Len(G) + 1)
      /\ more[Len(G) + 1] = S /\ \A i \in 1..Len(G) : more[i] = G[i]
  BY AppendProperties
<1>2. DOMAIN G = 1..Len(G)
  OBVIOUS
<1>. HIDE DEF more
<1>3. Pick(G, S) = IF \E i \in DOMAIN G : G[i] \cap S # {} THEN G ELSE more
  BY DEF Pick, more
<1>. QED  BY <1>1, <1>2, <1>3

LEMMA ChosenStep ==
  ASSUME NEW seq \in Paths, NEW n, NEW k \in 1..Len(seq), NEW G, Chosen(G, seq, n, k - 1)
  PROVE  Chosen(Pick(G, Naive!Internal(seq[k], n)), seq, n, k)
<1>. DEFINE S == Naive!Internal(seq[k], n)
            H == Pick(G, S)
<1>1. k \in Nat \ {0} /\ k \in 1..k /\ \A i \in 1..(k - 1) : i \in 1..k
  OBVIOUS
<1>2. S \in SUBSET NaiveNode
  <2>1. seq[k] \in Seq(NaiveNode)
    BY DEF Paths
  <2>. DEFINE p == seq[k]
  <2>. HIDE DEF p
  <2>2. p \in Seq(NaiveNode)
    BY <2>1 DEF p
  <2>3. Naive!Internal(p, n) \in SUBSET NaiveNode
    BY <2>2 DEF Naive!Internal, Naive!On
  <2>. QED  BY <2>3 DEF p
<1>3. /\ G \in Seq(SUBSET NaiveNode) /\ Len(G) \in Nat /\ DOMAIN G = 1..Len(G)
      /\ \A j \in DOMAIN G : \E i \in 1..(k - 1) : G[j] = Naive!Internal(seq[i], n)
      /\ \A i, j \in DOMAIN G : i # j => G[i] \cap G[j] = {}
      /\ \A i \in 1..(k - 1) : \E j \in DOMAIN G :
           \/ G[j] = Naive!Internal(seq[i], n)
           \/ G[j] \cap Naive!Internal(seq[i], n) # {}
      /\ k - 1 > 0 => Len(G) > 0 /\ G[1] = Naive!Internal(seq[1], n)
  BY DEF Chosen
<1>4. \A i \in 1..k : i = k \/ i \in 1..(k - 1)
  BY <1>1
<1>. HIDE DEF S, H
<1>5. CASE (\E i \in DOMAIN G : G[i] \cap S # {}) /\ H = G
  <2>1. k > 1
    <3>1. k = 1 => DOMAIN G = {}
      BY <1>3
    <3>. QED  BY <1>1, <1>5, <3>1
  <2>2. \A i \in 1..k : \E j \in DOMAIN H :
          \/ H[j] = Naive!Internal(seq[i], n)
          \/ H[j] \cap Naive!Internal(seq[i], n) # {}
    BY <1>3, <1>4, <1>5 DEF S
  <2>3. \A j \in DOMAIN H : \E i \in 1..k : H[j] = Naive!Internal(seq[i], n)
    BY <1>1, <1>3, <1>5
  <2>4. Len(H) > 0 /\ H[1] = Naive!Internal(seq[1], n)
    BY <1>1, <1>3, <1>5, <2>1
  <2>. QED  BY <1>3, <1>5, <2>2, <2>3, <2>4 DEF Chosen, H, S
<1>6. CASE /\ \A i \in DOMAIN G : G[i] \cap S = {}
           /\ H \in Seq(SUBSET NaiveNode)
           /\ DOMAIN H = 1..(Len(G) + 1) /\ Len(H) = Len(G) + 1
           /\ H[Len(G) + 1] = S
           /\ \A i \in DOMAIN G : H[i] = G[i]
  <2>. DEFINE l == Len(G) + 1
  <2>1. /\ l \in DOMAIN H /\ l \notin DOMAIN G /\ H[l] = S
        /\ \A i \in DOMAIN H : i = l \/ i \in DOMAIN G
        /\ \A i \in DOMAIN G : i \in DOMAIN H
    BY <1>3, <1>6
  <2>. HIDE DEF l
  <2>2. \A j \in DOMAIN H : \E i \in 1..k : H[j] = Naive!Internal(seq[i], n)
    BY SMTT(40), <1>1, <1>3, <1>6, <2>1 DEF S
  <2>3. \A i, j \in DOMAIN H : i # j => H[i] \cap H[j] = {}
    <3>1. \A i \in DOMAIN G : H[i] \cap H[l] = {} /\ H[l] \cap H[i] = {}
      BY <1>6, <2>1
    <3>2. \A i, j \in DOMAIN G : i # j => H[i] \cap H[j] = {}
      BY <1>3, <1>6
    <3>. QED  BY <2>1, <3>1, <3>2
  <2>4. \A i \in 1..k : \E j \in DOMAIN H :
          \/ H[j] = Naive!Internal(seq[i], n)
          \/ H[j] \cap Naive!Internal(seq[i], n) # {}
    <3>1. ASSUME NEW i \in 1..(k - 1)
          PROVE  \E j \in DOMAIN H : \/ H[j] = Naive!Internal(seq[i], n)
                                     \/ H[j] \cap Naive!Internal(seq[i], n) # {}
      <4>1. PICK j \in DOMAIN G : \/ G[j] = Naive!Internal(seq[i], n)
                                  \/ G[j] \cap Naive!Internal(seq[i], n) # {}
        BY <1>3
      <4>. QED  BY <1>6, <2>1, <4>1
    <3>. QED  BY <1>4, <2>1, <3>1 DEF S
  <2>5. Len(H) > 0 /\ H[1] = Naive!Internal(seq[1], n)
    <3>1. CASE k = 1
      <4>1. DOMAIN G = {}
        BY <1>3, <3>1
      <4>2. Len(G) = 0
        BY <1>3, <4>1
      <4>. QED  BY <1>6, <3>1, <4>2 DEF S
    <3>2. CASE k # 1
      <4>1. Len(G) > 0 /\ 1 \in DOMAIN G /\ G[1] = Naive!Internal(seq[1], n)
        BY <1>1, <1>3, <3>2
      <4>2. H[1] = G[1] /\ Len(H) = Len(G) + 1
        BY <1>6, <4>1
      <4>. QED  BY <1>3, <4>1, <4>2
    <3>. QED  BY <3>1, <3>2
  <2>. QED  BY <1>6, <2>2, <2>3, <2>4, <2>5 DEF Chosen, H, S
<1>. QED  BY ZenonT(40), <1>2, <1>3, <1>5, <1>6, Picking DEF H

LEMMA GreedyChooses ==
  ASSUME NEW n, nPaths[n] \in Paths
  PROVE  \E G : /\ Chosen(G, nPaths[n], n, Len(nPaths[n]))
                /\ Naive!DistPaths(n) <=> Len(G) >= F + 1
<1>. DEFINE seq == nPaths[n]
            L == Len(seq)
<1>1. L \in Nat /\ DOMAIN seq = 1..L /\ seq \in Paths
  BY DEF Paths
<1>2. PICK g : Runs(g, seq, n) /\ (Naive!DistPaths(n) <=> Len(g[L]) >= F + 1)
  BY <1>1, GreedyRuns
<1>. HIDE DEF seq, L
<1>. DEFINE Bad == {k \in 0..L : ~Chosen(g[k], seq, n, k)}
<1>3. Bad = {}
  <2>. SUFFICES ASSUME Bad # {} PROVE FALSE
    OBVIOUS
  <2>1. PICK k \in Bad : \A j \in Bad : k <= j
    <3>1. Bad \in SUBSET Nat
      BY <1>1
    <3>. HIDE DEF Bad
    <3>. QED  BY <3>1, LeastOf
  <2>2. k \in 0..L /\ ~Chosen(g[k], seq, n, k)
    BY <2>1
  <2>3. CASE k = 0
    <3>1. g[0] = <<>> /\ 1..0 = {} /\ DOMAIN <<>> = {} /\ <<>> \in Seq(SUBSET NaiveNode)
      BY <1>2 DEF Runs
    <3>2. Chosen(<<>>, seq, n, 0)
      BY <3>1 DEF Chosen
    <3>. QED  BY <2>2, <2>3, <3>1, <3>2
  <2>4. CASE k # 0
    <3>1. k \in 1..L /\ k - 1 \in 0..L /\ k - 1 \notin Bad
      BY <1>1, <2>1, <2>2, <2>4
    <3>2. Chosen(g[k - 1], seq, n, k - 1)
      BY <3>1
    <3>3. g[k] = Pick(g[k - 1], Naive!Internal(seq[k], n))
      BY <1>2, <3>1 DEF Runs, L
    <3>4. Chosen(g[k], seq, n, k)
      BY <1>1, <3>1, <3>2, <3>3, ChosenStep DEF L
    <3>. QED  BY <2>2, <3>4
  <2>. QED  BY <2>3, <2>4
<1>4. Chosen(g[L], seq, n, L)
  BY <1>1, <1>3
<1>. QED  BY <1>2, <1>4 DEF seq, L

\* f + 1 disjoint paths cannot all meet f nodes.
LEMMA DisjointAreUncut ==
  ASSUME NEW n \in NaiveNode, nPaths[n] \in Paths, Naive!DistPaths(n)
  PROVE  Naive!CannotBeCut(n)
<1>. SUFFICES ASSUME NEW C \in SUBSET (NaiveNode \ {NaiveSource, n}), Cardinality(C) <= F,
                     \A i \in DOMAIN nPaths[n] : Naive!On(nPaths[n][i]) \cap C # {}
              PROVE  FALSE
  BY DEF Naive!CannotBeCut, Naive!Cardinality, Cardinality
<1>1. PICK G : Chosen(G, nPaths[n], n, Len(nPaths[n])) /\ Len(G) >= F + 1
  BY GreedyChooses
<1>2. IsFiniteSet(C) /\ Cardinality(C) \in Nat /\ F \in Nat
  BY NaiveAssumption, DolevAssumption, FS_Subset, FS_CardinalityType
<1>3. Len(G) \in Nat /\ DOMAIN G = 1..Len(G) /\ \A i, j \in DOMAIN G : i # j => G[i] \cap G[j] = {}
  BY <1>1 DEF Chosen
<1>4. ASSUME NEW j \in DOMAIN G PROVE G[j] \cap C # {}
  <2>1. PICK i \in DOMAIN nPaths[n] : G[j] = Naive!Internal(nPaths[n][i], n)
    BY <1>1 DEF Chosen, Paths
  <2>2. Naive!On(nPaths[n][i]) \cap C # {}
    OBVIOUS
  <2>. QED  BY <2>1, <2>2 DEF Naive!Internal
<1>. DEFINE I == 1..(F + 1)
            hit == [j \in I |-> CHOOSE x \in C : x \in G[j]]
<1>5. \A j \in I : j \in DOMAIN G
  BY <1>1, <1>2, <1>3
<1>6. ASSUME NEW j \in I PROVE hit[j] \in C /\ hit[j] \in G[j]
  <2>1. \E x \in C : x \in G[j]
    BY <1>4, <1>5
  <2>. QED  BY <2>1
<1>7. \A i, j \in I : hit[i] = hit[j] => i = j
  <2>. HIDE DEF hit, I
  <2>. QED  BY <1>3, <1>5, <1>6
<1>8. hit \in Injection(I, C)
  <2>1. hit \in [I -> C]
    BY <1>6
  <2>. HIDE DEF hit, I
  <2>. QED  BY <1>7, <2>1 DEF Injection, IsInjective
<1>9. IsFiniteSet(I) /\ Cardinality(I) = F + 1
  BY <1>2, FS_Interval
<1>10. Cardinality(I) <= Cardinality(C)
  <2>. HIDE DEF hit, I
  <2>. QED  BY <1>2, <1>8, <1>9, FS_Injection
<1>. QED  BY <1>2, <1>9, <1>10

-----------------------------------------------------------------------------
(***************************************************************************)
(* Messages and stored paths are ways from the source.  Where nobody has   *)
(* missed anything, whoever stores a path has sent it on, and whoever can  *)
(* deliver has done so or has a handler that still will.                   *)
(***************************************************************************)
NaiveTypes ==
  /\ nStarted \subseteq NaiveNode
  /\ nTransit \subseteq [src : NaiveNode, dst : NaiveNode, path : Seq(NaiveNode)]
  /\ nPaths \in [NaiveNode -> Paths]
  /\ \A k \in nChecks : k.at \in NaiveNode
  /\ nDelivered \subseteq NaiveNode

Stored(path, n) == \E i \in DOMAIN nPaths[n] : nPaths[n][i] = path

Comes(path, n, q) ==
  \/ [src |-> n, dst |-> q, path |-> path] \in nTransit
  \/ Stored(Append(path, n), q)
  \/ nMissed # {}

Onto(path, n) == NaiveNeighbour[n] \ ({n} \cup Naive!On(path))

SentOn ==
  /\ NaiveSource \in nStarted =>
       \A q \in Onto(<<>>, NaiveSource) : Comes(<<>>, NaiveSource, q)
  /\ \A p \in Seq(NaiveNode), n \in NaiveNode :
       Stored(p, n) => \A q \in Onto(p, n) : Comes(p, n, q)

NaiveInv ==
  /\ NaiveTypes
  /\ \A m \in nTransit : Naive!IsWay(Append(m.path, m.src), m.dst)
  /\ \A n \in NaiveNode : \A i \in DOMAIN nPaths[n] : Naive!IsWay(nPaths[n][i], n)
  /\ SentOn
  /\ \A n \in NaiveNode :
       n \in nDelivered \/ ~Naive!DistPaths(n) \/ \E k \in nChecks : k.at = n
  /\ \A n \in nDelivered : Naive!CannotBeCut(n)

\* Enough disjoint paths in a list, apart from the state.
Enough(seq, n) ==
  Len((CHOOSE h :
         h = [S \in SUBSET DOMAIN seq |->
                IF S = {} THEN <<>>
                ELSE Pick(h[S \ {Naive!Max(S)}], Naive!Internal(seq[Naive!Max(S)], n))])
      [DOMAIN seq]) >= F + 1

LEMMA EnoughPaths ==
  ASSUME NEW n
  PROVE  /\ Naive!DistPaths(n) <=> Enough(nPaths[n], n)
         /\ Naive!DistPaths(n)' <=> Enough(nPaths[n], n)'
<1>1. Naive!DistPaths(n) <=> Enough(nPaths[n], n)
  BY DEF Naive!DistPaths, Naive!FoldLeft, Naive!MapThenFoldSet, Pick, Enough
<1>2. (Naive!DistPaths(n) <=> Enough(nPaths[n], n))'
  BY DEF Naive!DistPaths, Naive!FoldLeft, Naive!MapThenFoldSet, Pick, Enough
<1>. QED  BY <1>1, <1>2

LEMMA SamePaths ==
  ASSUME NEW n, nPaths'[n] = nPaths[n]
  PROVE  Naive!DistPaths(n)' <=> Naive!DistPaths(n)
<1>1. ASSUME NEW seq, seq = nPaths[n] PROVE Naive!DistPaths(n)' <=> Enough(seq, n)
  BY <1>1, EnoughPaths
<1>. QED  BY <1>1, EnoughPaths

LEMMA WayGoesOn ==
  ASSUME NEW path \in Seq(NaiveNode), NEW n \in NaiveNode, Naive!IsWay(path, n),
         NEW q \in Onto(path, n)
  PROVE  Naive!IsWay(Append(path, n), q)
<1>. DEFINE more == Append(path, n)
            L == Len(path)
<1>1. /\ L \in Nat \ {0} /\ Len(more) = L + 1 /\ more # <<>>
      /\ DOMAIN path = 1..L /\ DOMAIN more = 1..(L + 1)
      /\ more[L + 1] = n /\ \A i \in 1..L : more[i] = path[i]
  BY AppendProperties DEF Naive!IsWay
<1>2. /\ path[1] = NaiveSource /\ n \notin Naive!On(path)
      /\ \A i, j \in DOMAIN path : path[i] = path[j] => i = j
      /\ \A i \in 1..(L - 1) : path[i + 1] \in NaiveNeighbour[path[i]]
      /\ n \in NaiveNeighbour[path[L]]
  BY DEF Naive!IsWay
<1>3. q \in NaiveNeighbour[n] /\ q # n /\ q \notin Naive!On(path)
  BY DEF Onto
<1>. HIDE DEF more, L
<1>4. \A i \in DOMAIN path : path[i] # n /\ path[i] # q
  BY <1>2, <1>3 DEF Naive!On
<1>5. \A i \in DOMAIN more : i = L + 1 \/ i \in DOMAIN path
  BY <1>1
<1>6. more[1] = NaiveSource /\ q \notin Naive!On(more)
  BY <1>1, <1>2, <1>3, <1>4, <1>5 DEF Naive!On
<1>7. ASSUME NEW i \in DOMAIN more, NEW j \in DOMAIN more, more[i] = more[j]
      PROVE  i = j
  BY <1>1, <1>2, <1>4, <1>5, <1>7
<1>8. ASSUME NEW i \in 1..L PROVE more[i + 1] \in NaiveNeighbour[more[i]]
  <2>1. CASE i = L
    BY <1>1, <1>2, <2>1
  <2>2. CASE i # L
    <3>1. i \in 1..(L - 1) /\ i + 1 \in 1..L
      BY <1>1, <2>2
    <3>. QED  BY <1>1, <1>2, <3>1
  <2>. QED  BY <2>1, <2>2
<1>9. Len(more) - 1 = L /\ more[Len(more)] = n
  BY <1>1
<1>. QED  BY <1>1, <1>3, <1>6, <1>7, <1>8, <1>9 DEF Naive!IsWay, more

LEMMA InitNaiveInv == Naive!Init => NaiveInv
<1>. SUFFICES ASSUME Naive!Init PROVE NaiveInv
  OBVIOUS
<1>1. /\ nStarted = {} /\ nTransit = {} /\ nPaths = [n \in NaiveNode |-> <<>>]
      /\ nChecks = {} /\ nDelivered = {} /\ nMissed = {}
  BY DEF Naive!Init
<1>2. <<>> \in Paths /\ DOMAIN <<>> = {} /\ Len(<<>>) = 0
  BY DEF Paths
<1>3. NaiveTypes
  BY <1>1, <1>2 DEF NaiveTypes
<1>4. ASSUME NEW n \in NaiveNode PROVE ~Naive!DistPaths(n)
  <2>1. PICK G : /\ Chosen(G, nPaths[n], n, Len(nPaths[n]))
                 /\ Naive!DistPaths(n) <=> Len(G) >= F + 1
    BY <1>1, <1>2, GreedyChooses
  <2>2. 1..0 = {}
    OBVIOUS
  <2>3. G \in Seq(SUBSET NaiveNode) /\ DOMAIN G = {}
    BY <1>1, <1>2, <2>1, <2>2 DEF Chosen
  <2>4. Len(G) = 0
    BY <2>3
  <2>. QED  BY <2>1, <2>4, DolevAssumption
<1>5. \A p : \A n \in NaiveNode : ~Stored(p, n)
  BY <1>1 DEF Stored
<1>6. SentOn
  BY <1>1, <1>5 DEF SentOn
<1>. QED  BY <1>1, <1>2, <1>3, <1>4, <1>6 DEF NaiveInv

\* The list of the receiver has the new path, the lists of others stay.
LEMMA Receiving ==
  ASSUME NaiveInv, NEW m \in nTransit, Naive!Receive(m)
  PROVE  LET path == Append(m.path, m.src) IN
         /\ m.src \in NaiveNode /\ m.dst \in NaiveNode /\ m.path \in Seq(NaiveNode)
         /\ path \in Seq(NaiveNode) /\ Naive!IsWay(path, m.dst)
         /\ nPaths' \in [NaiveNode -> Paths]
         /\ \A n \in NaiveNode \ {m.dst} : nPaths'[n] = nPaths[n]
         /\ \A i \in DOMAIN nPaths[m.dst] :
              i \in DOMAIN nPaths'[m.dst] /\ nPaths'[m.dst][i] = nPaths[m.dst][i]
         /\ \A i \in DOMAIN nPaths'[m.dst] :
              \/ i \in DOMAIN nPaths[m.dst] /\ nPaths'[m.dst][i] = nPaths[m.dst][i]
              \/ nPaths'[m.dst][i] = path
         /\ \E i \in DOMAIN nPaths'[m.dst] : nPaths'[m.dst][i] = path
<1>. DEFINE path == Append(m.path, m.src)
            old == nPaths[m.dst]
            d == m.dst
<1>1. /\ m.src \in NaiveNode /\ m.dst \in NaiveNode /\ m.path \in Seq(NaiveNode)
      /\ Naive!IsWay(path, m.dst) /\ nPaths \in [NaiveNode -> Paths]
  BY DEF NaiveInv, NaiveTypes
<1>2. path \in Seq(NaiveNode)
  BY <1>1
<1>3. old \in Paths /\ DOMAIN old = 1..Len(old) /\ Len(old) \in Nat
  BY <1>1 DEF Paths
<1>4. nPaths' = IF path \in Naive!On(old) THEN nPaths
                ELSE [nPaths EXCEPT ![d] = Append(old, path)]
  BY DEF Naive!Receive
<1>5. CASE path \in Naive!On(old)
  BY <1>1, <1>2, <1>4, <1>5 DEF Naive!On
<1>6. CASE path \notin Naive!On(old)
  <2>. HIDE DEF path, old, d
  <2>. DEFINE more == Append(old, path)
  <2>1. /\ more \in Paths /\ Len(more) = Len(old) + 1
        /\ DOMAIN more = 1..(Len(old) + 1)
        /\ more[Len(old) + 1] = path /\ \A i \in 1..Len(old) : more[i] = old[i]
    BY <1>2, <1>3, AppendProperties DEF Paths
  <2>2. nPaths' = [nPaths EXCEPT ![d] = more]
    BY <1>4, <1>6
  <2>. HIDE DEF more
  <2>3. /\ nPaths' \in [NaiveNode -> Paths] /\ nPaths'[d] = more
        /\ \A n \in NaiveNode \ {d} : nPaths'[n] = nPaths[n]
    BY <1>1, <2>1, <2>2 DEF d
  <2>4. \A i \in DOMAIN more : i = Len(old) + 1 \/ i \in DOMAIN old
    BY <1>3, <2>1
  <2>5. Len(old) + 1 \in DOMAIN more /\ \A i \in DOMAIN old : i \in DOMAIN more
    BY <1>3, <2>1
  <2>. QED  BY <1>1, <1>2, <1>3, <2>1, <2>3, <2>4, <2>5 DEF old, d, path
<1>. QED  BY <1>5, <1>6

LEMMA UncutStays ==
  ASSUME NEW n, Naive!CannotBeCut(n),
         \A i \in DOMAIN nPaths[n] : i \in DOMAIN nPaths'[n] /\ nPaths'[n][i] = nPaths[n][i]
  PROVE  Naive!CannotBeCut(n)'
<1>. SUFFICES ASSUME NEW C \in SUBSET (NaiveNode \ {NaiveSource, n}),
                     Naive!Cardinality(C) <= F
              PROVE  \E i \in DOMAIN nPaths'[n] : Naive!On(nPaths'[n][i]) \cap C = {}
  BY DEF Naive!CannotBeCut, Naive!On
<1>1. PICK i \in DOMAIN nPaths[n] : Naive!On(nPaths[n][i]) \cap C = {}
  BY DEF Naive!CannotBeCut
<1>2. i \in DOMAIN nPaths'[n] /\ nPaths'[n][i] = nPaths[n][i]
  OBVIOUS
<1>3. Naive!On(nPaths'[n][i]) = Naive!On(nPaths[n][i])
  BY <1>2 DEF Naive!On
<1>. QED  BY <1>1, <1>2, <1>3

LEMMA SameWays == \A p, n : Naive!IsWay(p, n)' <=> Naive!IsWay(p, n)
BY DEF Naive!IsWay, Naive!On

LEMMA NaiveReceives ==
  ASSUME NaiveInv, NEW m \in nTransit, Naive!Receive(m)
  PROVE  NaiveInv'
<1>. DEFINE path == Append(m.path, m.src)
            d == m.dst
            new == Naive!Messages(d, path)
<1>1. /\ m.src \in NaiveNode /\ d \in NaiveNode /\ m.path \in Seq(NaiveNode)
      /\ path \in Seq(NaiveNode) /\ Naive!IsWay(path, d)
      /\ nPaths' \in [NaiveNode -> Paths]
      /\ \A n \in NaiveNode \ {d} : nPaths'[n] = nPaths[n]
      /\ \A i \in DOMAIN nPaths[d] : i \in DOMAIN nPaths'[d] /\ nPaths'[d][i] = nPaths[d][i]
      /\ \A i \in DOMAIN nPaths'[d] :
           \/ i \in DOMAIN nPaths[d] /\ nPaths'[d][i] = nPaths[d][i]
           \/ nPaths'[d][i] = path
      /\ \E i \in DOMAIN nPaths'[d] : nPaths'[d][i] = path
  BY Receiving
<1>2. /\ nTransit' = (nTransit \ {m}) \cup new
      /\ nChecks' = nChecks \cup {[at |-> d, path |-> path]}
      /\ UNCHANGED <<nStarted, nDelivered, nMissed>>
  BY DEF Naive!Receive
<1>3. /\ NaiveTypes
      /\ \A k \in nTransit : Naive!IsWay(Append(k.path, k.src), k.dst)
      /\ \A n \in NaiveNode : \A i \in DOMAIN nPaths[n] : Naive!IsWay(nPaths[n][i], n)
      /\ SentOn
      /\ \A n \in NaiveNode :
           n \in nDelivered \/ ~Naive!DistPaths(n) \/ \E k \in nChecks : k.at = n
      /\ \A n \in nDelivered : Naive!CannotBeCut(n)
  BY DEF NaiveInv
<1>4. new = {[src |-> d, dst |-> q, path |-> path] : q \in Onto(path, d)}
  BY DEF Naive!Messages, Onto
<1>5. Onto(path, d) \subseteq NaiveNode
  BY <1>1, NaiveAssumption DEF Onto
<1>. HIDE DEF path, d, new
<1>7. NaiveTypes'
  <2>1. nTransit' \subseteq [src : NaiveNode, dst : NaiveNode, path : Seq(NaiveNode)]
    BY <1>1, <1>2, <1>3, <1>4, <1>5 DEF NaiveTypes
  <2>. QED  BY <1>1, <1>2, <1>3, <2>1 DEF NaiveTypes
<1>8. ASSUME NEW k \in nTransit' PROVE Naive!IsWay(Append(k.path, k.src), k.dst)
  <2>1. CASE k \in nTransit
    BY <1>3, <2>1
  <2>2. CASE k \in new
    <3>1. PICK q \in Onto(path, d) : k = [src |-> d, dst |-> q, path |-> path]
      BY <1>4, <2>2
    <3>2. k.src = d /\ k.dst = q /\ k.path = path
      BY <3>1
    <3>3. Naive!IsWay(Append(path, d), q)
      BY <1>1, WayGoesOn
    <3>. QED  BY <3>2, <3>3
  <2>. QED  BY <1>2, <2>1, <2>2
<1>9. ASSUME NEW n \in NaiveNode, NEW i \in DOMAIN nPaths'[n]
      PROVE  Naive!IsWay(nPaths'[n][i], n)
  BY <1>1, <1>3
<1>10. ASSUME NEW p, NEW n \in NaiveNode, NEW q \in Onto(p, n), Comes(p, n, q)
       PROVE  Comes(p, n, q)'
  <2>1. q \in NaiveNode
    BY NaiveAssumption DEF Onto
  <2>2. CASE [src |-> n, dst |-> q, path |-> p] = m
    <3>1. d = q /\ path = Append(p, n)
      BY <2>2 DEF d, path
    <3>. QED  BY <1>1, <3>1 DEF Comes, Stored
  <2>3. CASE Stored(Append(p, n), q)
    <3>1. Stored(Append(p, n), q)'
      BY <1>1, <2>1, <2>3 DEF Stored
    <3>. QED  BY <3>1 DEF Comes
  <2>. QED  BY <1>2, <1>10, <2>2, <2>3 DEF Comes
<1>11. SentOn'
  <2>1. ASSUME NEW p \in Seq(NaiveNode), NEW n \in NaiveNode, Stored(p, n)',
               NEW q \in Onto(p, n)
        PROVE  Comes(p, n, q)'
    <3>1. CASE Stored(p, n)
      BY <1>3, <1>10, <2>1, <3>1 DEF SentOn
    <3>2. CASE n = d /\ p = path
      <4>1. [src |-> n, dst |-> q, path |-> p] \in nTransit'
        BY <1>2, <1>4, <2>1, <3>2
      <4>. QED  BY <4>1 DEF Comes
    <3>. QED  BY <1>1, <2>1, <3>1, <3>2 DEF Stored
  <2>2. ASSUME NaiveSource \in nStarted', NEW q \in Onto(<<>>, NaiveSource)
        PROVE  Comes(<<>>, NaiveSource, q)'
    <3>1. Comes(<<>>, NaiveSource, q)
      BY <1>2, <1>3, <2>2 DEF SentOn
    <3>. QED  BY <1>10, <3>1, NaiveAssumption
  <2>3. \A p, n : Onto(p, n)' = Onto(p, n)
    BY DEF Onto, Naive!On
  <2>. QED  BY <2>1, <2>2, <2>3 DEF SentOn
<1>12. ASSUME NEW n \in NaiveNode
       PROVE  n \in nDelivered' \/ ~Naive!DistPaths(n)' \/ \E k \in nChecks' : k.at = n
  <2>1. CASE n = d
    <3>1. [at |-> d, path |-> path] \in nChecks' /\ [at |-> d, path |-> path].at = d
      BY <1>2
    <3>. QED  BY <2>1, <3>1
  <2>2. CASE n # d
    <3>1. Naive!DistPaths(n)' <=> Naive!DistPaths(n)
      BY <1>1, <2>2, SamePaths
    <3>. QED  BY <1>2, <1>3, <3>1
  <2>. QED  BY <2>1, <2>2
<1>13. ASSUME NEW n \in nDelivered PROVE Naive!CannotBeCut(n)'
  <2>1. n \in NaiveNode /\ Naive!CannotBeCut(n)
    BY <1>3 DEF NaiveTypes
  <2>2. \A i \in DOMAIN nPaths[n] : i \in DOMAIN nPaths'[n] /\ nPaths'[n][i] = nPaths[n][i]
    BY <1>1, <2>1
  <2>. QED  BY <2>1, <2>2, UncutStays
<1>. QED  BY <1>2, <1>7, <1>8, <1>9, <1>11, <1>12, <1>13, SameWays DEF NaiveInv

LEMMA NaiveStep ==
  ASSUME NaiveInv, Naive!Next
  PROVE  NaiveInv'
<1>1. /\ NaiveTypes
      /\ \A k \in nTransit : Naive!IsWay(Append(k.path, k.src), k.dst)
      /\ \A n \in NaiveNode : \A i \in DOMAIN nPaths[n] : Naive!IsWay(nPaths[n][i], n)
      /\ SentOn
      /\ \A n \in NaiveNode :
           n \in nDelivered \/ ~Naive!DistPaths(n) \/ \E k \in nChecks : k.at = n
      /\ \A n \in nDelivered : Naive!CannotBeCut(n)
  BY DEF NaiveInv
<1>2. ASSUME nPaths' = nPaths
      PROVE  /\ \A n : Naive!DistPaths(n)' <=> Naive!DistPaths(n)
             /\ \A n : Naive!CannotBeCut(n) => Naive!CannotBeCut(n)'
             /\ \A p, n : Onto(p, n)' = Onto(p, n)
             /\ \A p, n : Stored(p, n)' <=> Stored(p, n)
             /\ \A p \in Seq(NaiveNode), n \in NaiveNode :
                  Stored(p, n) => \A q \in Onto(p, n) : Comes(p, n, q)
  <2>1. \A n : Naive!DistPaths(n)' <=> Naive!DistPaths(n)
    BY <1>2, SamePaths
  <2>2. \A n : Naive!CannotBeCut(n) => Naive!CannotBeCut(n)'
    BY <1>2, UncutStays
  <2>. QED  BY <1>1, <1>2, <2>1, <2>2 DEF Naive!On, Onto, Stored, SentOn
<1>3. ASSUME NEW n \in NaiveNode, Naive!Start(n)
      PROVE  NaiveInv'
  <2>. DEFINE first == Naive!Messages(NaiveSource, <<>>)
  <2>1. /\ nStarted' = nStarted \cup {n}
        /\ nTransit' = IF n = NaiveSource THEN nTransit \cup first ELSE nTransit
        /\ UNCHANGED <<nPaths, nChecks, nDelivered, nMissed>>
    BY <1>3 DEF Naive!Start
  <2>2. first = {[src |-> NaiveSource, dst |-> q, path |-> <<>>] :
                   q \in Onto(<<>>, NaiveSource)}
    BY DEF Naive!Messages, Onto
  <2>3. /\ <<>> \in Seq(NaiveNode) /\ NaiveSource \in NaiveNode
        /\ Onto(<<>>, NaiveSource) \subseteq NaiveNode
    BY NaiveAssumption DEF Onto
  <2>. HIDE DEF first
  <2>4. NaiveTypes'
    <3>1. first \subseteq [src : NaiveNode, dst : NaiveNode, path : Seq(NaiveNode)]
      <4>1. ASSUME NEW k \in first
            PROVE  k \in [src : NaiveNode, dst : NaiveNode, path : Seq(NaiveNode)]
        <5>1. PICK q \in Onto(<<>>, NaiveSource) :
                k = [src |-> NaiveSource, dst |-> q, path |-> <<>>]
          BY <2>2
        <5>2. q \in NaiveNode
          BY <2>3
        <5>. QED  BY <2>3, <5>1, <5>2
      <4>. QED  BY <4>1
    <3>. QED  BY <1>1, <2>1, <3>1 DEF NaiveTypes
  <2>5. ASSUME NEW k \in nTransit' PROVE Naive!IsWay(Append(k.path, k.src), k.dst)
    <3>1. CASE k \in first
      <4>1. PICK q \in Onto(<<>>, NaiveSource) :
              k = [src |-> NaiveSource, dst |-> q, path |-> <<>>]
        BY <2>2, <3>1
      <4>2. k.src = NaiveSource /\ k.dst = q /\ k.path = <<>>
        BY <4>1
      <4>3. Append(<<>>, NaiveSource) = <<NaiveSource>>
        OBVIOUS
      <4>4. q \in NaiveNeighbour[NaiveSource] /\ q # NaiveSource
        BY DEF Onto
      <4>. DEFINE w == <<NaiveSource>>
      <4>5. w # <<>> /\ Len(w) = 1 /\ DOMAIN w = {1} /\ w[1] = NaiveSource
        OBVIOUS
      <4>6. 1..(1 - 1) = {}
        OBVIOUS
      <4>. HIDE DEF w
      <4>7. Naive!IsWay(w, q)
        BY <4>4, <4>5, <4>6 DEF Naive!IsWay, Naive!On
      <4>. QED  BY <4>2, <4>3, <4>7 DEF w
    <3>. QED  BY <1>1, <2>1, <3>1
  <2>6. \A p, x, q : Comes(p, x, q) => Comes(p, x, q)'
    BY <2>1 DEF Comes, Stored
  <2>7. ASSUME NaiveSource \in nStarted', NEW q \in Onto(<<>>, NaiveSource)
        PROVE  Comes(<<>>, NaiveSource, q)'
    <3>1. CASE NaiveSource \in nStarted
      BY <1>1, <2>6, <2>7, <3>1 DEF SentOn
    <3>2. CASE n = NaiveSource
      <4>1. [src |-> NaiveSource, dst |-> q, path |-> <<>>] \in nTransit'
        BY <2>1, <2>2, <2>7, <3>2
      <4>. QED  BY <4>1 DEF Comes
    <3>. QED  BY <2>1, <2>7, <3>1, <3>2
  <2>8. SentOn'
    <3>1. \A p \in Seq(NaiveNode), x \in NaiveNode :
            Stored(p, x) => \A q \in Onto(p, x) : Comes(p, x, q)'
      BY <1>2, <2>1, <2>6
    <3>. QED  BY <1>2, <2>1, <2>7, <3>1 DEF SentOn
  <2>. QED  BY <1>1, <1>2, <2>1, <2>4, <2>5, <2>8, SameWays DEF NaiveInv
<1>4. ASSUME NEW m \in nTransit, Naive!Drop(m)
      PROVE  NaiveInv'
  <2>1. /\ nTransit' = nTransit \ {m} /\ nMissed' # {}
        /\ UNCHANGED <<nStarted, nPaths, nChecks, nDelivered>>
    BY <1>4 DEF Naive!Drop
  <2>2. NaiveTypes' /\ SentOn'
    BY <1>1, <2>1 DEF NaiveTypes, SentOn, Comes
  <2>. QED  BY <1>1, <1>2, <2>1, <2>2, SameWays DEF NaiveInv
<1>5. ASSUME NEW k \in nChecks, Naive!MyDeliver(k)
      PROVE  NaiveInv'
  <2>1. /\ nChecks' = nChecks \ {k}
        /\ nDelivered' = IF Naive!DistPaths(k.at) THEN nDelivered \cup {k.at} ELSE nDelivered
        /\ UNCHANGED <<nStarted, nTransit, nPaths, nMissed>>
    BY <1>5 DEF Naive!MyDeliver
  <2>2. k.at \in NaiveNode /\ nPaths[k.at] \in Paths
    BY <1>1 DEF NaiveTypes
  <2>3. NaiveTypes' /\ SentOn'
    <3>1. \A p, x, q : Comes(p, x, q) => Comes(p, x, q)'
      BY <2>1 DEF Comes, Stored
    <3>2. NaiveTypes'
      BY <1>1, <2>1, <2>2 DEF NaiveTypes
    <3>3. SentOn'
      <4>1. NaiveSource \in nStarted =>
              \A q \in Onto(<<>>, NaiveSource) : Comes(<<>>, NaiveSource, q)'
        BY <1>1, <3>1 DEF SentOn
      <4>2. \A p \in Seq(NaiveNode), n \in NaiveNode :
              Stored(p, n) => \A q \in Onto(p, n) : Comes(p, n, q)'
        BY <1>2, <2>1, <3>1
      <4>. QED  BY <1>2, <2>1, <4>1, <4>2 DEF SentOn
    <3>. QED  BY <3>2, <3>3
  <2>4. ASSUME NEW n \in NaiveNode
        PROVE  n \in nDelivered' \/ ~Naive!DistPaths(n)' \/ \E j \in nChecks' : j.at = n
    BY <1>1, <1>2, <2>1
  <2>5. ASSUME NEW n \in nDelivered' PROVE Naive!CannotBeCut(n)'
    <3>1. CASE n \in nDelivered
      BY <1>1, <1>2, <2>1, <3>1
    <3>2. CASE n = k.at /\ Naive!DistPaths(n)
      <4>1. Naive!CannotBeCut(n)
        BY <2>2, <3>2, DisjointAreUncut
      <4>. QED  BY <1>2, <2>1, <4>1
    <3>. QED  BY <2>1, <3>1, <3>2
  <2>. QED  BY <1>1, <1>2, <2>1, <2>3, <2>4, <2>5, SameWays DEF NaiveInv
<1>. QED  BY <1>3, <1>4, <1>5, NaiveReceives DEF Naive!Next

LEMMA NaiveStutters ==
  ASSUME NaiveInv, UNCHANGED naiveVars
  PROVE  NaiveInv'
<1>1. UNCHANGED <<nStarted, nTransit, nPaths, nChecks, nDelivered, nMissed>>
  BY DEF naiveVars
<1>2. \A n : Naive!DistPaths(n)' <=> Naive!DistPaths(n)
  BY <1>1, SamePaths
<1>3. \A n : Naive!CannotBeCut(n) => Naive!CannotBeCut(n)'
  BY <1>1, UncutStays
<1>4. \A p, n, q : /\ Stored(p, n)' <=> Stored(p, n)
                   /\ Onto(p, n)' = Onto(p, n)
                   /\ Comes(p, n, q)' <=> Comes(p, n, q)
  BY <1>1 DEF Stored, Onto, Naive!On, Comes
<1>5. SentOn'
  BY <1>1, <1>4 DEF NaiveInv, SentOn
<1>6. NaiveTypes'
  BY <1>1 DEF NaiveInv, NaiveTypes
<1>. QED  BY <1>1, <1>2, <1>3, <1>5, <1>6, SameWays DEF NaiveInv

-----------------------------------------------------------------------------
(***************************************************************************)
(* When all is quiet and nobody has missed anything, every way to a node   *)
(* is in its list: a shortest one that were not would go on from one that  *)
(* is, whose node has sent it on.                                          *)
(***************************************************************************)
LEMMA WayIsShort ==
  ASSUME NEW p \in Seq(NaiveNode), NEW n, Naive!IsWay(p, n)
  PROVE  p \in Naive!Ways(n)
<1>. DEFINE I == 1..Len(p)
<1>1. p \in [I -> NaiveNode] /\ Len(p) \in Nat
  OBVIOUS
<1>2. \A i, j \in I : p[i] = p[j] => i = j
  BY <1>1 DEF Naive!IsWay
<1>3. p \in Injection(I, NaiveNode)
  <2>. HIDE DEF I
  <2>. QED  BY <1>1, <1>2 DEF Injection, IsInjective
<1>4. IsFiniteSet(I) /\ Cardinality(I) = Len(p)
  <2>1. \A l \in Nat : IsFiniteSet(1..l) /\ Cardinality(1..l) = l
    BY FS_Interval
  <2>. QED  BY <1>1, <2>1
<1>5. Len(p) <= Cardinality(NaiveNode) /\ Cardinality(NaiveNode) \in Nat
  <2>. HIDE DEF I
  <2>. QED  BY <1>3, <1>4, NaiveAssumption, FS_Injection, FS_CardinalityType
<1>6. Naive!Cardinality(NaiveNode) = Cardinality(NaiveNode)
  BY DEF Naive!Cardinality, Cardinality
<1>7. p \in Naive!SeqOf(NaiveNode, Naive!Cardinality(NaiveNode))
  <2>1. Len(p) \in 0..Cardinality(NaiveNode)
    BY <1>1, <1>5
  <2>. QED  BY <1>1, <1>6, <2>1 DEF Naive!SeqOf
<1>. QED  BY <1>7 DEF Naive!Ways

LEMMA AllWaysStored ==
  ASSUME NaiveInv, Naive!Quiet, nMissed = {},
         NEW n \in NaiveNode, NEW way \in Naive!Ways(n)
  PROVE  Stored(way, n)
<1>. DEFINE Missing(k) == \E p \in Seq(NaiveNode), q \in NaiveNode :
                             Len(p) = k /\ Naive!IsWay(p, q) /\ ~Stored(p, q)
            Bad == {k \in Nat : Missing(k)}
<1>1. way \in Seq(NaiveNode) /\ Naive!IsWay(way, n)
  BY DEF Naive!Ways, Naive!SeqOf
<1>. SUFFICES ASSUME Bad # {} PROVE FALSE
  BY <1>1
<1>2. PICK k \in Bad : \A j \in Bad : k <= j
  <2>1. Bad \in SUBSET Nat
    OBVIOUS
  <2>. HIDE DEF Bad
  <2>. QED  BY <2>1, LeastOf
<1>3. PICK p \in Seq(NaiveNode), q \in NaiveNode :
        Len(p) = k /\ Naive!IsWay(p, q) /\ ~Stored(p, q)
  BY <1>2
<1>4. /\ nStarted = NaiveNode /\ nTransit = {} /\ SentOn /\ NaiveSource \in NaiveNode
  BY NaiveAssumption DEF Naive!Quiet, NaiveInv
<1>5. k \in Nat /\ \A j \in 0..(k - 1) : ~Missing(j)
  BY <1>2
<1>. HIDE DEF Bad
<1>6. /\ k # 0 /\ DOMAIN p = 1..k /\ p[1] = NaiveSource /\ q \notin Naive!On(p)
      /\ \A i, j \in 1..k : p[i] = p[j] => i = j
      /\ \A i \in 1..(k - 1) : p[i + 1] \in NaiveNeighbour[p[i]]
      /\ q \in NaiveNeighbour[p[k]]
  <2>1. k # 0
    BY <1>3 DEF Naive!IsWay
  <2>. QED  BY <1>3, <2>1 DEF Naive!IsWay
<1>7. \A x : Naive!On(p) = {p[i] : i \in 1..k}
  BY <1>6 DEF Naive!On
<1>8. \A i \in 1..k : p[i] # q
  BY <1>6, <1>7
<1>9. CASE k = 1
  <2>1. q \in Onto(<<>>, NaiveSource)
    BY <1>6, <1>8, <1>9 DEF Onto, Naive!On
  <2>2. Stored(Append(<<>>, NaiveSource), q)
    BY <1>4, <2>1 DEF SentOn, Comes
  <2>3. p = Append(<<>>, NaiveSource)
    BY <1>3, <1>6, <1>9
  <2>. QED  BY <1>3, <2>2, <2>3
<1>10. CASE k # 1
  <2>. DEFINE l == k - 1
              front == SubSeq(p, 1, l)
              x == p[k]
  <2>1. /\ l \in Nat \ {0} /\ l \in 1..l /\ l \in 1..k /\ 1 \in 1..l /\ k = l + 1
        /\ k \in 1..k /\ k \notin 1..l /\ \A i \in 1..l : i \in 1..k
    BY <1>5, <1>6, <1>10
  <2>2. /\ front \in Seq(NaiveNode) /\ Len(front) = l /\ DOMAIN front = 1..l
        /\ \A i \in 1..l : front[i] = p[i]
    BY <1>3, <1>6, <2>1
  <2>3. x \in NaiveNode
    BY <1>3, <1>6, <2>1
  <2>4. p = Append(front, x)
    BY <1>3, <1>6, <2>1, <2>2, <2>3
  <2>. HIDE DEF front, l
  <2>5. Naive!IsWay(front, x)
    <3>1. front # <<>> /\ front[1] = NaiveSource
      BY <1>6, <2>1, <2>2
    <3>2. x \notin Naive!On(front)
      BY <1>6, <2>1, <2>2 DEF Naive!On
    <3>3. \A i, j \in DOMAIN front : front[i] = front[j] => i = j
      BY <1>6, <2>1, <2>2
    <3>4. ASSUME NEW i \in 1..(l - 1)
          PROVE  front[i + 1] \in NaiveNeighbour[front[i]]
      <4>1. i \in 1..l /\ i + 1 \in 1..l /\ i \in 1..(k - 1)
        BY <2>1
      <4>. QED  BY <1>6, <2>2, <4>1
    <3>5. x \in NaiveNeighbour[front[l]]
      <4>1. l \in 1..(k - 1)
        BY <2>1
      <4>. QED  BY <1>6, <2>1, <2>2, <4>1
    <3>. QED  BY <2>2, <3>1, <3>2, <3>3, <3>4, <3>5 DEF Naive!IsWay
  <2>6. Stored(front, x)
    <3>1. ~Missing(l)
      <4>1. l \in 0..(k - 1)
        BY <2>1
      <4>. QED  BY <1>5, <4>1
    <3>. QED  BY <2>2, <2>3, <2>5, <3>1
  <2>7. q \in Onto(front, x)
    BY <1>6, <1>8, <2>1, <2>2 DEF Onto, Naive!On
  <2>8. Stored(Append(front, x), q)
    BY <1>4, <2>2, <2>3, <2>6, <2>7 DEF SentOn, Comes
  <2>. QED  BY <1>3, <2>4, <2>8
<1>. QED  BY <1>9, <1>10

\* Of two ways with no nodes between the source and n, both are the direct one.
LEMMA DirectWay ==
  ASSUME NEW p \in Seq(NaiveNode), NEW n, Naive!IsWay(p, n), Naive!Internal(p, n) = {}
  PROVE  p = <<NaiveSource>>
<1>1. /\ Len(p) \in Nat \ {0} /\ DOMAIN p = 1..Len(p) /\ p[1] = NaiveSource
      /\ \A i, j \in DOMAIN p : p[i] = p[j] => i = j
  BY DEF Naive!IsWay
<1>2. \A i \in DOMAIN p : p[i] = NaiveSource
  BY DEF Naive!IsWay, Naive!Internal, Naive!On
<1>3. 1 \in DOMAIN p /\ Len(p) \in DOMAIN p
  BY <1>1
<1>4. Len(p) = 1
  BY <1>1, <1>2, <1>3
<1>. QED  BY <1>1, <1>4

LEMMA QuietDelivers ==
  ASSUME NaiveInv, Naive!WaysApart, F <= 1, Naive!Quiet, nMissed = {},
         NEW n \in NaiveNode \ {NaiveSource}, n \notin nDelivered
  PROVE  Naive!FirstOvertookShorter(n)
<1>. DEFINE seq == nPaths[n]
            L == Len(seq)
<1>1. /\ seq \in Paths /\ ~Naive!DistPaths(n)
      /\ \A i \in DOMAIN seq : Naive!IsWay(seq[i], n)
  BY DEF NaiveInv, NaiveTypes, Naive!Quiet
<1>2. PICK G : Chosen(G, seq, n, L) /\ (Naive!DistPaths(n) <=> Len(G) >= F + 1)
  BY <1>1, GreedyChooses
<1>3. \A p \in Naive!Ways(n) : \E i \in DOMAIN seq : seq[i] = p
  BY AllWaysStored DEF Stored
<1>4. L \in Nat /\ DOMAIN seq = 1..L /\ \A i \in DOMAIN seq : seq[i] \in Seq(NaiveNode)
  BY <1>1 DEF Paths
<1>5. Naive!Ways(n) # {}
  BY DEF Naive!WaysApart
<1>6. 1 \in DOMAIN seq /\ L > 0
  BY <1>3, <1>4, <1>5
<1>. DEFINE first == seq[1]
<1>7. first \in Seq(NaiveNode) /\ Naive!IsWay(first, n) /\ first \in Naive!Ways(n)
  BY <1>1, <1>4, <1>6, WayIsShort
<1>8. DOMAIN G = {1} /\ G[1] = Naive!Internal(first, n)
  <2>1. Len(G) \in Nat /\ DOMAIN G = 1..Len(G) /\ Len(G) > 0
    BY <1>2, <1>6 DEF Chosen
  <2>2. F \in Nat
    BY DolevAssumption
  <2>3. Len(G) = 1
    BY <1>1, <1>2, <2>1, <2>2
  <2>. QED  BY <1>2, <1>6, <2>1, <2>3 DEF Chosen
<1>9. CASE \E path \in Naive!Ways(n) : Len(path) < Len(first)
  BY <1>3, <1>9 DEF Naive!FirstOvertookShorter
<1>10. CASE \E path \in Naive!Ways(n) \ {first} :
              Naive!Internal(path, n) \cap Naive!Internal(first, n) = {}
  <2>1. PICK path \in Naive!Ways(n) : /\ path # first
                                     /\ Naive!Internal(path, n) \cap Naive!Internal(first, n) = {}
    BY <1>10
  <2>2. PICK i \in DOMAIN seq : seq[i] = path
    BY <1>3
  <2>3. \/ G[1] = Naive!Internal(path, n)
        \/ G[1] \cap Naive!Internal(path, n) # {}
    BY <1>2, <1>4, <1>8, <2>2 DEF Chosen
  <2>4. Naive!Internal(path, n) = {} /\ Naive!Internal(first, n) = {}
    BY <1>8, <2>1, <2>3
  <2>5. path \in Seq(NaiveNode) /\ Naive!IsWay(path, n)
    BY <1>1, <1>4, <2>2
  <2>6. path = <<NaiveSource>> /\ first = <<NaiveSource>>
    BY <1>7, <2>4, <2>5, DirectWay
  <2>. QED  BY <2>1, <2>6
<1>. QED  BY <1>7, <1>9, <1>10 DEF Naive!WaysApart

-----------------------------------------------------------------------------
(***************************************************************************)
(* dolev.py, as a child and as the algorithm of a node.  Before the source *)
(* begins there are only announcements, which a spoofer has sent, and      *)
(* nothing comes of them; where nobody spoofs, the invariant of Dolev      *)
(* holds.                                                                  *)
(***************************************************************************)
OnlyAnnouncements ==
  ~begun =>
    /\ delivered = {} /\ announced = {} /\ tasks = {}
    /\ \A n \in Node : paths[n] = {}
    /\ \A m \in transit : IsAnnouncement(m)

DolevInv ==
  /\ TypeOK
  /\ OnlyAnnouncements
  /\ IF spoofers = {} THEN IInv /\ Flooding ELSE ~begun

LEMMA InitDolevInv == StandaloneInit => DolevInv
<1>. SUFFICES ASSUME StandaloneInit PROVE DolevInv
  OBVIOUS
<1>1. Init /\ spoofers = {}
  BY DEF StandaloneInit
<1>2. IInv
  BY <1>1, InitInv
<1>3. TypeOK
  BY <1>2 DEF IInv
<1>4. Flooding
  BY <1>1 DEF Init, InitTables, Flooding, Touched
<1>5. OnlyAnnouncements
  BY <1>1 DEF Init, InitTables, OnlyAnnouncements
<1>. QED  BY <1>1, <1>2, <1>3, <1>4, <1>5 DEF DolevInv

LEMMA DolevStutters ==
  ASSUME DolevInv, UNCHANGED standaloneVars PROVE DolevInv'
<1>1. UNCHANGED vars /\ UNCHANGED spoofers
  BY DEF standaloneVars
<1>2. TypeOK' /\ (spoofers = {} => IInv' /\ Flooding')
  BY <1>1, TypeStep, NextInv, NextFlood DEF DolevInv
<1>3. OnlyAnnouncements'
  BY <1>1 DEF DolevInv, OnlyAnnouncements, vars, IsAnnouncement
<1>. QED  BY <1>1, <1>2, <1>3 DEF DolevInv, vars

LEMMA NextDolevInv ==
  ASSUME DolevInv, Next, UNCHANGED spoofers, Broadcast => spoofers = {}
  PROVE  DolevInv'
<1>1. TypeOK' /\ (spoofers = {} => IInv' /\ Flooding')
  BY TypeStep, NextInv, NextFlood DEF DolevInv
<1>2. CASE Broadcast
  BY <1>1, <1>2 DEF DolevInv, OnlyAnnouncements, Broadcast
<1>3. ASSUME ~Broadcast PROVE begun' = begun /\ OnlyAnnouncements'
  <2>1. begun' = begun
    BY <1>3 DEF Next, Receive, RecvFinished, RecvAnnouncement, RecvDirect, RecvPath,
      Resume, ParentReturns, ParentRaises, Announced, Relay, CheckDelivers,
      CheckAnnounces, CheckEnds
  <2>2. ASSUME ~begun PROVE OnlyAnnouncements'
    <3>1. /\ delivered = {} /\ announced = {} /\ tasks = {}
          /\ \A n \in Node : paths[n] = {}
          /\ \A m \in transit : IsAnnouncement(m)
      BY <2>2 DEF DolevInv, OnlyAnnouncements
    <3>2. PICK m \in transit : Receive(m)
      BY <1>3, <3>1 DEF Next
    <3>3. RecvFinished(m) \/ RecvAnnouncement(m)
      BY <3>1, <3>2 DEF Receive, RecvDirect, RecvPath, IsAnnouncement
    <3>4. transit' \subseteq transit /\ UNCHANGED <<paths, delivered, announced, tasks>>
      BY <3>3 DEF RecvFinished, RecvAnnouncement
    <3>. QED  BY <3>1, <3>4 DEF OnlyAnnouncements, IsAnnouncement
  <2>. QED  BY <2>1, <2>2 DEF OnlyAnnouncements
<1>4. CASE ~Broadcast
  BY <1>1, <1>3, <1>4 DEF DolevInv
<1>. QED  BY <1>2, <1>4

LEMMA SpoofBegins ==
  ASSUME DolevInv, NEW p \in Node, TriggerByzantineSpoof(p)
  PROVE  DolevInv'
<1>1. /\ ~begun /\ spoofers' # {} /\ p # Source
      /\ transit' = Messages(p, Hearers(p), <<>>)
      /\ UNCHANGED <<begun, paths, delivered, announced, told, tasks, deliveries>>
  BY DEF TriggerByzantineSpoof
<1>2. Messages(p, Hearers(p), <<>>) \subseteq DMsg
      /\ \A m \in Messages(p, Hearers(p), <<>>) : m.src = p /\ m.path = <<>>
  <2>1. <<>> \in Path /\ Hearers(p) \subseteq Node
    BY HearersAreNodes DEF Path
  <2>. QED  BY <2>1, Sending
<1>3. TypeOK'
  BY <1>1, <1>2 DEF DolevInv, TypeOK
<1>4. OnlyAnnouncements'
  BY <1>1, <1>2 DEF DolevInv, OnlyAnnouncements, IsAnnouncement
<1>. QED  BY <1>1, <1>3, <1>4 DEF DolevInv

LEMMA SourceBegins ==
  ASSUME DolevInv, BroadcastMessage
  PROVE  DolevInv'
<1>1. /\ ~begun /\ spoofers' = {} /\ begun'
      /\ delivered' = delivered \cup {Source}
      /\ transit' = transit \cup Messages(Source, Hearers(Source), <<>>)
      /\ UNCHANGED <<paths, announced, told, tasks, deliveries>>
  BY DEF BroadcastMessage
<1>2. /\ TypeOK /\ IInv /\ Flooding /\ transit = {} /\ tasks = {}
      /\ delivered = {} /\ announced = {} /\ Source \in Node
  <2>1. TypeOK /\ OnlyAnnouncements /\ IInv /\ Flooding
    BY DEF DolevInv, BroadcastMessage
  <2>2. Counting
    BY <2>1 DEF IInv
  <2>. QED  BY <1>1, <2>1, <2>2, DolevAssumption DEF OnlyAnnouncements, Counting
<1>. DEFINE new == Messages(Source, Hearers(Source), <<>>)
<1>3. /\ Hearers(Source) \subseteq Node /\ <<>> \in Path
      /\ new \subseteq DMsg
      /\ \A m \in new : m.src = Source /\ m.dst \in Hearers(Source) /\ m.path = <<>>
  <2>1. <<>> \in Path /\ Hearers(Source) \subseteq Node
    BY <1>2, HearersAreNodes DEF Path
  <2>. QED  BY <1>2, <2>1, Sending
<1>4. transit' = new
  BY <1>1, <1>2
<1>. HIDE DEF new
<1>5. TypeOK'
  BY <1>1, <1>2, <1>3, <1>4 DEF TypeOK
<1>6. Messaging'
  <2>1. ASSUME NEW m \in new PROVE SoundMessage(m)'
    <3>1. Real(Append(m.path, m.src), m.dst)
      BY <1>3, <2>1, FirstHop
    <3>. QED  BY <1>3, <2>1, <3>1 DEF SoundMessage, Real, Hearers
  <2>. QED  BY <1>4, <2>1 DEF Messaging
<1>7. Working' /\ Storing'
  BY SMTT(40), <1>1, <1>2
  DEF IInv, Working, Storing, SoundPath, Real, Hops, Hearers, MadeHops
<1>8. Delivering'
  <2>1. \A E : Connects(E, Source, F + 1)
    BY DEF Connects, Separates
  <2>. QED  BY <1>1, <1>2, <2>1 DEF Delivering, Vouched
<1>9. Counting'
  BY <1>1, <1>2 DEF IInv, Counting
<1>10. Flooding'
  <2>1. Spread(Source)'
    <3>1. new \subseteq transit'
      BY <1>4
    <3>2. \A q \in Hearers(Source) : Awaited(q)'
      BY <3>1, Expecting DEF new
    <3>. QED  BY <3>2 DEF Spread, Hearers
  <2>2. \A m \in transit' : FloodMessage(m)'
    BY <1>3, <1>4 DEF FloodMessage, KnownFrom, On
  <2>3. \A n \in Node : told'[n] = {}
    <3>1. \A n \in Node : \A q \in told[n] : Touched(q)
      BY <1>2 DEF Flooding
    <3>2. \A q : ~Touched(q)
      BY <1>2 DEF Touched
    <3>. QED  BY <1>1, <3>1, <3>2
  <2>4. \A n \in Node \ {Source} : ~Touched(n)'
    BY <1>1, <1>2 DEF Touched
  <2>. QED  BY <1>1, <1>2, <2>1, <2>2, <2>3, <2>4 DEF Flooding
<1>11. IInv'
  BY <1>5, <1>6, <1>7, <1>8, <1>9 DEF IInv
<1>. QED  BY <1>1, <1>5, <1>10, <1>11 DEF DolevInv, OnlyAnnouncements

\* What a handler does without a parent it also does with one.
LEMMA HandlesIsNext ==
  ASSUME StandaloneHandles
  PROVE  Next /\ UNCHANGED spoofers /\ begun' = begun
BY DEF StandaloneHandles, Next, Receive, RecvFinished, RecvAnnouncement, RecvDirect,
  RecvPath, Resume, ParentReturns, ParentRaises, Announced, Relay, CheckDelivers,
  CheckAnnounces, CheckEnds

LEMMA StandaloneStep ==
  ASSUME DolevInv, StandaloneNext PROVE DolevInv'
<1>1. CASE StandaloneHandles
  <2>1. Next /\ UNCHANGED spoofers /\ ~Broadcast
    BY <1>1, HandlesIsNext DEF Broadcast
  <2>. QED  BY <2>1, NextDolevInv
<1>. QED  BY <1>1, SpoofBegins, SourceBegins DEF StandaloneNext

\* The handler dolev does not ask who sends a message with no path
\* (dolev.py:262-275): nobody delivers what its source has not sent, whoever
\* sends it in the source's name.
THEOREM SpoofsDieOut == StandaloneSpec => []SpoofIsNotDelivered
<1>1. DolevInv /\ [StandaloneNext]_standaloneVars => DolevInv'
  BY StandaloneStep, DolevStutters
<1>2. DolevInv => SpoofIsNotDelivered
  BY DEF DolevInv, OnlyAnnouncements, SpoofIsNotDelivered
<1>. QED  BY <1>1, <1>2, InitDolevInv, PTL DEF StandaloneSpec

-----------------------------------------------------------------------------
(***************************************************************************)
(* All three programs.  Nobody spoofs in a child.                          *)
(***************************************************************************)
FloodingInv ==
  /\ NaiveInv
  /\ DolevInv
  /\ program = "child" => spoofers = {}

LEMMA FloodingStep ==
  FloodingInv /\ [FloodingNext]_<<program, standaloneVars, naiveVars>> => FloodingInv'
<1>1. ASSUME FloodingInv, program = "child", Next, UNCHANGED <<program, spoofers, naiveVars>>
      PROVE  FloodingInv'
  BY <1>1, NextDolevInv, NaiveStutters DEF FloodingInv
<1>2. ASSUME FloodingInv, program = "standalone", StandaloneNext, UNCHANGED <<program, naiveVars>>
      PROVE  FloodingInv'
  BY <1>2, StandaloneStep, NaiveStutters DEF FloodingInv
<1>3. ASSUME FloodingInv, Naive!Next, UNCHANGED <<program, standaloneVars>>
      PROVE  FloodingInv'
  BY <1>3, NaiveStep, DolevStutters DEF FloodingInv, standaloneVars
<1>4. ASSUME FloodingInv, UNCHANGED <<program, standaloneVars, naiveVars>>
      PROVE  FloodingInv'
  BY <1>4, NaiveStutters, DolevStutters DEF FloodingInv, standaloneVars
<1>. QED  BY <1>1, <1>2, <1>3, <1>4 DEF FloodingNext

LEMMA FloodingInvariance == FloodingSpec => []FloodingInv
<1>1. FloodingInit => FloodingInv
  BY InitNaiveInv, InitDolevInv DEF FloodingInit, FloodingInv, StandaloneInit
<1>. QED  BY <1>1, FloodingStep, PTL DEF FloodingSpec

\* What holds of dolev.py as a child of Bracha holds of it as the algorithm of
\* a node too, where the sender delivers at once, no parent is awaited and
\* others may spoof (dolev.py:180-275).
THEOREM EveryFloodIsSound ==
  FloodingSpec =>
    []( /\ TypeOK /\ PathsAreReal /\ DeliveryIsBackedByPaths
        /\ FloodReachesAll /\ SpoofIsNotDelivered)
<1>1. ASSUME DolevInv
      PROVE  /\ TypeOK /\ PathsAreReal /\ DeliveryIsBackedByPaths
             /\ FloodReachesAll /\ SpoofIsNotDelivered
  <2>. USE <1>1
  <2>1. CASE spoofers = {}
    <3>1. IInv /\ Flooding
      BY <2>1 DEF DolevInv
    <3>2. TypeOK /\ PathsAreReal
      BY <3>1 DEF IInv, Messaging, Storing, SoundMessage, SoundPath, PathsAreReal
    <3>3. DeliveryIsBackedByPaths
      BY <3>1 DEF IInv, Delivering, Vouched, DeliveryIsBackedByPaths
    <3>4. FloodReachesAll
      BY <3>1, QuietClosed DEF FloodReachesAll
    <3>. QED  BY <2>1, <3>2, <3>3, <3>4 DEF SpoofIsNotDelivered
  <2>2. CASE spoofers # {}
    <3>1. TypeOK /\ OnlyAnnouncements /\ ~begun
      BY <2>2 DEF DolevInv
    <3>. QED
      BY <3>1
      DEF OnlyAnnouncements, PathsAreReal, DeliveryIsBackedByPaths, FloodReachesAll,
        Quiet, SpoofIsNotDelivered
  <2>. QED  BY <2>1, <2>2
<1>. QED  BY <1>1, FloodingInvariance, PTL DEF FloodingInv

\* Both implement the abstract broadcast.
THEOREM FloodingRefinement == FloodingSpec => ImplementsBroadcast
<1>1. FloodingInit => RB!Init
  BY DEF FloodingInit, StandaloneInit, Init, RB!Init
<1>2. ASSUME FloodingInv, [FloodingNext]_<<program, standaloneVars, naiveVars>>
      PROVE  [RB!Next]_(RB!vars)
  <2>1. CASE UNCHANGED <<begun, deliveries>>
    BY <2>1 DEF RB!vars
  <2>2. CASE Next /\ spoofers = {}
    BY <1>2, <2>2, RefinementStep DEF FloodingInv, DolevInv
  <2>3. ASSUME Next, UNCHANGED spoofers, begun' = begun PROVE [RB!Next]_(RB!vars)
    <3>1. CASE spoofers # {}
      <4>1. DolevInv' /\ ~begun /\ ~begun'
        BY <1>2, <2>3, <3>1, NextDolevInv DEF FloodingInv, DolevInv, Broadcast
      <4>2. ASSUME NEW m \in transit, Receive(m) PROVE UNCHANGED deliveries
        <5>1. IsAnnouncement(m)
          BY <1>2, <4>1, <4>2 DEF FloodingInv, DolevInv, OnlyAnnouncements
        <5>. QED
          BY <4>2, <5>1
          DEF Receive, RecvFinished, RecvAnnouncement, RecvDirect, RecvPath, IsAnnouncement
      <4>3. tasks = {}
        BY <1>2, <4>1 DEF FloodingInv, DolevInv, OnlyAnnouncements
      <4>. QED  BY <2>1, <2>3, <4>1, <4>2, <4>3 DEF Next, Broadcast
    <3>. QED  BY <2>2, <2>3, <3>1
  <2>4. CASE BroadcastMessage
    BY <2>4 DEF BroadcastMessage, RB!Next, RB!Initiate
  <2>5. ASSUME NEW p \in Node, TriggerByzantineSpoof(p) PROVE UNCHANGED <<begun, deliveries>>
    BY <2>5 DEF TriggerByzantineSpoof
  <2>6. CASE StandaloneHandles
    BY <2>3, <2>6, HandlesIsNext
  <2>7. CASE UNCHANGED standaloneVars
    BY <2>1, <2>7 DEF standaloneVars, vars
  <2>. QED
    BY <1>2, <2>1, <2>2, <2>4, <2>5, <2>6, <2>7
    DEF FloodingNext, StandaloneNext, FloodingInv
<1>. QED
  BY <1>1, <1>2, FloodingInvariance, PTL DEF FloodingSpec, ImplementsBroadcast, RB!Spec

\* In the variant without optimisations, on every graph and for every f: no f
\* nodes lie on all the paths of a node that delivers (distPaths of
\* dolev_naive.py takes f + 1 paths with no node in common).
THEOREM NaiveDeliversUncut == FloodingSpec => [](\A n \in nDelivered : Naive!CannotBeCut(n))
<1>1. NaiveInv => \A n \in nDelivered : Naive!CannotBeCut(n)
  BY DEF NaiveInv
<1>. QED  BY <1>1, FloodingInvariance, PTL DEF FloodingInv

\* For f up to 1 and graphs on which another way leads past the nodes of any
\* shortest way that may come first, the greedy choice of distPaths
\* (dolev_naive.py:150-166) fails only where the first path had overtaken a
\* shorter one.
THEOREM NaiveGreedy ==
  ASSUME Naive!WaysApart, F <= 1
  PROVE  FloodingSpec => []NaiveOnlyOvertakingHinders
<1>1. NaiveInv => NaiveOnlyOvertakingHinders
  BY QuietDelivers DEF NaiveInv, NaiveOnlyOvertakingHinders, Naive!OnlyOvertakingHinders
<1>. QED  BY <1>1, FloodingInvariance, PTL DEF FloodingInv
=============================================================================
