--------------------------- MODULE ProgramsProofs ---------------------------
(***************************************************************************)
(* Proofs of what Programs says of its programs.                           *)
(***************************************************************************)
EXTENDS Programs, FiniteSetTheorems, FunctionTheorems, SequenceTheorems,
        WellFoundedInduction, TLAPS

\* A set of numbers that is not empty has a least one.
LEMMA LeastOf ==
  ASSUME NEW S \in SUBSET Nat, S # {}
  PROVE  \E i \in S : \A j \in S : i <= j
<1>1. PICK s \in S : TRUE
  OBVIOUS
<1>. DEFINE T == {0..x : x \in {y \in S : y <= s}}
<1>2. T \subseteq SUBSET (0..s) /\ T # {}
  BY <1>1
<1>3. \A U \in SUBSET (0..s) : IsFiniteSet(U)
  <2>1. IsFiniteSet(0..s)
    BY FS_Interval
  <2>. QED  BY <2>1, FS_Subset
<1>4. PICK U \in T : \A V \in T : <<V, U>> \notin StrictSubsetOrdering(0..s)
  <2>. HIDE DEF T
  <2>1. T \subseteq FiniteSubsetsOf(0..s)
    BY <1>2, <1>3 DEF FiniteSubsetsOf
  <2>. QED  BY <1>2, <2>1, FS_StrictSubsetOrderingWellFounded, WFMin
<1>5. PICK i \in S : i <= s /\ U = 0..i
  BY <1>4
<1>6. ASSUME NEW j \in S, ~(i <= j)  PROVE FALSE
  <2>1. 0..j \in T
    BY <1>5, <1>6
  <2>2. 0..j \subseteq 0..i /\ i \in 0..i /\ i \notin 0..j
    BY <1>6
  <2>3. <<0..j, 0..i>> \in StrictSubsetOrdering(0..s)
    BY <2>1, <2>2, <1>2, <1>5 DEF StrictSubsetOrdering
  <2>. QED  BY <2>1, <2>3, <1>4, <1>5
<1>. QED  BY <1>5, <1>6

\* The first element of a line and what is left without it.
LEMMA FirstOfLine ==
  ASSUME NEW T, NEW s \in Seq(T), s # <<>>
  PROVE  /\ DOMAIN s = 1..Len(s) /\ Len(s) \in Nat \ {0}
         /\ 1 \in DOMAIN s /\ Head(s) = s[1] /\ Head(s) \in T
         /\ Tail(s) \in Seq(T) /\ DOMAIN Tail(s) = 1..(Len(s) - 1)
         /\ \A i \in 1..(Len(s) - 1) : Tail(s)[i] = s[i + 1]
<1>1. DOMAIN s = 1..Len(s) /\ Len(s) \in Nat /\ Len(s) # 0
  BY EmptySeq
<1>2. 1 \in DOMAIN s /\ Len(s) \in Nat \ {0}
  BY <1>1
<1>3. /\ Head(s) \in T /\ Tail(s) \in Seq(T) /\ Head(s) = s[1]
      /\ Len(Tail(s)) = Len(s) - 1
      /\ \A i \in 1..Len(Tail(s)) : Tail(s)[i] = s[i + 1]
  BY HeadTailProperties
<1>4. DOMAIN Tail(s) = 1..Len(Tail(s))
  BY <1>3
<1>. QED  BY <1>1, <1>2, <1>3, <1>4

LEMMA Appended ==
  ASSUME NEW S, NEW s \in Seq(S), NEW x \in S
  PROVE  /\ Append(s, x) \in Seq(S) /\ Append(s, x) # <<>>
         /\ DOMAIN s = 1..Len(s) /\ Len(s) \in Nat
         /\ DOMAIN Append(s, x) = 1..(Len(s) + 1)
         /\ Append(s, x)[Len(s) + 1] = x
         /\ \A i \in 1..Len(s) : Append(s, x)[i] = s[i]
         /\ \A i \in DOMAIN Append(s, x) :
              \/ Append(s, x)[i] = x
              \/ i \in DOMAIN s /\ Append(s, x)[i] = s[i]
<1>1. /\ Append(s, x) \in Seq(S) /\ Len(s) \in Nat /\ DOMAIN s = 1..Len(s)
      /\ Len(Append(s, x)) = Len(s) + 1
      /\ DOMAIN Append(s, x) = 1..(Len(s) + 1)
      /\ Append(s, x)[Len(s) + 1] = x
      /\ \A i \in 1..Len(s) : Append(s, x)[i] = s[i]
  OBVIOUS
<1>2. Append(s, x) # <<>>
  BY <1>1
<1>3. \A i \in 1..(Len(s) + 1) : i \in 1..Len(s) \/ i = Len(s) + 1
  BY <1>1
<1>. QED  BY <1>1, <1>2, <1>3

-----------------------------------------------------------------------------
(***************************************************************************)
(* Wiring: all copies of the file have the same keys, and a number leads   *)
(* back to its name; so every process numbers the nodes alike.             *)
(***************************************************************************)
LEMMA WiredSteps ==
  ProgramsNext => Wired!Next \/ UNCHANGED Wired!vars
BY DEF ProgramsNext, wiringVars, Wired!vars

\* The keys that are numbered are those of every copy.
LEMMA NamesOfCopies ==
  ASSUME NEW f \in File
  PROVE  Wired!Loaded(f) = Wired!Names
<1>1. \A g \in File : Wired!Loaded(g) = Wired!Loaded(f)
  BY FileAssumption DEF Wired!Loaded, Wired!ToSet
<1>. QED  BY <1>1 DEF Wired!Names

LEMMA WiredCardinality ==
  ASSUME NEW S
  PROVE  Wired!Cardinality(S) = Cardinality(S)
<1>1. Wired!IsFiniteSet(S) <=> IsFiniteSet(S)
  BY DEF Wired!IsFiniteSet, IsFiniteSet
<1>. QED  BY <1>1 DEF Wired!Cardinality, Cardinality

LEMMA NamesAreNumbers ==
  Wired!Names \subseteq Nat /\ IsFiniteSet(Wired!Names)
<1>1. PICK f \in File : TRUE
  BY FileAssumption
<1>2. /\ f \in Seq(Nat) /\ DOMAIN f = 1..Len(f) /\ Len(f) \in Nat
  BY FileAssumption
<1>3. IsFiniteSet({f[i] : i \in 1..Len(f)})
  <2>. DEFINE F(i) == f[i]
  <2>1. IsFiniteSet(1..Len(f))
    BY <1>2, FS_Interval
  <2>2. f \in Surjection(1..Len(f), {f[i] : i \in 1..Len(f)})
    BY <1>2 DEF Surjection
  <2>. QED  BY <2>1, <2>2, FS_Surjection
<1>4. Wired!Loaded(f) \subseteq {f[i] : i \in 1..Len(f)}
  BY <1>2 DEF Wired!Loaded, Wired!ToSet
<1>5. {f[i] : i \in 1..Len(f)} \subseteq Nat
  BY <1>2
<1>. QED  BY <1>3, <1>4, <1>5, FS_Subset, NamesOfCopies

\* Two processes give a name one number, and two names never the same.
LEMMA NumberingIsShared ==
  ASSUME NEW f \in File, NEW g \in File, NEW n \in Wired!Names, NEW p \in Wired!Names
  PROVE  Wired!NumberOf(f, n) = Wired!NumberOf(g, p) <=> n = p
<1>. DEFINE Below(x) == {k \in Wired!Names : k < x}
<1>1. /\ Wired!NumberOf(f, n) = Cardinality(Below(n))
      /\ Wired!NumberOf(g, p) = Cardinality(Below(p))
  <2>1. Wired!Loaded(f) = Wired!Names /\ Wired!Loaded(g) = Wired!Names
    BY NamesOfCopies
  <2>2. /\ Wired!NumberOf(f, n) = Cardinality({k \in Wired!Loaded(f) : k < n})
        /\ Wired!NumberOf(g, p) = Cardinality({k \in Wired!Loaded(g) : k < p})
    BY WiredCardinality DEF Wired!NumberOf
  <2>. QED  BY <2>1, <2>2, Zenon
<1>2. ASSUME NEW x \in Wired!Names, NEW y \in Wired!Names, x < y
      PROVE  Cardinality(Below(x)) # Cardinality(Below(y))
  <2>1. Below(x) \subseteq Below(y) /\ x \in Below(y) /\ x \notin Below(x)
    <3>1. x \in Nat /\ y \in Nat /\ \A k \in Wired!Names : k \in Nat
      BY NamesAreNumbers
    <3>2. \A k \in Wired!Names : k < x => k < y
      BY <3>1, <1>2
    <3>3. Below(x) \subseteq Below(y)
      BY <3>2, Zenon
    <3>4. ~(x < x)
      BY <3>1
    <3>. QED  BY <3>3, <3>4, <1>2, Zenon
  <2>2. IsFiniteSet(Below(y))
    BY NamesAreNumbers, FS_Subset
  <2>. QED  BY <2>1, <2>2, FS_Subset
<1>3. n \in Nat /\ p \in Nat
  BY NamesAreNumbers
<1>. QED  BY <1>1, <1>2, <1>3

\* Whoever accepts n's connection is the one that n means, and it knows n.
WiredInv ==
  /\ mode \in {"offline", "local", "network"}
  /\ copy \in [Wired!Names -> File]
  /\ DOMAIN community \subseteq Wired!Names
  /\ \A n \in DOMAIN community : community[n] = Wired!CommunityOf(n)
  /\ mode # "network" => DOMAIN community \in {{}, Wired!Names}
  /\ serving \subseteq DOMAIN community
  /\ Wired!SendersAreRecognised

LEMMA PartsOfCommunity ==
  ASSUME NEW n
  PROVE  LET others == Wired!Loaded(copy[n]) \ {n} IN
         /\ Wired!CommunityOf(n).addresses = [p \in others |-> Wired!Address(n, p)]
         /\ Wired!CommunityOf(n).peers =
              [a \in {Wired!Address(n, p) : p \in others} |->
                 CHOOSE p \in others : Wired!Address(n, p) = a]
BY DEF Wired!CommunityOf

LEMMA CommunityKept ==
  ASSUME UNCHANGED <<mode, copy>>, NEW n
  PROVE  Wired!CommunityOf(n)' = Wired!CommunityOf(n)
BY DEF Wired!CommunityOf, Wired!NeighboursOf, Wired!Address

LEMMA WiredStutter ==
  ASSUME WiredInv, UNCHANGED Wired!vars
  PROVE  WiredInv'
<1>1. \A n : Wired!CommunityOf(n)' = Wired!CommunityOf(n)
  BY CommunityKept DEF Wired!vars
<1>. QED  BY <1>1 DEF WiredInv, Wired!vars, Wired!SendersAreRecognised

LEMMA AcceptedByTheOneMeant ==
  ASSUME WiredInv, NEW n \in serving, NEW p \in DOMAIN community[n].addresses,
         NEW q \in Wired!Accepts(n, community[n].addresses[p])
  PROVE  /\ q = p /\ p \in Wired!Names \ {n} /\ n \in Wired!Names
         /\ q \in DOMAIN community
<1>1. /\ n \in DOMAIN community /\ n \in Wired!Names /\ copy[n] \in File
      /\ Wired!Loaded(copy[n]) = Wired!Names
  BY NamesOfCopies DEF WiredInv
<1>2. /\ p \in Wired!Names \ {n}
      /\ community[n].addresses[p] = Wired!Address(n, p)
  <2>1. community[n] = Wired!CommunityOf(n)
    BY <1>1 DEF WiredInv
  <2>2. Wired!CommunityOf(n).addresses =
          [k \in Wired!Loaded(copy[n]) \ {n} |-> Wired!Address(n, k)]
    BY PartsOfCommunity
  <2>3. community[n].addresses = [k \in Wired!Names \ {n} |-> Wired!Address(n, k)]
    BY <1>1, <2>1, <2>2, Zenon
  <2>. QED  BY <2>3
<1>3. q \in Wired!Names /\ copy[q] \in File
  BY DEF Wired!Accepts, WiredInv
<1>4. CASE mode = "offline"
  BY <1>1, <1>2, <1>4 DEF Wired!Accepts, Wired!Address, WiredInv
<1>5. CASE mode # "offline"
  <2>1. q = p
    BY <1>1, <1>2, <1>3, <1>5, NumberingIsShared DEF Wired!Accepts, Wired!Address
  <2>. QED  BY <1>1, <1>2, <1>5, <2>1 DEF Wired!Accepts, WiredInv
<1>. QED  BY <1>4, <1>5

LEMMA SenderIsKnown ==
  ASSUME WiredInv, NEW n \in Wired!Names, NEW q \in DOMAIN community, q # n
  PROVE  /\ Wired!Address(n, n) \in DOMAIN community[q].peers
         /\ community[q].peers[Wired!Address(n, n)] = n
<1>1. /\ q \in Wired!Names /\ copy[n] \in File /\ copy[q] \in File
      /\ Wired!Loaded(copy[q]) = Wired!Names
  BY NamesOfCopies DEF WiredInv
<1>. DEFINE others == Wired!Names \ {q}
            addr == Wired!Address(n, n)
<1>2. community[q].peers = [a \in {Wired!Address(q, p) : p \in others} |->
                              CHOOSE p \in others : Wired!Address(q, p) = a]
  <2>1. community[q].peers = Wired!CommunityOf(q).peers
    BY DEF WiredInv
  <2>2. Wired!CommunityOf(q).peers =
          [a \in {Wired!Address(q, p) : p \in Wired!Loaded(copy[q]) \ {q}} |->
             CHOOSE p \in Wired!Loaded(copy[q]) \ {q} : Wired!Address(q, p) = a]
    BY PartsOfCommunity
  <2>. HIDE DEF others
  <2>3. Wired!Loaded(copy[q]) \ {q} = others
    BY <1>1 DEF others
  <2>. QED  BY <2>1, <2>2, <2>3
<1>3. \A p \in others : Wired!Address(q, p) = addr <=> p = n
  BY <1>1, NumberingIsShared DEF Wired!Address
<1>4. n \in others
  BY <1>1
<1>. HIDE DEF others, addr
<1>5. Wired!Address(q, n) = addr
  BY <1>3, <1>4
<1>6. addr \in {Wired!Address(q, p) : p \in others}
  BY <1>4, <1>5
<1>7. (CHOOSE p \in others : Wired!Address(q, p) = addr) = n
  BY <1>3, <1>4
<1>. QED  BY <1>2, <1>6, <1>7 DEF addr

LEMMA WiredStep ==
  ASSUME WiredInv, ProgramsNext
  PROVE  WiredInv'
<1>. SUFFICES ASSUME Wired!Next  PROVE WiredInv'
  BY WiredSteps, WiredStutter
<1>. USE DEF WiredInv
<1>1. ASSUME UNCHANGED <<mode, copy>>
      PROVE  \A n : Wired!CommunityOf(n)' = Wired!CommunityOf(n)
  BY <1>1, CommunityKept
<1>2. CASE Wired!RunOffline
  BY <1>1, <1>2 DEF Wired!RunOffline, Wired!SendersAreRecognised
<1>3. CASE Wired!RunLocal
  BY <1>1, <1>3 DEF Wired!RunLocal, Wired!SendersAreRecognised
<1>4. ASSUME NEW n \in Wired!Names, Wired!RunNetwork(n)  PROVE WiredInv'
  BY <1>1, <1>4 DEF Wired!RunNetwork, Wired!SendersAreRecognised
<1>5. ASSUME NEW n \in Wired!Names, Wired!Serve(n)  PROVE WiredInv'
  BY <1>1, <1>5 DEF Wired!Serve, Wired!SendersAreRecognised
<1>6. ASSUME NEW n \in Wired!Names, NEW p \in Wired!Names, Wired!Cast(n, p)
      PROVE  WiredInv'
  <2>1. PICK q \in Wired!Accepts(n, community[n].addresses[p]) :
          heard' = heard \cup
            {[src |-> n, dst |-> p, at |-> q,
              as |-> IF Wired!Address(n, n) \in DOMAIN community[q].peers
                     THEN {community[q].peers[Wired!Address(n, n)]} ELSE {}]}
    BY <1>6 DEF Wired!Cast
  <2>2. /\ n \in serving /\ p \in DOMAIN community[n].addresses
        /\ UNCHANGED <<mode, delayed, copy, community, servers, serving, crashed>>
    BY <1>6 DEF Wired!Cast
  <2>3. q = p /\ q # n /\ q \in DOMAIN community
    BY <2>1, <2>2, AcceptedByTheOneMeant
  <2>4. heard' = heard \cup {[src |-> n, dst |-> p, at |-> p, as |-> {n}]}
    BY <2>1, <2>3, SenderIsKnown
  <2>5. Wired!SendersAreRecognised'
    BY <2>4 DEF Wired!SendersAreRecognised
  <2>. QED  BY <1>1, <2>2, <2>5
<1>. QED  BY <1>2, <1>3, <1>4, <1>5, <1>6 DEF Wired!Next

\* In every mode, and whichever copy of the file a process has, a message comes
\* to the node it is for, and that node takes it for its sender's.
THEOREM SendersRecognised ==
  ProgramsSpec => []WiredSendersAreRecognised
<1>. DEFINE all == <<program, vars, templateVars, ringVars, counter,
                      layerVars, chainVars, wiringVars>>
<1>1. ProgramsInit => WiredInv
  BY DEF ProgramsInit, WiredInv, Wired!Init, Wired!SendersAreRecognised
<1>2. WiredInv /\ [ProgramsNext]_all => WiredInv'
  <2>1. UNCHANGED all => UNCHANGED Wired!vars
    BY DEF wiringVars, Wired!vars
  <2>. QED  BY <2>1, WiredStep, WiredStutter
<1>3. WiredInv => WiredSendersAreRecognised
  BY DEF WiredInv, WiredSendersAreRecognised
<1>. QED  BY <1>1, <1>2, <1>3, PTL DEF ProgramsSpec

-----------------------------------------------------------------------------
(***************************************************************************)
(* RingElection: an id that is on its way has not met a larger one, so an  *)
(* id that comes back is the largest.                                      *)
(***************************************************************************)
N == Cardinality(RingNode)

Place == CHOOSE P \in [RingNode -> 0..(N - 1)] :
           \A n \in RingNode :
             /\ \A k \in RingNode : P[n] = P[k] => n = k
             /\ Right[n] \in RingNode
             /\ P[Right[n]] = (P[n] + 1) % N

LEMMA PlaceFacts ==
  /\ N \in Nat /\ N >= 3 /\ RingNode \subseteq Nat
  /\ \A n \in RingNode :
       /\ Place[n] \in 0..(N - 1)
       /\ \A k \in RingNode : Place[n] = Place[k] => n = k
       /\ Right[n] \in RingNode
       /\ Place[Right[n]] = IF Place[n] = N - 1 THEN 0 ELSE Place[n] + 1
<1>1. N \in Nat /\ N >= 3 /\ RingNode \subseteq Nat
  BY RingAssumption, FS_CardinalityType DEF N
<1>2. /\ Place \in [RingNode -> 0..(N - 1)]
      /\ \A n \in RingNode :
           /\ \A k \in RingNode : Place[n] = Place[k] => n = k
           /\ Right[n] \in RingNode
           /\ Place[Right[n]] = (Place[n] + 1) % N
  BY RingAssumption, Zenon DEF Place, N
<1>3. \A a \in 0..(N - 1) : (a + 1) % N = IF a = N - 1 THEN 0 ELSE a + 1
  BY <1>1
<1>. QED  BY <1>1, <1>2, <1>3

\* The steps from a to b along Right.
Way(a, b) == IF Place[a] <= Place[b] THEN Place[b] - Place[a]
                                     ELSE Place[b] - Place[a] + N

LEMMA WayFacts ==
  ASSUME NEW a \in RingNode, NEW b \in RingNode
  PROVE  /\ Way(a, b) \in 0..(N - 1)
         /\ Way(a, a) = 0
         /\ \A c \in RingNode : Way(a, b) = Way(a, c) => b = c
         /\ \A c \in RingNode : Way(b, a) = Way(c, a) => b = c
         /\ Right[a] # b => Way(b, Right[a]) = Way(b, a) + 1
         /\ Way(Right[a], a) = N - 1
         /\ a # b => Way(a, b) = Way(Right[a], b) + 1
<1>1. /\ N \in Nat /\ N >= 3
      /\ \A c \in RingNode : Place[c] \in 0..(N - 1)
      /\ \A c, d \in RingNode : Place[c] = Place[d] => c = d
      /\ Right[a] \in RingNode
      /\ Place[Right[a]] = IF Place[a] = N - 1 THEN 0 ELSE Place[a] + 1
  BY PlaceFacts
<1>2. Place[a] \in 0..(N - 1) /\ Place[b] \in 0..(N - 1) /\ Place[Right[a]] \in 0..(N - 1)
  BY <1>1
<1>3. /\ Way(a, b) \in 0..(N - 1)
      /\ Way(a, a) = 0
      /\ Way(Right[a], a) = N - 1
  BY <1>1, <1>2 DEF Way
<1>4. ASSUME NEW c \in RingNode, Way(a, b) = Way(a, c) \/ Way(b, a) = Way(c, a)
      PROVE  b = c
  <2>1. Place[c] \in 0..(N - 1)
    BY <1>1
  <2>2. Place[b] = Place[c]
    BY <1>1, <1>2, <1>4, <2>1 DEF Way
  <2>. QED  BY <1>1, <2>2
<1>5. Right[a] # b => Way(b, Right[a]) = Way(b, a) + 1
  <2>1. Right[a] # b => Place[Right[a]] # Place[b]
    BY <1>1
  <2>. QED  BY <1>1, <1>2, <2>1 DEF Way
<1>6. a # b => Way(a, b) = Way(Right[a], b) + 1
  <2>1. a # b => Place[a] # Place[b]
    BY <1>1
  <2>. QED  BY <1>1, <1>2, <2>1 DEF Way
<1>. QED  BY <1>3, <1>4, <1>5, <1>6

\* An id that goes from src to dst has met nobody who is larger.
NotPassed(src, dst, id) ==
  /\ dst = Right[src] =>
       \A k \in RingNode : k > id => Way(id, src) < Way(id, k)
  /\ src = Right[dst] =>
       \A k \in RingNode : k > id => Way(src, id) < Way(k, id)

LEMMA NoTurning ==
  ASSUME NEW n \in RingNode, NEW a \in Beside[n], NEW b \in Beside[n], a # b
  PROVE  /\ a \in RingNode /\ b \in RingNode /\ n \in Beside[a]
         /\ a = Right[n] \/ n = Right[a]
         /\ b = Right[n] <=> n = Right[a]
         /\ n = Right[b] <=> a = Right[n]
<1>1. /\ a \in RingNode /\ b \in RingNode
      /\ a = Right[n] \/ n = Right[a]
      /\ b = Right[n] \/ n = Right[b]
  BY DEF Beside
<1>2. n = Right[a] /\ n = Right[b] => FALSE
  <2>1. ASSUME n = Right[a], n = Right[b]  PROVE Place[a] = Place[b]
    <3>1. /\ Place[a] \in 0..(N - 1) /\ Place[b] \in 0..(N - 1) /\ N \in Nat
          /\ Place[n] = IF Place[a] = N - 1 THEN 0 ELSE Place[a] + 1
          /\ Place[n] = IF Place[b] = N - 1 THEN 0 ELSE Place[b] + 1
      BY <1>1, <2>1, PlaceFacts
    <3>. QED  BY <3>1
  <2>. QED  BY <1>1, <2>1, PlaceFacts
<1>3. ASSUME NEW x \in RingNode, Right[Right[x]] = x  PROVE FALSE
  <2>. DEFINE y == Right[x]
  <2>1. y \in RingNode /\ Right[y] = x
    BY <1>3, PlaceFacts
  <2>. HIDE DEF y
  <2>2. /\ Place[x] \in 0..(N - 1) /\ Place[y] \in 0..(N - 1) /\ N \in Nat /\ N >= 3
        /\ Place[x] = IF Place[y] = N - 1 THEN 0 ELSE Place[y] + 1
    BY <2>1, PlaceFacts
  <2>3. Place[y] = IF Place[x] = N - 1 THEN 0 ELSE Place[x] + 1
    BY PlaceFacts DEF y
  <2>. QED  BY <2>2, <2>3
<1>4. ~(n = Right[a] /\ a = Right[n]) /\ ~(n = Right[b] /\ b = Right[n])
  BY <1>1, <1>3
<1>. QED  BY <1>1, <1>2, <1>4 DEF Beside

LEMMA BeginsAtItself ==
  ASSUME NEW n \in RingNode, NEW dst
  PROVE  NotPassed(n, dst, n)
BY WayFacts, PlaceFacts DEF NotPassed

LEMMA ComesBack ==
  ASSUME NEW src \in RingNode, NEW dst \in Beside[src], NotPassed(src, dst, dst)
  PROVE  \A k \in RingNode : k <= dst
<1>1. dst \in RingNode /\ (dst = Right[src] \/ src = Right[dst])
  BY DEF Beside
<1>2. ASSUME NEW k \in RingNode, k > dst  PROVE FALSE
  <2>1. Way(dst, k) \in 0..(N - 1) /\ Way(k, dst) \in 0..(N - 1) /\ N \in Nat
    BY <1>1, WayFacts, PlaceFacts
  <2>2. CASE dst = Right[src]
    <3>1. Way(dst, src) = N - 1
      BY <1>1, <2>2, WayFacts
    <3>. QED  BY <1>2, <2>1, <2>2, <3>1 DEF NotPassed
  <2>3. CASE src = Right[dst]
    <3>1. Way(src, dst) = N - 1
      BY <1>1, <2>3, WayFacts
    <3>. QED  BY <1>2, <2>1, <2>3, <3>1 DEF NotPassed
  <2>. QED  BY <1>1, <2>2, <2>3
<1>. QED  BY <1>1, <1>2, PlaceFacts

LEMMA PassedOn ==
  ASSUME NEW dst \in RingNode, NEW src \in Beside[dst], NEW next \in Beside[dst],
         next # src, NEW id \in RingNode, id # dst, NotPassed(src, dst, id)
  PROVE  /\ Ring!LargerOf(id, dst) \in RingNode
         /\ NotPassed(dst, next, Ring!LargerOf(id, dst))
<1>. DEFINE larger == Ring!LargerOf(id, dst)
<1>1. CASE id < dst
  BY <1>1, BeginsAtItself DEF Ring!LargerOf
<1>2. CASE ~(id < dst)
  <2>1. larger = id /\ dst < id
    BY <1>2, PlaceFacts DEF Ring!LargerOf
  <2>2. /\ src \in RingNode
        /\ next = Right[dst] <=> dst = Right[src]
        /\ dst = Right[next] <=> src = Right[dst]
    BY NoTurning
  <2>3. ASSUME NEW k \in RingNode, k > id  PROVE k # dst
    BY <2>1, <2>3, PlaceFacts
  <2>4. ASSUME dst = Right[src], NEW k \in RingNode, k > id
        PROVE  Way(id, dst) < Way(id, k)
    <3>1. Way(id, src) < Way(id, k)
      BY <2>4 DEF NotPassed
    <3>2. Way(id, dst) = Way(id, src) + 1
      BY <2>2, <2>4, WayFacts
    <3>3. Way(id, dst) # Way(id, k)
      BY <2>3, <2>4, WayFacts
    <3>. QED  BY <3>1, <3>2, <3>3, <2>2, WayFacts
  <2>5. ASSUME src = Right[dst], NEW k \in RingNode, k > id
        PROVE  Way(dst, id) < Way(k, id)
    <3>1. Way(src, id) < Way(k, id)
      BY <2>5 DEF NotPassed
    <3>2. Way(dst, id) = Way(src, id) + 1
      BY <2>5, WayFacts
    <3>3. Way(dst, id) # Way(k, id)
      BY <2>3, <2>5, WayFacts
    <3>. QED  BY <3>1, <3>2, <3>3, <2>2, WayFacts
  <2>. QED  BY <2>1, <2>2, <2>4, <2>5 DEF NotPassed
<1>. QED  BY <1>1, <1>2

-----------------------------------------------------------------------------
(***************************************************************************)
(* The bags of the template, and whom a node answers.                      *)
(***************************************************************************)
LEMMA RingBags ==
  ASSUME NEW B, NEW C
  PROVE  /\ DOMAIN Ring!(+)(B, C) = DOMAIN B \cup DOMAIN C
         /\ DOMAIN Ring!(-)(B, C) \subseteq DOMAIN B
         /\ DOMAIN Ring!EmptyBag = {}
BY DEF Ring!(+), Ring!(-), Ring!EmptyBag, Ring!SetToBag

LEMMA RingDatagram ==
  ASSUME NEW type, NEW src, NEW dst, NEW value
  PROVE  DOMAIN Ring!Datagram(type, src, dst, value) \subseteq
           {[type |-> type, src |-> src, dst |-> dst, value |-> value]}
BY DEF Ring!Datagram, Ring!EmptyBag, Ring!SetToBag

OnItsWay(m) ==
  /\ m.src \in RingNode /\ m.dst \in Beside[m.src]
  /\ m.type = "terminate" => elected # {}
  /\ m.type = "elect" => m.value \in RingNode /\ NotPassed(m.src, m.dst, m.value)

Phases == {"connecting", "polling", "delayed", "waited", "begun"}

Polls(n) == Ring!BeginPoll(n) \/ Ring!PollInVain(n) \/ Ring!Poll(n)

RingInv ==
  /\ nodes \in [RingNode -> Seq(RingNode)]
  /\ phase \in [RingNode -> Phases]
  /\ \A n \in RingNode : \A i \in DOMAIN nodes[n] : nodes[n][i] \in Beside[n]
  /\ \A n \in RingNode : phase[n] \in {"delayed", "begun"} => nodes[n] # <<>>
  /\ \A m \in hellos : m.dst \in RingNode /\ m.src \in Beside[m.dst]
  /\ \A m \in DOMAIN transit : OnItsWay(m)
  /\ elected \subseteq RingNode
  /\ Ring!OnlyTheLargestIsElected

LEMMA NextIsOther ==
  ASSUME RingInv, NEW m, m.dst \in RingNode, Ring!Others(m) # {}
  PROVE  Ring!NextPeer(m) \in Beside[m.dst] /\ Ring!NextPeer(m) # m.src
<1>1. nodes[m.dst] \in Seq(RingNode)
  BY DEF RingInv
<1>2. /\ Ring!Others(m) \in SUBSET Nat
      /\ \A i \in Ring!Others(m) : i \in DOMAIN nodes[m.dst] /\ nodes[m.dst][i] # m.src
  BY <1>1 DEF Ring!Others
<1>3. PICK i \in Ring!Others(m) : Ring!NextPeer(m) = nodes[m.dst][i]
  <2>1. \E i \in Ring!Others(m) : \A j \in Ring!Others(m) : i <= j
    BY <1>2, LeastOf
  <2>. QED  BY <2>1 DEF Ring!NextPeer
<1>. QED  BY <1>2, <1>3 DEF RingInv

\* What an answer leaves in transit.
LEMMA AnswerIsNew ==
  ASSUME NEW m, NEW type, NEW value, Ring!PassOn(m, type, value), NEW k \in DOMAIN transit'
  PROVE  \/ k \in DOMAIN transit
         \/ /\ Ring!Others(m) # {}
            /\ k = [type |-> type, src |-> m.dst, dst |-> Ring!NextPeer(m),
                    value |-> value]
<1>1. CASE Ring!Others(m) = {}
  BY <1>1, RingBags DEF Ring!PassOn
<1>2. CASE Ring!Others(m) # {}
  <2>. DEFINE rest == Ring!(-)(transit, Ring!SetToBag({m}))
              answer == Ring!Datagram(type, m.dst, Ring!NextPeer(m), value)
  <2>1. transit' = Ring!(+)(rest, answer)
    BY <1>2 DEF Ring!PassOn
  <2>2. DOMAIN rest \subseteq DOMAIN transit
    BY RingBags
  <2>3. DOMAIN answer \subseteq
          {[type |-> type, src |-> m.dst, dst |-> Ring!NextPeer(m), value |-> value]}
    BY RingDatagram
  <2>. HIDE DEF rest, answer
  <2>4. DOMAIN transit' = DOMAIN rest \cup DOMAIN answer
    BY <2>1, RingBags
  <2>. QED  BY <1>2, <2>2, <2>3, <2>4
<1>. QED  BY <1>1, <1>2

LEMMA RingStep ==
  ASSUME RingInv, Ring!RingNext
  PROVE  RingInv'
<1>. USE DEF RingInv
<1>1. ASSUME NEW n \in RingNode, Polls(n), UNCHANGED ringVars
      PROVE  RingInv'
  <2>1. UNCHANGED <<nodes, transit, stopped, elected>>
    BY <1>1 DEF Polls, Ring!BeginPoll, Ring!PollInVain, Ring!Poll,
       Ring!connectionVars, ringVars
  <2>2. /\ phase' \in [RingNode -> Phases]
        /\ \A k \in RingNode : phase'[k] \in {"delayed", "begun"} =>
             \/ phase[k] \in {"delayed", "begun"}
             \/ k = n /\ Ring!ToSet(nodes[n]) = Beside[n]
    BY <1>1 DEF Polls, Ring!BeginPoll, Ring!PollInVain, Ring!Poll, Ring!Knows, Phases
  <2>3. Ring!ToSet(nodes[n]) = Beside[n] => nodes[n] # <<>>
    <3>1. Right[n] \in Beside[n]
      BY PlaceFacts DEF Beside
    <3>. QED  BY <3>1 DEF Ring!ToSet
  <2>4. \A m \in hellos' : m.dst \in RingNode /\ m.src \in Beside[m.dst]
    <3>1. hellos' \subseteq hellos \cup Ring!Hellos(n, "init")
      BY <1>1 DEF Polls, Ring!BeginPoll, Ring!PollInVain, Ring!Poll, Ring!connectionVars
    <3>2. \A q \in Beside[n] : q \in RingNode /\ n \in Beside[q]
      BY DEF Beside
    <3>3. \A m \in Ring!Hellos(n, "init") : m.src = n /\ m.dst \in Beside[n]
      BY DEF Ring!Hellos
    <3>. QED  BY <3>1, <3>2, <3>3
  <2>5. \A m \in DOMAIN transit' : OnItsWay(m)'
    BY <2>1 DEF OnItsWay
  <2>6. Ring!OnlyTheLargestIsElected'
    BY <2>1 DEF Ring!OnlyTheLargestIsElected
  <2>. QED  BY <2>1, <2>2, <2>3, <2>4, <2>5, <2>6
<1>2. ASSUME NEW n \in RingNode, Ring!End(n), UNCHANGED ringVars
      PROVE  RingInv'
  <2>1. /\ UNCHANGED <<nodes, phase, stopped, elected>>
        /\ hellos' \subseteq hellos /\ DOMAIN transit' \subseteq DOMAIN transit
    BY <1>2 DEF Ring!End, Ring!BagToSet, ringVars
  <2>. QED  BY <2>1 DEF OnItsWay, Ring!OnlyTheLargestIsElected
<1>3. ASSUME NEW m \in hellos, Ring!OnManualConnect(m), UNCHANGED ringVars
      PROVE  RingInv'
  <2>1. /\ UNCHANGED <<phase, transit, stopped, elected>>
        /\ hellos' \subseteq hellos
    BY <1>3 DEF Ring!OnManualConnect, ringVars
  <2>2. \/ nodes' = nodes
        \/ nodes' = [nodes EXCEPT ![m.dst] = Append(@, m.src)]
    BY <1>3 DEF Ring!OnManualConnect
  <2>3. /\ m.dst \in RingNode /\ m.src \in Beside[m.dst] /\ m.src \in RingNode
        /\ nodes[m.dst] \in Seq(RingNode)
    BY DEF Beside
  <2>4. ASSUME nodes' = [nodes EXCEPT ![m.dst] = Append(@, m.src)]
        PROVE  /\ nodes' \in [RingNode -> Seq(RingNode)]
               /\ \A n \in RingNode : \A i \in DOMAIN nodes'[n] : nodes'[n][i] \in Beside[n]
               /\ \A n \in RingNode : nodes[n] # <<>> => nodes'[n] # <<>>
    <3>1. /\ nodes' \in [RingNode -> Seq(RingNode)]
          /\ nodes'[m.dst] = Append(nodes[m.dst], m.src)
          /\ \A n \in RingNode \ {m.dst} : nodes'[n] = nodes[n]
      BY <2>3, <2>4
    <3>2. /\ nodes'[m.dst] # <<>>
          /\ \A i \in DOMAIN nodes'[m.dst] : nodes'[m.dst][i] \in Beside[m.dst]
      <4>. DEFINE list == nodes[m.dst]
                  longer == Append(list, m.src)
      <4>1. list \in Seq(RingNode) /\ m.src \in RingNode
        BY <2>3
      <4>. HIDE DEF list
      <4>2. /\ longer # <<>>
            /\ \A i \in DOMAIN longer :
                 longer[i] = m.src \/ (i \in DOMAIN list /\ longer[i] = list[i])
        <5>. HIDE DEF RingInv
        <5>1. longer # <<>>
          BY <4>1, Appended
        <5>2. \A i \in DOMAIN longer :
                longer[i] = m.src \/ (i \in DOMAIN list /\ longer[i] = list[i])
          BY <4>1, Appended
        <5>. QED  BY <5>1, <5>2
      <4>. HIDE DEF longer
      <4>3. nodes'[m.dst] = longer
        BY <3>1 DEF longer, list
      <4>. QED  BY <2>3, <4>2, <4>3 DEF list
    <3>. QED  BY <3>1, <3>2
  <2>. QED  BY <2>1, <2>2, <2>4 DEF OnItsWay, Ring!OnlyTheLargestIsElected
<1>4. ASSUME NEW n \in RingNode, Ring!OnStart(n)
      PROVE  RingInv'
  <2>1. /\ UNCHANGED <<hellos, nodes, stopped, elected>>
        /\ phase[n] = "delayed" /\ phase' = [phase EXCEPT ![n] = "begun"]
    BY <1>4 DEF Ring!OnStart, Ring!connectionVars
  <2>2. nodes[n][1] \in Beside[n]
    <3>1. nodes[n] \in Seq(RingNode) /\ nodes[n] # <<>>
      BY <2>1
    <3>2. 1 \in DOMAIN nodes[n]
      BY <3>1
    <3>. QED  BY <3>2
  <2>. DEFINE new == [type |-> "elect", src |-> n, dst |-> nodes[n][1], value |-> n]
  <2>3. DOMAIN transit' \subseteq DOMAIN transit \cup {new}
    <3>1. DOMAIN Ring!Datagram("elect", n, nodes[n][1], n) \subseteq {new}
      BY RingDatagram
    <3>2. \/ transit' = Ring!(+)(transit, Ring!Datagram("elect", n, nodes[n][1], n))
          \/ transit' = transit
      BY <1>4 DEF Ring!OnStart
    <3>. HIDE DEF new
    <3>3. DOMAIN Ring!(+)(transit, Ring!Datagram("elect", n, nodes[n][1], n)) =
            DOMAIN transit \cup DOMAIN Ring!Datagram("elect", n, nodes[n][1], n)
      BY RingBags
    <3>. QED  BY <3>1, <3>2, <3>3
  <2>4. OnItsWay(new)
    BY <2>2, BeginsAtItself DEF OnItsWay
  <2>5. \A m : OnItsWay(m) => OnItsWay(m)'
    BY <2>1 DEF OnItsWay
  <2>. HIDE DEF new
  <2>6. phase' \in [RingNode -> Phases]
    BY <2>1 DEF Phases
  <2>7. \A k \in RingNode : phase'[k] \in {"delayed", "begun"} => nodes'[k] # <<>>
    BY <2>1
  <2>8. \A m \in DOMAIN transit' : OnItsWay(m)'
    BY <2>3, <2>4, <2>5
  <2>. QED  BY <2>1, <2>6, <2>7, <2>8 DEF Ring!OnlyTheLargestIsElected
<1>5. ASSUME NEW m \in DOMAIN transit, Ring!OnMessage(m)
      PROVE  RingInv'
  <2>1. /\ UNCHANGED <<hellos, nodes, phase, stopped>>
        /\ m.type = "elect"
    BY <1>5 DEF Ring!OnMessage, Ring!connectionVars
  <2>2. /\ OnItsWay(m) /\ m.src \in RingNode /\ m.dst \in Beside[m.src] /\ m.value \in RingNode
        /\ NotPassed(m.src, m.dst, m.value)
        /\ m.dst \in RingNode /\ m.src \in Beside[m.dst]
    BY <2>1 DEF OnItsWay, Beside
  <2>3. /\ elected' \subseteq elected \cup {m.dst}
        /\ elected \subseteq elected'
        /\ m.dst \in elected' => m.dst \in elected \/ m.value = m.dst
    BY <1>5 DEF Ring!OnMessage
  <2>4. \A k \in DOMAIN transit' : OnItsWay(k)'
    <3>1. \A k : OnItsWay(k) => OnItsWay(k)'
      BY <2>3 DEF OnItsWay
    <3>2. CASE m.value = m.dst
      <4>1. /\ Ring!PassOn(m, "terminate", m.dst)
            /\ elected' = IF Ring!Others(m) = {} THEN elected ELSE elected \cup {m.dst}
        BY <1>5, <3>2 DEF Ring!OnMessage
      <4>2. ASSUME NEW k \in DOMAIN transit', k \notin DOMAIN transit
            PROVE  OnItsWay(k)'
        <5>1. /\ Ring!Others(m) # {}
              /\ k = [type |-> "terminate", src |-> m.dst, dst |-> Ring!NextPeer(m),
                      value |-> m.dst]
          BY <4>1, <4>2, AnswerIsNew
        <5>2. Ring!NextPeer(m) \in Beside[m.dst] /\ elected' # {}
          BY <2>2, <4>1, <5>1, NextIsOther
        <5>. QED  BY <2>2, <5>1, <5>2 DEF OnItsWay
      <4>. QED  BY <3>1, <4>2
    <3>3. CASE m.value # m.dst
      <4>. DEFINE larger == Ring!LargerOf(m.value, m.dst)
      <4>1. Ring!PassOn(m, "elect", larger)
        BY <1>5, <3>3 DEF Ring!OnMessage
      <4>2. ASSUME NEW k \in DOMAIN transit', k \notin DOMAIN transit
            PROVE  OnItsWay(k)'
        <5>1. /\ Ring!Others(m) # {}
              /\ k = [type |-> "elect", src |-> m.dst, dst |-> Ring!NextPeer(m),
                      value |-> larger]
          BY <4>1, <4>2, AnswerIsNew
        <5>2. Ring!NextPeer(m) \in Beside[m.dst] /\ Ring!NextPeer(m) # m.src
          BY <2>2, <5>1, NextIsOther
        <5>3. larger \in RingNode /\ NotPassed(m.dst, Ring!NextPeer(m), larger)
          BY <2>2, <3>3, <5>2, PassedOn
        <5>. QED  BY <2>2, <5>1, <5>2, <5>3 DEF OnItsWay
      <4>. QED  BY <3>1, <4>2
    <3>. QED  BY <3>2, <3>3
  <2>5. Ring!OnlyTheLargestIsElected'
    <3>1. m.value = m.dst => \A k \in RingNode : k <= m.dst
      BY <2>2, ComesBack
    <3>. QED  BY <2>1, <2>3, <3>1 DEF Ring!OnlyTheLargestIsElected
  <2>. QED  BY <2>1, <2>2, <2>3, <2>4, <2>5
<1>6. ASSUME NEW m \in DOMAIN transit, Ring!OnTerminate(m)
      PROVE  RingInv'
  <2>1. /\ UNCHANGED <<hellos, nodes, phase, elected>>
        /\ m.type = "terminate"
    BY <1>6 DEF Ring!OnTerminate, Ring!connectionVars
  <2>2. /\ elected # {} /\ m.src \in RingNode /\ m.dst \in RingNode
    BY <2>1 DEF OnItsWay, Beside
  <2>3. \A k : OnItsWay(k) => OnItsWay(k)'
    BY <2>1 DEF OnItsWay
  <2>4. ASSUME NEW k \in DOMAIN transit', k \notin DOMAIN transit
        PROVE  OnItsWay(k)'
    <3>1. Ring!PassOn(m, "terminate", m.value)
      BY <1>6, <2>4, RingBags DEF Ring!OnTerminate
    <3>2. /\ Ring!Others(m) # {}
          /\ k = [type |-> "terminate", src |-> m.dst, dst |-> Ring!NextPeer(m),
                  value |-> m.value]
      BY <2>4, <3>1, AnswerIsNew
    <3>3. Ring!NextPeer(m) \in Beside[m.dst]
      BY <2>2, <3>2, NextIsOther
    <3>. QED  BY <2>1, <2>2, <3>2, <3>3 DEF OnItsWay
  <2>. QED  BY <2>1, <2>2, <2>3, <2>4 DEF Ring!OnlyTheLargestIsElected
<1>. QED
  BY <1>1, <1>2, <1>3, <1>4, <1>5, <1>6
  DEF Ring!RingNext, Ring!Connect, Polls, Ring!BagToSet, ringVars

LEMMA InitRingInv == Ring!RingInit => RingInv
<1>1. DOMAIN Ring!EmptyBag = {}
  BY RingBags
<1>2. ASSUME Ring!RingInit
      PROVE  /\ nodes = [n \in RingNode |-> <<>>]
             /\ phase = [n \in RingNode |-> "connecting"]
             /\ hellos = {} /\ DOMAIN transit = {} /\ elected = {} /\ stopped = {}
  BY <1>1, <1>2 DEF Ring!RingInit, Ring!Init
<1>3. <<>> \in Seq(RingNode) /\ DOMAIN <<>> = {}
  OBVIOUS
<1>. QED  BY <1>2, <1>3 DEF RingInv, Phases, Ring!OnlyTheLargestIsElected

\* Only the largest id of the ring comes back to its node, whichever ways round
\* the elections go, and nobody stops before that.
THEOREM OnlyTheLargestOfTheRing ==
  ProgramsSpec => []RingOnlyTheLargest
<1>. DEFINE all == <<program, vars, templateVars, ringVars, counter,
                      layerVars, chainVars, wiringVars>>
            Inv == program = "ring_election" => RingInv
<1>1. ProgramsInit => Inv
  BY InitRingInv DEF ProgramsInit
<1>2. Inv /\ [ProgramsNext]_all => Inv'
  <2>1. UNCHANGED all => (Inv => Inv')
    BY DEF templateVars, ringVars, RingInv, OnItsWay, Ring!OnlyTheLargestIsElected
  <2>2. ProgramsNext => program' = program /\ (program = "ring_election" => Ring!RingNext)
    BY DEF ProgramsNext
  <2>. QED  BY <2>1, <2>2, RingStep
<1>3. Inv => RingOnlyTheLargest
  BY DEF RingInv, RingOnlyTheLargest
<1>. QED  BY <1>1, <1>2, <1>3, PTL DEF ProgramsSpec

-----------------------------------------------------------------------------
(***************************************************************************)
(* RingElection where all elections go the same way, which D stands for.   *)
(* W[a][b] are the steps from a to b along it.                             *)
(***************************************************************************)
RightWay == [n \in RingNode |-> Right[n]]
LeftWay == [n \in RingNode |-> CHOOSE k \in RingNode : Right[k] = n]

StepsRight == [a \in RingNode |-> [b \in RingNode |-> Way(a, b)]]
StepsLeft == [a \in RingNode |-> [b \in RingNode |-> Way(b, a)]]

Direction(D, W) ==
  /\ \A n \in RingNode :
       /\ D[n] \in RingNode
       /\ \E k \in RingNode : D[k] = n
       /\ \A k \in Beside[D[n]] : k # n => k = D[D[n]]
       /\ W[n][n] = 0
  /\ \A a, b \in RingNode :
       /\ W[a][b] \in 0..(N - 1)
       /\ \A c \in RingNode : W[a][b] = W[a][c] => b = c
       /\ D[b] # a => W[a][D[b]] = W[a][b] + 1
       /\ D[b] = a => W[a][b] = N - 1

LEMMA RightIsInjective ==
  /\ \A a, b \in RingNode : Right[a] = Right[b] => a = b
  /\ \A n \in RingNode : \E k \in RingNode : Right[k] = n
<1>1. ASSUME NEW a \in RingNode, NEW b \in RingNode, Right[a] = Right[b]
      PROVE  a = b
  <2>1. Way(Right[a], a) = N - 1 /\ Way(Right[a], b) = N - 1
    BY <1>1, WayFacts
  <2>. QED  BY <2>1, WayFacts, PlaceFacts
<1>. DEFINE f == [n \in RingNode |-> Right[n]]
<1>2. f \in Injection(RingNode, RingNode)
  <2>1. f \in [RingNode -> RingNode]
    BY PlaceFacts
  <2>2. \A a, b \in RingNode : f[a] = f[b] => a = b
    BY <1>1
  <2>. HIDE DEF f
  <2>. QED  BY <2>1, <2>2 DEF Injection, IsInjective
<1>3. f \in Surjection(RingNode, RingNode)
  <2>. HIDE DEF f
  <2>. QED  BY <1>2, RingAssumption, FS_Injection
<1>4. \A n \in RingNode : \E k \in RingNode : f[k] = n
  <2>. HIDE DEF f
  <2>. QED  BY <1>3 DEF Surjection
<1>. QED  BY <1>1, <1>4

LEMMA BothDirections ==
  Direction(RightWay, StepsRight) /\ Direction(LeftWay, StepsLeft)
<1>1. Direction(RightWay, StepsRight)
  <2>1. \A n \in RingNode : RightWay[n] = Right[n] /\ Right[n] \in RingNode
    BY PlaceFacts DEF RightWay
  <2>2. ASSUME NEW n \in RingNode
        PROVE  /\ RightWay[n] \in RingNode
               /\ \E k \in RingNode : RightWay[k] = n
               /\ \A k \in Beside[RightWay[n]] : k # n => k = RightWay[RightWay[n]]
               /\ StepsRight[n][n] = 0
    <3>1. \E k \in RingNode : RightWay[k] = n
      BY <2>1, RightIsInjective
    <3>2. ASSUME NEW k \in Beside[Right[n]], k # n
          PROVE  k = Right[Right[n]]
      <4>1. k \in RingNode /\ (k = Right[Right[n]] \/ Right[n] = Right[k])
        BY <2>1 DEF Beside
      <4>. QED  BY <3>2, <4>1, RightIsInjective
    <3>. QED  BY <2>1, <3>1, <3>2, WayFacts DEF StepsRight
  <2>3. ASSUME NEW a \in RingNode, NEW b \in RingNode
        PROVE  /\ StepsRight[a][b] \in 0..(N - 1)
               /\ \A c \in RingNode : StepsRight[a][b] = StepsRight[a][c] => b = c
               /\ RightWay[b] # a => StepsRight[a][RightWay[b]] = StepsRight[a][b] + 1
               /\ RightWay[b] = a => StepsRight[a][b] = N - 1
    <3>1. \A c \in RingNode : StepsRight[a][c] = Way(a, c)
      BY DEF StepsRight
    <3>. QED  BY <2>1, <3>1, WayFacts
  <2>. QED  BY <2>2, <2>3 DEF Direction
<1>2. Direction(LeftWay, StepsLeft)
  <2>1. ASSUME NEW n \in RingNode
        PROVE  /\ LeftWay[n] \in RingNode /\ Right[LeftWay[n]] = n
               /\ LeftWay[Right[n]] = n
    <3>1. LeftWay[n] \in RingNode /\ Right[LeftWay[n]] = n
      BY RightIsInjective DEF LeftWay
    <3>2. Right[n] \in RingNode
      BY PlaceFacts
    <3>3. LeftWay[Right[n]] \in RingNode /\ Right[LeftWay[Right[n]]] = Right[n]
      BY <3>2, RightIsInjective DEF LeftWay
    <3>. QED  BY <3>1, <3>3, RightIsInjective
  <2>2. ASSUME NEW n \in RingNode
        PROVE  /\ LeftWay[n] \in RingNode
               /\ \E k \in RingNode : LeftWay[k] = n
               /\ \A k \in Beside[LeftWay[n]] : k # n => k = LeftWay[LeftWay[n]]
               /\ StepsLeft[n][n] = 0
    <3>1. \E k \in RingNode : LeftWay[k] = n
      BY <2>1, PlaceFacts
    <3>2. ASSUME NEW k \in Beside[LeftWay[n]], k # n
          PROVE  k = LeftWay[LeftWay[n]]
      <4>1. k \in RingNode /\ (k = n \/ LeftWay[n] = Right[k])
        BY <2>1 DEF Beside
      <4>2. LeftWay[n] = Right[k]
        BY <4>1, <3>2
      <4>. QED  BY <2>1, <4>1, <4>2
    <3>. QED  BY <2>1, <3>1, <3>2, WayFacts DEF StepsLeft
  <2>3. ASSUME NEW a \in RingNode, NEW b \in RingNode
        PROVE  /\ StepsLeft[a][b] \in 0..(N - 1)
               /\ \A c \in RingNode : StepsLeft[a][b] = StepsLeft[a][c] => b = c
               /\ LeftWay[b] # a => StepsLeft[a][LeftWay[b]] = StepsLeft[a][b] + 1
               /\ LeftWay[b] = a => StepsLeft[a][b] = N - 1
    <3>. DEFINE d == LeftWay[b]
    <3>1. d \in RingNode /\ Right[d] = b
      BY <2>1
    <3>2. \A c \in RingNode : StepsLeft[a][c] = Way(c, a)
      BY DEF StepsLeft
    <3>. HIDE DEF d
    <3>3. d # a => Way(d, a) = Way(b, a) + 1
      BY <3>1, WayFacts
    <3>4. d = a => Way(b, a) = N - 1
      BY <3>1, WayFacts
    <3>. QED  BY <3>1, <3>2, <3>3, <3>4, WayFacts DEF d
  <2>. QED  BY <2>2, <2>3 DEF Direction
<1>. QED  BY <1>1, <1>2

-----------------------------------------------------------------------------
Going(D) == \A a, b \in RingNode : <<a, b>> \in begun => b = D[a]

Reached(n) == n \in running \cup stopped

\* The election has been to everyone between the owner of an id and the id.
Onward(D, W, m) ==
  /\ m.dst = D[m.src]
  /\ m.type = "elect" =>
       \A k \in RingNode :
         0 < W[m.value][k] /\ W[m.value][k] <= W[m.value][m.src] => Reached(k)

\* The news has come to the next node, or is on its way there.
Told(D, n) ==
  \/ D[n] \in stopped
  \/ \E m \in DOMAIN transit : m.type = "terminate" /\ m.dst = D[n]

OneWayInv(D, W) ==
  /\ ended \subseteq stopped /\ stopped \subseteq RingNode
  /\ \A m \in DOMAIN transit : transit[m] \in Nat \ {0}
  /\ (\E n \in RingNode : phase[n] = "begun") \/ running # {} =>
       elected # {} \/ \E m \in DOMAIN transit : m.type = "elect"
  /\ \A m \in DOMAIN transit : Onward(D, W, m)
  /\ elected # {} => \A k \in RingNode : Reached(k)
  /\ \A n \in elected \cup stopped : Told(D, n)

LEMMA BagOfOneLess ==
  ASSUME NEW B, \A e \in DOMAIN B : B[e] \in Nat \ {0}, NEW m \in DOMAIN B
  PROVE  LET rest == Ring!(-)(B, Ring!SetToBag({m})) IN
         /\ DOMAIN rest \subseteq DOMAIN B
         /\ DOMAIN B \ {m} \subseteq DOMAIN rest
         /\ \A e \in DOMAIN rest : rest[e] \in Nat \ {0}
<1>. DEFINE less == [e \in DOMAIN B |-> IF e \in {m} THEN B[e] - 1 ELSE B[e]]
            kept == {d \in DOMAIN less : less[d] > 0}
<1>1. Ring!SetToBag({m}) = [e \in {m} |-> 1]
  BY DEF Ring!SetToBag
<1>2. Ring!(-)(B, [e \in {m} |-> 1]) = [e \in kept |-> less[e]]
  <2>1. less = [e \in DOMAIN B |-> IF e \in DOMAIN [d \in {m} |-> 1]
                                  THEN B[e] - [d \in {m} |-> 1][e] ELSE B[e]]
    OBVIOUS
  <2>. QED  BY <2>1 DEF Ring!(-)
<1>3. \A e \in DOMAIN B : less[e] \in Nat /\ (e # m => less[e] > 0)
  OBVIOUS
<1>4. DOMAIN less = DOMAIN B
  OBVIOUS
<1>. HIDE DEF less
<1>5. \A e \in kept : less[e] \in Nat \ {0}
  BY <1>3, <1>4
<1>. QED  BY <1>1, <1>2, <1>3, <1>4, <1>5

LEMMA BagOfOneMore ==
  ASSUME NEW B, \A e \in DOMAIN B : B[e] \in Nat \ {0},
         NEW type, NEW src, NEW dst, NEW value
  PROVE  LET new == [type |-> type, src |-> src, dst |-> dst, value |-> value]
             more == Ring!(+)(B, Ring!Datagram(type, src, dst, value))
         IN
         /\ DOMAIN more = DOMAIN B \cup (IF dst \in ended THEN {} ELSE {new})
         /\ \A e \in DOMAIN more : more[e] \in Nat \ {0}
<1>. DEFINE new == [type |-> type, src |-> src, dst |-> dst, value |-> value]
            C == Ring!Datagram(type, src, dst, value)
            more == Ring!(+)(B, C)
<1>1. /\ DOMAIN C = IF dst \in ended THEN {} ELSE {new}
      /\ \A e \in DOMAIN C : C[e] = 1
  BY DEF Ring!Datagram, Ring!EmptyBag, Ring!SetToBag
<1>. HIDE DEF new, C
<1>2. /\ DOMAIN more = DOMAIN B \cup DOMAIN C
      /\ \A e \in DOMAIN B \cup DOMAIN C :
           more[e] = (IF e \in DOMAIN B THEN B[e] ELSE 0)
                       + (IF e \in DOMAIN C THEN C[e] ELSE 0)
  BY DEF Ring!(+)
<1>. HIDE DEF more
<1>3. \A e \in DOMAIN more : more[e] \in Nat \ {0}
  BY <1>1, <1>2
<1>. QED  BY <1>1, <1>2, <1>3 DEF new, C, more

LEMMA WhereItIs ==
  ASSUME NEW D, NEW W, Direction(D, W), RingInv, NEW m \in DOMAIN transit,
         Onward(D, W, m)
  PROVE  /\ OnItsWay(m) /\ m.dst = D[m.src]
         /\ m.src \in RingNode /\ m.dst \in RingNode
         /\ m.type = "elect" => m.value \in RingNode
         /\ m.type = "terminate" => elected # {}
<1>1. OnItsWay(m)
  BY DEF RingInv
<1>2. /\ m.src \in RingNode /\ m.dst = D[m.src]
      /\ m.type = "elect" => m.value \in RingNode
      /\ m.type = "terminate" => elected # {}
  BY <1>1 DEF OnItsWay, Onward
<1>. QED  BY <1>1, <1>2 DEF Direction

\* An answer goes on in the direction of the message, and takes its place.
LEMMA AnswerGoesOn ==
  ASSUME NEW D, NEW W, Direction(D, W), RingInv, OneWayInv(D, W),
         NEW m \in DOMAIN transit, NEW type, NEW value,
         Ring!PassOn(m, type, value), lost' = {}
  PROVE  LET new == [type |-> type, src |-> m.dst, dst |-> D[m.dst], value |-> value] IN
         /\ Ring!Others(m) # {}
         /\ DOMAIN transit \ {m} \subseteq DOMAIN transit'
         /\ DOMAIN transit' \subseteq DOMAIN transit \cup {new}
         /\ D[m.dst] \notin ended => new \in DOMAIN transit'
         /\ \A e \in DOMAIN transit' : transit'[e] \in Nat \ {0}
<1>. DEFINE rest == Ring!(-)(transit, Ring!SetToBag({m}))
            next == Ring!NextPeer(m)
            new == [type |-> type, src |-> m.dst, dst |-> D[m.dst], value |-> value]
<1>1. Ring!Others(m) # {}
  BY DEF Ring!PassOn
<1>2. transit' = Ring!(+)(rest, Ring!Datagram(type, m.dst, next, value))
  BY <1>1 DEF Ring!PassOn
<1>3. next = D[m.dst]
  <2>1. m.src \in RingNode /\ m.dst = D[m.src] /\ m.dst \in RingNode
    <3>1. Onward(D, W, m)
      BY DEF OneWayInv
    <3>. QED  BY <3>1, WhereItIs
  <2>2. next \in Beside[m.dst] /\ next # m.src
    BY <1>1, <2>1, NextIsOther
  <2>. HIDE DEF next
  <2>3. \A k \in Beside[D[m.src]] : k # m.src => k = D[D[m.src]]
    BY <2>1 DEF Direction
  <2>. QED  BY <2>1, <2>2, <2>3
<1>4. /\ DOMAIN rest \subseteq DOMAIN transit
      /\ DOMAIN transit \ {m} \subseteq DOMAIN rest
      /\ \A e \in DOMAIN rest : rest[e] \in Nat \ {0}
  BY BagOfOneLess DEF OneWayInv
<1>. HIDE DEF rest, next
<1>5. /\ DOMAIN transit' = DOMAIN rest \cup (IF D[m.dst] \in ended THEN {} ELSE {new})
      /\ \A e \in DOMAIN transit' : transit'[e] \in Nat \ {0}
  <2>. DEFINE more == Ring!(+)(rest, Ring!Datagram(type, m.dst, next, value))
  <2>1. /\ DOMAIN more = DOMAIN rest \cup (IF D[m.dst] \in ended THEN {} ELSE {new})
        /\ \A e \in DOMAIN more : more[e] \in Nat \ {0}
    <3>1. /\ DOMAIN more = DOMAIN rest \cup
               (IF next \in ended THEN {}
                ELSE {[type |-> type, src |-> m.dst, dst |-> next, value |-> value]})
          /\ \A e \in DOMAIN more : more[e] \in Nat \ {0}
      BY <1>4, BagOfOneMore
    <3>. HIDE DEF more
    <3>. QED  BY <1>3, <3>1
  <2>2. transit' = more
    BY <1>2
  <2>. HIDE DEF more, new
  <2>. QED  BY <2>1, <2>2
<1>. QED  BY <1>1, <1>4, <1>5

\* Nothing of what an election or its news leave behind is taken back.
LEMMA ReachedStays ==
  ASSUME running \cup stopped \subseteq running' \cup stopped', NEW n, Reached(n)
  PROVE  Reached(n)'
BY DEF Reached

LEMMA StaysOnward ==
  ASSUME NEW D, NEW W, NEW m, Onward(D, W, m),
         running \cup stopped \subseteq running' \cup stopped'
  PROVE  Onward(D, W, m)'
BY DEF Onward, Reached

\* A message of a node that the election has come to begins at the node itself,
\* or carries the id that came.
LEMMA GoesOnward ==
  ASSUME NEW D, NEW W, Direction(D, W), NEW m, OnItsWay(m), Onward(D, W, m),
         m.type = "elect", m.value # m.dst, Reached(m.dst)', m.dst \in RingNode,
         running \cup stopped \subseteq running' \cup stopped'
  PROVE  \A k \in RingNode :
           LET larger == Ring!LargerOf(m.value, m.dst) IN
           0 < W[larger][k] /\ W[larger][k] <= W[larger][m.dst] => Reached(k)'
<1>. DEFINE v == m.value
            larger == Ring!LargerOf(v, m.dst)
<1>1. /\ m.src \in RingNode /\ v \in RingNode /\ m.dst = D[m.src]
      /\ \A k \in RingNode : 0 < W[v][k] /\ W[v][k] <= W[v][m.src] => Reached(k)
  BY DEF OnItsWay, Onward
<1>. SUFFICES ASSUME NEW k \in RingNode, 0 < W[larger][k], W[larger][k] <= W[larger][m.dst]
              PROVE  Reached(k)'
  OBVIOUS
<1>2. N \in Nat
  BY PlaceFacts
<1>3. larger = v \/ larger = m.dst
  BY DEF Ring!LargerOf
<1>4. CASE larger = m.dst
  <2>1. W[m.dst][m.dst] = 0 /\ W[m.dst][k] \in Nat
    BY <1>2 DEF Direction
  <2>. HIDE DEF larger
  <2>. QED  BY <1>4, <2>1
<1>5. CASE larger = v
  <2>. HIDE DEF larger, v
  <2>. DEFINE u == m.src
  <2>1. /\ W[v][m.dst] = W[v][m.src] + 1
        /\ W[v][k] \in Nat /\ W[v][m.src] \in Nat
        /\ W[v][k] = W[v][m.dst] => k = m.dst
    <3>1. u \in RingNode /\ v \in RingNode /\ m.dst = D[u] /\ D[u] # v
      BY <1>1 DEF v
    <3>. HIDE DEF u
    <3>2. W[v][D[u]] = W[v][u] + 1
      BY <3>1 DEF Direction
    <3>3. W[v][k] \in 0..(N - 1) /\ W[v][u] \in 0..(N - 1)
      BY <3>1 DEF Direction
    <3>4. W[v][k] = W[v][m.dst] => k = m.dst
      BY <3>1 DEF Direction
    <3>. QED  BY <1>2, <3>1, <3>2, <3>3, <3>4 DEF u
  <2>2. k = m.dst \/ Reached(k)
    BY <1>1, <1>5, <2>1
  <2>. QED  BY <2>2, ReachedStays
<1>. QED  BY <1>3, <1>4, <1>5

\* No begun election and no lost message is forgotten.
LEMMA OnlyMore ==
  ASSUME Ring!RingNext
  PROVE  begun \subseteq begun' /\ lost \subseteq lost'
<1>1. ASSUME NEW m, Ring!OnMessage(m) \/ Ring!OnTerminate(m)
      PROVE  begun' = begun /\ lost \subseteq lost'
  BY <1>1 DEF Ring!OnMessage, Ring!OnTerminate, Ring!PassOn
<1>2. ASSUME NEW n, Ring!OnStart(n)
      PROVE  begun \subseteq begun' /\ lost' = lost
  BY <1>2 DEF Ring!OnStart
<1>. QED  BY <1>1, <1>2 DEF Ring!RingNext, ringVars

LEMMA OneWayStep ==
  ASSUME NEW D, NEW W, Direction(D, W), RingInv, RingInv', OneWayInv(D, W),
         Ring!RingNext, Going(D)', lost' = {}
  PROVE  OneWayInv(D, W)'
<1>1. /\ stopped # {} => elected # {}
      /\ stopped' # {} => elected' # {}
      /\ nodes \in [RingNode -> Seq(RingNode)]
  BY DEF RingInv, Ring!OnlyTheLargestIsElected
<1>2. /\ ended \subseteq stopped /\ stopped \subseteq RingNode
      /\ \A m \in DOMAIN transit : transit[m] \in Nat \ {0}
      /\ (\E n \in RingNode : phase[n] = "begun") \/ running # {} =>
           elected # {} \/ \E m \in DOMAIN transit : m.type = "elect"
      /\ \A m \in DOMAIN transit : Onward(D, W, m)
      /\ elected # {} => \A k \in RingNode : Reached(k)
      /\ \A n \in elected \cup stopped : Told(D, n)
  BY DEF OneWayInv
<1>3. ASSUME UNCHANGED <<ended, stopped, running, elected, transit>>,
             \A n \in RingNode : phase'[n] = "begun" => phase[n] = "begun"
      PROVE  OneWayInv(D, W)'
  BY <1>2, <1>3 DEF OneWayInv, Onward, Told, Reached
<1>4. ASSUME NEW n \in RingNode, Polls(n), UNCHANGED ringVars
      PROVE  OneWayInv(D, W)'
  <2>1. /\ UNCHANGED <<ended, stopped, running, elected, transit>>
        /\ \E p \in {"connecting", "polling", "delayed"} : phase' = [phase EXCEPT ![n] = p]
    BY <1>4 DEF Polls, Ring!BeginPoll, Ring!PollInVain, Ring!Poll,
       Ring!connectionVars, ringVars
  <2>2. phase \in [RingNode -> Phases]
    BY DEF RingInv
  <2>3. \A k \in RingNode : phase'[k] = "begun" => phase[k] = "begun"
    BY <2>1, <2>2
  <2>. QED  BY <1>3, <2>1, <2>3
<1>5. ASSUME NEW n \in RingNode, Ring!End(n), UNCHANGED ringVars
      PROVE  OneWayInv(D, W)'
  <2>1. /\ n \in stopped /\ ended' = ended \cup {n}
        /\ UNCHANGED <<phase, stopped, running, elected>>
    BY <1>5 DEF Ring!End, ringVars
  <2>2. /\ DOMAIN transit' = {k \in DOMAIN transit : k.dst # n}
        /\ \A k \in DOMAIN transit' : transit'[k] = transit[k]
    BY <1>5 DEF Ring!End, Ring!BagToSet
  <2>3. \A k \in elected \cup stopped : Told(D, k)'
    BY <1>2, <2>1, <2>2 DEF Told
  <2>4. \A m \in DOMAIN transit' : Onward(D, W, m)'
    BY <1>2, <2>1, <2>2, StaysOnward
  <2>5. elected' # {} => \A k \in RingNode : Reached(k)'
    BY <1>2, <2>1 DEF Reached
  <2>. QED  BY <1>1, <1>2, <2>1, <2>2, <2>3, <2>4, <2>5 DEF OneWayInv
<1>6. ASSUME NEW m \in hellos, Ring!OnManualConnect(m), UNCHANGED ringVars
      PROVE  OneWayInv(D, W)'
  BY <1>3, <1>6 DEF Ring!OnManualConnect, ringVars
<1>7. ASSUME NEW n \in RingNode, Ring!OnStart(n)
      PROVE  OneWayInv(D, W)'
  <2>1. UNCHANGED <<stopped, ended, running, elected>>
    BY <1>7 DEF Ring!OnStart
  <2>2. CASE n \in running
    <3>1. transit' = transit
      BY <1>7, <2>2 DEF Ring!OnStart
    <3>. QED  BY <1>2, <2>1, <2>2, <3>1 DEF OneWayInv, Onward, Told, Reached
  <2>3. CASE n \notin running
    <3>. DEFINE new == [type |-> "elect", src |-> n, dst |-> nodes[n][1], value |-> n]
    <3>1. /\ transit' = Ring!(+)(transit, Ring!Datagram("elect", n, nodes[n][1], n))
          /\ begun' = begun \cup {<<n, nodes[n][1]>>}
          /\ nodes[n] # <<>>
      BY <1>7, <2>3 DEF Ring!OnStart, RingInv
    <3>2. nodes[n][1] = D[n]
      <4>1. nodes[n] \in Seq(RingNode) /\ nodes[n] # <<>>
        BY <1>1, <3>1
      <4>2. nodes[n][1] \in RingNode
        <5>. DEFINE list == nodes[n]
        <5>. HIDE DEF list
        <5>1. 1 \in DOMAIN list /\ list \in Seq(RingNode)
          BY <4>1, FirstOfLine DEF list
        <5>2. list[1] \in RingNode
          BY <5>1
        <5>. QED  BY <5>2 DEF list
      <4>. QED  BY <3>1, <4>2 DEF Going
    <3>3. /\ DOMAIN transit' =
               DOMAIN transit \cup (IF D[n] \in ended THEN {} ELSE {new})
          /\ \A e \in DOMAIN transit' : transit'[e] \in Nat \ {0}
      <4>. DEFINE more == Ring!(+)(transit, Ring!Datagram("elect", n, nodes[n][1], n))
      <4>1. /\ DOMAIN more = DOMAIN transit \cup
                 (IF nodes[n][1] \in ended THEN {} ELSE {new})
            /\ \A e \in DOMAIN more : more[e] \in Nat \ {0}
        BY <1>2, BagOfOneMore
      <4>. HIDE DEF more, new
      <4>2. transit' = more
        BY <3>1 DEF more
      <4>. QED  BY <3>2, <4>1, <4>2
    <3>4. new.type = "elect" /\ new.src = n /\ new.dst = D[n] /\ new.value = n
      BY <3>2
    <3>. HIDE DEF new
    <3>5. ASSUME NEW m, m = new  PROVE Onward(D, W, m)'
      <4>1. W[n][n] = 0 /\ N \in Nat /\ \A k \in RingNode : W[n][k] \in 0..(N - 1)
        BY PlaceFacts DEF Direction
      <4>2. \A k \in RingNode : ~(0 < W[n][k] /\ W[n][k] <= W[n][n])
        BY <4>1
      <4>. QED  BY <3>4, <3>5, <4>2 DEF Onward
    <3>6. \A m \in DOMAIN transit' : Onward(D, W, m)'
      BY <1>2, <2>1, <3>3, <3>5, StaysOnward
    <3>7. elected' # {} \/ \E m \in DOMAIN transit' : m.type = "elect"
      BY <1>1, <1>2, <2>1, <3>3, <3>4
    <3>8. \A k \in elected' \cup stopped' : Told(D, k)'
      BY <1>2, <2>1, <3>3 DEF Told
    <3>9. elected' # {} => \A k \in RingNode : Reached(k)'
      BY <1>2, <2>1 DEF Reached
    <3>. QED  BY <1>2, <2>1, <3>3, <3>6, <3>7, <3>8, <3>9 DEF OneWayInv
  <2>. QED  BY <2>2, <2>3
<1>8. ASSUME NEW m \in DOMAIN transit, Ring!OnMessage(m)
      PROVE  OneWayInv(D, W)'
  <2>1. /\ m.type = "elect" /\ running' = running \cup {m.dst}
        /\ UNCHANGED <<phase, stopped, ended>>
    BY <1>8 DEF Ring!OnMessage
  <2>2. /\ OnItsWay(m) /\ Onward(D, W, m) /\ m.dst = D[m.src]
        /\ m.src \in RingNode /\ m.dst \in RingNode /\ m.value \in RingNode
    <3>1. Onward(D, W, m)
      BY <1>2
    <3>. QED  BY <2>1, <3>1, WhereItIs
  <2>3. running \cup stopped \subseteq running' \cup stopped' /\ Reached(m.dst)'
    BY <2>1 DEF Reached
  <2>4. CASE m.value = m.dst
    <3>. DEFINE new == [type |-> "terminate", src |-> m.dst, dst |-> D[m.dst],
                        value |-> m.dst]
    <3>1. Ring!PassOn(m, "terminate", m.dst)
      BY <1>8, <2>4 DEF Ring!OnMessage
    <3>2. /\ Ring!Others(m) # {}
          /\ DOMAIN transit \ {m} \subseteq DOMAIN transit'
          /\ DOMAIN transit' \subseteq DOMAIN transit \cup {new}
          /\ D[m.dst] \notin ended => new \in DOMAIN transit'
          /\ \A e \in DOMAIN transit' : transit'[e] \in Nat \ {0}
      BY <3>1, AnswerGoesOn
    <3>3. elected' = elected \cup {m.dst}
      BY <1>8, <2>4, <3>2 DEF Ring!OnMessage
    <3>4. new.type = "terminate" /\ new.src = m.dst /\ new.dst = D[m.dst]
      OBVIOUS
    <3>. HIDE DEF new
    <3>5. \A k \in DOMAIN transit' : Onward(D, W, k)'
      <4>1. Onward(D, W, new)'
        BY <3>4 DEF Onward
      <4>. QED  BY <1>2, <2>3, <3>2, <4>1, StaysOnward
    <3>6. \A k \in RingNode : Reached(k)'
      <4>. DEFINE v == m.value
      <4>1. /\ W[v][m.src] = N - 1 /\ W[v][v] = 0 /\ N \in Nat
            /\ \A k \in RingNode : W[v][k] \in 0..(N - 1) /\ (W[v][v] = W[v][k] => v = k)
        <5>1. v \in RingNode /\ m.src \in RingNode /\ D[m.src] = v
          BY <2>2, <2>4
        <5>. HIDE DEF v
        <5>2. W[v][m.src] = N - 1 /\ W[v][v] = 0
          BY <5>1 DEF Direction
        <5>3. \A k \in RingNode : W[v][k] \in 0..(N - 1) /\ (W[v][v] = W[v][k] => v = k)
          BY <5>1 DEF Direction
        <5>. QED  BY <5>2, <5>3, PlaceFacts
      <4>2. \A k \in RingNode :
              0 < W[v][k] /\ W[v][k] <= W[v][m.src] => Reached(k)
        BY <2>1, <2>2 DEF Onward
      <4>. HIDE DEF v
      <4>3. \A k \in RingNode : k # v => Reached(k)
        BY <4>1, <4>2
      <4>. QED  BY <2>3, <2>4, <4>3, ReachedStays DEF v
    <3>7. \A k \in elected' \cup stopped' : Told(D, k)'
      <4>1. Told(D, m.dst)'
        BY <1>2, <2>1, <3>2, <3>4 DEF Told
      <4>2. \A k \in elected \cup stopped : Told(D, k)'
        BY <1>2, <2>1, <3>2 DEF Told
      <4>. QED  BY <2>1, <3>3, <4>1, <4>2
    <3>8. elected' # {} /\ ended' \subseteq stopped' /\ stopped' \subseteq RingNode
      BY <1>2, <2>1, <3>3
    <3>. QED  BY <3>2, <3>5, <3>6, <3>7, <3>8 DEF OneWayInv
  <2>5. CASE m.value # m.dst
    <3>. DEFINE larger == Ring!LargerOf(m.value, m.dst)
                new == [type |-> "elect", src |-> m.dst, dst |-> D[m.dst],
                        value |-> larger]
    <3>1. Ring!PassOn(m, "elect", larger) /\ elected' = elected
      BY <1>8, <2>5 DEF Ring!OnMessage
    <3>. HIDE DEF larger
    <3>2. /\ DOMAIN transit \ {m} \subseteq DOMAIN transit'
          /\ DOMAIN transit' \subseteq DOMAIN transit \cup {new}
          /\ D[m.dst] \notin ended => new \in DOMAIN transit'
          /\ \A e \in DOMAIN transit' : transit'[e] \in Nat \ {0}
      BY <3>1, AnswerGoesOn
    <3>3. /\ new.type = "elect" /\ new.src = m.dst /\ new.dst = D[m.dst]
          /\ new.value = larger
      OBVIOUS
    <3>. HIDE DEF new
    <3>4. Onward(D, W, new)'
      <4>1. \A k \in RingNode : 0 < W[larger][k] /\ W[larger][k] <= W[larger][m.dst]
              => Reached(k)'
        BY <2>1, <2>2, <2>3, <2>5, GoesOnward DEF larger
      <4>2. \A k \in RingNode :
              0 < W[new.value][k] /\ W[new.value][k] <= W[new.value][new.src]
                => Reached(k)'
        BY <3>3, <4>1
      <4>. QED  BY <3>3, <4>2 DEF Onward
    <3>5. \A k \in DOMAIN transit' : Onward(D, W, k)'
      BY <1>2, <2>3, <3>2, <3>4, StaysOnward
    <3>6. elected' # {} => \A k \in RingNode : Reached(k)'
      BY <1>2, <2>3, <3>1, ReachedStays
    <3>7. \A k \in elected' \cup stopped' : Told(D, k)'
      BY <1>2, <2>1, <3>1, <3>2 DEF Told
    <3>8. elected' # {} \/ \E k \in DOMAIN transit' : k.type = "elect"
      BY <1>1, <1>2, <3>1, <3>2, <3>3
    <3>9. ended' \subseteq stopped' /\ stopped' \subseteq RingNode
      BY <1>2, <2>1
    <3>. QED  BY <3>2, <3>5, <3>6, <3>7, <3>8, <3>9 DEF OneWayInv
  <2>. QED  BY <2>4, <2>5
<1>9. ASSUME NEW m \in DOMAIN transit, Ring!OnTerminate(m)
      PROVE  OneWayInv(D, W)'
  <2>1. /\ m.type = "terminate"
        /\ UNCHANGED <<phase, ended, elected>>
    BY <1>9 DEF Ring!OnTerminate
  <2>2. /\ elected # {} /\ elected' # {} /\ m.dst = D[m.src]
        /\ m.src \in RingNode /\ m.dst \in RingNode
    <3>1. Onward(D, W, m)
      BY <1>2
    <3>. QED  BY <2>1, <3>1, WhereItIs
  <2>3. CASE m.dst \in running
    <3>. DEFINE new == [type |-> "terminate", src |-> m.dst, dst |-> D[m.dst],
                        value |-> m.value]
    <3>1. Ring!PassOn(m, "terminate", m.value)
      BY <1>9, <2>3 DEF Ring!OnTerminate
    <3>2. /\ Ring!Others(m) # {}
          /\ DOMAIN transit \ {m} \subseteq DOMAIN transit'
          /\ DOMAIN transit' \subseteq DOMAIN transit \cup {new}
          /\ D[m.dst] \notin ended => new \in DOMAIN transit'
          /\ \A e \in DOMAIN transit' : transit'[e] \in Nat \ {0}
      BY <3>1, AnswerGoesOn
    <3>3. running' = running \ {m.dst} /\ stopped' = stopped \cup {m.dst}
      BY <1>9, <2>3, <3>2 DEF Ring!OnTerminate
    <3>4. new.type = "terminate" /\ new.src = m.dst /\ new.dst = D[m.dst]
      OBVIOUS
    <3>. HIDE DEF new
    <3>5. running \cup stopped \subseteq running' \cup stopped'
      BY <3>3
    <3>6. \A k \in DOMAIN transit' : Onward(D, W, k)'
      <4>1. Onward(D, W, new)'
        BY <3>4 DEF Onward
      <4>. QED  BY <1>2, <3>2, <3>5, <4>1, StaysOnward
    <3>7. \A k \in RingNode : Reached(k)'
      BY <1>2, <2>2, <3>5, ReachedStays
    <3>8. \A k \in elected' \cup stopped' : Told(D, k)'
      <4>1. Told(D, m.dst)'
        BY <1>2, <2>1, <3>2, <3>3, <3>4 DEF Told
      <4>2. \A k \in elected \cup stopped : Told(D, k)'
        BY <1>2, <2>1, <3>2, <3>3 DEF Told
      <4>. QED  BY <2>1, <3>3, <4>1, <4>2
    <3>9. ended' \subseteq stopped' /\ stopped' \subseteq RingNode
      BY <1>2, <2>1, <2>2, <3>3
    <3>. QED  BY <2>2, <3>2, <3>6, <3>7, <3>8, <3>9 DEF OneWayInv
  <2>4. CASE m.dst \notin running
    <3>. DEFINE rest == Ring!(-)(transit, Ring!SetToBag({m}))
    <3>1. transit' = rest /\ UNCHANGED <<running, stopped>>
      BY <1>9, <2>4 DEF Ring!OnTerminate
    <3>2. /\ DOMAIN rest \subseteq DOMAIN transit
          /\ DOMAIN transit \ {m} \subseteq DOMAIN rest
          /\ \A e \in DOMAIN rest : rest[e] \in Nat \ {0}
      BY <1>2, BagOfOneLess
    <3>. HIDE DEF rest
    <3>3. m.dst \in stopped
      BY <1>2, <2>2, <2>4 DEF Reached
    <3>4. \A k \in elected' \cup stopped' : Told(D, k)'
      BY <1>2, <2>1, <3>1, <3>2, <3>3 DEF Told
    <3>5. \A k \in DOMAIN transit' : Onward(D, W, k)'
      BY <1>2, <3>1, <3>2, StaysOnward
    <3>6. \A k \in RingNode : Reached(k)'
      BY <1>2, <2>2, <3>1 DEF Reached
    <3>. QED  BY <1>2, <2>1, <2>2, <3>1, <3>2, <3>4, <3>5, <3>6 DEF OneWayInv
  <2>. QED  BY <2>3, <2>4
<1>. QED
  BY <1>4, <1>5, <1>6, <1>7, <1>8, <1>9
  DEF Ring!RingNext, Ring!Connect, Polls, Ring!BagToSet, ringVars

\* When all is quiet the news has gone the whole way round.
LEMMA NewsGoesRound ==
  ASSUME NEW D, NEW W, Direction(D, W), RingInv, OneWayInv(D, W), Ring!Quiet
  PROVE  stopped = RingNode
<1>1. DOMAIN transit = {} /\ \A n \in RingNode \ ended : phase[n] = "begun"
  BY RingBags DEF Ring!Quiet
<1>2. ended \subseteq stopped /\ stopped \subseteq RingNode
  BY DEF OneWayInv
<1>. SUFFICES ASSUME NEW n \in RingNode, n \notin stopped  PROVE FALSE
  BY <1>2
<1>3. elected # {}
  BY <1>1, <1>2 DEF OneWayInv
<1>4. PICK e \in RingNode : e \in elected
  BY <1>3 DEF RingInv
<1>5. \A k \in elected \cup stopped : D[k] \in stopped
  BY <1>1 DEF OneWayInv, Told
<1>. DEFINE Far == {W[e][k] : k \in {q \in RingNode \ {e} : q \notin stopped}}
<1>6. \A k \in RingNode : W[e][k] \in Nat
  BY <1>4, PlaceFacts DEF Direction
<1>7. ASSUME NEW q \in RingNode, q \notin stopped, q # e  PROVE FALSE
  <2>1. Far \in SUBSET Nat /\ Far # {}
    BY <1>6, <1>7
  <2>2. PICK k \in RingNode : /\ k # e /\ k \notin stopped
                              /\ \A i \in Far : W[e][k] <= i
    <3>. HIDE DEF Far
    <3>1. PICK i \in Far : \A j \in Far : i <= j
      BY <2>1, LeastOf
    <3>. QED  BY <3>1 DEF Far
  <2>3. PICK p \in RingNode : D[p] = k
    BY DEF Direction
  <2>4. W[e][k] = W[e][p] + 1
    BY <1>4, <2>2, <2>3 DEF Direction
  <2>5. p \notin elected \cup stopped
    BY <1>5, <2>2, <2>3
  <2>6. W[e][p] \in Far
    BY <1>4, <2>5
  <2>. HIDE DEF Far
  <2>. QED  BY <1>6, <2>2, <2>4, <2>6
<1>8. n = e
  BY <1>7
<1>9. PICK p \in RingNode : D[p] = e
  BY DEF Direction
<1>10. p \notin stopped
  BY <1>5, <1>8, <1>9
<1>11. p # e
  <2>1. p = e => D[e] \in stopped
    BY <1>4, <1>5
  <2>. QED  BY <1>8, <1>9, <2>1
<1>. QED  BY <1>7, <1>10, <1>11

\* If all elections go the same way round and no message meets a node that knows
\* only its sender, everybody has stopped when all is quiet, however late it has
\* begun (ring_election.py:41-74).
THEOREM OneWayStops ==
  ProgramsSpec => []RingOneWayStops
<1>. DEFINE all == <<program, vars, templateVars, ringVars, counter,
                      layerVars, chainVars, wiringVars>>
            Same(D, W) == Going(D) /\ lost = {} => OneWayInv(D, W)
            Inv == program = "ring_election" =>
                     /\ RingInv
                     /\ Same(RightWay, StepsRight) /\ Same(LeftWay, StepsLeft)
<1>1. ProgramsInit => Inv
  <2>1. ASSUME Ring!RingInit, NEW D, NEW W  PROVE OneWayInv(D, W)
    <3>1. /\ DOMAIN transit = {} /\ elected = {} /\ stopped = {} /\ ended = {}
          /\ running = {} /\ \A n \in RingNode : phase[n] = "connecting"
      BY <2>1, RingBags DEF Ring!RingInit, Ring!Init
    <3>. QED  BY <3>1 DEF OneWayInv
  <2>. QED  BY <2>1, InitRingInv DEF ProgramsInit
<1>2. Inv /\ [ProgramsNext]_all => Inv'
  <2>1. ASSUME NEW D, NEW W, Direction(D, W), RingInv, RingInv', Same(D, W),
               Ring!RingNext
        PROVE  Same(D, W)'
    <3>1. begun \subseteq begun' /\ lost \subseteq lost'
      BY <2>1, OnlyMore
    <3>2. Going(D)' => Going(D)
      BY <3>1 DEF Going
    <3>. QED  BY <2>1, <3>1, <3>2, OneWayStep
  <2>2. ASSUME NEW D, NEW W, Same(D, W), UNCHANGED all
        PROVE  Same(D, W)'
    BY <2>2 DEF templateVars, ringVars, OneWayInv, Onward, Told, Reached, Going
  <2>3. UNCHANGED all => (RingInv => RingInv') /\ program' = program
    BY DEF templateVars, ringVars, RingInv, OnItsWay, Ring!OnlyTheLargestIsElected
  <2>4. ProgramsNext => program' = program /\ (program = "ring_election" => Ring!RingNext)
    BY DEF ProgramsNext
  <2>5. ASSUME RingInv, Ring!RingNext,
               Same(RightWay, StepsRight), Same(LeftWay, StepsLeft)
        PROVE  RingInv' /\ Same(RightWay, StepsRight)' /\ Same(LeftWay, StepsLeft)'
    BY <2>1, <2>5, RingStep, BothDirections
  <2>. HIDE DEF Same
  <2>. QED  BY <2>2, <2>3, <2>4, <2>5
<1>3. Inv => RingOneWayStops
  <2>. SUFFICES ASSUME RingInv, Same(RightWay, StepsRight), Same(LeftWay, StepsLeft),
                       Ring!Quiet, Ring!OneWay, lost = {}
                PROVE  stopped = RingNode
    BY DEF RingOneWayStops, Ring!OneWayElectionStops
  <2>1. CASE \A b \in begun : b[2] = Right[b[1]]
    <3>1. Going(RightWay)
      BY <2>1 DEF Going, RightWay
    <3>. QED  BY <3>1, BothDirections, NewsGoesRound
  <2>2. CASE \A b \in begun : b[1] = Right[b[2]]
    <3>1. ASSUME NEW a \in RingNode, NEW b \in RingNode, <<a, b>> \in begun
          PROVE  b = LeftWay[a]
      <4>1. Right[b] = a
        BY <2>2, <3>1
      <4>. QED  BY <4>1, RightIsInjective DEF LeftWay
    <3>2. Going(LeftWay)
      BY <3>1 DEF Going
    <3>. QED  BY <3>2, BothDirections, NewsGoesRound
  <2>. QED  BY <2>1, <2>2 DEF Ring!OneWay
<1>. QED  BY <1>1, <1>2, <1>3, PTL DEF ProgramsSpec

-----------------------------------------------------------------------------
(***************************************************************************)
(* MessageChain: for any two peers a and b of the initiator there is       *)
(* always a chain on its way round the initiator, a and b, and whoever it  *)
(* has come to with enough hops stops.                                     *)
(***************************************************************************)
LEMMA LastIsTold ==
  ASSUME NEW c \in Seq(Peer), NEW d \in Seq(Peer), NEW n \in Peer, NEW k \in Peer,
         Append(c, n) = Append(d, k)
  PROVE  c = d /\ n = k
<1>1. /\ Len(c) \in Nat /\ Len(d) \in Nat
      /\ Len(Append(c, n)) = Len(c) + 1 /\ Len(Append(d, k)) = Len(d) + 1
  OBVIOUS
<1>2. Len(c) = Len(d)
  BY <1>1
<1>3. Append(c, n)[Len(c) + 1] = n /\ Append(d, k)[Len(d) + 1] = k
  OBVIOUS
<1>4. \A i \in 1..Len(c) : Append(c, n)[i] = c[i] /\ Append(d, k)[i] = d[i]
  BY <1>2
<1>5. \A i \in 1..Len(c) : c[i] = d[i]
  BY <1>4
<1>. QED  BY <1>2, <1>3, <1>5

\* Whose signature is the p-th message on the way round goes to.
Spot(a, b, p) == IF p % 3 = 1 THEN a ELSE IF p % 3 = 2 THEN b ELSE Initiator

Stops(n) == n \in terminated \/ [at |-> n, stops |-> TRUE] \in loops

OnTheWayRound(a, b, m) ==
  /\ m.dst = Spot(a, b, Len(m.chain))
  /\ m.src = Spot(a, b, Len(m.chain) - 1)
  /\ \A p \in 1..(Len(m.chain) - 1) : p >= MaxHops => Stops(Spot(a, b, p))

\* A chain in transit was signed last by its sender and has not been received,
\* and where a node has signed it had received what it signed.
ChainInv ==
  /\ received \in [Peer -> SUBSET Seq(Peer)]
  /\ \A m \in chains :
       /\ m \in [src : Peer, dst : Peer, chain : Seq(Peer)]
       /\ m.chain \notin received[m.dst]
       /\ \E c \in Seq(Peer) : m.chain = Append(c, m.src)
       /\ \A c \in Seq(Peer) \ {<<>>}, n \in Peer :
            m.chain = Append(c, n) => c \in received[n]
  /\ \A q \in Peer, c \in Seq(Peer) \ {<<>>}, n \in Peer :
       Append(c, n) \in received[q] => c \in received[n]
  /\ terminated \subseteq Peer /\ \A t \in loops : t.at \in Peer
  /\ ~started => chains = {} /\ received = [n \in Peer |-> {}]
  /\ started => Stops(Initiator)
  /\ chainLost \in BOOLEAN
  /\ started /\ ~chainLost =>
       \A a, b \in Peer \ {Initiator} :
         a # b => \E m \in chains : OnTheWayRound(a, b, m)

LEMMA RoundAndRound ==
  ASSUME NEW a \in Peer \ {Initiator}, NEW b \in Peer \ {Initiator}, a # b,
         NEW p \in Nat \ {0}
  PROVE  /\ Spot(a, b, p) \in Peer /\ Spot(a, b, p + 1) \in Peer
         /\ Spot(a, b, p + 1) # Spot(a, b, p)
         /\ Spot(a, b, p + 1) # Spot(a, b, p - 1)
<1>1. \/ p % 3 = 0 /\ (p + 1) % 3 = 1 /\ (p - 1) % 3 = 2
      \/ p % 3 = 1 /\ (p + 1) % 3 = 2 /\ (p - 1) % 3 = 0
      \/ p % 3 = 2 /\ (p + 1) % 3 = 0 /\ (p - 1) % 3 = 1
  OBVIOUS
<1>. QED  BY <1>1, ExamplesAssumption DEF Spot

LEMMA ChainStart ==
  ASSUME ChainInv, Chain!OnStart
  PROVE  ChainInv'
<1>. DEFINE first == <<Initiator>>
<1>1. /\ ~started /\ started' = TRUE /\ chains = {} /\ received = [n \in Peer |-> {}]
      /\ chains' = {[src |-> Initiator, dst |-> q, chain |-> first] :
                      q \in Peer \ {Initiator}}
      /\ loops' = loops \cup {[at |-> Initiator, stops |-> TRUE]}
      /\ received' = received /\ chainLost' = chainLost
  BY DEF Chain!OnStart, ChainInv
<1>2. /\ Initiator \in Peer /\ first \in Seq(Peer) /\ Len(first) = 1
      /\ <<>> \in Seq(Peer) /\ first = Append(<<>>, Initiator)
  BY ExamplesAssumption
<1>3. \A c \in Seq(Peer), n \in Peer : first = Append(c, n) => c = <<>>
  BY <1>2, LastIsTold
<1>. HIDE DEF first
<1>4. ASSUME NEW a \in Peer \ {Initiator}, NEW b \in Peer \ {Initiator}
      PROVE  \E m \in chains' : OnTheWayRound(a, b, m)'
  <2>. DEFINE m == [src |-> Initiator, dst |-> a, chain |-> first]
  <2>1. m \in chains'
    BY <1>1
  <2>2. m.dst = Spot(a, b, 1) /\ m.src = Spot(a, b, 0)
    BY DEF Spot
  <2>3. /\ m.chain = first /\ Len(m.chain) = 1
        /\ m.dst = Spot(a, b, Len(m.chain)) /\ m.src = Spot(a, b, Len(m.chain) - 1)
        /\ 1..(Len(m.chain) - 1) = {}
    BY <1>2, <2>2
  <2>. HIDE DEF m
  <2>. QED  BY <2>1, <2>3 DEF OnTheWayRound
<1>5. Stops(Initiator)'
  BY <1>1 DEF Stops
<1>6. \A m \in chains' :
        /\ m \in [src : Peer, dst : Peer, chain : Seq(Peer)]
        /\ m.chain = first /\ m.src = Initiator
  <2>1. ASSUME NEW m \in chains'
        PROVE  /\ m \in [src : Peer, dst : Peer, chain : Seq(Peer)]
               /\ m.chain = first /\ m.src = Initiator
    <3>1. PICK q \in Peer : m = [src |-> Initiator, dst |-> q, chain |-> first]
      BY <1>1, <2>1
    <3>. QED  BY <1>2, <3>1
  <2>. QED  BY <2>1
<1>7. \A q \in Peer : received'[q] = {}
  BY <1>1
<1>8. received' \in [Peer -> SUBSET Seq(Peer)]
  BY <1>1
<1>9. \A m \in chains' :
        /\ m.chain \notin received'[m.dst]
        /\ \E c \in Seq(Peer) : m.chain = Append(c, m.src)
        /\ \A c \in Seq(Peer) \ {<<>>}, n \in Peer :
             m.chain = Append(c, n) => c \in received'[n]
  BY <1>2, <1>3, <1>6, <1>7
<1>10. terminated' \subseteq Peer /\ \A t \in loops' : t.at \in Peer
  BY <1>1, <1>2 DEF Chain!OnStart, ChainInv
<1>. QED  BY <1>1, <1>4, <1>5, <1>6, <1>7, <1>8, <1>9, <1>10 DEF ChainInv

LEMMA ChainReceive ==
  ASSUME ChainInv, NEW m \in chains, Chain!ReceiveChain(m)
  PROVE  ChainInv'
<1>. DEFINE n == m.dst
            longer == Append(m.chain, n)
<1>1. /\ m \in [src : Peer, dst : Peer, chain : Seq(Peer)]
      /\ n \in Peer /\ m.src \in Peer /\ m.chain \in Seq(Peer)
      /\ m.chain \notin received[n]
      /\ m.chain # <<>> /\ Len(m.chain) \in Nat \ {0}
      /\ longer \in Seq(Peer) /\ Len(longer) = Len(m.chain) + 1
  <2>1. PICK c \in Seq(Peer) : m.chain = Append(c, m.src)
    BY DEF ChainInv
  <2>2. /\ m \in [src : Peer, dst : Peer, chain : Seq(Peer)]
        /\ m.chain \notin received[m.dst]
    BY DEF ChainInv
  <2>3. n \in Peer /\ m.src \in Peer /\ m.chain \in Seq(Peer)
    BY <2>2
  <2>4. m.chain # <<>> /\ Len(m.chain) \in Nat \ {0}
    BY <2>1, <2>3, Appended
  <2>5. longer \in Seq(Peer) /\ Len(longer) = Len(m.chain) + 1
    BY <2>3
  <2>. QED  BY <2>2, <2>3, <2>4, <2>5
<1>. DEFINE sent == {[src |-> n, dst |-> q, chain |-> longer] :
                       q \in (Peer \ {n, m.src}) \ chainEnded}
<1>2. /\ chains' = (chains \ {m}) \cup sent
      /\ received' = [received EXCEPT ![n] = @ \cup {m.chain}]
      /\ loops' = loops \cup {[at |-> n, stops |-> Len(m.chain) >= MaxHops]}
      /\ chainLost' = (chainLost \/ (Peer \ {n, m.src}) \cap chainEnded # {})
      /\ UNCHANGED <<started, terminated>>
  BY <1>1 DEF Chain!ReceiveChain, Chain!Forward, Chain!Targets, Chain!HopCount
<1>3. /\ received \in [Peer -> SUBSET Seq(Peer)]
      /\ received' \in [Peer -> SUBSET Seq(Peer)]
      /\ received'[n] = received[n] \cup {m.chain}
      /\ \A q \in Peer : q # n => received'[q] = received[q]
      /\ \A q \in Peer : received[q] \subseteq received'[q]
  BY <1>1, <1>2 DEF ChainInv
<1>. HIDE DEF n, longer
<1>4. \A c \in Seq(Peer), k \in Peer : longer = Append(c, k) => c = m.chain /\ k = n
  BY <1>1, LastIsTold DEF longer
<1>5. ASSUME NEW k \in chains, k # m
      PROVE  /\ k \in [src : Peer, dst : Peer, chain : Seq(Peer)]
             /\ k.chain \notin received'[k.dst]
  <2>1. k \in [src : Peer, dst : Peer, chain : Seq(Peer)] /\ k.chain \notin received[k.dst]
    BY DEF ChainInv
  <2>2. PICK c \in Seq(Peer) : k.chain = Append(c, k.src)
    BY DEF ChainInv
  <2>3. PICK d \in Seq(Peer) : m.chain = Append(d, m.src)
    BY DEF ChainInv
  <2>4. k.chain = m.chain => k.src = m.src
    BY <1>1, <2>1, <2>2, <2>3, LastIsTold
  <2>5. k.chain = m.chain => k.dst # n
    BY <1>1, <1>5, <2>1, <2>4 DEF n
  <2>. QED  BY <1>3, <2>1, <2>5
<1>6. ASSUME NEW q \in Peer, q # n
      PROVE  longer \notin received'[q]
  BY <1>1, <1>3, <1>6 DEF ChainInv, longer
<1>7. ASSUME NEW k \in chains'
      PROVE  /\ k \in [src : Peer, dst : Peer, chain : Seq(Peer)]
             /\ k.chain \notin received'[k.dst]
             /\ \E c \in Seq(Peer) : k.chain = Append(c, k.src)
             /\ \A c \in Seq(Peer) \ {<<>>}, j \in Peer :
                  k.chain = Append(c, j) => c \in received'[j]
  <2>1. CASE k \in chains /\ k # m
    <3>1. \A c \in Seq(Peer) \ {<<>>}, j \in Peer :
            k.chain = Append(c, j) => c \in received[j]
      BY <2>1 DEF ChainInv
    <3>2. \E c \in Seq(Peer) : k.chain = Append(c, k.src)
      BY <2>1 DEF ChainInv
    <3>. QED  BY <1>3, <1>5, <2>1, <3>1, <3>2
  <2>2. CASE ~(k \in chains /\ k # m)
    <3>1. PICK q \in Peer \ {n, m.src} : k = [src |-> n, dst |-> q, chain |-> longer]
      BY <1>2, <2>2
    <3>2. k \in [src : Peer, dst : Peer, chain : Seq(Peer)] /\ k.chain \notin received'[k.dst]
      BY <1>1, <1>6, <3>1
    <3>3. \E c \in Seq(Peer) : k.chain = Append(c, k.src)
      BY <1>1, <3>1 DEF longer
    <3>4. \A c \in Seq(Peer) \ {<<>>}, j \in Peer :
            k.chain = Append(c, j) => c \in received'[j]
      BY <1>3, <1>4, <3>1
    <3>. QED  BY <3>2, <3>3, <3>4
  <2>. QED  BY <2>1, <2>2
<1>8. ASSUME NEW q \in Peer, NEW c \in Seq(Peer) \ {<<>>}, NEW k \in Peer,
             Append(c, k) \in received'[q]
      PROVE  c \in received'[k]
  <2>1. Append(c, k) \in received[q] => c \in received[k]
    BY DEF ChainInv
  <2>2. Append(c, k) = m.chain => c \in received[k]
    BY DEF ChainInv
  <2>3. Append(c, k) \in received[q] \/ Append(c, k) = m.chain
    BY <1>3, <1>8
  <2>. QED  BY <1>3, <2>1, <2>2, <2>3
<1>9. started
  BY DEF ChainInv
<1>10. \A k : Stops(k) => Stops(k)'
  BY <1>2 DEF Stops
<1>11. ASSUME ~chainLost', NEW a \in Peer \ {Initiator}, NEW b \in Peer \ {Initiator}, a # b
       PROVE  \E k \in chains' : OnTheWayRound(a, b, k)'
  <2>1. PICK k \in chains : OnTheWayRound(a, b, k)
    BY <1>2, <1>9, <1>11 DEF ChainInv
  <2>2. CASE k # m
    BY <1>2, <1>10, <2>1, <2>2 DEF OnTheWayRound
  <2>3. CASE k = m
    <3>. DEFINE p == Len(m.chain)
                next == [src |-> n, dst |-> Spot(a, b, p + 1), chain |-> longer]
    <3>1. /\ n = Spot(a, b, p) /\ m.src = Spot(a, b, p - 1)
          /\ \A i \in 1..(p - 1) : i >= MaxHops => Stops(Spot(a, b, i))
      BY <2>1, <2>3 DEF OnTheWayRound, n
    <3>2. p \in Nat \ {0} /\ Len(longer) = p + 1
      BY <1>1
    <3>3. next \in chains'
      <4>1. Spot(a, b, p + 1) \in Peer \ {n, m.src}
        BY <1>11, <3>1, <3>2, RoundAndRound
      <4>2. Spot(a, b, p + 1) \notin chainEnded
        BY <1>2, <1>11, <4>1
      <4>. QED  BY <1>2, <4>1, <4>2
    <3>4. p >= MaxHops => Stops(n)'
      BY <1>2 DEF Stops
    <3>5. \A i \in 1..p : i >= MaxHops => Stops(Spot(a, b, i))'
      <4>1. ASSUME NEW i \in 1..p, i >= MaxHops  PROVE Stops(Spot(a, b, i))'
        <5>1. CASE i = p
          BY <3>1, <3>4, <4>1, <5>1
        <5>2. CASE i # p
          BY <1>10, <3>1, <3>2, <4>1, <5>2
        <5>. QED  BY <5>1, <5>2
      <4>. QED  BY <4>1
    <3>6. /\ next.dst = Spot(a, b, Len(next.chain))
          /\ next.src = Spot(a, b, Len(next.chain) - 1)
          /\ Len(next.chain) - 1 = p
      BY <3>1, <3>2
    <3>. QED  BY <3>3, <3>5, <3>6 DEF OnTheWayRound
  <2>. QED  BY <2>2, <2>3
<1>12. terminated' \subseteq Peer /\ \A t \in loops' : t.at \in Peer
  BY <1>1, <1>2 DEF ChainInv
<1>13. chainLost' \in BOOLEAN
  BY <1>2 DEF ChainInv
<1>. QED  BY <1>2, <1>3, <1>7, <1>8, <1>9, <1>10, <1>11, <1>12, <1>13 DEF ChainInv

LEMMA ChainForwarded ==
  ASSUME ChainInv, NEW t \in loops, Chain!Forwarded(t)
  PROVE  ChainInv'
<1>1. \A n : Stops(n) => Stops(n)'
  BY DEF Chain!Forwarded, Stops
<1>2. UNCHANGED <<started, chains, received, chainLost>>
  BY DEF Chain!Forwarded
<1>3. \A a, b, m : OnTheWayRound(a, b, m) => OnTheWayRound(a, b, m)'
  BY <1>1 DEF OnTheWayRound
<1>4. terminated' \subseteq Peer /\ \A k \in loops' : k.at \in Peer
  BY DEF Chain!Forwarded, ChainInv
<1>. QED  BY <1>1, <1>2, <1>3, <1>4 DEF ChainInv

\* A failed send, or the end of a process, leaves no chain that was not there.
LEMMA ChainLoses ==
  ASSUME ChainInv,
         \/ \E m \in chains : Chain!SendFails(m)
         \/ \E n \in Peer : Chain!Exit(n)
  PROVE  ChainInv'
<1>1. \A n : Stops(n) => Stops(n)'
  BY DEF Chain!SendFails, Chain!Exit, Stops
<1>2. /\ UNCHANGED <<started, received, terminated>>
      /\ chains' \subseteq chains /\ loops' \subseteq loops
      /\ chainLost' \in BOOLEAN
      /\ ~chainLost' => ~chainLost /\ chains' = chains
  BY ZenonT(40) DEF Chain!SendFails, Chain!Exit, ChainInv
<1>3. \A a, b, m : OnTheWayRound(a, b, m) => OnTheWayRound(a, b, m)'
  BY <1>1 DEF OnTheWayRound
<1>. QED  BY <1>1, <1>2, <1>3 DEF ChainInv

LEMMA ThirdPeer ==
  ASSUME NEW n \in Peer
  PROVE  \E b \in Peer : b # n /\ b # Initiator
<1>. SUFFICES ASSUME Peer \subseteq {n, Initiator}  PROVE FALSE
  OBVIOUS
<1>1. IsFiniteSet({n}) /\ Cardinality({n}) = 1
  BY FS_Singleton
<1>2. /\ IsFiniteSet({n} \cup {Initiator})
      /\ Cardinality({n} \cup {Initiator}) <= 2
  BY <1>1, FS_AddElement
<1>3. Peer \subseteq {n} \cup {Initiator}
  OBVIOUS
<1>4. /\ Cardinality(Peer) <= Cardinality({n} \cup {Initiator})
      /\ Cardinality(Peer) \in Nat /\ Cardinality({n} \cup {Initiator}) \in Nat
  BY <1>2, <1>3, FS_Subset, FS_CardinalityType, ExamplesAssumption
<1>. QED  BY <1>2, <1>4, ExamplesAssumption

LEMMA RoundsStopEveryone ==
  ASSUME ChainInv
  PROVE  ChainsStopEveryone
<1>. SUFFICES ASSUME started, loops = {}, ~chainLost,
                     \A m \in chains : Len(m.chain) > MaxHops + 2,
                     NEW n \in Peer
              PROVE  n \in terminated
  <2>1. terminated \subseteq Peer
    BY DEF ChainInv
  <2>. QED  BY <2>1 DEF ChainsStopEveryone, Chain!LongChainsStopEveryone
<1>1. \A k : Stops(k) => k \in terminated
  BY DEF Stops
<1>2. CASE n = Initiator
  BY <1>1, <1>2 DEF ChainInv
<1>3. CASE n # Initiator
  <2>1. PICK b \in Peer : b # n /\ b # Initiator
    BY ThirdPeer
  <2>2. PICK m \in chains : OnTheWayRound(n, b, m)
    BY <1>3, <2>1 DEF ChainInv
  <2>3. Len(m.chain) \in Nat /\ Len(m.chain) > MaxHops + 2 /\ MaxHops \in Nat
    BY ExamplesAssumption DEF ChainInv
  <2>4. PICK p \in 1..(MaxHops + 2) : p >= MaxHops /\ p % 3 = 1
    <3>1. CASE MaxHops % 3 = 1
      BY <2>3, <3>1
    <3>2. CASE (MaxHops + 1) % 3 = 1
      BY <2>3, <3>2
    <3>3. CASE (MaxHops + 2) % 3 = 1
      BY <2>3, <3>3
    <3>. QED  BY <2>3, <3>1, <3>2, <3>3
  <2>5. p \in 1..(Len(m.chain) - 1) /\ Spot(n, b, p) = n
    BY <2>3, <2>4 DEF Spot
  <2>. QED  BY <1>1, <2>2, <2>4, <2>5 DEF OnTheWayRound
<1>. QED  BY <1>2, <1>3

\* However the chains run and processes end, when no send has failed, those on
\* their way are long and no loop goes on, everyone has terminated
\* (message_chain.py:76-85, 139-151).
THEOREM ChainsReachEveryone ==
  ProgramsSpec => []ChainsStopEveryone
<1>. DEFINE all == <<program, vars, templateVars, ringVars, counter,
                      layerVars, chainVars, wiringVars>>
<1>1. ProgramsInit => ChainInv
  BY DEF ProgramsInit, Chain!Init, ChainInv
<1>2. ChainInv /\ [ProgramsNext]_all => ChainInv'
  <2>1. ChainInv /\ UNCHANGED chainVars => ChainInv'
    BY DEF chainVars, ChainInv, OnTheWayRound, Stops
  <2>2. ChainInv /\ Chain!Next => ChainInv'
    BY ChainStart, ChainReceive, ChainForwarded, ChainLoses DEF Chain!Next
  <2>3. [ProgramsNext]_all => UNCHANGED chainVars \/ Chain!Next
    BY DEF ProgramsNext
  <2>. QED  BY <2>1, <2>2, <2>3
<1>. QED  BY <1>1, <1>2, RoundsStopEveryone, PTL DEF ProgramsSpec

-----------------------------------------------------------------------------
(***************************************************************************)
(* EchoAlgorithm: whoever is known to be ready has begun, so the starting  *)
(* node is the last to begin; from then on an answer replaces a message.   *)
(***************************************************************************)
OneMessage(bag) == \E m : bag = [e \in {m} |-> 1]

NoMessage(bag) == bag = [e \in {} |-> 1]

LEMMA EchoBags ==
  /\ NoMessage(Echo!EmptyBag)
  /\ \A m : OneMessage(Echo!SetToBag({m}))
  /\ \A bag : NoMessage(bag) => bag = Echo!EmptyBag
  /\ \A bag : OneMessage(bag) =>
       \E m \in Echo!BagToSet(bag) : bag = Echo!SetToBag({m})
<1>1. \A m : Echo!SetToBag({m}) = [e \in {m} |-> 1] /\ m \in DOMAIN [e \in {m} |-> 1]
  BY DEF Echo!SetToBag
<1>2. Echo!EmptyBag = [e \in {} |-> 1]
  BY DEF Echo!EmptyBag, Echo!SetToBag
<1>. QED  BY <1>1, <1>2 DEF OneMessage, NoMessage, Echo!BagToSet

LEMMA OneDatagram ==
  ASSUME NEW type, NEW src, NEW dst, NEW value
  PROVE  LET new == Echo!Datagram(type, src, dst, value) IN
         OneMessage(new) \/ NoMessage(new)
BY DEF Echo!Datagram, Echo!SetToBag, Echo!EmptyBag, OneMessage, NoMessage

LEMMA ToAnEmptyBag ==
  ASSUME NEW old, NoMessage(old), NEW new, OneMessage(new) \/ NoMessage(new)
  PROVE  Echo!(+)(old, new) = new
<1>1. DOMAIN old = {}
  BY DEF NoMessage
<1>2. CASE OneMessage(new)
  <2>1. PICK m : new = [e \in {m} |-> 1]
    BY <1>2 DEF OneMessage
  <2>2. Echo!(+)(old, new) = [e \in {m} |-> 0 + 1]
    BY <1>1, <2>1 DEF Echo!(+)
  <2>. QED  BY <2>1, <2>2
<1>3. CASE NoMessage(new)
  <2>1. DOMAIN new = {} /\ new = [e \in {} |-> 1]
    BY <1>3 DEF NoMessage
  <2>2. Echo!(+)(old, new) = [e \in {} |-> 1]
    BY <1>1, <2>1 DEF Echo!(+)
  <2>. QED  BY <2>1, <2>2
<1>. QED  BY <1>2, <1>3

LEMMA TheMessageTaken ==
  ASSUME NEW bag, OneMessage(bag), NEW m \in Echo!BagToSet(bag)
  PROVE  NoMessage(Echo!(-)(bag, Echo!SetToBag({m})))
<1>1. bag = [e \in {m} |-> 1]
  BY DEF OneMessage, Echo!BagToSet
<1>. DEFINE one == [e \in {m} |-> 1]
            B == [e \in {m} |-> IF e \in {m} THEN one[e] - one[e] ELSE one[e]]
<1>2. Echo!(-)(bag, Echo!SetToBag({m})) = [e \in {d \in {m} : B[d] > 0} |-> B[e]]
  BY <1>1 DEF Echo!(-), Echo!SetToBag
<1>3. {d \in {m} : B[d] > 0} = {}
  OBVIOUS
<1>. HIDE DEF B
<1>. QED  BY <1>2, <1>3 DEF NoMessage

EchoInv ==
  /\ phase \in [EchoNode -> Phases]
  /\ \A n \in EchoNode :
       /\ states[n] \in [EchoNode \ {n} -> {"init", "ready"}]
       /\ \A q \in EchoNode \ {n} : states[n][q] = "ready" => phase[q] = "begun"
  /\ DOMAIN states = EchoNode
  /\ \A m \in hellos :
       /\ m.src \in EchoNode /\ m.dst \in EchoNode \ {m.src} /\ m.state \in {"init", "ready"}
       /\ m.state = "ready" => phase[m.src] = "begun"
  /\ NoMessage(transit) \/ OneMessage(transit)
  /\ phase[StartingNode] # "begun" => NoMessage(transit)
  /\ phase[StartingNode] = "waited" =>
       \A q \in EchoNode \ {StartingNode} : phase[q] = "begun"
  /\ OneMessage(transit) => \A n \in EchoNode : phase[n] = "begun"

LEMMA NotBoth ==
  ASSUME NEW bag
  PROVE  ~(NoMessage(bag) /\ OneMessage(bag))
BY DEF NoMessage, OneMessage

LEMMA EchoStep ==
  ASSUME EchoInv, Echo!EchoNext
  PROVE  EchoInv'
<1>. USE DEF EchoInv
<1>1. ASSUME NEW n \in EchoNode, Echo!BeginPoll(n)
      PROVE  EchoInv'
  <2>1. /\ UNCHANGED <<hellos, nodes, transit>>
        /\ states' = [states EXCEPT ![n] = [q \in EchoNode \ {n} |-> "init"]]
        /\ phase[n] = "connecting"
        /\ phase' = [phase EXCEPT ![n] = "polling"]
    BY <1>1 DEF Echo!BeginPoll
  <2>2. /\ phase' \in [EchoNode -> Phases]
        /\ \A k \in EchoNode : phase'[k] = "begun" <=> phase[k] = "begun"
        /\ phase'[StartingNode] = "waited" => phase[StartingNode] = "waited"
    BY <2>1, EchoAssumption DEF Phases
  <2>4. \A k \in EchoNode :
          /\ states'[k] \in [EchoNode \ {k} -> {"init", "ready"}]
          /\ \A q \in EchoNode \ {k} : states'[k][q] = "ready" => states[k][q] = "ready"
    <3>1. ASSUME NEW k \in EchoNode, k = n
          PROVE  /\ states'[k] \in [EchoNode \ {k} -> {"init", "ready"}]
                 /\ \A q \in EchoNode \ {k} : states'[k][q] = "init"
      <4>1. states'[k] = [q \in EchoNode \ {k} |-> "init"]
        BY <2>1, <3>1
      <4>. QED  BY <4>1
    <3>2. ASSUME NEW k \in EchoNode, k # n
          PROVE  states'[k] = states[k]
      BY <2>1, <3>2
    <3>. QED
      <4>1. ASSUME NEW k \in EchoNode, k = n
            PROVE  \A q \in EchoNode \ {k} : states'[k][q] # "ready"
        BY <3>1, <4>1
      <4>. QED  BY <3>1, <3>2, <4>1
  <2>5. DOMAIN states' = EchoNode
    BY <2>1
  <2>6. \A m \in hellos' :
          /\ m.src \in EchoNode /\ m.dst \in EchoNode \ {m.src} /\ m.state \in {"init", "ready"}
          /\ m.state = "ready" => phase'[m.src] = "begun"
    BY <2>1, <2>2
  <2>7. transit' = transit /\ StartingNode \in EchoNode
    BY <2>1, EchoAssumption
  <2>8. ASSUME NEW k \in EchoNode, NEW q \in EchoNode \ {k}, states'[k][q] = "ready"
        PROVE  phase'[q] = "begun"
    <3>1. states[k][q] = "ready"
      BY <2>4, <2>8
    <3>. QED  BY <2>2, <3>1, ZenonT(40)
  <2>. QED  BY <2>2, <2>4, <2>5, <2>6, <2>7, <2>8
<1>2. ASSUME NEW n \in EchoNode, Echo!End(n)
      PROVE  EchoInv'
  <2>1. /\ UNCHANGED <<nodes, states, phase>>
        /\ hellos' \subseteq hellos
    BY <1>2 DEF Echo!End
  <2>2. transit' = [m \in {k \in DOMAIN transit : k.dst # n} |-> transit[m]]
    BY <1>2 DEF Echo!End, Echo!BagToSet
  <2>3. NoMessage(transit) => NoMessage(transit')
    BY <2>2 DEF NoMessage
  <2>4. OneMessage(transit) => NoMessage(transit') \/ OneMessage(transit')
    <3>1. ASSUME NEW m, transit = [e \in {m} |-> 1]
          PROVE  NoMessage(transit') \/ OneMessage(transit')
      <4>1. CASE m.dst = n
        BY <2>2, <3>1, <4>1 DEF NoMessage
      <4>2. CASE m.dst # n
        BY <2>2, <3>1, <4>2 DEF OneMessage
      <4>. QED  BY <4>1, <4>2
    <3>. QED  BY <3>1 DEF OneMessage
  <2>. QED  BY <2>1, <2>3, <2>4, NotBoth
<1>3. ASSUME NEW m \in hellos, Echo!OnManualConnect(m)
      PROVE  EchoInv'
  <2>1. /\ UNCHANGED <<phase, transit>>
        /\ hellos' \subseteq hellos
        /\ states' = [states EXCEPT ![m.dst][m.src] = m.state]
    BY <1>3 DEF Echo!OnManualConnect
  <2>2. /\ m.dst \in EchoNode /\ m.src \in EchoNode \ {m.dst} /\ m.state \in {"init", "ready"}
        /\ m.state = "ready" => phase[m.src] = "begun"
    OBVIOUS
  <2>3. DOMAIN states' = EchoNode
    BY <2>1
  <2>4. ASSUME NEW k \in EchoNode
        PROVE  /\ states'[k] \in [EchoNode \ {k} -> {"init", "ready"}]
               /\ \A q \in EchoNode \ {k} :
                    states'[k][q] = states[k][q] \/ (q = m.src /\ states'[k][q] = m.state)
    <3>1. CASE k # m.dst
      <4>1. states'[k] = states[k]
        BY <2>1, <3>1
      <4>. QED  BY <4>1
    <3>2. CASE k = m.dst
      <4>1. states'[k] = [states[k] EXCEPT ![m.src] = m.state]
        BY <2>1, <3>2
      <4>2. m.src \in EchoNode \ {k} /\ m.state \in {"init", "ready"}
        BY <2>2, <3>2
      <4>3. states[k] \in [EchoNode \ {k} -> {"init", "ready"}]
        OBVIOUS
      <4>. HIDE DEF EchoInv
      <4>. QED  BY <4>1, <4>2, <4>3
    <3>. QED  BY <3>1, <3>2
  <2>5. \A k \in EchoNode : \A q \in EchoNode \ {k} :
          states'[k][q] = "ready" => phase'[q] = "begun"
    <3>1. ASSUME NEW k \in EchoNode, NEW q \in EchoNode \ {k}, states'[k][q] = "ready"
          PROVE  phase[q] = "begun"
      <4>1. states[k][q] = "ready" \/ (q = m.src /\ m.state = "ready")
        <5>. HIDE DEF EchoInv
        <5>1. states'[k][q] = states[k][q] \/ (q = m.src /\ states'[k][q] = m.state)
          BY <2>4, Zenon
        <5>. QED  BY <3>1, <5>1
      <4>. QED  BY <2>2, <4>1
    <3>. QED  BY <2>1, <3>1
  <2>6. /\ \A k \in hellos' : k \in hellos
        /\ \A k \in EchoNode : states'[k] \in [EchoNode \ {k} -> {"init", "ready"}]
    BY <2>1, <2>4
  <2>. QED  BY <2>1, <2>3, <2>5, <2>6
<1>6. ASSUME NEW n \in EchoNode, Echo!PollInVain(n) \/ Echo!Poll(n)
      PROVE  EchoInv'
  <2>1. /\ UNCHANGED <<nodes, states, transit>>
        /\ hellos' \subseteq hellos \cup Echo!Hellos(n, "init")
        /\ phase[n] = "polling"
        /\ \E p \in {"connecting", "delayed"} : phase' = [phase EXCEPT ![n] = p]
    BY <1>6 DEF Echo!PollInVain, Echo!Poll, Echo!connectionVars
  <2>2. /\ phase' \in [EchoNode -> Phases]
        /\ \A k \in EchoNode : phase'[k] = "begun" <=> phase[k] = "begun"
        /\ phase'[StartingNode] = "waited" => phase[StartingNode] = "waited"
    BY <2>1, EchoAssumption DEF Phases
  <2>3. \A m \in Echo!Hellos(n, "init") :
          m.src = n /\ m.dst \in EchoNode \ {n} /\ m.state = "init"
    BY DEF Echo!Hellos
  <2>4. \A m \in hellos' :
          /\ m.src \in EchoNode /\ m.dst \in EchoNode \ {m.src} /\ m.state \in {"init", "ready"}
          /\ m.state = "ready" => phase'[m.src] = "begun"
    BY <2>1, <2>2, <2>3
  <2>5. \A k \in EchoNode :
          /\ states'[k] \in [EchoNode \ {k} -> {"init", "ready"}]
          /\ \A q \in EchoNode \ {k} : states'[k][q] = "ready" => phase'[q] = "begun"
    BY <2>1, <2>2, ZenonT(40)
  <2>6. /\ phase'[StartingNode] # "begun" => NoMessage(transit')
        /\ phase'[StartingNode] = "waited" =>
             \A q \in EchoNode \ {StartingNode} : phase'[q] = "begun"
        /\ OneMessage(transit') => \A k \in EchoNode : phase'[k] = "begun"
    BY <2>1, <2>2, EchoAssumption
  <2>7. DOMAIN states' = EchoNode /\ (NoMessage(transit') \/ OneMessage(transit'))
    BY <2>1
  <2>8. phase' \in [EchoNode -> Phases]
    BY <2>2
  <2>. QED  BY <2>4, <2>5, <2>6, <2>7, <2>8
<1>7. ASSUME NEW n \in EchoNode, Echo!AllReady(n)
      PROVE  EchoInv'
  <2>1. /\ UNCHANGED <<hellos, nodes, states, transit>>
        /\ n = StartingNode /\ phase[n] = "delayed"
        /\ \A q \in EchoNode \ {n} : states[n][q] = "ready"
        /\ phase' = [phase EXCEPT ![n] = "waited"]
    BY <1>7 DEF Echo!AllReady, Echo!connectionVars
  <2>2. /\ phase' \in [EchoNode -> Phases]
        /\ \A k \in EchoNode : phase'[k] = "begun" <=> phase[k] = "begun"
    BY <2>1 DEF Phases
  <2>3. \A q \in EchoNode \ {n} : phase'[q] = "begun"
    <3>1. \A q \in EchoNode \ {n} : phase[q] = "begun"
      BY <2>1, ZenonT(40)
    <3>. QED  BY <2>2, <3>1
  <2>4. \A k \in EchoNode :
          /\ states'[k] \in [EchoNode \ {k} -> {"init", "ready"}]
          /\ \A q \in EchoNode \ {k} : states'[k][q] = "ready" => phase'[q] = "begun"
    <3>1. \A k \in EchoNode :
            /\ states[k] \in [EchoNode \ {k} -> {"init", "ready"}]
            /\ \A q \in EchoNode \ {k} : states[k][q] = "ready" => phase[q] = "begun"
      OBVIOUS
    <3>2. states' = states /\ \A q \in EchoNode : phase[q] = "begun" => phase'[q] = "begun"
      BY <2>1, <2>2
    <3>. HIDE DEF EchoInv
    <3>. QED  BY <3>1, <3>2
  <2>5. \A m \in hellos' :
          /\ m.src \in EchoNode /\ m.dst \in EchoNode \ {m.src} /\ m.state \in {"init", "ready"}
          /\ m.state = "ready" => phase'[m.src] = "begun"
    BY <2>1, <2>2
  <2>6. /\ DOMAIN states' = EchoNode /\ transit' = transit
        /\ phase[StartingNode] # "begun" /\ NoMessage(transit)
    BY <2>1
  <2>7. NoMessage(transit') /\ ~OneMessage(transit')
    BY <2>6, NotBoth
  <2>8. phase' \in [EchoNode -> Phases]
    BY <2>2
  <2>. QED  BY <2>1, <2>3, <2>4, <2>5, <2>6, <2>7, <2>8
<1>4. ASSUME NEW n \in EchoNode, Echo!OnStart(n)
      PROVE  EchoInv'
  <2>1. /\ UNCHANGED <<nodes, states>>
        /\ phase[n] = (IF n = StartingNode THEN "waited" ELSE "delayed")
        /\ phase' = [phase EXCEPT ![n] = "begun"]
        /\ hellos' = hellos \cup Echo!Hellos(n, "ready")
    BY <1>4 DEF Echo!OnStart
  <2>2. /\ phase' \in [EchoNode -> Phases]
        /\ phase'[n] = "begun" /\ \A k \in EchoNode : k # n => phase'[k] = phase[k]
    BY <2>1 DEF Phases
  <2>3. \A m \in Echo!Hellos(n, "ready") :
          m.src = n /\ m.dst \in EchoNode \ {n} /\ m.state = "ready"
    BY DEF Echo!Hellos
  <2>6. \A m \in hellos' :
          /\ m.src \in EchoNode /\ m.dst \in EchoNode \ {m.src} /\ m.state \in {"init", "ready"}
          /\ m.state = "ready" => phase'[m.src] = "begun"
    BY <2>1, <2>2, <2>3
  <2>7. \A k \in EchoNode :
          /\ states'[k] \in [EchoNode \ {k} -> {"init", "ready"}]
          /\ \A q \in EchoNode \ {k} : states'[k][q] = "ready" => phase'[q] = "begun"
    BY <2>1, <2>2
  <2>8. DOMAIN states' = EchoNode /\ StartingNode \in EchoNode
    BY <2>1, EchoAssumption
  <2>4. CASE n # StartingNode
    <3>1. transit' = transit
      BY <1>4, <2>4 DEF Echo!OnStart
    <3>2. phase'[StartingNode] = phase[StartingNode]
      BY <2>2, <2>4, <2>8
    <3>3. ASSUME OneMessage(transit), NEW k \in EchoNode
          PROVE  phase'[k] = "begun"
      BY <2>2, <3>3
    <3>. QED  BY <2>2, <2>6, <2>7, <2>8, <3>1, <3>2, <3>3
  <2>5. CASE n = StartingNode
    <3>1. \E q : transit' = Echo!(+)(transit, Echo!Datagram("echo", n, q, counter[n]))
      BY <1>4, <2>5 DEF Echo!OnStart, Echo!OnStartAsStarter
    <3>2. \A k \in EchoNode : phase'[k] = "begun"
      <4>1. \A k \in EchoNode \ {n} : phase[k] = "begun"
        BY <2>1, <2>5
      <4>. QED  BY <2>2, <4>1
    <3>3. NoMessage(transit)
      BY <2>1, <2>5
    <3>4. NoMessage(transit') \/ OneMessage(transit')
      BY <3>1, <3>3, ToAnEmptyBag, OneDatagram
    <3>. QED  BY <2>2, <2>6, <2>7, <2>8, <3>2, <3>4
  <2>. QED  BY <2>4, <2>5
<1>5. ASSUME NEW m \in Echo!BagToSet(transit), Echo!OnMessage(m)
      PROVE  EchoInv'
  <2>1. /\ UNCHANGED <<hellos, nodes, states, phase>>
        /\ transit' = Echo!(+)(Echo!(-)(transit, Echo!SetToBag({m})),
                               Echo!Datagram("echo", m.dst, m.src, m.value + 1))
    BY <1>5 DEF Echo!OnMessage, Echo!connectionVars
  <2>2. OneMessage(transit)
    BY DEF NoMessage, Echo!BagToSet
  <2>3. NoMessage(Echo!(-)(transit, Echo!SetToBag({m})))
    BY <2>2, TheMessageTaken
  <2>4. NoMessage(transit') \/ OneMessage(transit')
    BY <2>1, <2>3, ToAnEmptyBag, OneDatagram
  <2>. QED  BY <2>1, <2>2, <2>4, EchoAssumption
<1>. QED
  BY <1>1, <1>2, <1>3, <1>4, <1>5, <1>6, <1>7 DEF Echo!EchoNext, Echo!Connect

\* The first message is sent when every node has said that it is ready, and from
\* then on there is never more than one.
THEOREM OneMessageToAndFro ==
  ProgramsSpec => []EchoOneMessage
<1>. DEFINE all == <<program, vars, templateVars, ringVars, counter,
                      layerVars, chainVars, wiringVars>>
            Inv == program = "echo_algorithm" => EchoInv
<1>1. ProgramsInit => Inv
  <2>1. Echo!EchoInit => EchoInv
    <3>1. ASSUME Echo!EchoInit
          PROVE  /\ hellos = {} /\ phase = [n \in EchoNode |-> "connecting"]
                 /\ states = [n \in EchoNode |-> [q \in EchoNode \ {n} |-> "init"]]
                 /\ NoMessage(transit)
      BY <3>1, EchoBags DEF Echo!EchoInit, Echo!Init
    <3>2. ASSUME Echo!EchoInit, NEW n \in EchoNode
          PROVE  /\ states[n] \in [EchoNode \ {n} -> {"init", "ready"}]
                 /\ \A q \in EchoNode \ {n} : states[n][q] # "ready"
      <4>1. states[n] = [q \in EchoNode \ {n} |-> "init"]
        BY <3>1, <3>2
      <4>. QED  BY <4>1
    <3>. QED  BY <3>1, <3>2, NotBoth, EchoAssumption DEF EchoInv, Phases
  <2>. QED  BY <2>1 DEF ProgramsInit
<1>2. Inv /\ [ProgramsNext]_all => Inv'
  <2>1. UNCHANGED all => (Inv => Inv')
    BY DEF templateVars, EchoInv, OneMessage, NoMessage
  <2>2. ProgramsNext => program' = program /\ (program = "echo_algorithm" => Echo!EchoNext)
    BY DEF ProgramsNext
  <2>. QED  BY <2>1, <2>2, EchoStep
<1>3. Inv => EchoOneMessage
  BY EchoBags DEF EchoInv, EchoOneMessage, Echo!OneMessageAmongReady
<1>. QED  BY <1>1, <1>2, <1>3, PTL DEF ProgramsSpec

-----------------------------------------------------------------------------
(***************************************************************************)
(* Layers: what has come of a starter, what is on its way and what is to   *)
(* be sent are in the order of its broadcasts.                             *)
(***************************************************************************)
LEMMA LayeredCardinality ==
  ASSUME NEW S
  PROVE  Layered!Cardinality(S) = Cardinality(S)
<1>1. Layered!IsFiniteSet(S) <=> IsFiniteSet(S)
  BY DEF Layered!IsFiniteSet, IsFiniteSet
<1>. QED  BY <1>1 DEF Layered!Cardinality, Cardinality

Record == [src : Starter, number : 1..(Sends + 1)]

\* The numbers that lists of sends and of echoes hold of a starter.
Heard(s, e, src) == {s[i].number : i \in Layered!From(s, src)}
                      \cup {e[i].number : i \in Layered!From(e, src)}

ListsInOrder(s, e, src) ==
  /\ \A i \in Layered!From(s, src) : s[i].number <= Sends
  /\ \A i, j \in Layered!From(s, src) : i < j => s[i].number < s[j].number
  /\ \A i \in Layered!From(e, src) : e[i].number = Sends + 1
  /\ \A i, j \in Layered!From(e, src) : i = j

LEMMA FromLonger ==
  ASSUME NEW list \in Seq(Record), NEW r \in Record, NEW src
  PROVE  LET longer == Append(list, r) IN
         /\ Layered!From(list, src) \subseteq 1..Len(list) /\ Len(list) \in Nat
         /\ Layered!From(longer, src) =
              Layered!From(list, src) \cup (IF r.src = src THEN {Len(list) + 1} ELSE {})
         /\ \A i \in Layered!From(list, src) : longer[i] = list[i]
         /\ longer[Len(list) + 1] = r
<1>. DEFINE longer == Append(list, r)
<1>1. /\ DOMAIN list = 1..Len(list) /\ Len(list) \in Nat
      /\ DOMAIN longer = 1..(Len(list) + 1)
      /\ longer[Len(list) + 1] = r
      /\ \A i \in 1..Len(list) : longer[i] = list[i]
  BY Appended
<1>2. \A i \in 1..(Len(list) + 1) : i \in 1..Len(list) \/ i = Len(list) + 1
  BY <1>1
<1>3. 1..Len(list) \subseteq 1..(Len(list) + 1) /\ Len(list) + 1 \in 1..(Len(list) + 1)
  BY <1>1
<1>. HIDE DEF longer
<1>4. Layered!From(longer, src) =
        Layered!From(list, src) \cup (IF r.src = src THEN {Len(list) + 1} ELSE {})
  BY <1>1, <1>2, <1>3 DEF Layered!From
<1>. QED  BY <1>1, <1>4 DEF Layered!From, longer

LEMMA SendHeard ==
  ASSUME NEW s \in Seq(Record), NEW e \in Seq(Record), NEW src,
         NEW r \in Record, r.number <= Sends, ListsInOrder(s, e, src),
         r.src = src => \A k \in Heard(s, e, src) : k < r.number
  PROVE  /\ ListsInOrder(Append(s, r), e, src)
         /\ Heard(Append(s, r), e, src) =
              Heard(s, e, src) \cup (IF r.src = src THEN {r.number} ELSE {})
<1>. DEFINE longer == Append(s, r)
            old == Layered!From(s, src)
<1>1. /\ old \subseteq 1..Len(s) /\ Len(s) \in Nat
      /\ Layered!From(longer, src) = old \cup (IF r.src = src THEN {Len(s) + 1} ELSE {})
      /\ \A i \in old : longer[i] = s[i]
      /\ longer[Len(s) + 1] = r
  BY FromLonger
<1>2. \A i \in old : i < Len(s) + 1
  BY <1>1
<1>3. r.src = src => \A i \in old : s[i].number < r.number
  BY DEF Heard
<1>. HIDE DEF longer, old
<1>4. ListsInOrder(longer, e, src)
  <2>1. \A i \in Layered!From(longer, src) : longer[i].number <= Sends
    BY <1>1 DEF ListsInOrder, old
  <2>2. ASSUME NEW i \in Layered!From(longer, src), NEW j \in Layered!From(longer, src),
               i < j
        PROVE  longer[i].number < longer[j].number
    <3>1. i \in old /\ (j \in old \/ (j = Len(s) + 1 /\ r.src = src))
      <4>1. /\ i \in old \/ (i = Len(s) + 1 /\ r.src = src)
            /\ j \in old \/ (j = Len(s) + 1 /\ r.src = src)
        BY <1>1
      <4>2. i # Len(s) + 1
        <5>1. j \in Nat /\ j <= Len(s) + 1
          <6>1. CASE j \in old
            <7>1. j \in 1..Len(s)
              BY <1>1, <6>1
            <7>. QED  BY <1>1, <7>1
          <6>2. CASE j = Len(s) + 1
            BY <1>1, <6>2
          <6>. QED  BY <4>1, <6>1, <6>2
        <5>. QED  BY <1>1, <2>2, <5>1
      <4>. QED  BY <4>1, <4>2
    <3>2. CASE j \in old
      BY <1>1, <2>2, <3>1, <3>2 DEF ListsInOrder, old
    <3>3. CASE j = Len(s) + 1 /\ r.src = src
      BY <1>1, <1>3, <3>1, <3>3
    <3>. QED  BY <3>1, <3>2, <3>3
  <2>. QED  BY <2>1, <2>2 DEF ListsInOrder
<1>5. Heard(longer, e, src) =
        Heard(s, e, src) \cup (IF r.src = src THEN {r.number} ELSE {})
  BY <1>1 DEF Heard, old
<1>. QED  BY <1>4, <1>5 DEF longer

LEMMA EchoHeard ==
  ASSUME NEW s \in Seq(Record), NEW e \in Seq(Record), NEW src,
         NEW r \in Record, ~(r.number <= Sends), ListsInOrder(s, e, src),
         r.src = src => \A k \in Heard(s, e, src) : k < r.number
  PROVE  /\ ListsInOrder(s, Append(e, r), src)
         /\ Heard(s, Append(e, r), src) =
              Heard(s, e, src) \cup (IF r.src = src THEN {r.number} ELSE {})
<1>. DEFINE longer == Append(e, r)
            old == Layered!From(e, src)
<1>1. /\ old \subseteq 1..Len(e) /\ Len(e) \in Nat
      /\ Layered!From(longer, src) = old \cup (IF r.src = src THEN {Len(e) + 1} ELSE {})
      /\ \A i \in old : longer[i] = e[i]
      /\ longer[Len(e) + 1] = r
  BY FromLonger
<1>2. r.number = Sends + 1 /\ Sends \in Nat
  BY ExamplesAssumption DEF Record
<1>3. r.src = src => old = {}
  <2>1. ASSUME NEW i \in old  PROVE e[i].number = Sends + 1 /\ e[i].number \in Heard(s, e, src)
    BY <2>1 DEF Heard, ListsInOrder
  <2>. QED  BY <1>2, <2>1
<1>. HIDE DEF longer, old
<1>4. ListsInOrder(s, longer, src)
  BY <1>1, <1>2, <1>3 DEF ListsInOrder, old
<1>5. Heard(s, longer, src) =
        Heard(s, e, src) \cup (IF r.src = src THEN {r.number} ELSE {})
  BY <1>1 DEF Heard, old
<1>. QED  BY <1>4, <1>5 DEF longer

\* The child hands a message to its parent, which keeps it by its type.
LEMMA Handing ==
  ASSUME NEW n \in Peer, NEW src \in Starter, NEW k \in 1..(Sends + 1),
         Layered!DeliverMessage("broadcast", n, src, k)
  PROVE  LET r == [src |-> src, number |-> k] IN
         IF k <= Sends
         THEN lSends' = [lSends EXCEPT ![n] = Append(@, r)] /\ lEchoes' = lEchoes
         ELSE lEchoes' = [lEchoes EXCEPT ![n] = Append(@, r)] /\ lSends' = lSends
<1>1. Layered!ParentOf("broadcast") = {"upper"}
  <2>1. /\ DOMAIN Layered!Children = {"upper", "broadcast"}
        /\ Layered!Children["upper"] = <<"broadcast">>
        /\ Layered!Children["broadcast"] = <<>>
    BY DEF Layered!Children
  <2>2. /\ Layered!ToSet(<<"broadcast">>) = {"broadcast"}
        /\ Layered!ToSet(<<>>) = {}
    BY DEF Layered!ToSet
  <2>. QED  BY <2>1, <2>2 DEF Layered!ParentOf
<1>2. Layered!FromChild("upper") = {"BroadcastSend", "BroadcastEcho"}
  <2>. DEFINE send == [name |-> "broadcast_send", type |-> "BroadcastSend", fromChild |-> TRUE]
              echo == [name |-> "broadcast_echo", type |-> "BroadcastEcho", fromChild |-> TRUE]
  <2>1. Layered!Methods["upper"] = {send, echo}
    BY DEF Layered!Methods
  <2>2. /\ send.fromChild /\ send.type = "BroadcastSend"
        /\ echo.fromChild /\ echo.type = "BroadcastEcho"
    OBVIOUS
  <2>. HIDE DEF send, echo
  <2>3. {g \in Layered!Methods["upper"] : g.fromChild} = {send, echo}
    BY <2>1, <2>2
  <2>4. Layered!FromChild("upper") =
          {h.type : h \in {g \in Layered!Methods["upper"] : g.fromChild}}
    BY DEF Layered!FromChild
  <2>. QED  BY <2>2, <2>3, <2>4
<1>3. Layered!Deliver("upper", n, src, Layered!Envelope(k))
  BY <1>1 DEF Layered!DeliverMessage
<1>4. /\ Layered!Envelope(k).number = k
      /\ Layered!Envelope(k).type = IF k <= Sends THEN "BroadcastSend" ELSE "BroadcastEcho"
  BY DEF Layered!Envelope, Layered!Type
<1>. QED  BY <1>2, <1>3, <1>4 DEF Layered!Deliver

LEMMA ChildHandles ==
  Layered!HandledBy("upper", "simple_broadcast_message") = {"broadcast"}
<1>1. Layered!Handlers("upper") = {}
  BY DEF Layered!Handlers, Layered!Methods
<1>2. Layered!Handlers("broadcast") = {"simple_broadcast_message"}
  <2>. DEFINE method == [name |-> "simple_broadcast_message",
                         type |-> "SimpleBroadcastMessage", fromChild |-> FALSE]
  <2>1. Layered!Methods["broadcast"] = {method}
    BY DEF Layered!Methods
  <2>2. ~method.fromChild /\ method.name = "simple_broadcast_message"
    OBVIOUS
  <2>. HIDE DEF method
  <2>3. {k \in Layered!Methods["broadcast"] : ~k.fromChild} = {method}
    BY <2>1, <2>2
  <2>4. Layered!Handlers("broadcast") =
          {h.name : h \in {k \in Layered!Methods["broadcast"] : ~k.fromChild}}
    BY DEF Layered!Handlers
  <2>. QED  BY <2>2, <2>3, <2>4
<1>3. Layered!Children["upper"] = <<"broadcast">>
  BY DEF Layered!Children
<1>4. {i \in DOMAIN Layered!Children["upper"] :
         "simple_broadcast_message" \in Layered!Handlers(Layered!Children["upper"][i])} = {1}
  BY <1>2, <1>3
<1>. QED  BY <1>1, <1>3, <1>4 DEF Layered!HandledBy

-----------------------------------------------------------------------------
(***************************************************************************)
(* What one node has heard of one starter, and what is on its way to it.   *)
(***************************************************************************)
LayerTypes ==
  /\ lCurrent \in [Starter -> Nat]
  /\ lTodo \in [Starter -> SUBSET Peer]
  /\ lTransit \in [Starter -> [Peer -> Seq(1..(Sends + 1))]]
  /\ lSends \in [Peer -> Seq(Record)]
  /\ lEchoes \in [Peer -> Seq(Record)]

HeardAt(n, src) == Heard(lSends[n], lEchoes[n], src)

\* The k-th broadcast of src was sent to n before the one that src is at, or by it.
WasSent(n, src, k) ==
  /\ k <= lCurrent[src]
  /\ n = src \/ n \in lTodo[src] => k < lCurrent[src]

InTurn(n, src) ==
  LET line == lTransit[src][n] IN
  /\ ListsInOrder(lSends[n], lEchoes[n], src)
  /\ \A x, y \in DOMAIN line : x < y => line[x] < line[y]
  /\ \A k \in HeardAt(n, src), x \in DOMAIN line : k < line[x]
  /\ \A k \in HeardAt(n, src) : WasSent(n, src, k)
  /\ \A x \in DOMAIN line : WasSent(n, src, line[x])

\* A starter has its own messages up to the broadcast that it is at.
OwnSends(src) ==
  LET c == lCurrent[src] IN
  Cardinality(Layered!From(lSends[src], src)) =
    IF c = 0 THEN 0 ELSE IF c <= Sends THEN c - 1 ELSE Sends

LayerInv ==
  /\ LayerTypes
  /\ \A n \in Peer, src \in Starter : InTurn(n, src)
  /\ \A src \in Starter :
       /\ lTransit[src][src] = <<>> /\ src \notin lTodo[src]
       /\ lTodo[src] # {} => lCurrent[src] \in 1..(Sends + 1)
       /\ OwnSends(src)

LEMMA HeardNumbers ==
  ASSUME LayerInv, NEW n \in Peer, NEW src \in Starter
  PROVE  \A k \in HeardAt(n, src) : k \in Nat
<1>1. /\ lSends[n] \in Seq(Record) /\ lEchoes[n] \in Seq(Record) /\ Sends \in Nat
  BY ExamplesAssumption DEF LayerInv, LayerTypes
<1>2. /\ \A i \in Layered!From(lSends[n], src) : lSends[n][i] \in Record
      /\ \A i \in Layered!From(lEchoes[n], src) : lEchoes[n][i] \in Record
  BY <1>1 DEF Layered!From
<1>. QED  BY <1>1, <1>2 DEF HeardAt, Heard, Record

\* InTurn lasts where nothing of n and src changes, or where src goes on.
LEMMA StillInTurn ==
  ASSUME LayerInv, NEW n \in Peer, NEW src \in Starter,
         lTransit'[src][n] = lTransit[src][n],
         lSends'[n] = lSends[n], lEchoes'[n] = lEchoes[n],
         \A k \in Nat : WasSent(n, src, k) => WasSent(n, src, k)'
  PROVE  InTurn(n, src)'
<1>1. InTurn(n, src) /\ HeardAt(n, src)' = HeardAt(n, src)
  BY DEF LayerInv, HeardAt
<1>2. \A k \in HeardAt(n, src) : k \in Nat
  BY HeardNumbers
<1>3. \A x \in DOMAIN lTransit[src][n] : lTransit[src][n][x] \in Nat
  <2>1. lTransit[src][n] \in Seq(1..(Sends + 1)) /\ Sends \in Nat
    BY ExamplesAssumption DEF LayerInv, LayerTypes
  <2>. QED  BY <2>1
<1>. QED  BY <1>1, <1>2, <1>3 DEF InTurn

LEMMA LayerStart ==
  ASSUME LayerInv, NEW s \in Starter, Layered!Start(s)
  PROVE  LayerInv'
<1>1. /\ lCurrent[s] = 0 /\ lCurrent' = [lCurrent EXCEPT ![s] = 1]
      /\ lTodo' = [lTodo EXCEPT ![s] = Peer \ {s}]
      /\ UNCHANGED <<lTransit, lSends, lEchoes>>
  BY DEF Layered!Start
<1>2. LayerTypes' /\ Sends \in Nat
  BY <1>1, ExamplesAssumption DEF LayerInv, LayerTypes
<1>3. /\ lCurrent'[s] = 1 /\ lTodo'[s] = Peer \ {s}
      /\ \A src \in Starter : src # s => lCurrent'[src] = lCurrent[src] /\ lTodo'[src] = lTodo[src]
  BY <1>1 DEF LayerInv, LayerTypes
<1>4. ASSUME NEW n \in Peer, NEW src \in Starter  PROVE InTurn(n, src)'
  <2>1. \A k \in Nat : WasSent(n, src, k) => WasSent(n, src, k)'
    <3>1. CASE src = s
      BY <1>1, <1>3, <3>1 DEF WasSent
    <3>2. CASE src # s
      BY <1>3, <3>2 DEF WasSent
    <3>. QED  BY <3>1, <3>2
  <2>. QED  BY <1>1, <2>1, StillInTurn
<1>5. ASSUME NEW src \in Starter
      PROVE  /\ lTransit'[src][src] = <<>> /\ src \notin lTodo'[src]
             /\ lTodo'[src] # {} => lCurrent'[src] \in 1..(Sends + 1)
             /\ OwnSends(src)'
  <2>1. CASE src = s
    BY <1>1, <1>2, <1>3, <2>1 DEF LayerInv, OwnSends
  <2>2. CASE src # s
    BY <1>1, <1>3, <2>2 DEF LayerInv, OwnSends
  <2>. QED  BY <2>1, <2>2
<1>. QED  BY <1>2, <1>4, <1>5 DEF LayerInv

LEMMA LayerSend ==
  ASSUME LayerInv, NEW s \in Starter, NEW q \in Peer, Layered!SendToPeer(s, q)
  PROVE  LayerInv'
<1>. DEFINE line == lTransit[s][q]
            longer == Append(line, lCurrent[s])
<1>1. /\ q \in lTodo[s] /\ lTodo' = [lTodo EXCEPT ![s] = @ \ {q}]
      /\ lTransit' = [lTransit EXCEPT ![s][q] = longer]
      /\ UNCHANGED <<lCurrent, lSends, lEchoes>>
  BY DEF Layered!SendToPeer
<1>2. /\ lCurrent[s] \in 1..(Sends + 1) /\ q # s
      /\ line \in Seq(1..(Sends + 1)) /\ Sends \in Nat
  BY <1>1, ExamplesAssumption DEF LayerInv, LayerTypes
<1>3. /\ longer \in Seq(1..(Sends + 1))
      /\ DOMAIN line = 1..Len(line) /\ Len(line) \in Nat
      /\ DOMAIN longer = 1..(Len(line) + 1)
      /\ longer[Len(line) + 1] = lCurrent[s]
      /\ \A i \in 1..Len(line) : longer[i] = line[i]
  BY <1>2, Appended
<1>. HIDE DEF line, longer
<1>4. /\ lTransit' \in [Starter -> [Peer -> Seq(1..(Sends + 1))]]
      /\ lTransit'[s][q] = longer
      /\ \A src \in Starter, n \in Peer :
           src # s \/ n # q => lTransit'[src][n] = lTransit[src][n]
  BY <1>1, <1>3 DEF LayerInv, LayerTypes
<1>5. LayerTypes'
  BY <1>1, <1>4 DEF LayerInv, LayerTypes
<1>6. \A src \in Starter : lTodo'[src] = IF src = s THEN lTodo[s] \ {q} ELSE lTodo[src]
  BY <1>1 DEF LayerInv, LayerTypes
<1>7. ASSUME NEW n \in Peer, NEW src \in Starter, NEW k, WasSent(n, src, k)
      PROVE  WasSent(n, src, k)'
  BY <1>1, <1>6, <1>7 DEF WasSent
<1>8. InTurn(q, s)'
  <2>1. /\ InTurn(q, s) /\ HeardAt(q, s)' = HeardAt(q, s)
    BY <1>1 DEF LayerInv, HeardAt
  <2>2. /\ \A k \in HeardAt(q, s) : k < lCurrent[s]
        /\ \A i \in 1..Len(line) : line[i] < lCurrent[s]
    BY <1>1, <1>3, <2>1 DEF InTurn, WasSent, line
  <2>3. ASSUME NEW i \in 1..(Len(line) + 1)
        PROVE  i \in 1..Len(line) \/ i = Len(line) + 1
    BY <1>3
  <2>4. ASSUME NEW x \in 1..(Len(line) + 1), NEW y \in 1..(Len(line) + 1), x < y
        PROVE  longer[x] < longer[y]
    <3>1. x \in 1..Len(line)
      BY <1>3, <2>4
    <3>2. CASE y \in 1..Len(line)
      BY <1>3, <2>1, <2>4, <3>1, <3>2 DEF InTurn, line
    <3>3. CASE y = Len(line) + 1
      BY <1>3, <2>2, <3>1, <3>3
    <3>. QED  BY <2>3, <3>2, <3>3
  <2>5. ASSUME NEW k \in HeardAt(q, s), NEW x \in 1..(Len(line) + 1)
        PROVE  k < longer[x]
    <3>1. CASE x \in 1..Len(line)
      BY <1>3, <2>1, <2>5, <3>1 DEF InTurn, line
    <3>2. CASE x = Len(line) + 1
      BY <1>3, <2>2, <2>5, <3>2
    <3>. QED  BY <2>3, <3>1, <3>2
  <2>6. \A k \in HeardAt(q, s) : WasSent(q, s, k)'
    BY <1>7, <2>1 DEF InTurn
  <2>7. ASSUME NEW x \in 1..(Len(line) + 1), NEW k, k = longer[x]
        PROVE  WasSent(q, s, k)'
    <3>1. CASE x \in 1..Len(line)
      BY <1>3, <1>7, <2>1, <2>7, <3>1 DEF InTurn, line
    <3>2. CASE x = Len(line) + 1
      BY <1>1, <1>2, <1>3, <1>6, <2>7, <3>2 DEF WasSent
    <3>. QED  BY <2>3, <3>1, <3>2
  <2>8. ListsInOrder(lSends[q], lEchoes[q], s)'
    BY <1>1, <2>1 DEF InTurn
  <2>9. /\ lTransit'[s][q] = longer /\ DOMAIN lTransit'[s][q] = 1..(Len(line) + 1)
        /\ HeardAt(q, s)' = HeardAt(q, s)
    BY <1>3, <1>4, <2>1
  <2>. HIDE DEF HeardAt
  <2>. QED  BY <2>4, <2>5, <2>6, <2>7, <2>8, <2>9 DEF InTurn
<1>9. ASSUME NEW n \in Peer, NEW src \in Starter  PROVE InTurn(n, src)'
  <2>1. CASE n = q /\ src = s
    BY <1>8, <2>1
  <2>2. CASE ~(n = q /\ src = s)
    BY <1>1, <1>4, <1>7, <2>2, StillInTurn
  <2>. QED  BY <2>1, <2>2
<1>10. ASSUME NEW src \in Starter
       PROVE  /\ lTransit'[src][src] = <<>> /\ src \notin lTodo'[src]
              /\ lTodo'[src] # {} => lCurrent'[src] \in 1..(Sends + 1)
              /\ OwnSends(src)'
  <2>1. src \in Peer
    BY ExamplesAssumption
  <2>2. lTransit'[src][src] = lTransit[src][src]
    BY <1>2, <1>4, <2>1
  <2>3. lTodo'[src] \subseteq lTodo[src] /\ lCurrent' = lCurrent
    BY <1>1, <1>6
  <2>4. OwnSends(src) => OwnSends(src)'
    BY <1>1 DEF OwnSends
  <2>. QED  BY <2>2, <2>3, <2>4 DEF LayerInv
<1>. QED  BY <1>5, <1>9, <1>10 DEF LayerInv

LEMMA LayerSendFails ==
  ASSUME LayerInv, NEW s \in Starter, NEW q \in Peer, Layered!SendFails(s, q)
  PROVE  LayerInv'
<1>1. /\ q \in lTodo[s] /\ lTodo' = [lTodo EXCEPT ![s] = @ \ {q}]
      /\ UNCHANGED <<lCurrent, lTransit, lSends, lEchoes>>
  BY DEF Layered!SendFails
<1>2. LayerTypes'
  BY <1>1 DEF LayerInv, LayerTypes
<1>3. \A src \in Starter : lTodo'[src] = IF src = s THEN lTodo[s] \ {q} ELSE lTodo[src]
  BY <1>1 DEF LayerInv, LayerTypes
<1>4. ASSUME NEW n \in Peer, NEW src \in Starter, NEW k, WasSent(n, src, k)
      PROVE  WasSent(n, src, k)'
  BY <1>1, <1>3, <1>4 DEF WasSent
<1>5. ASSUME NEW n \in Peer, NEW src \in Starter  PROVE InTurn(n, src)'
  BY <1>1, <1>4, StillInTurn
<1>6. ASSUME NEW src \in Starter
      PROVE  /\ lTransit'[src][src] = <<>> /\ src \notin lTodo'[src]
             /\ lTodo'[src] # {} => lCurrent'[src] \in 1..(Sends + 1)
             /\ OwnSends(src)'
  BY <1>1, <1>3 DEF LayerInv, OwnSends
<1>. QED  BY <1>2, <1>5, <1>6 DEF LayerInv

OwnCount(n, src) == Cardinality(Layered!From(lSends[n], src))

LEMMA CountLonger ==
  ASSUME NEW list \in Seq(Record), NEW r \in Record, NEW src
  PROVE  /\ Cardinality(Layered!From(Append(list, r), src)) =
              Cardinality(Layered!From(list, src)) + (IF r.src = src THEN 1 ELSE 0)
         /\ Cardinality(Layered!From(list, src)) \in Nat
<1>. DEFINE old == Layered!From(list, src)
<1>1. /\ old \subseteq 1..Len(list) /\ Len(list) \in Nat
      /\ Layered!From(Append(list, r), src) =
           old \cup (IF r.src = src THEN {Len(list) + 1} ELSE {})
  BY FromLonger
<1>2. IsFiniteSet(1..Len(list))
  BY <1>1, FS_Interval
<1>. HIDE DEF old
<1>3. IsFiniteSet(old) /\ Cardinality(old) \in Nat
  BY <1>1, <1>2, FS_Subset, FS_CardinalityType
<1>4. Len(list) + 1 \notin old
  BY <1>1
<1>5. CASE r.src = src
  BY <1>1, <1>3, <1>4, <1>5, FS_AddElement DEF old
<1>6. CASE r.src # src
  <2>1. Layered!From(Append(list, r), src) = old
    BY <1>1, <1>6
  <2>. QED  BY <1>3, <1>6, <2>1 DEF old
<1>. QED  BY <1>5, <1>6

\* A message of src is delivered at n: nothing else is heard, and in its turn.
LEMMA Delivered ==
  ASSUME LayerInv, NEW n \in Peer, NEW src \in Starter, NEW k \in 1..(Sends + 1),
         Layered!DeliverMessage("broadcast", n, src, k),
         \A h \in HeardAt(n, src) : h < k
  PROVE  /\ lSends' \in [Peer -> Seq(Record)] /\ lEchoes' \in [Peer -> Seq(Record)]
         /\ \A q \in Peer : q # n => lSends'[q] = lSends[q] /\ lEchoes'[q] = lEchoes[q]
         /\ \A x \in Starter :
              /\ ListsInOrder(lSends[n], lEchoes[n], x)'
              /\ HeardAt(n, x)' = HeardAt(n, x) \cup (IF x = src THEN {k} ELSE {})
              /\ OwnCount(n, x) \in Nat
              /\ OwnCount(n, x)' = OwnCount(n, x)
                                     + (IF x = src /\ k <= Sends THEN 1 ELSE 0)
<1>. DEFINE r == [src |-> src, number |-> k]
<1>1. /\ r \in Record /\ r.src = src /\ r.number = k
  BY DEF Record
<1>2. IF k <= Sends
      THEN lSends' = [lSends EXCEPT ![n] = Append(@, r)] /\ lEchoes' = lEchoes
      ELSE lEchoes' = [lEchoes EXCEPT ![n] = Append(@, r)] /\ lSends' = lSends
  BY Handing
<1>. HIDE DEF r
<1>3. /\ lSends \in [Peer -> Seq(Record)] /\ lEchoes \in [Peer -> Seq(Record)]
      /\ lSends[n] \in Seq(Record) /\ lEchoes[n] \in Seq(Record)
  BY DEF LayerInv, LayerTypes
<1>4. ASSUME NEW x \in Starter
      PROVE  /\ ListsInOrder(lSends[n], lEchoes[n], x)
             /\ r.src = x => \A h \in Heard(lSends[n], lEchoes[n], x) : h < r.number
  BY <1>1 DEF LayerInv, InTurn, HeardAt
<1>5. CASE k <= Sends
  <2>1. /\ Append(lSends[n], r) \in Seq(Record)
        /\ lSends'[n] = Append(lSends[n], r) /\ lEchoes'[n] = lEchoes[n]
        /\ \A q \in Peer : q # n => lSends'[q] = lSends[q] /\ lEchoes'[q] = lEchoes[q]
    BY <1>1, <1>2, <1>3, <1>5
  <2>2. lSends' \in [Peer -> Seq(Record)] /\ lEchoes' \in [Peer -> Seq(Record)]
    BY <1>2, <1>3, <1>5, <2>1
  <2>3. ASSUME NEW x \in Starter
        PROVE  /\ ListsInOrder(lSends[n], lEchoes[n], x)'
               /\ HeardAt(n, x)' = HeardAt(n, x) \cup (IF x = src THEN {k} ELSE {})
               /\ OwnCount(n, x) \in Nat
               /\ OwnCount(n, x)' = OwnCount(n, x)
                                      + (IF x = src /\ k <= Sends THEN 1 ELSE 0)
    <3>1. /\ ListsInOrder(Append(lSends[n], r), lEchoes[n], x)
          /\ Heard(Append(lSends[n], r), lEchoes[n], x) =
               Heard(lSends[n], lEchoes[n], x) \cup (IF r.src = x THEN {r.number} ELSE {})
      BY <1>1, <1>3, <1>4, <1>5, SendHeard
    <3>2. /\ Cardinality(Layered!From(Append(lSends[n], r), x)) =
               Cardinality(Layered!From(lSends[n], x)) + (IF r.src = x THEN 1 ELSE 0)
          /\ Cardinality(Layered!From(lSends[n], x)) \in Nat
      BY <1>1, <1>3, CountLonger
    <3>3. ListsInOrder(lSends[n], lEchoes[n], x)'
      BY <2>1, <3>1 DEF ListsInOrder
    <3>4. HeardAt(n, x)' = HeardAt(n, x) \cup (IF x = src THEN {k} ELSE {})
      BY <1>1, <2>1, <3>1 DEF HeardAt
    <3>5. /\ OwnCount(n, x) \in Nat
          /\ OwnCount(n, x)' = OwnCount(n, x)
                                 + (IF x = src /\ k <= Sends THEN 1 ELSE 0)
      BY <1>1, <1>5, <2>1, <3>2 DEF OwnCount
    <3>. QED  BY <3>3, <3>4, <3>5
  <2>. QED  BY <2>1, <2>2, <2>3
<1>6. CASE ~(k <= Sends)
  <2>1. /\ Append(lEchoes[n], r) \in Seq(Record)
        /\ lEchoes'[n] = Append(lEchoes[n], r) /\ lSends'[n] = lSends[n]
        /\ \A q \in Peer : q # n => lSends'[q] = lSends[q] /\ lEchoes'[q] = lEchoes[q]
    BY <1>1, <1>2, <1>3, <1>6
  <2>2. lSends' \in [Peer -> Seq(Record)] /\ lEchoes' \in [Peer -> Seq(Record)]
    BY <1>2, <1>3, <1>6, <2>1
  <2>3. ASSUME NEW x \in Starter
        PROVE  /\ ListsInOrder(lSends[n], lEchoes[n], x)'
               /\ HeardAt(n, x)' = HeardAt(n, x) \cup (IF x = src THEN {k} ELSE {})
               /\ OwnCount(n, x) \in Nat
               /\ OwnCount(n, x)' = OwnCount(n, x)
                                      + (IF x = src /\ k <= Sends THEN 1 ELSE 0)
    <3>1. /\ ListsInOrder(lSends[n], Append(lEchoes[n], r), x)
          /\ Heard(lSends[n], Append(lEchoes[n], r), x) =
               Heard(lSends[n], lEchoes[n], x) \cup (IF r.src = x THEN {r.number} ELSE {})
      BY <1>1, <1>3, <1>4, <1>6, EchoHeard
    <3>2. Cardinality(Layered!From(lSends[n], x)) \in Nat
      BY <1>1, <1>3, CountLonger
    <3>3. ListsInOrder(lSends[n], lEchoes[n], x)'
      BY <2>1, <3>1 DEF ListsInOrder
    <3>4. HeardAt(n, x)' = HeardAt(n, x) \cup (IF x = src THEN {k} ELSE {})
      BY <1>1, <2>1, <3>1 DEF HeardAt
    <3>5. /\ OwnCount(n, x) \in Nat
          /\ OwnCount(n, x)' = OwnCount(n, x)
                                 + (IF x = src /\ k <= Sends THEN 1 ELSE 0)
      BY <1>1, <1>6, <2>1, <3>2 DEF OwnCount
    <3>. QED  BY <3>3, <3>4, <3>5
  <2>. QED  BY <2>1, <2>2, <2>3
<1>. QED  BY <1>5, <1>6

LEMMA LayerGathered ==
  ASSUME LayerInv, NEW s \in Starter, Layered!Gathered(s)
  PROVE  LayerInv'
<1>. DEFINE c == lCurrent[s]
<1>1. /\ c \in 1..(Sends + 1) /\ lTodo[s] = {} /\ lTransit' = lTransit
      /\ Layered!DeliverMessage("broadcast", s, s, c)
      /\ lCurrent' = [lCurrent EXCEPT ![s] = c + 1]
      /\ lTodo' = IF c + 1 \in 1..(Sends + 1)
                  THEN [lTodo EXCEPT ![s] = Peer \ {s}] ELSE lTodo
  BY DEF Layered!Gathered, Layered!Broadcasts
<1>2. /\ s \in Peer /\ Sends \in Nat /\ lCurrent \in [Starter -> Nat]
      /\ lTodo \in [Starter -> SUBSET Peer]
  BY ExamplesAssumption DEF LayerInv, LayerTypes
<1>3. \A h \in HeardAt(s, s) : h < c
  BY <1>2 DEF LayerInv, InTurn, WasSent
<1>4. /\ lSends' \in [Peer -> Seq(Record)] /\ lEchoes' \in [Peer -> Seq(Record)]
      /\ \A q \in Peer : q # s => lSends'[q] = lSends[q] /\ lEchoes'[q] = lEchoes[q]
      /\ \A x \in Starter :
           /\ ListsInOrder(lSends[s], lEchoes[s], x)'
           /\ HeardAt(s, x)' = HeardAt(s, x) \cup (IF x = s THEN {c} ELSE {})
           /\ OwnCount(s, x) \in Nat
           /\ OwnCount(s, x)' = OwnCount(s, x) + (IF x = s /\ c <= Sends THEN 1 ELSE 0)
  BY <1>1, <1>2, <1>3, Delivered
<1>. HIDE DEF c
<1>5. /\ lCurrent' \in [Starter -> Nat] /\ lCurrent'[s] = c + 1
      /\ \A x \in Starter : x # s => lCurrent'[x] = lCurrent[x] /\ lTodo'[x] = lTodo[x]
      /\ lTodo' \in [Starter -> SUBSET Peer]
      /\ s \notin lTodo'[s]
      /\ lTodo'[s] # {} => c + 1 \in 1..(Sends + 1)
  BY <1>1, <1>2 DEF LayerInv
<1>6. LayerTypes'
  BY <1>1, <1>4, <1>5 DEF LayerInv, LayerTypes
<1>7. ASSUME NEW n \in Peer, NEW x \in Starter, NEW k \in Nat,
             WasSent(n, x, k) \/ (n = s /\ x = s /\ k = c)
      PROVE  WasSent(n, x, k)'
  <2>1. CASE x = s
    BY <1>1, <1>2, <1>5, <1>7, <2>1 DEF WasSent, c
  <2>2. CASE x # s
    BY <1>5, <1>7, <2>2 DEF WasSent
  <2>. QED  BY <2>1, <2>2
<1>8. ASSUME NEW x \in Starter  PROVE InTurn(s, x)'
  <2>1. InTurn(s, x)
    BY <1>2 DEF LayerInv
  <2>2. CASE x # s
    <3>1. HeardAt(s, x)' = HeardAt(s, x)
      BY <1>4, <2>2
    <3>2. /\ \A k : WasSent(s, x, k) => WasSent(s, x, k)'
      BY <1>5, <2>2 DEF WasSent
    <3>. HIDE DEF HeardAt
    <3>. QED  BY <1>1, <1>4, <2>1, <3>1, <3>2 DEF InTurn
  <2>3. CASE x = s
    <3>1. HeardAt(s, x)' = HeardAt(s, x) \cup {c}
      BY <1>4, <2>3
    <3>2. lTransit'[x][s] = <<>> /\ DOMAIN <<>> = {}
      BY <1>1, <2>3 DEF LayerInv
    <3>3. ASSUME NEW k \in HeardAt(s, x)  PROVE k < c
      BY <1>3, <2>3, <3>3
    <3>4. ASSUME NEW k, k \in HeardAt(s, x)'  PROVE WasSent(s, x, k)'
      <4>1. CASE k = c
        BY <1>5, <1>1, <2>3, <4>1 DEF WasSent
      <4>2. CASE k # c
        <5>1. k \in HeardAt(s, x) /\ WasSent(s, x, k)
          BY <2>1, <3>1, <3>4, <4>2 DEF InTurn
        <5>2. k < c /\ k <= lCurrent[s]
          BY <2>3, <5>1, <3>3 DEF WasSent
        <5>3. k < c + 1 /\ k <= c + 1
          <6>1. k \in Nat
            BY <5>1, HeardNumbers, <1>2, <2>3
          <6>. QED  BY <5>2, <6>1, <1>1
        <5>. QED  BY <1>5, <2>3, <5>3 DEF WasSent
      <4>. QED  BY <4>1, <4>2
    <3>. HIDE DEF HeardAt
    <3>. QED  BY <1>4, <3>2, <3>4 DEF InTurn
  <2>. QED  BY <2>2, <2>3
<1>9. ASSUME NEW n \in Peer, NEW x \in Starter  PROVE InTurn(n, x)'
  <2>1. CASE n = s
    BY <1>8, <2>1
  <2>2. CASE n # s
    BY <1>1, <1>4, <1>7, <2>2, StillInTurn
  <2>. QED  BY <2>1, <2>2
<1>10. ASSUME NEW x \in Starter
       PROVE  /\ lTransit'[x][x] = <<>> /\ x \notin lTodo'[x]
              /\ lTodo'[x] # {} => lCurrent'[x] \in 1..(Sends + 1)
              /\ OwnSends(x)'
  <2>1. OwnSends(x) /\ x \in Peer
    BY ExamplesAssumption DEF LayerInv
  <2>2. CASE x = s
    <3>1. OwnCount(s, s) = IF c <= Sends THEN c - 1 ELSE Sends
      BY <1>1, <1>2, <2>1, <2>2 DEF OwnSends, OwnCount, c
    <3>2. OwnCount(s, s)' = OwnCount(s, s) + (IF c <= Sends THEN 1 ELSE 0)
      BY <1>4
    <3>3. OwnCount(s, s)' = IF c + 1 <= Sends THEN c ELSE Sends
      BY <3>1, <3>2, <1>1, <1>2 DEF c
    <3>4. OwnSends(s)'
      BY <3>3, <1>1, <1>2, <1>5 DEF OwnSends, OwnCount
    <3>. QED  BY <1>1, <1>5, <2>2, <3>4 DEF LayerInv
  <2>3. CASE x # s
    BY <1>1, <1>4, <1>5, <2>1, <2>3 DEF LayerInv, OwnSends
  <2>. QED  BY <2>2, <2>3
<1>. QED  BY <1>6, <1>9, <1>10 DEF LayerInv

LEMMA LayerHandle ==
  ASSUME LayerInv, NEW n \in Peer, NEW src \in Starter, Layered!Handle(n, src)
  PROVE  LayerInv'
<1>. DEFINE line == lTransit[src][n]
            k == Head(line)
<1>1. /\ line # <<>>
      /\ lTransit' = [lTransit EXCEPT ![src][n] = Tail(line)]
      /\ Layered!DeliverMessage("broadcast", n, src, k)
      /\ UNCHANGED <<lCurrent, lTodo>>
  BY ChildHandles DEF Layered!Handle
<1>2. /\ line \in Seq(1..(Sends + 1)) /\ Sends \in Nat /\ src \in Peer
      /\ lTransit \in [Starter -> [Peer -> Seq(1..(Sends + 1))]]
  BY ExamplesAssumption DEF LayerInv, LayerTypes
<1>3. /\ DOMAIN line = 1..Len(line) /\ Len(line) \in Nat \ {0}
      /\ 1 \in DOMAIN line /\ k = line[1] /\ k \in 1..(Sends + 1)
      /\ Tail(line) \in Seq(1..(Sends + 1))
      /\ DOMAIN Tail(line) = 1..(Len(line) - 1)
      /\ \A i \in 1..(Len(line) - 1) : Tail(line)[i] = line[i + 1]
  <2>. HIDE DEF line
  <2>. QED  BY <1>1, <1>2, FirstOfLine
<1>4. src # n
  BY <1>1 DEF LayerInv
<1>5. InTurn(n, src)
  BY DEF LayerInv
<1>6. \A h \in HeardAt(n, src) : h < k
  BY <1>3, <1>5 DEF InTurn
<1>7. /\ lSends' \in [Peer -> Seq(Record)] /\ lEchoes' \in [Peer -> Seq(Record)]
      /\ \A q \in Peer : q # n => lSends'[q] = lSends[q] /\ lEchoes'[q] = lEchoes[q]
      /\ \A x \in Starter :
           /\ ListsInOrder(lSends[n], lEchoes[n], x)'
           /\ HeardAt(n, x)' = HeardAt(n, x) \cup (IF x = src THEN {k} ELSE {})
           /\ OwnCount(n, x) \in Nat
           /\ OwnCount(n, x)' = OwnCount(n, x) + (IF x = src /\ k <= Sends THEN 1 ELSE 0)
  BY <1>1, <1>3, <1>6, Delivered
<1>8. /\ lTransit' \in [Starter -> [Peer -> Seq(1..(Sends + 1))]]
      /\ lTransit'[src][n] = Tail(line)
      /\ \A x \in Starter, q \in Peer :
           x # src \/ q # n => lTransit'[x][q] = lTransit[x][q]
  BY <1>1, <1>2, <1>3
<1>9. LayerTypes'
  BY <1>1, <1>7, <1>8 DEF LayerInv, LayerTypes
<1>10. \A q, x, h : WasSent(q, x, h) => WasSent(q, x, h)'
  BY <1>1 DEF WasSent
<1>. HIDE DEF line, k
<1>11. InTurn(n, src)'
  <2>1. \A i \in 1..(Len(line) - 1) : i + 1 \in DOMAIN line /\ 1 < i + 1
    BY <1>3
  <2>2. ASSUME NEW x \in 1..(Len(line) - 1), NEW y \in 1..(Len(line) - 1), x < y
        PROVE  Tail(line)[x] < Tail(line)[y]
    <3>1. \A a, b \in DOMAIN line : a < b => line[a] < line[b]
      BY <1>5 DEF InTurn, line
    <3>2. x + 1 \in DOMAIN line /\ y + 1 \in DOMAIN line /\ x + 1 < y + 1
      BY <1>3, <2>1, <2>2
    <3>3. line[x + 1] < line[y + 1]
      BY <3>1, <3>2
    <3>. QED  BY <1>3, <3>3
  <2>3. ASSUME NEW h, h \in HeardAt(n, src)', NEW x \in 1..(Len(line) - 1)
        PROVE  h < Tail(line)[x]
    <3>1. CASE h = k
      BY <1>3, <1>5, <2>1, <3>1 DEF InTurn, line
    <3>2. CASE h # k
      <4>1. h \in HeardAt(n, src)
        BY <1>7, <2>3, <3>2
      <4>. QED  BY <1>3, <1>5, <2>1, <4>1 DEF InTurn, line
    <3>. QED  BY <3>1, <3>2
  <2>4. ASSUME NEW h, h \in HeardAt(n, src)'
        PROVE  WasSent(n, src, h)'
    <3>1. CASE h = k
      <4>1. WasSent(n, src, k)
        BY <1>3, <1>5 DEF InTurn, line
      <4>. QED  BY <1>10, <3>1, <4>1
    <3>2. CASE h # k
      <4>1. h \in HeardAt(n, src)
        BY <1>7, <2>4, <3>2
      <4>. QED  BY <1>5, <1>10, <4>1 DEF InTurn
    <3>. QED  BY <3>1, <3>2
  <2>5. ASSUME NEW x \in 1..(Len(line) - 1), NEW h, h = Tail(line)[x]
        PROVE  WasSent(n, src, h)'
    BY <1>3, <1>5, <1>10, <2>1, <2>5 DEF InTurn, line
  <2>6. /\ lTransit'[src][n] = Tail(line) /\ DOMAIN lTransit'[src][n] = 1..(Len(line) - 1)
    BY <1>3, <1>8
  <2>. HIDE DEF HeardAt
  <2>. QED  BY <1>7, <2>2, <2>3, <2>4, <2>5, <2>6 DEF InTurn
<1>12. ASSUME NEW q \in Peer, NEW x \in Starter  PROVE InTurn(q, x)'
  <2>1. CASE q # n
    BY <1>7, <1>8, <1>10, <2>1, StillInTurn
  <2>2. CASE q = n /\ x # src
    <3>1. HeardAt(n, x)' = HeardAt(n, x) /\ lTransit'[x][n] = lTransit[x][n]
      BY <1>7, <1>8, <2>2
    <3>2. InTurn(n, x)
      BY DEF LayerInv
    <3>. HIDE DEF HeardAt
    <3>. QED  BY <1>7, <1>10, <2>2, <3>1, <3>2 DEF InTurn
  <2>. QED  BY <1>11, <2>1, <2>2
<1>13. ASSUME NEW x \in Starter
       PROVE  /\ lTransit'[x][x] = <<>> /\ x \notin lTodo'[x]
              /\ lTodo'[x] # {} => lCurrent'[x] \in 1..(Sends + 1)
              /\ OwnSends(x)'
  <2>1. OwnSends(x) /\ x \in Peer
    BY ExamplesAssumption DEF LayerInv
  <2>2. lTransit'[x][x] = lTransit[x][x]
    BY <1>4, <1>8, <2>1
  <2>3. OwnCount(x, x)' = OwnCount(x, x)
    <3>1. CASE x = n
      BY <1>4, <1>7, <3>1
    <3>2. CASE x # n
      BY <1>7, <2>1, <3>2 DEF OwnCount
    <3>. QED  BY <3>1, <3>2
  <2>4. OwnSends(x)'
    BY <1>1, <2>1, <2>3 DEF OwnSends, OwnCount
  <2>. QED  BY <1>1, <2>2, <2>4 DEF LayerInv
<1>. QED  BY <1>9, <1>12, <1>13 DEF LayerInv

LEMMA EchoIsLast ==
  ASSUME LayerInv
  PROVE  LayersEchoLast
<1>. SUFFICES ASSUME NEW n \in Peer, NEW src \in Starter
              PROVE  LET sent == Layered!From(lSends[n], src)
                         over == Layered!From(lEchoes[n], src)
                     IN
                     /\ \A i, j \in sent : i < j => lSends[n][i].number < lSends[n][j].number
                     /\ \A i, j \in over : i < j => lEchoes[n][i].number < lEchoes[n][j].number
                     /\ \A i \in sent, j \in over : lSends[n][i].number < lEchoes[n][j].number
                     /\ over # {} =>
                          /\ Cardinality(Layered!From(lSends[src], src)) = Sends
                          /\ lTransit[src][n] = <<>>
  BY LayeredCardinality DEF LayersEchoLast, Layered!EchoComesLast
<1>. DEFINE sent == Layered!From(lSends[n], src)
            over == Layered!From(lEchoes[n], src)
            line == lTransit[src][n]
<1>1. InTurn(n, src) /\ ListsInOrder(lSends[n], lEchoes[n], src) /\ OwnSends(src)
  BY DEF LayerInv, InTurn
<1>2. /\ sent \subseteq Nat /\ over \subseteq Nat /\ Sends \in Nat
      /\ lCurrent[src] \in Nat /\ line \in Seq(1..(Sends + 1))
      /\ \A i \in sent : lSends[n][i].number \in Nat
  <2>1. /\ lSends[n] \in Seq(Record) /\ lEchoes[n] \in Seq(Record)
        /\ lCurrent[src] \in Nat /\ line \in Seq(1..(Sends + 1)) /\ Sends \in Nat
    BY ExamplesAssumption DEF LayerInv, LayerTypes
  <2>2. \A i \in sent : i \in Nat /\ lSends[n][i] \in Record
    BY <2>1 DEF Layered!From
  <2>3. \A i \in over : i \in Nat
    BY <2>1 DEF Layered!From
  <2>. QED  BY <2>1, <2>2, <2>3 DEF Record
<1>3. /\ \A i, j \in sent : i < j => lSends[n][i].number < lSends[n][j].number
      /\ \A i, j \in over : i < j => lEchoes[n][i].number < lEchoes[n][j].number
      /\ \A i \in sent, j \in over : lSends[n][i].number < lEchoes[n][j].number
  BY <1>1, <1>2 DEF ListsInOrder
<1>4. ASSUME NEW j \in over
      PROVE  /\ Cardinality(Layered!From(lSends[src], src)) = Sends
             /\ line = <<>>
  <2>1. Sends + 1 \in HeardAt(n, src)
    BY <1>1 DEF ListsInOrder, HeardAt, Heard
  <2>2. Sends + 1 <= lCurrent[src]
    BY <1>1, <2>1 DEF InTurn, WasSent
  <2>3. Cardinality(Layered!From(lSends[src], src)) = Sends
    BY <1>1, <1>2, <2>2 DEF OwnSends
  <2>4. DOMAIN line = {}
    BY <1>1, <1>2, <2>1 DEF InTurn
  <2>5. line = <<>>
    <3>. HIDE DEF line
    <3>1. DOMAIN line = 1..Len(line) /\ Len(line) \in Nat
      BY <1>2
    <3>2. Len(line) = 0
      BY <2>4, <3>1
    <3>. QED  BY <1>2, <3>2, EmptySeq
  <2>. QED  BY <2>3, <2>5
<1>. QED  BY <1>3, <1>4

\* Every node gets the messages of a starter in their order and its echo last,
\* when the starter has all its own messages and none is on its way there.
THEOREM EchoLast ==
  ProgramsSpec => []LayersEchoLast
<1>. DEFINE all == <<program, vars, templateVars, ringVars, counter,
                      layerVars, chainVars, wiringVars>>
<1>1. ProgramsInit => LayerInv
  <2>1. ASSUME Layered!Init  PROVE LayerInv
    <3>1. /\ lCurrent = [n \in Starter |-> 0] /\ lTodo = [n \in Starter |-> {}]
          /\ lTransit = [n \in Starter |-> [q \in Peer |-> <<>>]]
          /\ lSends = [n \in Peer |-> <<>>] /\ lEchoes = [n \in Peer |-> <<>>]
      BY <2>1 DEF Layered!Init
    <3>2. /\ <<>> \in Seq(Record) /\ <<>> \in Seq(1..(Sends + 1)) /\ DOMAIN <<>> = {}
      OBVIOUS
    <3>3. \A x : Layered!From(<<>>, x) = {}
      BY DEF Layered!From
    <3>4. LayerTypes
      BY <3>1, <3>2 DEF LayerTypes
    <3>5. \A n \in Peer, src \in Starter : InTurn(n, src)
      BY <3>1, <3>2, <3>3 DEF InTurn, ListsInOrder, HeardAt, Heard
    <3>6. \A src \in Starter : src \in Peer /\ OwnSends(src)
      BY <3>1, <3>3, FS_EmptySet, ExamplesAssumption DEF OwnSends
    <3>. QED  BY <3>1, <3>4, <3>5, <3>6 DEF LayerInv
  <2>. QED  BY <2>1 DEF ProgramsInit
<1>2. LayerInv /\ [ProgramsNext]_all => LayerInv'
  <2>1. LayerInv /\ UNCHANGED layerVars => LayerInv'
    BY DEF layerVars, LayerInv, LayerTypes, InTurn, ListsInOrder, HeardAt, Heard,
      WasSent, OwnSends
  <2>2. LayerInv /\ Layered!Next => LayerInv'
    BY LayerStart, LayerGathered, LayerSend, LayerSendFails, LayerHandle DEF Layered!Next
  <2>3. [ProgramsNext]_all => UNCHANGED layerVars \/ Layered!Next
    BY DEF ProgramsNext
  <2>. QED  BY <2>1, <2>2, <2>3
<1>. QED  BY <1>1, <1>2, EchoIsLast, PTL DEF ProgramsSpec
=============================================================================
