----------------------------- MODULE DolevProofs -----------------------------
(***************************************************************************)
(* Proofs about Dolev's broadcast: for every finite set of nodes, every    *)
(* topology, every set of silent nodes, every f and every interleaving.    *)
(***************************************************************************)
EXTENDS Dolev, FiniteSetTheorems, SequenceTheorems, TLAPS

-----------------------------------------------------------------------------
(***************************************************************************)
(* Paths.                                                                  *)
(***************************************************************************)
LEMMA RealEnds ==
  ASSUME NEW n \in Node, NEW p \in Path, Real(p, n)
  PROVE  n # Source /\ p # <<>> /\ n \notin On(p) /\ n \in Hearers(p[Len(p)])
BY DEF Real, On, Path

\* The source's message is one hop from the source.
LEMMA FirstHop ==
  ASSUME NEW n \in Hearers(Source)
  PROVE  Append(<<>>, Source) = <<Source>> /\ Real(<<Source>>, n)
BY DolevAssumption DEF Real, Hearers

\* A relayed path is real.
LEMMA NextHop ==
  ASSUME NEW n \in Node, NEW p \in Path, Real(p, n), NEW q \in Targets(n, p)
  PROVE  Real(Append(p, n), q)
<1>. DEFINE r == Append(p, n)
<1>1. /\ r \in Seq(Node) /\ Len(r) = Len(p) + 1 /\ Len(p) \in Nat
      /\ r[Len(p) + 1] = n
      /\ \A i \in 1..Len(p) : r[i] = p[i]
  BY DEF Path
<1>2. DOMAIN r = 1..(Len(p) + 1) /\ DOMAIN p = 1..Len(p) /\ Len(p) > 0
  BY <1>1 DEF Real, Path
<1>3. r # <<>> /\ r[1] = Source
  BY <1>1, <1>2 DEF Real
<1>4. \A i, j \in DOMAIN r : i # j => r[i] # r[j]
  BY <1>1, <1>2 DEF Real
<1>5. \A i \in DOMAIN r : r[i] # q
  <2>1. q # n /\ q \notin On(p)
    BY DEF Targets, Hearers
  <2>. QED  BY <1>1, <1>2, <2>1 DEF On
<1>6. \A i \in 1..(Len(r) - 1) : r[i + 1] \in Hearers(r[i])
  <2>1. \A i \in 1..(Len(p) - 1) : p[i + 1] \in Hearers(p[i])
    BY DEF Real
  <2>2. n \in Hearers(p[Len(p)])
    BY DEF Real
  <2>3. ASSUME NEW i \in 1..Len(p) PROVE r[i + 1] \in Hearers(r[i])
    <3>1. CASE i = Len(p)
      BY <1>1, <1>2, <2>2, <3>1
    <3>2. CASE i # Len(p)
      <4>1. i \in 1..(Len(p) - 1) /\ i + 1 \in 1..Len(p)
        BY <1>1, <3>2
      <4>. QED  BY <1>1, <2>1, <4>1
    <3>. QED  BY <3>1, <3>2
  <2>. QED  BY <1>1, <2>3
<1>7. q \in Hearers(r[Len(r)])
  BY <1>1 DEF Targets
<1>. QED  BY <1>3, <1>4, <1>5, <1>6, <1>7 DEF Real

\* A longer path has the hops of the shorter one and one more.
LEMMA OneMoreHop ==
  ASSUME NEW n, NEW q, NEW p \in Path, p # <<>>, n \in Node
  PROVE  Hops(Append(p, n), q) = Hops(p, n) \cup {{n, q}}
<1>. DEFINE r == Append(p, n)
<1>1. /\ Len(r) = Len(p) + 1 /\ Len(p) \in Nat /\ Len(p) > 0
      /\ r[Len(p) + 1] = n
      /\ \A i \in 1..Len(p) : r[i] = p[i]
  BY DEF Path
<1>2. Hops(r, q) = {{r[i], r[i + 1]} : i \in 1..Len(p)} \cup {{n, q}}
  BY <1>1 DEF Hops
<1>3. {{r[i], r[i + 1]} : i \in 1..Len(p)} = Hops(p, n)
  <2>1. ASSUME NEW i \in 1..Len(p) PROVE {r[i], r[i + 1]} \in Hops(p, n)
    <3>1. CASE i = Len(p)
      BY <1>1, <3>1 DEF Hops
    <3>2. CASE i # Len(p)
      <4>1. i \in 1..(Len(p) - 1) /\ i + 1 \in 1..Len(p)
        BY <1>1, <3>2
      <4>. QED  BY <1>1, <4>1 DEF Hops
    <3>. QED  BY <3>1, <3>2
  <2>2. ASSUME NEW e \in Hops(p, n)
        PROVE  e \in {{r[i], r[i + 1]} : i \in 1..Len(p)}
    <3>1. CASE e = {p[Len(p)], n}
      BY <1>1, <3>1
    <3>2. CASE \E i \in 1..(Len(p) - 1) : e = {p[i], p[i + 1]}
      <4>1. PICK i \in 1..(Len(p) - 1) : e = {p[i], p[i + 1]}
        BY <3>2
      <4>2. i \in 1..Len(p) /\ i + 1 \in 1..Len(p)
        BY <1>1
      <4>. QED  BY <1>1, <4>1, <4>2
    <3>. QED  BY <3>1, <3>2 DEF Hops
  <2>. QED  BY <2>1, <2>2
<1>. QED  BY <1>2, <1>3

LEMMA OnlyHop == \A q : Hops(<<Source>>, q) = {{Source, q}}
BY DEF Hops

\* Fewer nodes to remove and more edges keep a node connected.
LEMMA MoreEdges ==
  ASSUME NEW E1, NEW E2, E1 \subseteq E2, NEW n, NEW k, Connects(E1, n, k)
  PROVE  Connects(E2, n, k)
BY DEF Connects, Separates

-----------------------------------------------------------------------------
(***************************************************************************)
(* The invariant: what travels, waits and is stored is real, and each path *)
(* was stored by its last node before it came to the next.                 *)
(***************************************************************************)
SoundMessage(m) ==
  IsAnnouncement(m) \/
    /\ Real(Append(m.path, m.src), m.dst)
    /\ m.path # <<>> => m.path \in paths[m.src]

SoundTask(t) ==
  /\ Real(t.path, t.at)
  /\ t.path = <<Source>> \/ t.path \in paths[t.at]
  /\ t.pc = "relaying" =>
       t.path \in paths[t.at] /\ t.todo \subseteq Targets(t.at, t.path)

SoundPath(p, n) == Real(p, n) /\ Hops(p, n) \subseteq MadeHops

Vouched(n) == n \in Hearers(Source) \/ Connects(MadeHops, n, F + 1)

Messaging == \A m \in transit : SoundMessage(m)
Working == \A t \in tasks : SoundTask(t)
Storing == \A n \in Node : \A p \in paths[n] : SoundPath(p, n)
Delivering == \A n \in delivered : Vouched(n)
Counting ==
  /\ transit # {} \/ tasks # {} \/ delivered # {} => begun
  /\ \A n \in Node \ delivered : deliveries[n] = 0

IInv == TypeOK /\ Messaging /\ Working /\ Storing /\ Delivering /\ Counting

-----------------------------------------------------------------------------
(***************************************************************************)
(* What a step may do to each variable.                                    *)
(***************************************************************************)
LEMMA Sending ==
  ASSUME NEW n \in Node, NEW p \in Path, NEW Q, Q \subseteq Node
  PROVE  /\ Messages(n, Q, p) \subseteq DMsg
         /\ \A m \in Messages(n, Q, p) : m.src = n /\ m.dst \in Q /\ m.path = p
BY DEF Messages, DMsg

LEMMA HearersAreNodes ==
  ASSUME NEW n \in Node
  PROVE  Hearers(n) \subseteq Node /\ \A p : Targets(n, p) \subseteq Hearers(n)
BY DolevAssumption DEF Hearers, Targets

LEMMA Storage ==
  ASSUME TypeOK, NEW n \in Node, NEW p \in Path, Store(n, p)
  PROVE  /\ paths' \in [Node -> SUBSET Path]
         /\ paths'[n] = paths[n] \cup {p}
         /\ \A k \in Node : k # n => paths'[k] = paths[k]
BY DEF TypeOK, Store

LEMMA DeliverTypes ==
  ASSUME TypeOK, NEW n \in Node, Deliver(n)
  PROVE  delivered' \subseteq Node /\ deliveries' \in [Node -> Nat]
BY DEF TypeOK, Deliver

LEMMA TaskFields ==
  ASSUME NEW t \in Task
  PROVE  /\ t.at \in Node /\ t.path \in Path /\ t.todo \subseteq Node
         /\ \A pc \in {"parent", "announcing", "relaying", "failed"} :
              /\ Goes(t, pc) \in Task /\ Goes(t, pc).at = t.at
              /\ Goes(t, pc).path = t.path /\ Goes(t, pc).pc = pc
BY DEF Task, Goes

LEMMA MessageFields ==
  ASSUME NEW m \in DMsg
  PROVE  m.src \in Node /\ m.dst \in Node /\ m.path \in Path
         /\ Append(m.path, m.src) \in Path
BY DEF DMsg, Path

\* The relay loop's beginning.
LEMMA Relaying ==
  ASSUME TypeOK, NEW n \in Node, NEW p \in Path
  PROVE  /\ Relayed(n, p) \in Task /\ Relayed(n, p).at = n
         /\ Relayed(n, p).path = p /\ Relayed(n, p).todo \subseteq Targets(n, p)
         /\ RelayedAtOnce(n, p) \subseteq DMsg
         /\ \A m \in RelayedAtOnce(n, p) :
              m.src = n /\ m.dst \in Targets(n, p) /\ m.path = p
<1>1. Targets(n, p) \subseteq Node
  BY HearersAreNodes
<1>2. RelayedAtOnce(n, p) \subseteq Messages(n, Targets(n, p), p)
  BY DEF RelayedAtOnce
<1>3. /\ Relayed(n, p) \in Task /\ Relayed(n, p).at = n
      /\ Relayed(n, p).path = p /\ Relayed(n, p).todo \subseteq Targets(n, p)
  <2>1. CASE told[n] = {}
    BY <1>1, <2>1 DEF Relayed, Task
  <2>2. CASE told[n] # {}
    BY <1>1, <2>2 DEF Relayed, Task
  <2>. QED  BY <2>1, <2>2
<1>. QED  BY <1>1, <1>2, <1>3, Sending

LEMMA TypeStep == ASSUME TypeOK, [Next]_vars PROVE TypeOK'
<1>1. \A t \in tasks : t \in Task
  BY DEF TypeOK
<1>2. \A m \in transit : m \in DMsg
  BY DEF TypeOK
<1>3. CASE Broadcast
  <2>1. Source \in Node /\ <<>> \in Path /\ Hearers(Source) \subseteq Node
    BY DolevAssumption, HearersAreNodes DEF Path
  <2>2. Messages(Source, Hearers(Source), <<>>) \subseteq DMsg
    BY <2>1, Sending
  <2>. QED  BY <1>3, <2>2 DEF TypeOK, Broadcast
<1>4. ASSUME NEW m \in transit, RecvFinished(m) \/ RecvAnnouncement(m)
      PROVE  TypeOK'
  BY <1>2, <1>4, MessageFields DEF TypeOK, RecvFinished, RecvAnnouncement
<1>5. ASSUME NEW m \in transit, RecvDirect(m) PROVE TypeOK'
  <2>1. [at |-> m.dst, path |-> <<Source>>, todo |-> {}, pc |-> "parent"] \in Task
    BY <1>2, MessageFields, DolevAssumption DEF Task, Path
  <2>2. tasks' \subseteq Task /\ transit' \subseteq DMsg
    BY <1>5, <2>1 DEF TypeOK, RecvDirect
  <2>3. m.dst \in Node /\ Deliver(m.dst)
    BY <1>2, <1>5, MessageFields DEF RecvDirect
  <2>. QED  BY <1>5, <2>2, <2>3, DeliverTypes DEF TypeOK, RecvDirect
<1>6. ASSUME NEW m \in transit, RecvPath(m) PROVE TypeOK'
  <2>. DEFINE p == Append(m.path, m.src)
  <2>1. m.dst \in Node /\ p \in Path
    BY <1>2, MessageFields
  <2>2. CASE SecondHop(m)
    BY <1>6, <2>2 DEF TypeOK, RecvPath
  <2>3. CASE ~SecondHop(m)
    <3>1. /\ Store(m.dst, p)
          /\ transit' = (transit \ {m}) \cup RelayedAtOnce(m.dst, p)
          /\ tasks' = tasks \cup {Relayed(m.dst, p)}
      BY <1>6, <2>3 DEF RecvPath
    <3>2. paths' \in [Node -> SUBSET Path] /\ transit' \subseteq DMsg /\ tasks' \subseteq Task
      BY <2>1, <3>1, Storage, Relaying DEF TypeOK
    <3>. QED  BY <1>6, <3>2 DEF TypeOK, RecvPath
  <2>. QED  BY <2>2, <2>3
<1>7. ASSUME NEW t \in tasks, Announce(t)
      PROVE  /\ told' \in [Node -> SUBSET Node] /\ transit' \subseteq DMsg
             /\ tasks' \subseteq Task
  <2>1. <<>> \in Path /\ Hearers(t.at) \subseteq Node /\ t.at \in Node
    <3>1. t.at \in Node
      BY <1>1, TaskFields
    <3>2. <<>> \in Path
      BY DEF Path
    <3>. QED  BY <3>1, <3>2, HearersAreNodes
  <2>2. Messages(t.at, Hearers(t.at), <<>>) \subseteq DMsg
    BY <2>1, Sending
  <2>3. Goes(t, "announcing") \in Task
    BY <1>1, TaskFields
  <2>4. transit' \subseteq DMsg /\ tasks' \subseteq Task
    BY <1>7, <2>2, <2>3 DEF TypeOK, Announce
  <2>5. told' \in [Node -> SUBSET Node]
    BY <1>7, <2>1 DEF TypeOK, Announce
  <2>. QED  BY <2>4, <2>5
<1>8. ASSUME NEW t \in tasks, Continue(t)
      PROVE  /\ paths' \in [Node -> SUBSET Path] /\ transit' \subseteq DMsg
             /\ tasks' \subseteq Task
  <2>1. t.at \in Node /\ t.path \in Path
    BY <1>1, TaskFields
  <2>2. CASE t.path = <<Source>>
    BY <1>8, <2>1, <2>2, Storage, Relaying DEF TypeOK, Continue
  <2>3. CASE t.path # <<Source>>
    BY <1>8, <2>3 DEF TypeOK, Continue
  <2>. QED  BY <2>2, <2>3
<1>9. ASSUME NEW t \in tasks, ParentReturns(t) PROVE TypeOK'
  BY <1>7, <1>8, <1>9 DEF TypeOK, ParentReturns
<1>10. ASSUME NEW t \in tasks, ParentRaises(t) PROVE TypeOK'
  BY <1>1, <1>10, TaskFields DEF TypeOK, ParentRaises
<1>11. ASSUME NEW t \in tasks, Announced(t) PROVE TypeOK'
  BY ZenonT(40), <1>1, <1>8, <1>11, TaskFields DEF TypeOK, Announced
<1>12. ASSUME NEW t \in tasks, NEW q \in t.todo, Relay(t, q) PROVE TypeOK'
  <2>1. t.at \in Node /\ t.path \in Path /\ {q} \subseteq Node
    BY <1>1, TaskFields
  <2>2. Messages(t.at, {q}, t.path) \subseteq DMsg
    BY <2>1, Sending
  <2>3. [t EXCEPT !.todo = @ \ {q}] \in Task
    BY <1>1 DEF Task
  <2>. QED  BY <1>12, <2>2, <2>3 DEF TypeOK, Relay
<1>13. ASSUME NEW t \in tasks, CheckDelivers(t) PROVE TypeOK'
  <2>1. t.at \in Node /\ Goes(t, "parent") \in Task /\ Deliver(t.at)
    BY <1>1, <1>13, TaskFields DEF CheckDelivers
  <2>2. tasks' \subseteq Task
    BY <1>13, <2>1 DEF TypeOK, CheckDelivers
  <2>. QED  BY <1>13, <2>1, <2>2, DeliverTypes DEF TypeOK, CheckDelivers
<1>14. ASSUME NEW t \in tasks, CheckAnnounces(t) PROVE TypeOK'
  BY <1>7, <1>14 DEF TypeOK, CheckAnnounces
<1>15. ASSUME NEW t \in tasks, CheckEnds(t) PROVE TypeOK'
  BY <1>15 DEF TypeOK, CheckEnds
<1>16. CASE UNCHANGED vars
  BY <1>16 DEF TypeOK, vars
<1>. QED
  BY <1>3, <1>4, <1>5, <1>6, <1>9, <1>10, <1>11, <1>12, <1>13, <1>14, <1>15, <1>16
     DEF Next, Receive, Resume

-----------------------------------------------------------------------------
(***************************************************************************)
(* Soundness of what a step adds.                                          *)
(***************************************************************************)
\* Stored paths are kept, and so is what rests on them.
LEMMA Kept ==
  ASSUME TypeOK, \A n \in Node : paths[n] \subseteq paths'[n]
  PROVE  /\ \A m \in DMsg : SoundMessage(m) => SoundMessage(m)'
         /\ \A t \in Task : SoundTask(t) => SoundTask(t)'
         /\ MadeHops \subseteq MadeHops'
         /\ \A n \in Node : Vouched(n) => Vouched(n)'
<1>1. MadeHops \subseteq MadeHops'
  BY DEF MadeHops
<1>2. \A m \in DMsg : SoundMessage(m) => SoundMessage(m)'
  BY MessageFields DEF SoundMessage
<1>3. \A t \in Task : SoundTask(t) => SoundTask(t)'
  BY TaskFields DEF SoundTask
<1>4. \A n \in Node : Vouched(n) => Vouched(n)'
  BY <1>1, MoreEdges DEF Vouched
<1>. QED  BY <1>1, <1>2, <1>3, <1>4

LEMMA PathsGrow ==
  ASSUME TypeOK, [Next]_vars PROVE \A n \in Node : paths[n] \subseteq paths'[n]
<1>1. ASSUME NEW k, NEW p, Store(k, p)
      PROVE  \A n \in Node : paths[n] \subseteq paths'[n]
  BY <1>1 DEF TypeOK, Store
<1>2. UNCHANGED paths \/ \E k, p : Store(k, p)
  BY DEF Next, Broadcast, Receive, RecvFinished, RecvAnnouncement, RecvDirect, RecvPath,
    Resume, ParentReturns, ParentRaises, Announced, Announce, Continue, Relay,
    CheckDelivers, CheckAnnounces, CheckEnds, vars
<1>. QED  BY <1>1, <1>2

\* The beginning of a relay loop adds a sound task and sound messages.
LEMMA SoundRelay ==
  ASSUME TypeOK, NEW n \in Node, NEW p \in Path, Real(p, n), Store(n, p)
  PROVE  /\ \A t : t = Relayed(n, p) => SoundTask(t)'
         /\ \A m \in RelayedAtOnce(n, p) : SoundMessage(m)'
<1>1. p \in paths'[n]
  BY Storage
<1>. DEFINE t == Relayed(n, p)
<1>2. /\ t.at = n /\ t.path = p /\ t.pc = "relaying"
      /\ t.todo \subseteq Targets(n, p)
  BY Relaying DEF Relayed
<1>3. \A u : u = t => SoundTask(u)'
  BY <1>1, <1>2 DEF SoundTask
<1>4. ASSUME NEW m \in RelayedAtOnce(n, p) PROVE SoundMessage(m)'
  <2>1. m.src = n /\ m.dst \in Targets(n, p) /\ m.path = p
    BY Relaying
  <2>2. Real(Append(p, n), m.dst)
    BY <2>1, NextHop
  <2>. QED  BY <1>1, <2>1, <2>2 DEF SoundMessage
<1>. QED  BY <1>3, <1>4

\* So does the continuation after my_deliver.
LEMMA SoundContinue ==
  ASSUME TypeOK, NEW t \in tasks, SoundTask(t), Continue(t)
  PROVE  /\ \A m \in transit' \ transit : SoundMessage(m)'
         /\ \A u \in tasks' \ tasks : SoundTask(u)'
<1>1. t.at \in Node /\ t.path \in Path /\ Real(t.path, t.at)
  BY TaskFields DEF TypeOK, SoundTask
<1>2. CASE t.path = <<Source>>
  <2>1. Store(t.at, t.path)
    BY <1>2 DEF Continue
  <2>2. /\ transit' = transit \cup RelayedAtOnce(t.at, t.path)
        /\ tasks' = (tasks \ {t}) \cup {Relayed(t.at, t.path)}
    BY <1>2 DEF Continue
  <2>3. /\ \A u : u = Relayed(t.at, t.path) => SoundTask(u)'
        /\ \A m \in RelayedAtOnce(t.at, t.path) : SoundMessage(m)'
    BY <1>1, <2>1, SoundRelay
  <2>. QED  BY <2>2, <2>3
<1>3. CASE t.path # <<Source>>
  BY <1>3 DEF Continue
<1>. QED  BY <1>2, <1>3

\* An announcement is never the source's.
LEMMA SoundAnnounce ==
  ASSUME TypeOK, NEW t \in tasks, SoundTask(t), Announce(t), UNCHANGED paths
  PROVE  /\ \A m \in transit' \ transit : SoundMessage(m)'
         /\ \A u \in tasks' \ tasks : SoundTask(u)'
<1>1. t.at \in Node /\ t.path \in Path /\ Real(t.path, t.at)
  BY TaskFields DEF TypeOK, SoundTask
<1>2. t.at # Source
  BY <1>1, RealEnds
<1>3. \A m \in transit' \ transit : SoundMessage(m)'
  BY <1>2 DEF Announce, Messages, SoundMessage, IsAnnouncement
<1>4. /\ Goes(t, "announcing").at = t.at /\ Goes(t, "announcing").path = t.path
      /\ Goes(t, "announcing").pc = "announcing"
  BY TaskFields DEF TypeOK
<1>5. \A u : u = Goes(t, "announcing") => SoundTask(u)'
  BY <1>4 DEF SoundTask
<1>. QED  BY <1>3, <1>5 DEF Announce

LEMMA SoundStep ==
  ASSUME IInv, [Next]_vars
  PROVE  /\ \A m \in transit' \ transit : SoundMessage(m)'
         /\ \A t \in tasks' \ tasks : SoundTask(t)'
<1>1. /\ TypeOK
      /\ \A m \in transit : SoundMessage(m) /\ m \in DMsg
      /\ \A t \in tasks : SoundTask(t) /\ t \in Task
  BY DEF IInv, TypeOK, Messaging, Working
<1>. DEFINE Sound == /\ \A m \in transit' \ transit : SoundMessage(m)'
                     /\ \A t \in tasks' \ tasks : SoundTask(t)'
<1>2. CASE Broadcast
  <2>1. ASSUME NEW m \in transit' \ transit PROVE SoundMessage(m)'
    <3>1. m.src = Source /\ m.path = <<>> /\ m.dst \in Hearers(Source)
      BY <1>2, <2>1 DEF Broadcast, Messages
    <3>. QED  BY <3>1, FirstHop DEF SoundMessage
  <2>. QED  BY <1>2, <2>1 DEF Broadcast
<1>3. ASSUME NEW m \in transit, RecvFinished(m) \/ RecvAnnouncement(m)
      PROVE  Sound
  BY <1>3 DEF RecvFinished, RecvAnnouncement
<1>4. ASSUME NEW m \in transit, RecvDirect(m) PROVE Sound
  <2>1. m.src = Source /\ m.dst \in Node /\ m.path \in Path
    BY <1>1, <1>4, MessageFields DEF RecvDirect
  <2>2. Real(<<Source>>, m.dst)
    <3>1. Real(Append(m.path, Source), m.dst)
      BY <1>1, <2>1 DEF SoundMessage, IsAnnouncement
    <3>2. m.path = <<>>
      <4>1. SUFFICES ASSUME m.path # <<>> PROVE FALSE
        OBVIOUS
      <4>2. m.path \in paths[Source]
        BY <1>1, <2>1, <4>1 DEF SoundMessage, IsAnnouncement
      <4>3. Real(m.path, Source)
        BY <4>2, DolevAssumption DEF IInv, Storing, SoundPath
      <4>. QED  BY <2>1, <4>3, DolevAssumption, RealEnds
    <3>. QED  BY <3>1, <3>2
  <2>3. ASSUME NEW t \in tasks' \ tasks PROVE SoundTask(t)'
    <3>1. t.at = m.dst /\ t.path = <<Source>> /\ t.pc = "parent"
      BY <1>4, <2>3 DEF RecvDirect
    <3>. QED  BY <2>2, <3>1 DEF SoundTask
  <2>. QED  BY <1>4, <2>3 DEF RecvDirect
<1>5. ASSUME NEW m \in transit, RecvPath(m) PROVE Sound
  <2>. DEFINE p == Append(m.path, m.src)
  <2>1. m.dst \in Node /\ p \in Path
    BY <1>1, MessageFields
  <2>2. Real(p, m.dst)
    BY <1>1, <1>5 DEF RecvPath, SoundMessage
  <2>3. CASE SecondHop(m)
    BY <1>5, <2>3 DEF RecvPath
  <2>4. CASE ~SecondHop(m)
    <3>1. /\ Store(m.dst, p)
          /\ transit' = (transit \ {m}) \cup RelayedAtOnce(m.dst, p)
          /\ tasks' = tasks \cup {Relayed(m.dst, p)}
      BY <1>5, <2>4 DEF RecvPath
    <3>2. /\ \A u : u = Relayed(m.dst, p) => SoundTask(u)'
          /\ \A k \in RelayedAtOnce(m.dst, p) : SoundMessage(k)'
      BY <1>1, <2>1, <2>2, <3>1, SoundRelay
    <3>. QED  BY <3>1, <3>2
  <2>. QED  BY <2>3, <2>4
<1>6. ASSUME NEW t \in tasks, ParentReturns(t) PROVE Sound
  BY <1>1, <1>6, SoundAnnounce, SoundContinue DEF ParentReturns
<1>7. ASSUME NEW t \in tasks, NEW pc \in {"parent", "announcing", "failed"},
             tasks' = (tasks \ {t}) \cup {Goes(t, pc)}, UNCHANGED paths
      PROVE  \A u \in tasks' \ tasks : SoundTask(u)'
  <2>1. /\ Goes(t, pc).at = t.at /\ Goes(t, pc).path = t.path
        /\ Goes(t, pc).pc = pc
    <3>1. t \in Task /\ pc \in {"parent", "announcing", "relaying", "failed"}
      BY <1>1
    <3>. QED  BY <3>1, TaskFields
  <2>2. \A u : u = Goes(t, pc) => SoundTask(u)'
    BY <1>1, <1>7, <2>1 DEF SoundTask
  <2>. QED  BY <1>7, <2>2
<1>8. ASSUME NEW t \in tasks, ParentRaises(t) PROVE Sound
  BY <1>7, <1>8 DEF ParentRaises
<1>9. ASSUME NEW t \in tasks, Announced(t) PROVE Sound
  BY <1>1, <1>9, SoundContinue DEF Announced
<1>10. ASSUME NEW t \in tasks, NEW q \in t.todo, Relay(t, q) PROVE Sound
  <2>1. /\ t.at \in Node /\ t.path \in Path /\ Real(t.path, t.at)
        /\ t.path \in paths[t.at] /\ q \in Targets(t.at, t.path)
    BY <1>1, <1>10, TaskFields DEF Relay, SoundTask
  <2>2. Real(Append(t.path, t.at), q)
    BY <2>1, NextHop
  <2>3. ASSUME NEW m \in transit' \ transit PROVE SoundMessage(m)'
    <3>1. m.src = t.at /\ m.dst = q /\ m.path = t.path
      BY <1>10, <2>3 DEF Relay, Messages
    <3>. QED  BY <1>10, <2>1, <2>2, <3>1 DEF SoundMessage, Relay
  <2>4. ASSUME NEW u \in tasks' \ tasks PROVE SoundTask(u)'
    <3>1. u = [t EXCEPT !.todo = @ \ {q}]
      BY <1>10, <2>4 DEF Relay
    <3>2. u.at = t.at /\ u.path = t.path /\ u.todo \subseteq t.todo
      BY <1>1, <3>1 DEF Task
    <3>. QED  BY <1>1, <1>10, <2>1, <3>2 DEF SoundTask, Relay
  <2>. QED  BY <2>3, <2>4
<1>11. ASSUME NEW t \in tasks, CheckDelivers(t) PROVE Sound
  BY <1>7, <1>11 DEF CheckDelivers
<1>12. ASSUME NEW t \in tasks, CheckAnnounces(t) PROVE Sound
  BY <1>1, <1>12, SoundAnnounce DEF CheckAnnounces
<1>13. ASSUME NEW t \in tasks, CheckEnds(t) PROVE Sound
  BY <1>13 DEF CheckEnds
<1>14. CASE UNCHANGED vars
  BY <1>14 DEF vars
<1>. QED
  BY <1>2, <1>3, <1>4, <1>5, <1>6, <1>8, <1>9, <1>10, <1>11, <1>12, <1>13, <1>14
     DEF Next, Receive, Resume

-----------------------------------------------------------------------------
(***************************************************************************)
(* The invariant is kept.                                                  *)
(***************************************************************************)
LEMMA TravelStep ==
  ASSUME IInv, [Next]_vars PROVE Messaging' /\ Working'
<1>1. TypeOK /\ (\A n \in Node : paths[n] \subseteq paths'[n])
  BY PathsGrow DEF IInv
<1>2. \A m \in transit : SoundMessage(m)'
  BY <1>1, Kept DEF IInv, TypeOK, Messaging
<1>3. \A t \in tasks : SoundTask(t)'
  BY <1>1, Kept DEF IInv, TypeOK, Working
<1>. QED  BY <1>2, <1>3, SoundStep DEF Messaging, Working

\* A path is stored with the hop that brought it, after its other hops.
LEMMA SoundStore ==
  ASSUME IInv, NEW n \in Node, NEW p \in Path, Store(n, p), Real(p, n),
         Hops(p, n) \subseteq MadeHops \cup {{p[Len(p)], n}}
  PROVE  Storing'
<1>1. /\ paths' \in [Node -> SUBSET Path]
      /\ paths'[n] = paths[n] \cup {p}
      /\ \A k \in Node : k # n => paths'[k] = paths[k]
  BY Storage DEF IInv
<1>2. MadeHops \subseteq MadeHops'
  BY <1>1 DEF MadeHops
<1>3. {p[Len(p)], n} \in MadeHops'
  <2>1. {p[Len(p)], n} \in {{q[Len(q)], n} : q \in paths'[n]}
    BY <1>1
  <2>. QED  BY <2>1 DEF MadeHops
<1>4. SoundPath(p, n)'
  BY <1>2, <1>3 DEF SoundPath
<1>5. ASSUME NEW k \in Node, NEW q \in paths[k] PROVE SoundPath(q, k)'
  BY <1>2, <1>5 DEF IInv, Storing, SoundPath
<1>6. ASSUME NEW k \in Node, NEW q \in paths'[k] PROVE SoundPath(q, k)'
  BY <1>1, <1>4, <1>5, <1>6
<1>. QED  BY <1>6 DEF Storing

LEMMA StoringStep ==
  ASSUME IInv, [Next]_vars PROVE Storing'
<1>1. /\ TypeOK
      /\ \A m \in transit : SoundMessage(m) /\ m \in DMsg
      /\ \A t \in tasks : SoundTask(t) /\ t \in Task
  BY DEF IInv, TypeOK, Messaging, Working
<1>2. CASE UNCHANGED paths
  BY <1>2 DEF IInv, Storing, SoundPath, MadeHops
<1>3. ASSUME NEW m \in transit, RecvPath(m), Store(m.dst, Append(m.path, m.src))
      PROVE  Storing'
  <2>. DEFINE p == Append(m.path, m.src)
  <2>1. m.src \in Node /\ m.dst \in Node /\ m.path \in Path /\ p \in Path
    BY <1>1, MessageFields
  <2>2. Real(p, m.dst) /\ (m.path # <<>> => m.path \in paths[m.src])
    BY <1>1, <1>3 DEF RecvPath, SoundMessage
  <2>3. p[Len(p)] = m.src
    BY <2>1 DEF Path
  <2>4. Hops(p, m.dst) \subseteq MadeHops \cup {{m.src, m.dst}}
    <3>1. CASE m.path = <<>>
      <4>1. m.src = Source /\ p = <<Source>>
        BY <1>3, <2>1, <3>1 DEF RecvPath, IsAnnouncement
      <4>. QED  BY <4>1, OnlyHop
    <3>2. CASE m.path # <<>>
      <4>1. Hops(m.path, m.src) \subseteq MadeHops
        BY <2>1, <2>2, <3>2 DEF IInv, Storing, SoundPath
      <4>2. Hops(p, m.dst) = Hops(m.path, m.src) \cup {{m.src, m.dst}}
        BY <2>1, <3>2, OneMoreHop
      <4>. QED  BY <4>1, <4>2
    <3>. QED  BY <3>1, <3>2
  <2>. QED  BY <1>3, <2>1, <2>2, <2>3, <2>4, SoundStore
<1>4. ASSUME NEW t \in tasks, Store(t.at, t.path), t.path = <<Source>>
      PROVE  Storing'
  <2>1. t.at \in Node /\ t.path \in Path /\ Real(t.path, t.at)
    BY <1>1, TaskFields DEF SoundTask
  <2>2. t.path[Len(t.path)] = Source
    BY <1>4
  <2>3. Hops(t.path, t.at) \subseteq MadeHops \cup {{t.path[Len(t.path)], t.at}}
    BY <1>4, <2>2, OnlyHop
  <2>. QED  BY <1>4, <2>1, <2>3, SoundStore
<1>5. ASSUME NEW t \in tasks, Continue(t) PROVE Storing'
  BY <1>2, <1>4, <1>5 DEF Continue
<1>. QED
  BY <1>2, <1>3, <1>5
     DEF Next, Broadcast, Receive, RecvFinished, RecvAnnouncement, RecvDirect, RecvPath,
       Resume, ParentReturns, ParentRaises, Announced, Relay,
       CheckDelivers, CheckAnnounces, CheckEnds, vars

\* A delivery rests on the stored paths, or on the source's own message.
LEMMA DeliveringStep ==
  ASSUME IInv, [Next]_vars PROVE Delivering'
<1>1. /\ TypeOK
      /\ \A n \in Node : paths[n] \subseteq paths'[n]
      /\ delivered \subseteq Node
      /\ \A m \in transit : SoundMessage(m) /\ m \in DMsg
      /\ \A t \in tasks : SoundTask(t) /\ t \in Task
  BY PathsGrow DEF IInv, TypeOK, Messaging, Working
<1>2. \A n \in delivered : Vouched(n)'
  BY <1>1, Kept DEF IInv, Delivering
<1>3. CASE UNCHANGED delivered
  BY <1>2, <1>3 DEF Delivering
<1>4. ASSUME NEW m \in transit, RecvDirect(m) PROVE Delivering'
  <2>1. m.dst \in Hearers(Source)
    <3>1. Real(Append(m.path, Source), m.dst) /\ m.path \in Path
      BY <1>1, <1>4, MessageFields DEF RecvDirect, SoundMessage, IsAnnouncement
    <3>2. LET p == Append(m.path, Source) IN p[Len(p)] = Source
      BY <3>1, DolevAssumption DEF Path
    <3>. QED  BY <3>1, <3>2 DEF Real
  <2>2. Vouched(m.dst)'
    BY <2>1 DEF Vouched
  <2>. QED  BY <1>2, <1>4, <2>2 DEF RecvDirect, Deliver, Delivering
<1>5. ASSUME NEW t \in tasks, CheckDelivers(t) PROVE Delivering'
  <2>1. t.at \in Node
    BY <1>1, TaskFields
  <2>2. StoredHops(t.at) \subseteq MadeHops
    BY <2>1 DEF IInv, Storing, SoundPath, StoredHops
  <2>3. Connects(MadeHops, t.at, F + 1)
    BY <1>5, <2>2, MoreEdges DEF CheckDelivers, DistPaths
  <2>4. Vouched(t.at)'
    BY <1>1, <2>1, <2>3, Kept DEF Vouched
  <2>. QED  BY <1>2, <1>5, <2>4 DEF CheckDelivers, Deliver, Delivering
<1>. QED
  BY <1>3, <1>4, <1>5
     DEF Next, Broadcast, Receive, RecvFinished, RecvAnnouncement, RecvPath,
       Resume, ParentReturns, ParentRaises, Announced, Relay, CheckAnnounces, CheckEnds,
       vars

\* The parent is called when a node is counted among those that delivered.
LEMMA Counted ==
  ASSUME TypeOK, Counting, NEW n \in Node, n \notin delivered, Deliver(n), begun'
  PROVE  Counting'
<1>1. delivered' = delivered \cup {n} /\ deliveries' = [deliveries EXCEPT ![n] = @ + 1]
  BY DEF Deliver
<1>2. \A k \in Node : k # n => deliveries'[k] = deliveries[k]
  BY <1>1 DEF TypeOK
<1>. QED  BY <1>1, <1>2 DEF Counting

LEMMA CountingStep ==
  ASSUME IInv, [Next]_vars PROVE Counting'
<1>1. /\ TypeOK /\ Counting
      /\ \A m \in transit : m \in DMsg
      /\ \A t \in tasks : t \in Task
      /\ transit # {} \/ tasks # {} \/ delivered # {} => begun
  BY DEF IInv, TypeOK, Counting
<1>2. ASSUME UNCHANGED <<delivered, deliveries>>, begun' PROVE Counting'
  BY <1>1, <1>2 DEF Counting
<1>3. CASE Broadcast
  BY <1>2, <1>3 DEF Broadcast
<1>4. ASSUME NEW m \in transit, RecvDirect(m) PROVE Counting'
  <2>1. m.dst \in Node
    BY <1>1, MessageFields
  <2>. QED  BY <1>1, <1>4, <2>1, Counted DEF RecvDirect
<1>5. ASSUME NEW t \in tasks, CheckDelivers(t) PROVE Counting'
  <2>1. t.at \in Node
    BY <1>1, TaskFields
  <2>. QED  BY <1>1, <1>5, <2>1, Counted DEF CheckDelivers
<1>6. ASSUME NEW m \in transit, Receive(m), ~RecvDirect(m) PROVE Counting'
  BY <1>1, <1>2, <1>6 DEF Receive, RecvFinished, RecvAnnouncement, RecvPath
<1>7. ASSUME NEW t \in tasks, Resume(t), ~CheckDelivers(t) PROVE Counting'
  <2>1. UNCHANGED <<begun, delivered, deliveries>>
    BY <1>7 DEF Resume, ParentReturns, ParentRaises, Announced, Relay, CheckAnnounces,
      CheckEnds
  <2>2. begun
    BY <1>1
  <2>. QED  BY <1>2, <2>1, <2>2
<1>8. CASE UNCHANGED vars
  BY <1>1, <1>8 DEF Counting, vars
<1>. QED  BY <1>3, <1>4, <1>5, <1>6, <1>7, <1>8 DEF Next

LEMMA InitInv == Init => IInv
<1>. SUFFICES ASSUME Init PROVE IInv
  OBVIOUS
<1>1. TypeOK
  BY DEF Init, InitTables, TypeOK
<1>2. Messaging /\ Working /\ Delivering
  BY DEF Init, Messaging, Working, Delivering
<1>3. Storing
  BY DEF Init, InitTables, Storing
<1>4. Counting
  BY DEF Init, Counting
<1>. QED  BY <1>1, <1>2, <1>3, <1>4 DEF IInv

LEMMA NextInv == IInv /\ [Next]_vars => IInv'
<1>. SUFFICES ASSUME IInv, [Next]_vars PROVE IInv'
  OBVIOUS
<1>1. TypeOK'
  BY TypeStep DEF IInv
<1>. QED  BY <1>1, TravelStep, StoringStep, DeliveringStep, CountingStep DEF IInv

LEMMA Invariance == Spec => []IInv
BY InitInv, NextInv, PTL DEF Spec

-----------------------------------------------------------------------------
(***************************************************************************)
(* The flood.  A node is touched when the message has come to it.  Each    *)
(* touched node has passed the message on to whoever hears it, or one of   *)
(* its handlers is still about to: the neighbours that it skips are those  *)
(* it was told of, and only a touched node announces.                      *)
(***************************************************************************)
Touched(q) == q \in delivered \/ q \in announced \/ \E t \in tasks : t.at = q

Awaited(q) == Touched(q) \/ \E m \in transit : m.dst = q /\ ~IsAnnouncement(m)

Spread(n) == \A q \in Hearers(n) \ {Source} : Awaited(q)

KnownFrom(path) == \A q \in On(path) : q = Source \/ Touched(q)

\* Tasks that are in the relay loop, are to begin it, or ended too early.
Relays(t) == t.pc \in {"relaying", "failed"} \/ t.path = <<Source>>

\* What the relay loop has behind it.
Passed(t) ==
  t.pc = "relaying" => \A q \in Targets(t.at, t.path) \ t.todo : Awaited(q)

FloodMessage(m) == (m.src = Source \/ Touched(m.src)) /\ KnownFrom(m.path)

FloodTask(t) == KnownFrom(t.path) /\ Passed(t)

FloodNode(n) == Spread(n) \/ \E t \in tasks : t.at = n /\ Relays(t)

Flooding ==
  /\ begun => Spread(Source)
  /\ \A n \in Node : \A q \in told[n] : Touched(q)
  /\ \A m \in transit : FloodMessage(m)
  /\ \A t \in tasks : FloodTask(t)
  /\ \A n \in Node \ {Source} : Touched(n) => FloodNode(n)

\* The message never comes back to one that has passed it on (MD4 never
\* applies to a relayed path: the relay loop skips those on the path).
LEMMA NoSecondHop ==
  ASSUME NEW m \in DMsg, Real(Append(m.path, m.src), m.dst)
  PROVE  ~SecondHop(m)
<1>. DEFINE p == Append(m.path, m.src)
<1>1. /\ m.path \in Seq(Node) /\ Len(p) = Len(m.path) + 1
      /\ p[Len(m.path) + 1] = m.src
      /\ \A i \in 1..Len(m.path) : p[i] = m.path[i]
  BY DEF DMsg, Path
<1>2. ASSUME NEW i \in DOMAIN m.path, m.path[i] = m.src PROVE FALSE
  <2>1. i \in 1..Len(m.path) /\ Len(m.path) \in Nat
    BY <1>1
  <2>2. i \in DOMAIN p /\ Len(m.path) + 1 \in DOMAIN p /\ i # Len(m.path) + 1
    BY <1>1, <2>1
  <2>. QED  BY <1>1, <1>2, <2>1, <2>2 DEF Real
<1>. QED  BY <1>2 DEF SecondHop, On

\* The receiver of a message that is no announcement is touched.
LEMMA Touching ==
  ASSUME IInv, NEW m \in transit, Receive(m), ~IsAnnouncement(m)
  PROVE  Touched(m.dst)'
<1>1. m \in DMsg /\ Real(Append(m.path, m.src), m.dst)
  BY DEF IInv, TypeOK, Messaging, SoundMessage
<1>2. m.dst \in Node /\ Append(m.path, m.src) \in Path /\ TypeOK
  BY <1>1, MessageFields DEF IInv
<1>3. CASE RecvFinished(m)
  BY <1>3 DEF RecvFinished, Finished, Touched
<1>4. CASE RecvDirect(m)
  BY <1>4 DEF RecvDirect, Deliver, Touched
<1>5. CASE RecvPath(m)
  <2>1. Relayed(m.dst, Append(m.path, m.src)) \in tasks'
    BY <1>1, <1>5, NoSecondHop DEF RecvPath
  <2>2. Relayed(m.dst, Append(m.path, m.src)).at = m.dst
    BY <1>2, Relaying
  <2>. QED  BY <2>1, <2>2 DEF Touched
<1>. QED  BY <1>3, <1>4, <1>5 DEF Receive, RecvAnnouncement

\* A handler that ends leaves a node that has delivered or announced.
LEMMA TaskTouches ==
  ASSUME IInv, NEW t \in tasks, Resume(t)
  PROVE  Touched(t.at)'
<1>1. t \in Task /\ t.at \in Node /\ t.path \in Path /\ TypeOK
  BY TaskFields DEF IInv, TypeOK
<1>2. ASSUME NEW pc \in {"parent", "announcing", "relaying", "failed"},
             Goes(t, pc) \in tasks'
      PROVE  Touched(t.at)'
  BY <1>1, <1>2, TaskFields DEF Touched
<1>3. CASE ParentReturns(t)
  <2>1. CASE t.at \notin announced
    BY <1>2, <1>3, <2>1 DEF ParentReturns, Announce
  <2>2. CASE t.at \in announced
    BY <1>3, <2>2 DEF ParentReturns, Touched
  <2>. QED  BY <2>1, <2>2
<1>4. CASE ParentRaises(t)
  BY <1>2, <1>4 DEF ParentRaises
<1>5. CASE Announced(t)
  BY <1>5 DEF Announced, Touched
<1>6. ASSUME NEW q \in t.todo, Relay(t, q) PROVE Touched(t.at)'
  <2>1. [t EXCEPT !.todo = @ \ {q}] \in tasks'
    BY <1>6 DEF Relay
  <2>2. [t EXCEPT !.todo = @ \ {q}].at = t.at
    BY <1>1 DEF Task
  <2>. QED  BY <2>1, <2>2 DEF Touched
<1>7. CASE CheckDelivers(t)
  BY <1>7 DEF CheckDelivers, Deliver, Touched
<1>8. CASE CheckAnnounces(t)
  BY <1>2, <1>8 DEF CheckAnnounces, Announce
<1>9. CASE CheckEnds(t)
  BY <1>9 DEF CheckEnds, Touched
<1>. QED  BY <1>3, <1>4, <1>5, <1>6, <1>7, <1>8, <1>9 DEF Resume

\* Handlers are taken from the tasks one at a time, messages likewise.
LEMMA OthersStay ==
  ASSUME [Next]_vars
  PROVE  /\ delivered \subseteq delivered' /\ announced \subseteq announced'
         /\ \/ tasks \subseteq tasks'
            \/ \E t \in tasks : Resume(t) /\ tasks \ {t} \subseteq tasks'
         /\ \/ transit \subseteq transit'
            \/ \E m \in transit : Receive(m) /\ transit \ {m} \subseteq transit'
<1>1. CASE Broadcast
  BY <1>1 DEF Broadcast
<1>2. ASSUME NEW m \in transit, Receive(m)
      PROVE  /\ delivered \subseteq delivered' /\ announced \subseteq announced'
             /\ tasks \subseteq tasks' /\ transit \ {m} \subseteq transit'
  BY <1>2 DEF Receive, RecvFinished, RecvAnnouncement, RecvDirect, RecvPath, Deliver
<1>3. ASSUME NEW t \in tasks, Resume(t)
      PROVE  /\ delivered \subseteq delivered' /\ announced \subseteq announced'
             /\ tasks \ {t} \subseteq tasks' /\ transit \subseteq transit'
  BY <1>3 DEF Resume, ParentReturns, ParentRaises, Announced, Announce, Continue, Relay,
    CheckDelivers, CheckAnnounces, CheckEnds, Deliver
<1>4. CASE UNCHANGED vars
  BY <1>4 DEF vars
<1>. QED  BY <1>1, <1>2, <1>3, <1>4 DEF Next

LEMMA TouchedStays ==
  ASSUME IInv, [Next]_vars, NEW q, Touched(q) PROVE Touched(q)'
<1>1. CASE q \in delivered \/ q \in announced
  BY <1>1, OthersStay DEF Touched
<1>2. ASSUME NEW u \in tasks, u.at = q PROVE Touched(q)'
  <2>1. CASE u \in tasks'
    BY <1>2, <2>1 DEF Touched
  <2>2. CASE u \notin tasks'
    <3>1. Resume(u)
      BY <2>2, OthersStay
    <3>. QED  BY <1>2, <3>1, TaskTouches
  <2>. QED  BY <2>1, <2>2
<1>. QED  BY <1>1, <1>2 DEF Touched

LEMMA AwaitedStays ==
  ASSUME IInv, [Next]_vars, NEW q, Awaited(q) PROVE Awaited(q)'
<1>1. CASE Touched(q)
  BY <1>1, TouchedStays DEF Awaited
<1>2. ASSUME NEW m \in transit, m.dst = q, ~IsAnnouncement(m) PROVE Awaited(q)'
  <2>1. CASE m \in transit'
    BY <1>2, <2>1 DEF Awaited, IsAnnouncement
  <2>2. CASE m \notin transit'
    <3>1. Receive(m)
      BY <2>2, OthersStay
    <3>. QED  BY <1>2, <3>1, Touching DEF Awaited
  <2>. QED  BY <2>1, <2>2
<1>. QED  BY <1>1, <1>2 DEF Awaited

LEMMA FloodStays ==
  ASSUME IInv, [Next]_vars
  PROVE  /\ \A n : Spread(n) => Spread(n)'
         /\ \A p : KnownFrom(p) => KnownFrom(p)'
         /\ \A m : FloodMessage(m) => FloodMessage(m)'
         /\ \A t : FloodTask(t) => FloodTask(t)'
<1>1. \A n : Spread(n) => Spread(n)'
  BY AwaitedStays DEF Spread, Hearers
<1>2. \A p : KnownFrom(p) => KnownFrom(p)'
  BY TouchedStays DEF KnownFrom, On
<1>3. \A m : FloodMessage(m) => FloodMessage(m)'
  BY <1>2, TouchedStays DEF FloodMessage
<1>4. \A t : FloodTask(t) => FloodTask(t)'
  BY <1>2, AwaitedStays DEF FloodTask, Passed, Targets, Hearers, On
<1>. QED  BY <1>1, <1>2, <1>3, <1>4

\* Those to whom a message is sent await it.
LEMMA Expecting ==
  ASSUME NEW n, NEW p, p # <<>> \/ n = Source, NEW Q, NEW q \in Q,
         Messages(n, Q, p) \subseteq transit'
  PROVE  Awaited(q)'
<1>1. [src |-> n, dst |-> q, path |-> p] \in transit'
  BY DEF Messages
<1>. QED  BY <1>1 DEF Awaited, IsAnnouncement

\* The loop that has ended has left nobody out.
LEMMA LoopedSpreads ==
  ASSUME IInv, Flooding, NEW t \in tasks, Looped(t) PROVE Spread(t.at)
<1>1. t.at \in Node /\ KnownFrom(t.path) /\ Passed(t)
  BY TaskFields DEF IInv, TypeOK, Flooding, FloodTask
<1>2. ASSUME NEW q \in Hearers(t.at) \ {Source} PROVE Awaited(q)
  <2>1. CASE q \in On(t.path)
    BY <1>1, <2>1 DEF KnownFrom, Awaited
  <2>2. CASE q \in t.todo
    <3>1. q \in told[t.at]
      BY <2>2 DEF Looped
    <3>. QED  BY <1>1, <3>1 DEF Flooding, Awaited
  <2>3. CASE q \in Targets(t.at, t.path) \ t.todo
    BY <1>1, <2>3 DEF Passed, Looped
  <2>. QED  BY <2>1, <2>2, <2>3 DEF Targets
<1>. QED  BY <1>2 DEF Spread

\* The relay loop's beginning.
LEMMA LoopBegins ==
  ASSUME TypeOK, NEW n \in Node, NEW p \in Path, p # <<>>, KnownFrom(p)',
         RelayedAtOnce(n, p) \subseteq transit', Relayed(n, p) \in tasks'
  PROVE  /\ \A t : t = Relayed(n, p) => FloodTask(t)'
         /\ FloodNode(n)' /\ Touched(n)'
         /\ \A m \in RelayedAtOnce(n, p) : FloodMessage(m)'
<1>. DEFINE t == Relayed(n, p)
<1>1. t.at = n /\ t.path = p /\ t.pc = "relaying"
  BY Relaying DEF Relayed
<1>2. ASSUME NEW q \in Targets(n, p) \ t.todo PROVE Awaited(q)'
  <2>1. told[n] = {}
    BY <1>2 DEF Relayed
  <2>2. Messages(n, Targets(n, p), p) \subseteq transit'
    BY <2>1 DEF RelayedAtOnce
  <2>. QED  BY <2>2, Expecting
<1>3. Touched(n)' /\ FloodNode(n)'
  BY <1>1 DEF Touched, FloodNode, Relays
<1>4. \A m \in RelayedAtOnce(n, p) : FloodMessage(m)'
  BY <1>3, Relaying DEF FloodMessage
<1>5. ASSUME NEW u, u = t PROVE FloodTask(u)'
  BY <1>1, <1>2, <1>5 DEF FloodTask, Passed
<1>. QED  BY <1>3, <1>4, <1>5

\* What a step adds to the flood.
LEMMA FloodContinues ==
  ASSUME IInv, Flooding, [Next]_vars, NEW t \in tasks, Continue(t),
         t.pc \in {"parent", "announcing"}
  PROVE  /\ \A m \in transit' \ transit : FloodMessage(m)'
         /\ \A u \in tasks' \ tasks : FloodTask(u)'
         /\ Relays(t) => FloodNode(t.at)'
<1>1. /\ TypeOK /\ t \in Task /\ t.at \in Node /\ t.path \in Path
      /\ KnownFrom(t.path)'
  BY TaskFields, FloodStays DEF IInv, TypeOK, Flooding, FloodTask
<1>2. CASE t.path = <<Source>>
  <2>1. /\ transit' = transit \cup RelayedAtOnce(t.at, t.path)
        /\ tasks' = (tasks \ {t}) \cup {Relayed(t.at, t.path)}
    BY <1>2 DEF Continue
  <2>2. /\ \A u : u = Relayed(t.at, t.path) => FloodTask(u)'
        /\ FloodNode(t.at)'
        /\ \A m \in RelayedAtOnce(t.at, t.path) : FloodMessage(m)'
    BY <1>1, <1>2, <2>1, LoopBegins
  <2>. QED  BY <2>1, <2>2
<1>3. CASE t.path # <<Source>>
  <2>1. ~Relays(t) /\ tasks' = tasks \ {t} /\ transit' = transit
    BY <1>3 DEF Continue, Relays
  <2>. QED  BY <2>1
<1>. QED  BY <1>2, <1>3

LEMMA FloodAnnounces ==
  ASSUME IInv, Flooding, [Next]_vars, NEW t \in tasks, Announce(t)
  PROVE  /\ \A m \in transit' \ transit : FloodMessage(m)'
         /\ \A u \in tasks' \ tasks : FloodTask(u)'
         /\ t.path = <<Source>> => FloodNode(t.at)'
<1>1. /\ t \in Task /\ t.at \in Node /\ KnownFrom(t.path)'
  BY TaskFields, FloodStays DEF IInv, TypeOK, Flooding, FloodTask
<1>. DEFINE u == Goes(t, "announcing")
<1>2. u.at = t.at /\ u.path = t.path /\ u.pc = "announcing" /\ u \in tasks'
  BY <1>1, TaskFields DEF Announce
<1>3. ASSUME NEW m \in transit' \ transit PROVE FloodMessage(m)'
  <2>1. m.src = t.at /\ m.path = <<>>
    BY <1>3 DEF Announce, Messages
  <2>. QED  BY <1>2, <2>1 DEF FloodMessage, Touched, KnownFrom, On
<1>4. \A w \in tasks' \ tasks : FloodTask(w)'
  BY <1>1, <1>2 DEF Announce, FloodTask, Passed
<1>5. t.path = <<Source>> => FloodNode(t.at)'
  BY <1>2 DEF FloodNode, Relays
<1>. QED  BY <1>3, <1>4, <1>5

\* Whatever is touched or passes something on does so by what it was told.
LEMMA FloodStep ==
  ASSUME IInv, Flooding, [Next]_vars
  PROVE  /\ \A m \in transit' \ transit : FloodMessage(m)'
         /\ \A t \in tasks' \ tasks : FloodTask(t)'
         /\ \A n \in Node \ {Source} :
              Touched(n)' => FloodNode(n)'
<1>1. /\ TypeOK
      /\ \A m \in transit : m \in DMsg /\ SoundMessage(m) /\ FloodMessage(m)'
      /\ \A t \in tasks : t \in Task /\ FloodTask(t)'
  BY FloodStays DEF IInv, TypeOK, Messaging, Flooding
<1>. DEFINE Adds == /\ \A m \in transit' \ transit : FloodMessage(m)'
                    /\ \A t \in tasks' \ tasks : FloodTask(t)'
            Touches(n) == ~Touched(n) /\ Touched(n)' => FloodNode(n)'
            Stays(n) == FloodNode(n) => FloodNode(n)'
<1>2. ASSUME UNCHANGED <<delivered, announced, tasks>>
      PROVE  \A n : Touches(n) /\ Stays(n)
  <2>1. \A n : Touched(n)' <=> Touched(n)
    BY <1>2 DEF Touched
  <2>. QED  BY <1>2, <2>1, FloodStays DEF FloodNode, Relays
\* A task may take another's place at its node.
<1>3. ASSUME NEW t \in tasks, tasks \ {t} \subseteq tasks',
             \A u \in tasks' \ tasks : u.at = t.at,
             delivered' \subseteq delivered \cup {t.at},
             announced' \subseteq announced \cup {t.at},
             Relays(t) => FloodNode(t.at)'
      PROVE  \A n : Touches(n) /\ Stays(n)
  <2>1. ASSUME NEW n, n # t.at PROVE Touched(n)' => Touched(n)
    BY <1>3, <2>1 DEF Touched
  <2>2. Touched(t.at)
    BY DEF Touched
  <2>3. ASSUME NEW n, FloodNode(n) PROVE FloodNode(n)'
    <3>1. CASE Spread(n)
      BY <3>1, FloodStays DEF FloodNode
    <3>2. ASSUME NEW u \in tasks, u.at = n, Relays(u) PROVE FloodNode(n)'
      BY <1>3, <3>2 DEF FloodNode, Relays
    <3>. QED  BY <2>3, <3>1, <3>2 DEF FloodNode
  <2>. QED  BY <2>1, <2>2, <2>3
\* A message may begin a task at its receiver.
<1>4. ASSUME NEW n, tasks \subseteq tasks', \A u \in tasks' \ tasks : u.at = n,
             delivered' \subseteq delivered \cup {n}, announced' = announced,
             FloodNode(n)'
      PROVE  \A k : Touches(k) /\ Stays(k)
  <2>1. ASSUME NEW k, k # n PROVE Touched(k)' => Touched(k)
    BY <1>4, <2>1 DEF Touched
  <2>2. ASSUME NEW k, FloodNode(k) PROVE FloodNode(k)'
    BY <1>4, <2>2, FloodStays DEF FloodNode, Relays
  <2>. QED  BY <1>4, <2>1, <2>2
<1>5. ASSUME Broadcast PROVE Adds /\ \A n : Touches(n) /\ Stays(n)
  <2>1. ASSUME NEW m \in transit' \ transit PROVE FloodMessage(m)'
    <3>1. m.src = Source /\ m.path = <<>>
      BY <1>5, <2>1 DEF Broadcast, Messages
    <3>. QED  BY <3>1 DEF FloodMessage, KnownFrom, On
  <2>. QED  BY <1>2, <1>5, <2>1 DEF Broadcast
<1>6. ASSUME NEW m \in transit, RecvFinished(m) \/ RecvAnnouncement(m)
      PROVE  Adds /\ \A n : Touches(n) /\ Stays(n)
  BY <1>2, <1>6 DEF RecvFinished, RecvAnnouncement
<1>7. ASSUME NEW m \in transit, RecvDirect(m)
      PROVE  Adds /\ \A n : Touches(n) /\ Stays(n)
  <2>. DEFINE t == [at |-> m.dst, path |-> <<Source>>, todo |-> {}, pc |-> "parent"]
  <2>1. /\ transit' = transit \ {m} /\ tasks' = tasks \cup {t}
        /\ delivered' = delivered \cup {m.dst} /\ announced' = announced
    BY <1>7 DEF RecvDirect, Deliver
  <2>2. ASSUME NEW u, u = t PROVE FloodTask(u)'
    <3>1. u.path = <<Source>> /\ u.pc = "parent"
      BY <2>2
    <3>2. On(u.path) = {Source}
      BY <3>1 DEF On
    <3>. QED  BY <3>1, <3>2 DEF FloodTask, KnownFrom, Passed
  <2>3. FloodNode(m.dst)'
    <3>1. t.at = m.dst /\ t.path = <<Source>> /\ t \in tasks'
      BY <2>1
    <3>2. \E u \in tasks' : u.at = m.dst /\ u.path = <<Source>>
      BY <3>1
    <3>. QED  BY <3>2 DEF FloodNode, Relays
  <2>4. \A n : Touches(n) /\ Stays(n)
    <3>. HIDE DEF t
    <3>1. t.at = m.dst
      BY DEF t
    <3>. QED  BY <1>4, <2>1, <2>3, <3>1
  <2>. QED  BY <2>1, <2>2, <2>4
<1>8. ASSUME NEW m \in transit, RecvPath(m)
      PROVE  Adds /\ \A n : Touches(n) /\ Stays(n)
  <2>. DEFINE p == Append(m.path, m.src)
  <2>1. /\ m.src \in Node /\ m.dst \in Node /\ m.path \in Path /\ p \in Path
        /\ p # <<>>
    BY <1>1, MessageFields DEF Path
  <2>2. ~SecondHop(m)
    BY <1>1, <1>8, NoSecondHop DEF RecvPath, SoundMessage
  <2>3. /\ transit' = (transit \ {m}) \cup RelayedAtOnce(m.dst, p)
        /\ tasks' = tasks \cup {Relayed(m.dst, p)}
    BY <1>8, <2>2 DEF RecvPath
  <2>4. On(p) \subseteq On(m.path) \cup {m.src}
    BY <2>1 DEF On, Path
  <2>5. KnownFrom(p)'
    BY <1>1, <2>4 DEF FloodMessage, KnownFrom
  <2>6. /\ \A u : u = Relayed(m.dst, p) => FloodTask(u)'
        /\ FloodNode(m.dst)'
        /\ \A k \in RelayedAtOnce(m.dst, p) : FloodMessage(k)'
    BY <1>1, <2>1, <2>3, <2>5, LoopBegins
  <2>7. Relayed(m.dst, p).at = m.dst
    BY <1>1, <2>1, Relaying
  <2>. QED  BY <1>4, <1>8, <2>3, <2>6, <2>7 DEF RecvPath
<1>9. ASSUME NEW t \in tasks, NEW pc \in {"parent", "announcing", "failed"},
             tasks' = (tasks \ {t}) \cup {Goes(t, pc)},
             transit' = transit
      PROVE  Adds /\ \A u \in tasks' \ tasks : u.at = t.at
  <2>1. /\ Goes(t, pc).at = t.at /\ Goes(t, pc).path = t.path
        /\ Goes(t, pc).pc = pc
    <3>1. t \in Task /\ pc \in {"parent", "announcing", "relaying", "failed"}
      BY <1>1
    <3>. QED  BY <3>1, TaskFields
  <2>2. \A u : u = Goes(t, pc) => FloodTask(u)'
    BY <1>1, <2>1 DEF FloodTask, Passed
  <2>. QED  BY <1>9, <2>1, <2>2
<1>10. ASSUME NEW t \in tasks, Announce(t) PROVE \A u \in tasks' \ tasks : u.at = t.at
  <2>1. Goes(t, "announcing").at = t.at
    BY <1>1, TaskFields
  <2>. QED  BY <1>10, <2>1 DEF Announce
<1>11. ASSUME NEW t \in tasks, Continue(t) PROVE \A u \in tasks' \ tasks : u.at = t.at
  <2>1. t.at \in Node /\ t.path \in Path
    BY <1>1, TaskFields
  <2>2. Relayed(t.at, t.path).at = t.at
    BY <1>1, <2>1, Relaying
  <2>. QED  BY <1>11, <2>2 DEF Continue
<1>12. ASSUME NEW t \in tasks, Resume(t), delivered' \subseteq delivered \cup {t.at},
              announced' \subseteq announced \cup {t.at},
              \A u \in tasks' \ tasks : u.at = t.at, Relays(t) => FloodNode(t.at)'
       PROVE  \A n : Touches(n) /\ Stays(n)
  <2>1. tasks \ {t} \subseteq tasks'
    BY <1>12 DEF Resume, ParentReturns, ParentRaises, Announced, Announce, Continue,
      Relay, CheckDelivers, CheckAnnounces, CheckEnds
  <2>. QED  BY <1>3, <1>12, <2>1
<1>13. ASSUME NEW t \in tasks, ParentReturns(t)
       PROVE  Adds /\ \A n : Touches(n) /\ Stays(n)
  <2>1. t.pc = "parent" /\ delivered' = delivered /\ announced' = announced /\ Resume(t)
    BY <1>13 DEF ParentReturns, Resume
  <2>2. Relays(t) => t.path = <<Source>>
    BY <2>1 DEF Relays
  <2>3. CASE Announce(t)
    BY <1>10, <1>12, <2>1, <2>2, <2>3, FloodAnnounces
  <2>4. CASE Continue(t)
    BY <1>11, <1>12, <2>1, <2>4, FloodContinues
  <2>. QED  BY <1>13, <2>3, <2>4 DEF ParentReturns
<1>14. ASSUME NEW t \in tasks, Announced(t)
       PROVE  Adds /\ \A n : Touches(n) /\ Stays(n)
  <2>1. /\ t.pc = "announcing" /\ delivered' = delivered /\ Resume(t) /\ Continue(t)
        /\ announced' = announced \cup {t.at}
    BY <1>14 DEF Announced, Resume
  <2>. QED  BY <1>11, <1>12, <2>1, FloodContinues
<1>15. ASSUME NEW t \in tasks, ParentRaises(t)
       PROVE  Adds /\ \A n : Touches(n) /\ Stays(n)
  <2>1. /\ delivered' = delivered /\ announced' = announced /\ transit' = transit
        /\ tasks' = (tasks \ {t}) \cup {Goes(t, "failed")} /\ Resume(t)
    BY <1>15 DEF ParentRaises, Resume
  <2>2. FloodNode(t.at)'
    <3>1. Goes(t, "failed").at = t.at /\ Goes(t, "failed").pc = "failed"
      BY <1>1, TaskFields
    <3>2. \E u \in tasks' : u.at = t.at /\ u.pc = "failed"
      BY <2>1, <3>1
    <3>. QED  BY <3>2 DEF FloodNode, Relays
  <2>. QED  BY <1>9, <1>12, <2>1, <2>2
<1>16. ASSUME NEW t \in tasks, NEW q \in t.todo, Relay(t, q)
       PROVE  Adds /\ \A n : Touches(n) /\ Stays(n)
  <2>. DEFINE w == [t EXCEPT !.todo = @ \ {q}]
  <2>1. /\ t.pc = "relaying" /\ delivered' = delivered /\ announced' = announced
        /\ transit' = transit \cup Messages(t.at, {q}, t.path) /\ Resume(t)
        /\ tasks' = (tasks \ {t}) \cup {w}
    BY <1>16 DEF Relay, Resume
  <2>2. w.at = t.at /\ w.path = t.path /\ w.pc = t.pc /\ w.todo = t.todo \ {q}
    BY <1>1 DEF Task
  <2>3. t.path # <<>>
    BY <1>1 DEF IInv, Working, SoundTask, Real
  <2>4. Awaited(q)'
    BY <2>1, <2>3, Expecting
  <2>5. ASSUME NEW m \in transit' \ transit PROVE FloodMessage(m)'
    <3>1. m.src = t.at /\ m.path = t.path
      BY <2>1, <2>5 DEF Messages
    <3>2. Touched(t.at)'
      BY <2>1, TaskTouches
    <3>. QED  BY <1>1, <3>1, <3>2 DEF FloodMessage, FloodTask
  <2>6. ASSUME NEW u, u = w PROVE FloodTask(u)' /\ u.at = t.at
    BY <1>1, <2>1, <2>2, <2>4, <2>6 DEF FloodTask, Passed
  <2>7. FloodNode(t.at)'
    <3>1. \E u \in tasks' : u.at = t.at /\ u.pc = "relaying"
      BY <2>1, <2>2
    <3>. QED  BY <3>1 DEF FloodNode, Relays
  <2>8. (\A u \in tasks' \ tasks : u.at = t.at) /\ Adds
    BY <2>1, <2>5, <2>6
  <2>. QED  BY <1>12, <2>1, <2>7, <2>8
<1>17. ASSUME NEW t \in tasks, Looped(t) PROVE FloodNode(t.at)'
  BY <1>17, LoopedSpreads, FloodStays DEF FloodNode
<1>18. ASSUME NEW t \in tasks, CheckDelivers(t)
       PROVE  Adds /\ \A n : Touches(n) /\ Stays(n)
  <2>1. /\ delivered' = delivered \cup {t.at} /\ announced' = announced
        /\ transit' = transit /\ Looped(t)
        /\ tasks' = (tasks \ {t}) \cup {Goes(t, "parent")} /\ Resume(t)
    BY <1>18 DEF CheckDelivers, Deliver, Resume
  <2>. QED  BY <1>9, <1>12, <1>17, <2>1
<1>19. ASSUME NEW t \in tasks, CheckAnnounces(t)
       PROVE  Adds /\ \A n : Touches(n) /\ Stays(n)
  <2>1. /\ delivered' = delivered /\ announced' = announced /\ Looped(t) /\ Announce(t)
        /\ Resume(t)
    BY <1>19 DEF CheckAnnounces, Resume
  <2>. QED  BY <1>10, <1>12, <1>17, <2>1, FloodAnnounces
<1>20. ASSUME NEW t \in tasks, CheckEnds(t)
       PROVE  Adds /\ \A n : Touches(n) /\ Stays(n)
  <2>1. /\ delivered' = delivered /\ announced' = announced /\ Looped(t)
        /\ transit' = transit /\ tasks' = tasks \ {t} /\ Resume(t)
    BY <1>20 DEF CheckEnds, Resume
  <2>. QED  BY <1>12, <1>17, <2>1
<1>21. ASSUME UNCHANGED vars PROVE Adds /\ \A n : Touches(n) /\ Stays(n)
  <2>1. UNCHANGED <<delivered, announced, tasks>> /\ transit' = transit
    BY <1>21 DEF vars
  <2>. QED  BY <1>2, <2>1
<1>22. Adds /\ \A n : Touches(n) /\ Stays(n)
  <2>1. ASSUME NEW m \in transit, Receive(m)
        PROVE  Adds /\ \A n : Touches(n) /\ Stays(n)
    BY <1>6, <1>7, <1>8, <2>1 DEF Receive
  <2>2. ASSUME NEW t \in tasks, Resume(t)
        PROVE  Adds /\ \A n : Touches(n) /\ Stays(n)
    BY <1>13, <1>14, <1>15, <1>16, <1>18, <1>19, <1>20, <2>2 DEF Resume
  <2>. QED  BY <1>5, <1>21, <2>1, <2>2 DEF Next
<1>23. ASSUME NEW n \in Node \ {Source}, Touched(n)' PROVE FloodNode(n)'
  BY <1>22, <1>23 DEF Flooding
<1>. QED  BY <1>22, <1>23

\* Whoever a node is said to have told of has delivered or announces.
LEMMA ToldStep ==
  ASSUME IInv, Flooding, [Next]_vars
  PROVE  \A n \in Node : \A q \in told'[n] : Touched(q)'
<1>1. /\ TypeOK
      /\ \A t \in tasks : t \in Task
      /\ \A n \in Node : \A q \in told[n] : Touched(q)'
  BY TouchedStays DEF IInv, TypeOK, Flooding
<1>2. CASE UNCHANGED told
  BY <1>1, <1>2
<1>3. ASSUME NEW m \in transit, RecvAnnouncement(m)
      PROVE  \A n \in Node : \A q \in told'[n] : Touched(q)'
  <2>1. Touched(m.src)'
    BY <1>3, TouchedStays DEF RecvAnnouncement, IsAnnouncement, Flooding, FloodMessage
  <2>. QED  BY <1>1, <1>3, <2>1 DEF TypeOK, RecvAnnouncement
<1>4. ASSUME NEW t \in tasks, Resume(t),
             told' = [told EXCEPT ![t.at] = @ \cup {t.at}]
      PROVE  \A n \in Node : \A q \in told'[n] : Touched(q)'
  <2>1. Touched(t.at)'
    BY <1>4, TaskTouches
  <2>. QED  BY <1>1, <1>4, <2>1 DEF TypeOK
<1>5. ASSUME NEW t \in tasks, Resume(t)
      PROVE  told' = told \/ told' = [told EXCEPT ![t.at] = @ \cup {t.at}]
  BY <1>5 DEF Resume, ParentReturns, ParentRaises, Announced, Announce, Relay,
    CheckDelivers, CheckAnnounces, CheckEnds
<1>6. ASSUME NEW m \in transit, Receive(m), ~RecvAnnouncement(m) PROVE told' = told
  BY <1>6 DEF Receive, RecvFinished, RecvDirect, RecvPath
<1>. QED  BY <1>2, <1>3, <1>4, <1>5, <1>6 DEF Next, Broadcast, vars

LEMMA NextFlood == IInv /\ Flooding /\ [Next]_vars => Flooding'
<1>. SUFFICES ASSUME IInv, Flooding, [Next]_vars PROVE Flooding'
  OBVIOUS
<1>1. begun' => Spread(Source)'
  <2>1. CASE Broadcast
    <3>1. \A q \in Hearers(Source) : Awaited(q)'
      BY <2>1, Expecting DEF Broadcast
    <3>. QED  BY <3>1 DEF Spread, Hearers
  <2>2. CASE ~Broadcast
    <3>1. begun' = begun
      BY <2>2 DEF Next, Receive, RecvFinished, RecvAnnouncement, RecvDirect, RecvPath,
        Resume, ParentReturns, ParentRaises, Announced, Relay, CheckDelivers,
        CheckAnnounces, CheckEnds, vars
    <3>. QED  BY <3>1, FloodStays DEF Flooding
  <2>. QED  BY <2>1, <2>2
<1>2. \A m \in transit' : FloodMessage(m)'
  BY FloodStep, FloodStays DEF Flooding
<1>3. \A t \in tasks' : FloodTask(t)'
  BY FloodStep, FloodStays DEF Flooding
<1>. QED  BY <1>1, <1>2, <1>3, FloodStep, ToldStep DEF Flooding

\* The touched nodes and the source are left by no hop that messages can make.
LEMMA QuietClosed ==
  ASSUME IInv, Flooding, Quiet PROVE FloodReachesAll
<1>. DEFINE S == {Source} \cup {n \in Node : n \in delivered \/ n \in announced}
<1>1. \A n \in Node : Awaited(n) <=> n \in delivered \/ n \in announced
  BY DEF Quiet, Awaited, Touched
<1>2. \A n \in Node : Hearers(n) \subseteq Node
  BY HearersAreNodes
<1>3. ASSUME NEW n \in S, NEW q \in Hearers(n) PROVE q \in S
  <2>1. n \in Node
    BY DolevAssumption
  <2>2. Spread(n)
    <3>1. CASE n = Source
      BY <3>1 DEF Flooding, Quiet
    <3>2. CASE n # Source
      <4>1. Touched(n)
        BY <3>2 DEF Touched
      <4>. QED  BY <2>1, <3>2, <4>1 DEF Flooding, FloodNode, Quiet
    <3>. QED  BY <3>1, <3>2
  <2>. QED  BY <1>1, <1>2, <2>1, <2>2 DEF Spread
<1>4. ASSUME NEW e \in RelayHops, e \cap S # {} PROVE e \subseteq S
  <2>1. PICK n \in Node \ (Silent \ {Source}) : \E q \in Hearers(n) : e = {n, q}
    BY DEF RelayHops
  <2>2. PICK q \in Hearers(n) : e = {n, q}
    BY <2>1
  <2>3. CASE n \in S
    BY <1>3, <2>2, <2>3
  <2>4. CASE q \in S /\ n \notin Silent
    <3>1. n \in Hearers(q)
      BY <2>4, <1>2 DEF Hearers
    <3>. QED  BY <1>3, <2>2, <2>4, <3>1
  <2>. QED  BY <1>4, <2>1, <2>2, <2>3, <2>4
<1>5. ASSUME NEW n \in Listeners, Connects(RelayHops, n, 1) PROVE n \in S
  <2>1. {} \in SUBSET (Node \ {Source, n}) /\ Cardinality({}) < 1
    BY FS_EmptySet
  <2>2. ~Separates({}, RelayHops, n)
    BY <1>5, <2>1 DEF Connects
  <2>3. S \in SUBSET (Node \ {}) /\ Source \in S
    BY DolevAssumption
  <2>. QED  BY <1>4, <2>2, <2>3 DEF Separates
<1>. QED  BY <1>5 DEF FloodReachesAll, Listeners

\* Each step of Dolev is one of the abstract broadcast, or none.
LEMMA RefinementStep ==
  ASSUME IInv, [Next]_vars PROVE [RB!Next]_(RB!vars)
<1>. DEFINE sent == IF begun THEN {Source} ELSE {}
            times == [n \in Node |-> [m \in {Source} |-> deliveries[n]]]
<1>1. /\ TypeOK /\ Counting
      /\ \A m \in transit : m \in DMsg
      /\ \A t \in tasks : t \in Task
      /\ transit # {} \/ tasks # {} => begun
  BY DEF IInv, TypeOK, Counting
<1>2. CASE UNCHANGED <<begun, deliveries>>
  BY <1>2 DEF RB!vars
<1>3. CASE Broadcast
  <2>1. sent = {} /\ sent' = {Source} /\ times' = times
    BY <1>3 DEF Broadcast
  <2>. QED  BY <2>1 DEF RB!Next, RB!Initiate
<1>4. ASSUME NEW n \in Node, Deliver(n), n \notin delivered, begun, begun' = begun
      PROVE  RB!Next
  <2>1. sent' = sent /\ Source \in sent
    BY <1>4
  <2>2. deliveries[n] = 0 /\ deliveries \in [Node -> Nat]
    BY <1>1, <1>4 DEF Counting, TypeOK
  <2>3. times[n][Source] = 0
    BY <2>2
  <2>4. times' = [times EXCEPT ![n][Source] = 1]
    <3>1. deliveries' = [deliveries EXCEPT ![n] = 1]
      BY <1>4, <2>2 DEF Deliver
    <3>. QED  BY <2>2, <3>1
  <2>5. RB!Deliver(n, Source)
    BY <2>1, <2>3, <2>4 DEF RB!Deliver
  <2>. QED  BY <2>5 DEF RB!Next
<1>5. ASSUME NEW m \in transit, RecvDirect(m) PROVE RB!Next
  <2>1. m.dst \in Node
    BY <1>1, MessageFields
  <2>. QED  BY <1>1, <1>4, <1>5, <2>1 DEF RecvDirect
<1>6. ASSUME NEW t \in tasks, CheckDelivers(t) PROVE RB!Next
  <2>1. t.at \in Node
    BY <1>1, TaskFields
  <2>. QED  BY <1>1, <1>4, <1>6, <2>1 DEF CheckDelivers
<1>7. ASSUME NEW m \in transit, Receive(m), ~RecvDirect(m)
      PROVE  UNCHANGED <<begun, deliveries>>
  BY <1>7 DEF Receive, RecvFinished, RecvAnnouncement, RecvPath
<1>8. ASSUME NEW t \in tasks, Resume(t), ~CheckDelivers(t)
      PROVE  UNCHANGED <<begun, deliveries>>
  BY <1>8 DEF Resume, ParentReturns, ParentRaises, Announced, Relay, CheckAnnounces,
    CheckEnds
<1>9. CASE UNCHANGED vars
  BY <1>2, <1>9 DEF vars
<1>. QED  BY <1>2, <1>3, <1>5, <1>6, <1>7, <1>8, <1>9 DEF Next

-----------------------------------------------------------------------------
(***************************************************************************)
(* The theorems.                                                           *)
(***************************************************************************)
\* Type correctness.
THEOREM TypeCorrect == Spec => []TypeOK
<1>1. IInv => TypeOK
  BY DEF IInv
<1>. QED  BY <1>1, Invariance, PTL

\* Whatever a node has stored, or is being sent, is a way that its message
\* went, hop by hop from the source (dolev.py:305-315).
THEOREM RealPaths == Spec => []PathsAreReal
<1>1. IInv => PathsAreReal
  BY DEF IInv, Messaging, Storing, SoundMessage, SoundPath, PathsAreReal
<1>. QED  BY <1>1, Invariance, PTL

\* No node that is not the source's neighbour delivers before the message has
\* reached it on ways that no f nodes cut (dolev.py:345).
THEOREM BackedDelivery == Spec => []DeliveryIsBackedByPaths
<1>1. IInv => DeliveryIsBackedByPaths
  BY DEF IInv, Delivering, Vouched, DeliveryIsBackedByPaths
<1>. QED  BY <1>1, Invariance, PTL

\* The skipping of neighbours that have announced keeps the message from
\* nobody: when all is quiet, every node that relaying nodes connect to the
\* source has been reached, in every topology (dolev.py:311-343).
THEOREM FloodReaches == Spec => []FloodReachesAll
<1>1. Init => Flooding
  BY DEF Init, InitTables, Flooding, Touched
<1>2. IInv /\ Flooding => FloodReachesAll
  BY QuietClosed DEF FloodReachesAll
<1>. QED  BY <1>1, <1>2, Invariance, NextFlood, PTL DEF Spec

\* The parent is handed a message at most once by each node, and only after
\* its source began to broadcast it (dolev.py:330-352).
THEOREM Refinement == Spec => ImplementsBroadcast
<1>1. Init => RB!Init
  BY DEF Init, RB!Init
<1>2. IInv /\ [Next]_vars => [RB!Next]_(RB!vars)
  BY RefinementStep
<1>. QED
  BY <1>1, <1>2, Invariance, PTL DEF Spec, ImplementsBroadcast, RB!Spec
=============================================================================
