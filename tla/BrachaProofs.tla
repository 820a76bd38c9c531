----------------------------- MODULE BrachaProofs -----------------------------
(***************************************************************************)
(* Proofs about Bracha's broadcast: for every set of nodes, every set of   *)
(* senders and of silent nodes, every f, and every interleaving.  A step   *)
(* is one of bracha.py or of bracha_basic.py.                              *)
(***************************************************************************)
EXTENDS BrachaBasic, FiniteSetTheorems, TLAPS

Steps == Next \/ BasicNext

LEMMA Finite ==
  /\ IsFiniteSet(Node) /\ IsFiniteSet(Sender)
  /\ N \in Nat /\ ReadyThreshold \in Nat \ {0} /\ DeliverThreshold \in Nat \ {0}
<1>1. IsFiniteSet(Node) /\ IsFiniteSet(Sender) /\ N \in Nat
  BY BrachaAssumption, FS_Subset, FS_CardinalityType DEF N
<1>. QED  BY <1>1, BrachaAssumption DEF ReadyThreshold, DeliverThreshold

-----------------------------------------------------------------------------
(***************************************************************************)
(* Types.                                                                  *)
(***************************************************************************)
LEMMA BroadcastTypes ==
  ASSUME TypeOK, NEW n \in Node, NEW p \in Phase, NEW m \in Sender,
         Broadcast(n, p, m)
  PROVE  phaseCount' \in [Node -> [Phase -> Nat]] /\ dolev' \in SUBSET DMsg
<1>1. phaseCount' \in [Node -> [Phase -> Nat]]
  <2>1. phaseCount \in [Node -> [Phase -> Nat]]
    BY DEF TypeOK
  <2>2. phaseCount' = [phaseCount EXCEPT ![n][p] = @ + 1]
    BY DEF Broadcast
  <2>. QED  BY <2>1, <2>2
<1>2. dolev' \in SUBSET DMsg
  <2>1. dolev \in SUBSET DMsg
    BY DEF TypeOK
  <2>2. dolev' = dolev \cup {[phase |-> p, msg |-> m, src |-> n]}
    BY DEF Broadcast
  <2>3. [phase |-> p, msg |-> m, src |-> n] \in DMsg
    BY DEF DMsg
  <2>. QED  BY <2>1, <2>2, <2>3
<1>. QED  BY <1>1, <1>2

LEMMA DeliverTypes ==
  ASSUME TypeOK, NEW n \in Node, NEW m \in Sender, NEW S, DeliverCheck(n, m, S)
  PROVE  /\ delivered' \in [Node -> SUBSET Sender]
         /\ deliveries' \in [Node -> [Sender -> Nat]]
         /\ terminated' \in SUBSET Node
<1>1. CASE Delivers(n, m, S)
  <2>1. /\ delivered' = [delivered EXCEPT ![n] = @ \cup {m}]
        /\ deliveries' = [deliveries EXCEPT ![n][m] = @ + 1]
        /\ terminated' \in {terminated, terminated \cup {n}}
    BY <1>1 DEF DeliverCheck
  <2>2. /\ delivered \in [Node -> SUBSET Sender]
        /\ deliveries \in [Node -> [Sender -> Nat]]
        /\ terminated \in SUBSET Node
    BY DEF TypeOK
  <2>. QED  BY <2>1, <2>2
<1>2. CASE ~Delivers(n, m, S)
  BY <1>2 DEF TypeOK, DeliverCheck, deliveryVars
<1>. QED  BY <1>1, <1>2

\* One more node is counted for a message.
Counted(table, n, m, k) == [table EXCEPT ![n][m] = @ \cup {k}]

Tables == [Node -> [Sender -> SUBSET Node]]

LEMMA Counting ==
  ASSUME NEW table \in Tables, NEW n \in Node, NEW m \in Sender, NEW k \in Node
  PROVE  /\ Counted(table, n, m, k) \in Tables
         /\ Counted(table, n, m, k)[n][m] = table[n][m] \cup {k}
         /\ \A i \in Node, j \in Sender : i # n \/ j # m =>
              Counted(table, n, m, k)[i][j] = table[i][j]
BY DEF Counted, Tables

\* One more message is marked by a node.
Marked(sets, n, m) == [sets EXCEPT ![n] = @ \cup {m}]

Marks == [Node -> SUBSET Sender]

LEMMA Marking ==
  ASSUME NEW sets \in Marks, NEW n \in Node, NEW m \in Sender
  PROVE  /\ Marked(sets, n, m) \in Marks
         /\ Marked(sets, n, m)[n] = sets[n] \cup {m}
         /\ \A i \in Node : i # n => Marked(sets, n, m)[i] = sets[i]
BY DEF Marked, Marks

\* Only senders have a SEND to broadcast.
OnlySenders ==
  \A n \in Node : onStart[n] \in {"sending", "echoing"} => n \in Sender

LEMMA TypeStep ==
  ASSUME TypeOK, OnlySenders, [Steps]_vars PROVE TypeOK' /\ OnlySenders'
<1>. USE DEF nodeVars, deliveryVars, NoBroadcast
<1>1. ASSUME NEW n \in Node,
             Start(n) \/ StartFinish(n) \/ StartFails(n) \/ Exit(n)
      PROVE  TypeOK' /\ OnlySenders'
  BY <1>1 DEF TypeOK, OnlySenders, Start, StartFinish, StartFails, Exit
<1>2. ASSUME NEW n \in Node, StartSend(n) PROVE TypeOK' /\ OnlySenders'
  <2>1. phaseCount' \in [Node -> [Phase -> Nat]] /\ dolev' \in SUBSET DMsg
    BY <1>2, BroadcastTypes DEF StartSend, Phase
  <2>. QED  BY ZenonT(40), <1>2, <2>1 DEF TypeOK, OnlySenders, StartSend
<1>3. ASSUME NEW n \in Node, StartEcho(n) PROVE TypeOK' /\ OnlySenders'
  <2>1. n \in Sender
    BY <1>3 DEF StartEcho, OnlySenders
  <2>2. phaseCount' \in [Node -> [Phase -> Nat]] /\ dolev' \in SUBSET DMsg
    BY <1>3, <2>1, BroadcastTypes DEF StartEcho, Phase
  <2>3. /\ echos' \in [Node -> [Sender -> SUBSET Node]]
        /\ seen' \in [Node -> SUBSET Sender]
    BY <1>3, <2>1 DEF TypeOK, StartEcho
  <2>. QED  BY <1>3, <2>1, <2>2, <2>3 DEF TypeOK, OnlySenders, StartEcho
<1>4. ASSUME NEW n \in Node, NEW d \in DMsg, Receives(n, d)
      PROVE  /\ d.msg \in Sender /\ d.src \in Node
             /\ got' \in [Node -> SUBSET DMsg]
  BY <1>4 DEF TypeOK, Receives, DMsg
<1>5. ASSUME NEW n \in Node, NEW d \in DMsg, RecvSend(n, d)
      PROVE  TypeOK' /\ OnlySenders'
  <2>1. d.msg \in Sender /\ got' \in [Node -> SUBSET DMsg]
    BY <1>4, <1>5 DEF RecvSend, Takes
  <2>2. phaseCount' \in [Node -> [Phase -> Nat]] /\ dolev' \in SUBSET DMsg
    <3>1. Broadcast(n, "echo", d.msg) \/ UNCHANGED <<phaseCount, dolev>>
      BY <1>5 DEF RecvSend
    <3>2. CASE Broadcast(n, "echo", d.msg)
      BY <2>1, <3>2, BroadcastTypes DEF Phase
    <3>3. CASE UNCHANGED <<phaseCount, dolev>>
      BY <3>3 DEF TypeOK
    <3>. QED  BY <3>1, <3>2, <3>3
  <2>3. /\ echos' \in [Node -> [Sender -> SUBSET Node]]
        /\ seen' \in [Node -> SUBSET Sender]
        /\ expected' \in [Node -> SUBSET Sender]
    <3>1. echos' \in {echos, Counted(echos, n, d.msg, n)}
      BY <1>5 DEF RecvSend, Counted
    <3>2. seen' \in {seen, Marked(seen, n, d.msg)}
      BY <1>5 DEF RecvSend, Marked
    <3>3. expected' = Marked(expected, n, d.msg)
      BY <1>5 DEF RecvSend, Marked
    <3>4. echos \in Tables /\ seen \in Marks /\ expected \in Marks
      BY DEF TypeOK, Tables, Marks
    <3>5. echos' \in Tables /\ seen' \in Marks /\ expected' \in Marks
      BY <2>1, <3>1, <3>2, <3>3, <3>4, Counting, Marking
    <3>. QED  BY <3>5 DEF Tables, Marks
  <2>. QED  BY <1>5, <2>1, <2>2, <2>3 DEF TypeOK, OnlySenders, RecvSend, Takes
<1>6. ASSUME NEW n \in Node, NEW d \in DMsg, EchoHandler(n, d)
      PROVE  TypeOK' /\ OnlySenders'
  <2>1. d.msg \in Sender /\ d.src \in Node /\ got' \in [Node -> SUBSET DMsg]
    BY <1>4, <1>6 DEF EchoHandler, Takes
  <2>2. phaseCount' \in [Node -> [Phase -> Nat]] /\ dolev' \in SUBSET DMsg
    <3>1. Broadcast(n, "ready", d.msg) \/ UNCHANGED <<phaseCount, dolev>>
      BY <1>6 DEF EchoHandler
    <3>2. CASE Broadcast(n, "ready", d.msg)
      BY <2>1, <3>2, BroadcastTypes DEF Phase
    <3>3. CASE UNCHANGED <<phaseCount, dolev>>
      BY <3>3 DEF TypeOK
    <3>. QED  BY <3>1, <3>2, <3>3
  <2>3. /\ echos' \in [Node -> [Sender -> SUBSET Node]]
        /\ sentReady' \in [Node -> SUBSET Sender]
    <3>1. echos' = Counted(echos, n, d.msg, d.src)
      BY <1>6 DEF EchoHandler, Counted
    <3>2. sentReady' \in {sentReady, Marked(sentReady, n, d.msg)}
      BY <1>6 DEF EchoHandler, Marked
    <3>3. echos \in Tables /\ sentReady \in Marks
      BY DEF TypeOK, Tables, Marks
    <3>4. echos' \in Tables /\ sentReady' \in Marks
      BY <2>1, <3>1, <3>2, <3>3, Counting, Marking
    <3>. QED  BY <3>4 DEF Tables, Marks
  <2>. QED  BY <1>6, <2>1, <2>2, <2>3 DEF TypeOK, OnlySenders, EchoHandler, Takes
<1>7. ASSUME NEW n \in Node, NEW d \in DMsg, ReadyHandler(n, d)
      PROVE  TypeOK' /\ OnlySenders'
  <2>1. d.msg \in Sender /\ d.src \in Node /\ got' \in [Node -> SUBSET DMsg]
    BY <1>4, <1>7 DEF ReadyHandler, Takes
  <2>2. phaseCount' \in [Node -> [Phase -> Nat]] /\ dolev' \in SUBSET DMsg
    <3>1. Broadcast(n, "ready", d.msg) \/ UNCHANGED <<phaseCount, dolev>>
      BY <1>7 DEF ReadyHandler
    <3>2. CASE Broadcast(n, "ready", d.msg)
      BY <2>1, <3>2, BroadcastTypes DEF Phase
    <3>3. CASE UNCHANGED <<phaseCount, dolev>>
      BY <3>3 DEF TypeOK
    <3>. QED  BY <3>1, <3>2, <3>3
  <2>3. /\ readys' \in [Node -> [Sender -> SUBSET Node]]
        /\ sentReady' \in [Node -> SUBSET Sender]
        /\ resuming' \in [Node -> SUBSET Sender]
    <3>1. readys' = Counted(readys, n, d.msg, d.src)
      BY <1>7 DEF ReadyHandler, Counted
    <3>2. /\ sentReady' \in {sentReady, Marked(sentReady, n, d.msg)}
          /\ resuming' \in {resuming, Marked(resuming, n, d.msg)}
      BY <1>7 DEF ReadyHandler, Marked
    <3>3. readys \in Tables /\ sentReady \in Marks /\ resuming \in Marks
      BY DEF TypeOK, Tables, Marks
    <3>4. readys' \in Tables /\ sentReady' \in Marks /\ resuming' \in Marks
      BY <2>1, <3>1, <3>2, <3>3, Counting, Marking
    <3>. QED  BY <3>4 DEF Tables, Marks
  <2>4. /\ delivered' \in [Node -> SUBSET Sender]
        /\ deliveries' \in [Node -> [Sender -> Nat]]
        /\ terminated' \in SUBSET Node
    BY <1>7, <2>1, DeliverTypes DEF ReadyHandler, TypeOK
  <2>. QED  BY <1>7, <2>1, <2>2, <2>3, <2>4 DEF TypeOK, OnlySenders, ReadyHandler, Takes
<1>8. ASSUME NEW n \in Node, NEW d \in DMsg, RecvEarly(n, d)
      PROVE  TypeOK' /\ OnlySenders'
  BY <1>4, <1>8 DEF TypeOK, OnlySenders, RecvEarly
<1>9. ASSUME NEW n \in Node, NEW m \in Sender, ReadyResume(n, m)
      PROVE  TypeOK' /\ OnlySenders'
  <2>1. /\ delivered' \in [Node -> SUBSET Sender]
        /\ deliveries' \in [Node -> [Sender -> Nat]]
        /\ terminated' \in SUBSET Node
    BY <1>9, DeliverTypes DEF ReadyResume
  <2>. QED  BY <1>9, <2>1 DEF TypeOK, OnlySenders, ReadyResume
<1>10. ASSUME NEW n \in Node, NEW m \in Sender, ReadyFails(n, m)
       PROVE  TypeOK' /\ OnlySenders'
  BY <1>10 DEF TypeOK, OnlySenders, ReadyFails
<1>11. CASE UNCHANGED vars
  BY <1>11 DEF TypeOK, OnlySenders, vars
<1>12. dolev \subseteq DMsg
  BY DEF TypeOK
<1>13. ASSUME NEW n \in Node, BasicStartSend(n) PROVE TypeOK' /\ OnlySenders'
  <2>1. phaseCount' \in [Node -> [Phase -> Nat]] /\ dolev' \in SUBSET DMsg
    BY <1>13, BroadcastTypes DEF BasicStartSend, Phase
  <2>. QED  BY <1>13, <2>1 DEF TypeOK, OnlySenders, BasicStartSend
<1>14. ASSUME NEW n \in Node, BasicStartEcho(n) PROVE TypeOK' /\ OnlySenders'
  <2>1. n \in Sender
    BY <1>14 DEF BasicStartEcho, OnlySenders
  <2>2. phaseCount' \in [Node -> [Phase -> Nat]] /\ dolev' \in SUBSET DMsg
    BY <1>14, <2>1, BroadcastTypes DEF BasicStartEcho, Phase
  <2>. QED  BY <1>14, <2>1, <2>2, ZenonT(40) DEF TypeOK, OnlySenders, BasicStartEcho
<1>15. ASSUME NEW n \in Node, NEW d \in DMsg, BasicSend(n, d)
       PROVE  TypeOK' /\ OnlySenders'
  <2>1. d.msg \in Sender /\ got' \in [Node -> SUBSET DMsg]
    BY <1>4, <1>15 DEF BasicSend, Takes
  <2>2. phaseCount' \in [Node -> [Phase -> Nat]] /\ dolev' \in SUBSET DMsg
    <3>1. Broadcast(n, "echo", d.msg) \/ UNCHANGED <<phaseCount, dolev>>
      BY <1>15 DEF BasicSend
    <3>2. CASE Broadcast(n, "echo", d.msg)
      BY <2>1, <3>2, BroadcastTypes DEF Phase
    <3>3. CASE UNCHANGED <<phaseCount, dolev>>
      BY <3>3 DEF TypeOK
    <3>. QED  BY <3>1, <3>2, <3>3
  <2>3. seen' \in [Node -> SUBSET Sender]
    <3>1. seen' \in {seen, Marked(seen, n, d.msg)} /\ seen \in Marks
      BY <1>15 DEF BasicSend, Marked, TypeOK, Marks
    <3>. QED  BY <2>1, <3>1, Marking DEF Marks
  <2>. QED  BY <1>15, <2>1, <2>2, <2>3 DEF TypeOK, OnlySenders, BasicSend, Takes
<1>. QED
  BY <1>1, <1>2, <1>3, <1>5, <1>6, <1>7, <1>8, <1>9, <1>10, <1>11, <1>12, <1>13,
     <1>14, <1>15
  DEF Steps, Next, BasicNext, BasicEcho, BasicReady, RecvEcho, RecvReady

-----------------------------------------------------------------------------
(***************************************************************************)
(* The inductive invariant: what a node has counted was broadcast, and a   *)
(* broadcast is backed by the messages its handler had counted.            *)
(***************************************************************************)
SendsAreOwn == \A d \in dolev : d.phase = "send" => d.src = d.msg

StartHasSent ==
  \A n \in Node : onStart[n] = "sending" => n \in Broadcasters("send", n)

CountedWereBroadcast ==
  \A n \in Node, m \in Sender :
    /\ echos[n][m] \subseteq Broadcasters("echo", m)
    /\ readys[n][m] \subseteq Broadcasters("ready", m) \ {n}

SilentAreSilent == \A m \in Sender : Broadcasters("ready", m) \cap Silent = {}

SilentAreDeaf == \A n \in Silent, m \in Sender : readys[n][m] = {}

DeliveredAreCounted ==
  \A n \in Node : \A m \in delivered[n] : EnoughReadies(readys[n][m])

LoggedOnce ==
  \A n \in Node, m \in Sender :
    deliveries[n][m] = IF m \in delivered[n] THEN 1 ELSE 0

IInv ==
  /\ TypeOK
  /\ OnlySenders
  /\ SendsAreOwn
  /\ StartHasSent
  /\ CountedWereBroadcast
  /\ ReadyBackedByEchoes
  /\ SilentAreSilent
  /\ SilentAreDeaf
  /\ DeliveredAreCounted
  /\ LoggedOnce

LEMMA InitIInv == Init => IInv
<1>. SUFFICES ASSUME Init PROVE IInv
  OBVIOUS
<1>. USE DEF Init, InitState
<1>1. TypeOK /\ OnlySenders
  BY DEF TypeOK, OnlySenders
<1>2. SendsAreOwn /\ StartHasSent /\ SilentAreSilent
  BY DEF SendsAreOwn, StartHasSent, SilentAreSilent, Broadcasters
<1>3. CountedWereBroadcast /\ ReadyBackedByEchoes /\ SilentAreDeaf
  BY BrachaAssumption
  DEF CountedWereBroadcast, ReadyBackedByEchoes, SilentAreDeaf, Broadcasters
<1>4. DeliveredAreCounted /\ LoggedOnce
  BY DEF DeliveredAreCounted, LoggedOnce
<1>. QED  BY <1>1, <1>2, <1>3, <1>4 DEF IInv

-----------------------------------------------------------------------------
(***************************************************************************)
(* What one step adds to the broadcasts, the counts and the deliveries.    *)
(***************************************************************************)
\* Why a handler may begin a broadcast.
Justified(d) ==
  \/ d.phase = "send" /\ d.src = d.msg
  \/ d.phase = "echo" /\ d.msg \in Broadcasters("send", d.msg)
  \/ /\ d.phase = "ready"
     /\ d.src \notin Silent
     /\ \/ EnoughEchoes(echos'[d.src][d.msg])
        \/ Cardinality(readys'[d.src][d.msg]) >= F + 1

LEMMA Broadcasting ==
  ASSUME NEW n \in Node, NEW p \in Phase, NEW m \in Sender, Broadcast(n, p, m),
         Justified([phase |-> p, msg |-> m, src |-> n])
  PROVE  dolev \subseteq dolev' /\ \A d \in dolev' \ dolev : Justified(d)
BY DEF Broadcast

LEMMA NewBroadcasts ==
  ASSUME IInv, [Steps]_vars
  PROVE  dolev \subseteq dolev' /\ \A d \in dolev' \ dolev : Justified(d)
<1>. DEFINE Goal == dolev \subseteq dolev' /\ \A d \in dolev' \ dolev : Justified(d)
<1>. USE DEF NoBroadcast
<1>1. CASE UNCHANGED dolev
  BY <1>1
<1>2. ASSUME NEW n \in Node, StartSend(n) \/ BasicStartSend(n) PROVE Goal
  <2>1. n \in Sender /\ Broadcast(n, "send", n)
    BY <1>2 DEF StartSend, BasicStartSend
  <2>2. Justified([phase |-> "send", msg |-> n, src |-> n])
    BY DEF Justified
  <2>. QED  BY <2>1, <2>2, Broadcasting DEF Phase
<1>3. ASSUME NEW n \in Node, StartEcho(n) \/ BasicStartEcho(n) PROVE Goal
  <2>1. n \in Sender /\ n \in Broadcasters("send", n) /\ Broadcast(n, "echo", n)
    BY <1>3 DEF StartEcho, BasicStartEcho, IInv, OnlySenders, StartHasSent
  <2>2. Justified([phase |-> "echo", msg |-> n, src |-> n])
    BY <2>1 DEF Justified
  <2>. QED  BY <2>1, <2>2, Broadcasting DEF Phase
<1>4. ASSUME NEW n \in Node, NEW d \in DMsg, Receives(n, d)
      PROVE  d \in dolev /\ d.msg \in Sender /\ d.src \in Node /\ n \notin Silent
  BY <1>4 DEF Receives, DMsg
<1>5. ASSUME NEW n \in Node, NEW d \in DMsg, RecvSend(n, d) \/ BasicSend(n, d)
      PROVE  Goal
  <2>1. Receives(n, d) /\ d.phase = "send"
    BY <1>5 DEF RecvSend, BasicSend, Takes
  <2>2. d.src = d.msg
    BY <1>4, <2>1 DEF IInv, SendsAreOwn
  <2>3. d.msg \in Broadcasters("send", d.msg)
    BY <1>4, <2>1, <2>2 DEF Broadcasters, DMsg
  <2>4. Justified([phase |-> "echo", msg |-> d.msg, src |-> n])
    BY <2>3 DEF Justified
  <2>5. UNCHANGED dolev \/ Broadcast(n, "echo", d.msg)
    BY <1>5 DEF RecvSend, BasicSend
  <2>. QED  BY <1>1, <1>4, <2>1, <2>4, <2>5, Broadcasting DEF Phase
<1>6. ASSUME NEW n \in Node, NEW d \in DMsg, EchoHandler(n, d) PROVE Goal
  <2>1. d.msg \in Sender /\ d.src \in Node /\ n \notin Silent
    BY <1>4, <1>6 DEF EchoHandler, Takes
  <2>2. CASE UNCHANGED dolev
    BY <2>2
  <2>3. CASE dolev' # dolev
    <3>1. /\ Broadcast(n, "ready", d.msg)
          /\ EnoughEchoes(echos[n][d.msg] \cup {d.src})
          /\ echos' = Counted(echos, n, d.msg, d.src)
      BY <1>6, <2>3 DEF EchoHandler, Counted
    <3>2. echos \in Tables
      BY DEF IInv, TypeOK, Tables
    <3>3. echos'[n][d.msg] = echos[n][d.msg] \cup {d.src}
      BY <2>1, <3>1, <3>2, Counting
    <3>4. Justified([phase |-> "ready", msg |-> d.msg, src |-> n])
      BY <2>1, <3>1, <3>3 DEF Justified
    <3>. QED  BY <2>1, <3>1, <3>4, Broadcasting DEF Phase
  <2>. QED  BY <2>2, <2>3
<1>7. ASSUME NEW n \in Node, NEW d \in DMsg, ReadyHandler(n, d) PROVE Goal
  <2>1. d.msg \in Sender /\ d.src \in Node /\ n \notin Silent
    BY <1>4, <1>7 DEF ReadyHandler, Takes
  <2>2. CASE UNCHANGED dolev
    BY <2>2
  <2>3. CASE dolev' # dolev
    <3>1. /\ Broadcast(n, "ready", d.msg)
          /\ Amplifies(n, d.msg, readys[n][d.msg] \cup {d.src})
          /\ readys' = Counted(readys, n, d.msg, d.src)
      BY <1>7, <2>3 DEF ReadyHandler, Counted
    <3>2. readys \in Tables
      BY DEF IInv, TypeOK, Tables
    <3>3. readys'[n][d.msg] = readys[n][d.msg] \cup {d.src}
      BY <2>1, <3>1, <3>2, Counting
    <3>4. Justified([phase |-> "ready", msg |-> d.msg, src |-> n])
      BY <2>1, <3>1, <3>3 DEF Justified, Amplifies
    <3>. QED  BY <2>1, <3>1, <3>4, Broadcasting DEF Phase
  <2>. QED  BY <2>2, <2>3
<1>8. dolev \subseteq DMsg
  BY DEF IInv, TypeOK
<1>. QED
  BY <1>1, <1>2, <1>3, <1>5, <1>6, <1>7, <1>8
  DEF Steps, Next, BasicNext, BasicEcho, BasicReady, RecvEcho, RecvReady, Start, StartFinish, StartFails,
      Exit, RecvEarly, ReadyResume, ReadyFails, vars

\* What is counted in a step was broadcast before it, or is the node's own ECHO;
\* no node counts its own READY.
LEMMA NewCounts ==
  ASSUME IInv, [Steps]_vars
  PROVE  \A n \in Node, m \in Sender :
           /\ echos'[n][m] \subseteq echos[n][m] \cup Broadcasters("echo", m)'
           /\ readys[n][m] \subseteq readys'[n][m]
           /\ readys'[n][m] \subseteq
                readys[n][m] \cup (Broadcasters("ready", m) \ {n})
           /\ n \in Silent => readys'[n][m] = readys[n][m]
<1>. DEFINE Echoes == \A n \in Node, m \in Sender :
              echos'[n][m] \subseteq echos[n][m] \cup Broadcasters("echo", m)'
            Readies == \A n \in Node, m \in Sender :
              /\ readys[n][m] \subseteq readys'[n][m]
              /\ readys'[n][m] \subseteq
                   readys[n][m] \cup (Broadcasters("ready", m) \ {n})
              /\ n \in Silent => readys'[n][m] = readys[n][m]
<1>1. echos \in Tables /\ readys \in Tables /\ dolev \subseteq DMsg
  BY DEF IInv, TypeOK, Tables
<1>2. dolev \subseteq dolev'
  BY NewBroadcasts
<1>3. ASSUME NEW n \in Node, NEW m \in Sender, NEW k \in Node,
             echos' \in {echos, Counted(echos, n, m, k)},
             echos' # echos => k \in Broadcasters("echo", m)'
      PROVE  Echoes
  <2>1. CASE echos' = echos
    BY <2>1
  <2>2. CASE echos' # echos
    <3>1. echos' = Counted(echos, n, m, k) /\ k \in Broadcasters("echo", m)'
      BY <1>3, <2>2
    <3>2. /\ echos'[n][m] = echos[n][m] \cup {k}
          /\ \A i \in Node, j \in Sender : i # n \/ j # m => echos'[i][j] = echos[i][j]
      <4>1. LET table == Counted(echos, n, m, k)
            IN  /\ table[n][m] = echos[n][m] \cup {k}
                /\ \A i \in Node, j \in Sender :
                     i # n \/ j # m => table[i][j] = echos[i][j]
        BY <1>1, Counting
      <4>. QED  BY <3>1, <4>1
    <3>. SUFFICES ASSUME NEW i \in Node, NEW j \in Sender
                  PROVE  echos'[i][j] \subseteq echos[i][j] \cup Broadcasters("echo", j)'
      OBVIOUS
    <3>3. CASE i = n /\ j = m
      BY <3>1, <3>2, <3>3
    <3>4. CASE i # n \/ j # m
      BY <3>2, <3>4
    <3>. QED  BY <3>3, <3>4
  <2>. QED  BY <2>1, <2>2
<1>4. ASSUME NEW n \in Node, NEW d \in DMsg, Receives(n, d)
      PROVE  /\ d.msg \in Sender /\ d.src \in Node /\ d.src # n /\ n \notin Silent
             /\ d.src \in Broadcasters(d.phase, d.msg)
             /\ d.src \in Broadcasters(d.phase, d.msg)'
  <2>1. d \in dolev /\ d \in dolev' /\ d.src # n /\ n \notin Silent
    BY <1>2, <1>4 DEF Receives
  <2>2. /\ d.msg \in Sender /\ d.src \in Node
        /\ d = [phase |-> d.phase, msg |-> d.msg, src |-> d.src]
    BY DEF DMsg
  <2>. QED  BY <2>1, <2>2 DEF Broadcasters
<1>5. ASSUME NEW n \in Node, StartEcho(n) PROVE Echoes /\ Readies
  <2>1. /\ n \in Sender
        /\ echos' = Counted(echos, n, n, n) /\ readys' = readys
        /\ n \in Broadcasters("echo", n)'
    BY <1>5 DEF StartEcho, IInv, OnlySenders, Counted, Broadcast, Broadcasters
  <2>. QED  BY <1>3, <2>1
<1>6. ASSUME NEW n \in Node, NEW d \in DMsg, RecvSend(n, d)
      PROVE  Echoes /\ Readies
  <2>1. d.msg \in Sender
    BY <1>4, <1>6 DEF RecvSend, Takes
  <2>2. readys' = readys
    BY <1>6 DEF RecvSend
  <2>3. /\ echos' \in {echos, Counted(echos, n, d.msg, n)}
        /\ echos' # echos => n \in Broadcasters("echo", d.msg)'
    BY <1>6 DEF RecvSend, Counted, Broadcast, Broadcasters
  <2>4. Echoes
    BY <1>3, <2>1, <2>3
  <2>. QED  BY <2>2, <2>4
<1>7. ASSUME NEW n \in Node, NEW d \in DMsg, EchoHandler(n, d)
      PROVE  Echoes /\ Readies
  <2>1. /\ d.msg \in Sender /\ d.src \in Node
        /\ d.src \in Broadcasters("echo", d.msg)'
    BY <1>4, <1>7 DEF EchoHandler, Takes
  <2>2. echos' = Counted(echos, n, d.msg, d.src) /\ readys' = readys
    BY <1>7 DEF EchoHandler, Counted
  <2>3. Echoes
    BY <1>3, <2>1, <2>2
  <2>. QED  BY <2>2, <2>3
<1>8. ASSUME NEW n \in Node, NEW d \in DMsg, ReadyHandler(n, d)
      PROVE  Echoes /\ Readies
  <2>1. /\ d.msg \in Sender /\ d.src \in Node /\ d.src # n /\ n \notin Silent
        /\ d.src \in Broadcasters("ready", d.msg)
    BY <1>4, <1>8 DEF ReadyHandler, Takes
  <2>2. readys' = Counted(readys, n, d.msg, d.src) /\ echos' = echos
    BY <1>8 DEF ReadyHandler, Counted
  <2>3. Readies
    <3>1. /\ readys'[n][d.msg] = readys[n][d.msg] \cup {d.src}
          /\ \A i \in Node, j \in Sender :
               i # n \/ j # d.msg => readys'[i][j] = readys[i][j]
      <4>1. LET table == Counted(readys, n, d.msg, d.src)
            IN  /\ table[n][d.msg] = readys[n][d.msg] \cup {d.src}
                /\ \A i \in Node, j \in Sender :
                     i # n \/ j # d.msg => table[i][j] = readys[i][j]
        BY <1>1, <2>1, Counting
      <4>. QED  BY <2>2, <4>1
    <3>. SUFFICES ASSUME NEW i \in Node, NEW j \in Sender
                  PROVE  /\ readys[i][j] \subseteq readys'[i][j]
                         /\ readys'[i][j] \subseteq
                              readys[i][j] \cup (Broadcasters("ready", j) \ {i})
                         /\ i \in Silent => readys'[i][j] = readys[i][j]
      OBVIOUS
    <3>2. CASE i = n /\ j = d.msg
      BY <2>1, <3>1, <3>2
    <3>3. CASE i # n \/ j # d.msg
      BY <3>1, <3>3
    <3>. QED  BY <3>2, <3>3
  <2>. QED  BY <2>2, <2>3
<1>9. CASE UNCHANGED <<echos, readys>>
  BY <1>9
<1>. QED
  BY <1>1, <1>5, <1>6, <1>7, <1>8, <1>9
  DEF Steps, Next, BasicNext, BasicEcho, BasicReady, RecvEcho, RecvReady, BasicStartSend, BasicStartEcho,
      BasicSend, Start, StartSend, StartFinish, StartFails, Exit, RecvEarly,
      ReadyResume, ReadyFails, nodeVars, vars

\* At most one delivery a step, of a message not delivered yet and with enough
\* READYs counted.
LEMMA NewDeliveries ==
  ASSUME IInv, [Steps]_vars
  PROVE  \/ UNCHANGED <<delivered, deliveries>>
         \/ \E n \in Node, m \in Sender :
              /\ m \notin delivered[n]
              /\ EnoughReadies(readys'[n][m])
              /\ delivered' = Marked(delivered, n, m)
              /\ deliveries' = [deliveries EXCEPT ![n][m] = @ + 1]
<1>1. ASSUME NEW n \in Node, NEW m \in Sender, NEW S, DeliverCheck(n, m, S)
      PROVE  \/ UNCHANGED <<delivered, deliveries>>
             \/ /\ m \notin delivered[n]
                /\ EnoughReadies(S)
                /\ delivered' = Marked(delivered, n, m)
                /\ deliveries' = [deliveries EXCEPT ![n][m] = @ + 1]
  BY <1>1 DEF DeliverCheck, Delivers, Marked, deliveryVars
<1>2. ASSUME NEW n \in Node, NEW d \in DMsg, ReadyHandler(n, d),
             ~ UNCHANGED <<delivered, deliveries>>
      PROVE  \E m \in Sender :
              /\ m \notin delivered[n]
              /\ EnoughReadies(readys'[n][m])
              /\ delivered' = Marked(delivered, n, m)
              /\ deliveries' = [deliveries EXCEPT ![n][m] = @ + 1]
  <2>1. d.msg \in Sender /\ d.src \in Node
    BY DEF DMsg
  <2>2. /\ DeliverCheck(n, d.msg, readys[n][d.msg] \cup {d.src})
        /\ readys' = Counted(readys, n, d.msg, d.src)
    BY <1>2 DEF ReadyHandler, Counted, deliveryVars
  <2>3. readys \in Tables
    BY DEF IInv, TypeOK, Tables
  <2>4. readys'[n][d.msg] = readys[n][d.msg] \cup {d.src}
    BY <2>1, <2>2, <2>3, Counting
  <2>5. /\ d.msg \notin delivered[n]
        /\ EnoughReadies(readys[n][d.msg] \cup {d.src})
        /\ delivered' = Marked(delivered, n, d.msg)
        /\ deliveries' = [deliveries EXCEPT ![n][d.msg] = @ + 1]
    BY <1>1, <1>2, <2>1, <2>2
  <2>. QED  BY <2>1, <2>4, <2>5
<1>3. ASSUME NEW n \in Node, NEW m \in Sender, ReadyResume(n, m)
      PROVE  DeliverCheck(n, m, readys'[n][m])
  BY <1>3 DEF ReadyResume, nodeVars
<1>4. dolev \subseteq DMsg
  BY DEF IInv, TypeOK
<1>5. \/ UNCHANGED <<delivered, deliveries>>
      \/ \E n \in Node, d \in DMsg : ReadyHandler(n, d)
      \/ \E n \in Node, m \in Sender : ReadyResume(n, m)
  BY ZenonT(40), <1>4
  DEF Steps, Next, BasicNext, BasicEcho, BasicReady, RecvEcho, RecvReady, BasicStartSend, BasicStartEcho,
      BasicSend, Start, StartSend, StartEcho, StartFinish, StartFails, Exit,
      RecvSend, EchoHandler, RecvEarly, ReadyFails, deliveryVars, vars
<1>. QED  BY <1>1, <1>2, <1>3, <1>5

-----------------------------------------------------------------------------
(***************************************************************************)
(* Each part of the invariant is preserved.                                *)
(***************************************************************************)
LEMMA Grows ==
  ASSUME TypeOK', [Steps]_vars, IInv, NEW p, NEW m
  PROVE  /\ Broadcasters(p, m) \subseteq Broadcasters(p, m)'
         /\ IsFiniteSet(Broadcasters(p, m)')
         /\ Cardinality(Broadcasters(p, m)') \in Nat
         /\ Cardinality(Broadcasters(p, m)) \in Nat
         /\ Cardinality(Broadcasters(p, m)) <= Cardinality(Broadcasters(p, m)')
<1>1. Broadcasters(p, m) \subseteq Broadcasters(p, m)'
  BY NewBroadcasts DEF Broadcasters
<1>2. /\ IsFiniteSet(Broadcasters(p, m)')
      /\ IsFiniteSet(Broadcasters(p, m))
  BY Finite, FS_Subset DEF Broadcasters
<1>. QED  BY <1>1, <1>2, FS_Subset, FS_CardinalityType

\* on_start begins with the SEND and does not go back.
LEMMA StartMoves ==
  ASSUME [Steps]_vars
  PROVE  \/ UNCHANGED onStart
         \/ \E k \in Node : StartSend(k) \/ BasicStartSend(k)
         \/ \E k \in Node, pc \in {"echoing", "done", "failed"} :
              onStart' = [onStart EXCEPT ![k] = pc]
<1>. DEFINE Goal == \/ UNCHANGED onStart
                    \/ \E k \in Node, pc \in {"echoing", "done", "failed"} :
                         onStart' = [onStart EXCEPT ![k] = pc]
<1>1. ASSUME NEW k \in Node,
             \/ Start(k) \/ StartEcho(k) \/ StartFinish(k) \/ StartFails(k)
             \/ BasicStartEcho(k)
      PROVE  Goal
  BY <1>1 DEF Start, StartEcho, StartFinish, StartFails, BasicStartEcho
<1>2. ASSUME NEW k, NEW d,
             \/ RecvSend(k, d) \/ EchoHandler(k, d) \/ ReadyHandler(k, d) \/ RecvEarly(k, d)
             \/ BasicSend(k, d)
      PROVE  UNCHANGED onStart
  BY <1>2 DEF RecvSend, EchoHandler, ReadyHandler, RecvEarly, BasicSend, Takes
<1>3. ASSUME NEW k, NEW m, Exit(k) \/ ReadyResume(k, m) \/ ReadyFails(k, m)
      PROVE  UNCHANGED onStart
  BY <1>3 DEF Exit, ReadyResume, ReadyFails
<1>4. CASE Next
  BY <1>1, <1>2, <1>3, <1>4 DEF Next, RecvEcho, RecvReady
<1>5. CASE BasicNext
  BY <1>1, <1>2, <1>3, <1>5 DEF BasicNext, BasicEcho, BasicReady
<1>. QED  BY <1>4, <1>5 DEF Steps, vars

LEMMA SendStep ==
  ASSUME IInv, TypeOK', [Steps]_vars
  PROVE  SendsAreOwn' /\ StartHasSent' /\ SilentAreSilent' /\ SilentAreDeaf'
<1>1. dolev \subseteq dolev' /\ \A d \in dolev' \ dolev : Justified(d)
  BY NewBroadcasts
<1>2. SendsAreOwn'
  BY <1>1 DEF IInv, SendsAreOwn, Justified
<1>3. StartHasSent'
  <2>1. ASSUME NEW n \in Node, onStart'[n] = "sending"
        PROVE  n \in Broadcasters("send", n)'
    <3>1. CASE onStart[n] = "sending"
      BY <1>1, <3>1 DEF IInv, StartHasSent, Broadcasters
    <3>2. CASE onStart[n] # "sending"
      <4>1. \/ UNCHANGED onStart
            \/ \E k \in Node : StartSend(k) \/ BasicStartSend(k)
            \/ \E k \in Node, pc \in {"echoing", "done", "failed"} :
                 onStart' = [onStart EXCEPT ![k] = pc]
        BY StartMoves
      <4>2. onStart \in [Node -> {"idle", "sending", "echoing", "done", "failed"}]
        BY DEF IInv, TypeOK
      <4>3. PICK k \in Node : StartSend(k) \/ BasicStartSend(k)
        BY <2>1, <3>2, <4>1, <4>2
      <4>4. onStart' = [onStart EXCEPT ![k] = "sending"] /\ Broadcast(k, "send", k)
        BY <4>3 DEF StartSend, BasicStartSend
      <4>5. k = n
        BY <2>1, <3>2, <4>2, <4>4
      <4>. QED  BY <4>4, <4>5 DEF Broadcast, Broadcasters
    <3>. QED  BY <3>1, <3>2
  <2>. QED  BY <2>1 DEF StartHasSent
<1>4. SilentAreSilent'
  <2>1. ASSUME NEW m \in Sender, NEW n \in Broadcasters("ready", m)'
        PROVE  n \notin Silent
    <3>1. n \in Node /\ [phase |-> "ready", msg |-> m, src |-> n] \in dolev'
      BY <2>1 DEF Broadcasters
    <3>2. CASE n \in Broadcasters("ready", m)
      BY <3>2 DEF IInv, SilentAreSilent
    <3>3. CASE n \notin Broadcasters("ready", m)
      <4>1. Justified([phase |-> "ready", msg |-> m, src |-> n])
        BY <1>1, <3>1, <3>3 DEF Broadcasters
      <4>. QED  BY <4>1 DEF Justified
    <3>. QED  BY <3>2, <3>3
  <2>. QED  BY <2>1 DEF SilentAreSilent
<1>5. SilentAreDeaf'
  BY NewCounts, BrachaAssumption DEF IInv, SilentAreDeaf
<1>. QED  BY <1>2, <1>3, <1>4, <1>5

LEMMA CountStep ==
  ASSUME IInv, TypeOK', [Steps]_vars PROVE CountedWereBroadcast'
<1>. SUFFICES ASSUME NEW n \in Node, NEW m \in Sender
              PROVE  /\ echos'[n][m] \subseteq Broadcasters("echo", m)'
                     /\ readys'[n][m] \subseteq Broadcasters("ready", m)' \ {n}
  BY DEF CountedWereBroadcast
<1>1. /\ echos[n][m] \subseteq Broadcasters("echo", m)
      /\ readys[n][m] \subseteq Broadcasters("ready", m) \ {n}
  BY DEF IInv, CountedWereBroadcast
<1>2. /\ Broadcasters("echo", m) \subseteq Broadcasters("echo", m)'
      /\ Broadcasters("ready", m) \subseteq Broadcasters("ready", m)'
  BY Grows
<1>3. /\ echos'[n][m] \subseteq echos[n][m] \cup Broadcasters("echo", m)'
      /\ readys'[n][m] \subseteq readys[n][m] \cup (Broadcasters("ready", m) \ {n})
  BY NewCounts
<1>. QED  BY <1>1, <1>2, <1>3

\* The first READY is backed by ECHOs its node counted, later ones by those or
\* by an earlier READY.
LEMMA BackedStep ==
  ASSUME IInv, TypeOK', CountedWereBroadcast', [Steps]_vars
  PROVE  ReadyBackedByEchoes'
<1>1. dolev \subseteq dolev' /\ \A d \in dolev' \ dolev : Justified(d)
  BY NewBroadcasts
<1>2. \A m \in Sender :
        /\ Broadcasters("ready", m) # {} =>
             Cardinality(Broadcasters("echo", m)) >= ReadyThreshold
        /\ Broadcasters("echo", m) # {} => m \in Broadcasters("send", m)
  BY DEF IInv, ReadyBackedByEchoes
<1>3. ASSUME NEW m \in Sender, Broadcasters("echo", m)' # {}
      PROVE  m \in Broadcasters("send", m)'
  <2>1. PICK n \in Node : [phase |-> "echo", msg |-> m, src |-> n] \in dolev'
    BY <1>3 DEF Broadcasters
  <2>2. CASE n \in Broadcasters("echo", m)
    BY <1>2, <2>2, Grows
  <2>3. CASE n \notin Broadcasters("echo", m)
    <3>1. Justified([phase |-> "echo", msg |-> m, src |-> n])
      BY <1>1, <2>1, <2>3 DEF Broadcasters
    <3>2. m \in Broadcasters("send", m)
      BY <3>1 DEF Justified
    <3>. QED  BY <3>2, Grows
  <2>. QED  BY <2>2, <2>3
<1>4. ASSUME NEW m \in Sender, NEW n \in Node,
             EnoughEchoes(echos'[n][m])
      PROVE  Cardinality(Broadcasters("echo", m)') >= ReadyThreshold
  <2>1. echos'[n][m] \subseteq Broadcasters("echo", m)'
    BY DEF CountedWereBroadcast
  <2>2. IsFiniteSet(Broadcasters("echo", m)')
    BY Grows
  <2>3. /\ IsFiniteSet(echos'[n][m])
        /\ Cardinality(echos'[n][m]) <= Cardinality(Broadcasters("echo", m)')
    BY <2>1, <2>2, FS_Subset
  <2>4. Cardinality(echos'[n][m]) \in Nat /\ Cardinality(Broadcasters("echo", m)') \in Nat
    BY <2>2, <2>3, FS_CardinalityType
  <2>. QED  BY <1>4, <2>3, <2>4, Finite DEF EnoughEchoes
<1>5. ASSUME NEW m \in Sender, Broadcasters("ready", m) # {}
      PROVE  Cardinality(Broadcasters("echo", m)') >= ReadyThreshold
  BY <1>2, <1>5, Grows, Finite
<1>6. ASSUME NEW m \in Sender, NEW n \in Node,
             Cardinality(readys'[n][m]) >= F + 1
      PROVE  Broadcasters("ready", m) # {}
  <2>1. readys'[n][m] # {}
    <3>1. Cardinality({}) = 0
      BY FS_EmptySet
    <3>. QED  BY <1>6, <3>1, BrachaAssumption
  <2>2. readys'[n][m] \subseteq Broadcasters("ready", m)
    BY NewCounts DEF IInv, CountedWereBroadcast
  <2>. QED  BY <2>1, <2>2
<1>7. ASSUME NEW m \in Sender, Broadcasters("ready", m)' # {}
      PROVE  Cardinality(Broadcasters("echo", m)') >= ReadyThreshold
  <2>1. PICK n \in Node : [phase |-> "ready", msg |-> m, src |-> n] \in dolev'
    BY <1>7 DEF Broadcasters
  <2>2. CASE n \in Broadcasters("ready", m)
    BY <1>5, <2>2
  <2>3. CASE n \notin Broadcasters("ready", m)
    <3>1. Justified([phase |-> "ready", msg |-> m, src |-> n])
      BY <1>1, <2>1, <2>3 DEF Broadcasters
    <3>2. \/ EnoughEchoes(echos'[n][m])
          \/ Cardinality(readys'[n][m]) >= F + 1
      BY <3>1 DEF Justified
    <3>. QED  BY <1>4, <1>5, <1>6, <3>2
  <2>. QED  BY <2>2, <2>3
<1>. QED  BY <1>3, <1>7 DEF ReadyBackedByEchoes

LEMMA DeliverStep ==
  ASSUME IInv, TypeOK', [Steps]_vars PROVE DeliveredAreCounted' /\ LoggedOnce'
<1>1. /\ delivered \in Marks
      /\ deliveries \in [Node -> [Sender -> Nat]]
      /\ readys' \in Tables
  BY DEF IInv, TypeOK, Marks, Tables
<1>2. ASSUME NEW n \in Node, NEW m \in Sender, EnoughReadies(readys[n][m])
      PROVE  EnoughReadies(readys'[n][m])
  <2>1. readys[n][m] \subseteq readys'[n][m]
    BY NewCounts
  <2>2. IsFiniteSet(readys'[n][m])
    BY <1>1, Finite, FS_Subset DEF Tables
  <2>3. /\ IsFiniteSet(readys[n][m])
        /\ Cardinality(readys[n][m]) <= Cardinality(readys'[n][m])
    BY <2>1, <2>2, FS_Subset
  <2>4. Cardinality(readys[n][m]) \in Nat /\ Cardinality(readys'[n][m]) \in Nat
    BY <2>2, <2>3, FS_CardinalityType
  <2>. QED  BY <1>2, <2>3, <2>4, Finite DEF EnoughReadies
<1>3. /\ \A n \in Node : delivered[n] \subseteq Sender
      /\ \A n \in Node : \A m \in delivered[n] : EnoughReadies(readys[n][m])
      /\ \A n \in Node, m \in Sender :
           deliveries[n][m] = IF m \in delivered[n] THEN 1 ELSE 0
  BY <1>1 DEF IInv, DeliveredAreCounted, LoggedOnce, Marks
<1>4. CASE UNCHANGED <<delivered, deliveries>>
  <2>1. DeliveredAreCounted'
    BY <1>2, <1>3, <1>4 DEF DeliveredAreCounted
  <2>. QED  BY <1>3, <1>4, <2>1 DEF LoggedOnce
<1>5. ASSUME NEW n \in Node, NEW m \in Sender,
             m \notin delivered[n],
             EnoughReadies(readys'[n][m]),
             delivered' = Marked(delivered, n, m),
             deliveries' = [deliveries EXCEPT ![n][m] = @ + 1]
      PROVE  DeliveredAreCounted' /\ LoggedOnce'
  <2>1. /\ delivered'[n] = delivered[n] \cup {m}
        /\ \A i \in Node : i # n => delivered'[i] = delivered[i]
    BY <1>1, <1>5, Marking
  <2>2. DeliveredAreCounted'
    <3>. SUFFICES ASSUME NEW i \in Node, NEW j \in delivered'[i]
                  PROVE  EnoughReadies(readys'[i][j])
      BY DEF DeliveredAreCounted
    <3>1. CASE i = n /\ j = m
      BY <1>5, <3>1
    <3>2. CASE ~(i = n /\ j = m)
      BY <1>2, <1>3, <2>1, <3>2
    <3>. QED  BY <3>1, <3>2
  <2>3. /\ deliveries'[n][m] = deliveries[n][m] + 1
        /\ \A i \in Node, j \in Sender :
             i # n \/ j # m => deliveries'[i][j] = deliveries[i][j]
    BY <1>1, <1>5
  <2>4. LoggedOnce'
    <3>. SUFFICES ASSUME NEW i \in Node, NEW j \in Sender
                  PROVE  deliveries'[i][j] = IF j \in delivered'[i] THEN 1 ELSE 0
      BY DEF LoggedOnce
    <3>1. CASE i = n /\ j = m
      BY <1>3, <1>5, <2>1, <2>3, <3>1
    <3>2. CASE i # n \/ j # m
      BY <1>3, <2>1, <2>3, <3>2
    <3>. QED  BY <3>1, <3>2
  <2>. QED  BY <2>2, <2>4
<1>. QED  BY <1>4, <1>5, NewDeliveries

LEMMA Step == IInv /\ [Steps]_vars => IInv'
<1>. SUFFICES ASSUME IInv, [Steps]_vars PROVE IInv'
  OBVIOUS
<1>1. TypeOK' /\ OnlySenders'
  BY TypeStep DEF IInv
<1>2. CountedWereBroadcast'
  BY <1>1, CountStep
<1>. QED  BY <1>1, <1>2, SendStep, BackedStep, DeliverStep DEF IInv

-----------------------------------------------------------------------------
(***************************************************************************)
(* The theorems.                                                           *)
(***************************************************************************)
\* The inductive invariant holds in every reachable state.
THEOREM Invariance == Spec => []IInv
<1>1. [Next]_vars => [Steps]_vars
  BY DEF Steps
<1>. QED  BY <1>1, InitIInv, Step, PTL DEF Spec

\* The state of bracha.py has its types.
THEOREM TypeCorrect == Spec => []TypeOK
BY Invariance, PTL DEF IInv

\* Behind every READY is a quorum of ECHOs, and behind every ECHO the sender's
\* SEND (bracha.py:90-102, 152-182), for every f.
THEOREM Backed == Spec => []ReadyBackedByEchoes
BY Invariance, PTL DEF IInv

LEMMA DeliveredAreBacked == IInv => DeliveryBackedByReadies
<1>. SUFFICES ASSUME IInv, NEW n \in Node, NEW m \in delivered[n]
              PROVE  Cardinality(Broadcasters("ready", m) \ {n}) >= DeliverThreshold
  BY DEF DeliveryBackedByReadies
<1>1. m \in Sender
  BY DEF IInv, TypeOK
<1>2. readys[n][m] \subseteq Broadcasters("ready", m) \ {n}
  BY <1>1 DEF IInv, CountedWereBroadcast
<1>3. IsFiniteSet(Broadcasters("ready", m) \ {n})
  BY Finite, FS_Subset DEF Broadcasters
<1>4. /\ IsFiniteSet(readys[n][m])
      /\ Cardinality(readys[n][m]) <= Cardinality(Broadcasters("ready", m) \ {n})
  BY <1>2, <1>3, FS_Subset
<1>5. /\ Cardinality(readys[n][m]) \in Nat
      /\ Cardinality(Broadcasters("ready", m) \ {n}) \in Nat
  BY <1>3, <1>4, FS_CardinalityType
<1>6. Cardinality(readys[n][m]) >= DeliverThreshold
  BY DEF IInv, DeliveredAreCounted, EnoughReadies
<1>. QED  BY <1>4, <1>5, <1>6, Finite

\* A node that delivers has heard DeliverThreshold other nodes (bracha.py:184).
THEOREM DeliveryIsBacked == Spec => []DeliveryBackedByReadies
BY Invariance, DeliveredAreBacked, PTL

\* With no more listeners than DeliverThreshold nobody delivers: each needs
\* that many other nodes that are not silent (bracha.py:184).
THEOREM Starvation == Spec => []StarvedBySilence
<1>1. IInv => StarvedBySilence
  <2>. SUFFICES ASSUME IInv, Cardinality(Node \ Silent) <= DeliverThreshold,
                       NEW n \in Node, NEW m \in delivered[n]
                PROVE  FALSE
    BY DEF StarvedBySilence, IInv, TypeOK
  <2>1. m \in Sender
    BY DEF IInv, TypeOK
  <2>2. Cardinality(Broadcasters("ready", m) \ {n}) >= DeliverThreshold
    BY DeliveredAreBacked DEF DeliveryBackedByReadies
  <2>3. Broadcasters("ready", m) \subseteq Node \ Silent
    BY <2>1 DEF IInv, SilentAreSilent, Broadcasters
  <2>4. IsFiniteSet(Node \ Silent)
    BY Finite, FS_Subset
  <2>5. Broadcasters("ready", m) \ {n} = Node \ Silent
    <3>1. /\ IsFiniteSet(Broadcasters("ready", m) \ {n})
          /\ Cardinality(Broadcasters("ready", m) \ {n}) <= Cardinality(Node \ Silent)
          /\ Cardinality(Broadcasters("ready", m) \ {n}) = Cardinality(Node \ Silent)
               => Broadcasters("ready", m) \ {n} = Node \ Silent
      BY <2>3, <2>4, FS_Subset
    <3>2. /\ Cardinality(Broadcasters("ready", m) \ {n}) \in Nat
          /\ Cardinality(Node \ Silent) \in Nat
      BY <2>4, <3>1, FS_CardinalityType
    <3>. QED  BY <2>2, <3>1, <3>2, Finite
  <2>6. n \notin Silent
    <3>1. Cardinality(readys[n][m]) >= DeliverThreshold
      BY DEF IInv, DeliveredAreCounted, EnoughReadies
    <3>2. Cardinality({}) = 0
      BY FS_EmptySet
    <3>3. readys[n][m] # {}
      BY <3>1, <3>2, Finite
    <3>. QED  BY <2>1, <3>3 DEF IInv, SilentAreDeaf
  <2>. QED  BY <2>5, <2>6
<1>. QED  BY <1>1, Invariance, PTL

\* What is delivered was sent: READYs, ECHOs and the SEND are behind it.
DeliveredSent ==
  \A n \in Node : \A m \in delivered[n] : m \in Broadcasters("send", m)

LEMMA DeliveredWereSent == IInv => DeliveredSent
<1>. SUFFICES ASSUME IInv, NEW n \in Node, NEW m \in delivered[n]
              PROVE  m \in Broadcasters("send", m)
  BY DEF DeliveredSent
<1>1. m \in Sender /\ Cardinality({}) = 0
  BY FS_EmptySet DEF IInv, TypeOK
<1>2. readys[n][m] # {}
  <2>1. Cardinality(readys[n][m]) >= DeliverThreshold
    BY DEF IInv, DeliveredAreCounted, EnoughReadies
  <2>. QED  BY <1>1, <2>1, Finite
<1>3. Broadcasters("ready", m) # {}
  BY <1>1, <1>2 DEF IInv, CountedWereBroadcast
<1>4. Cardinality(Broadcasters("echo", m)) >= ReadyThreshold
  BY <1>1, <1>3 DEF IInv, ReadyBackedByEchoes
<1>5. Broadcasters("echo", m) # {}
  BY <1>1, <1>4, Finite
<1>. QED  BY <1>1, <1>5 DEF IInv, ReadyBackedByEchoes

SentNow == {m \in Sender : m \in Broadcasters("send", m)}

\* Only on_start sends, and it delivers nothing.
LEMMA SendsOrDelivers ==
  ASSUME IInv, [Steps]_vars
  PROVE  \/ SentNow' = SentNow
         \/ /\ deliveries' = deliveries
            /\ \E m \in Sender : m \notin SentNow /\ SentNow' = SentNow \cup {m}
<1>1. CASE UNCHANGED dolev
  BY <1>1 DEF SentNow, Broadcasters
<1>2. ASSUME NEW n \in Node, NEW p \in {"echo", "ready"}, NEW m, Broadcast(n, p, m)
      PROVE  SentNow' = SentNow
  <2>1. dolev' = dolev \cup {[phase |-> p, msg |-> m, src |-> n]}
    BY <1>2 DEF Broadcast
  <2>2. \A k \in Sender :
          [phase |-> "send", msg |-> k, src |-> k] \in dolev'
            <=> [phase |-> "send", msg |-> k, src |-> k] \in dolev
    BY <2>1
  <2>. QED  BY <2>2 DEF SentNow, Broadcasters
<1>3. ASSUME NEW n \in Node, StartSend(n) \/ BasicStartSend(n)
      PROVE  /\ deliveries' = deliveries
             /\ n \in Sender /\ SentNow' = SentNow \cup {n}
  <2>1. /\ deliveries' = deliveries /\ n \in Sender
        /\ dolev' = dolev \cup {[phase |-> "send", msg |-> n, src |-> n]}
    BY <1>3 DEF StartSend, BasicStartSend, Broadcast, deliveryVars
  <2>2. \A k \in Sender :
          [phase |-> "send", msg |-> k, src |-> k] \in dolev'
            <=> k = n \/ [phase |-> "send", msg |-> k, src |-> k] \in dolev
    BY <2>1
  <2>. QED  BY <2>1, <2>2, BrachaAssumption DEF SentNow, Broadcasters
<1>4. \/ UNCHANGED dolev
      \/ \E n \in Node : StartSend(n) \/ BasicStartSend(n)
      \/ \E n \in Node, p \in {"echo", "ready"}, m \in Sender : Broadcast(n, p, m)
  <2>1. \A d \in dolev : d.msg \in Sender
    BY DEF IInv, TypeOK, DMsg
  <2>2. ASSUME NEW n \in Node, StartEcho(n) \/ BasicStartEcho(n)
        PROVE  n \in Sender /\ Broadcast(n, "echo", n)
    BY <2>2 DEF StartEcho, BasicStartEcho, IInv, OnlySenders
  <2>3. ASSUME NEW n \in Node, NEW d \in dolev,
               RecvSend(n, d) \/ EchoHandler(n, d) \/ ReadyHandler(n, d) \/ BasicSend(n, d)
        PROVE  \/ UNCHANGED dolev
               \/ \E p \in {"echo", "ready"} : Broadcast(n, p, d.msg)
    BY <2>3 DEF RecvSend, EchoHandler, ReadyHandler, BasicSend, NoBroadcast
  <2>. QED
    BY <2>1, <2>2, <2>3 DEF Steps, Next, BasicNext, BasicEcho, BasicReady, RecvEcho, RecvReady, Start, StartFinish, StartFails, Exit, RecvEarly,
      ReadyResume, ReadyFails, NoBroadcast, vars
<1>. QED  BY <1>1, <1>2, <1>3, <1>4

LEMMA RefinesInit == Init => RB!Init
<1>. SUFFICES ASSUME Init PROVE RB!Init
  OBVIOUS
<1>1. {m \in Sender : m \in Broadcasters("send", m)} = {}
  BY DEF Init, Broadcasters
<1>. QED  BY <1>1 DEF Init, RB!Init

LEMMA RefinesStep ==
  ASSUME IInv, DeliveredSent', [Steps]_vars PROVE [RB!Next]_(RB!vars)
<1>1. CASE SentNow' = SentNow
  <2>1. CASE deliveries' = deliveries
    BY <1>1, <2>1 DEF SentNow, RB!vars
  <2>2. ASSUME NEW n \in Node, NEW m \in Sender,
               m \notin delivered[n],
               delivered' = Marked(delivered, n, m),
               deliveries' = [deliveries EXCEPT ![n][m] = @ + 1]
        PROVE  RB!Next
    <3>1. delivered \in Marks
      BY DEF IInv, TypeOK, Marks
    <3>2. Marked(delivered, n, m)[n] = delivered[n] \cup {m}
      BY <3>1, Marking
    <3>3. m \in SentNow
      BY <1>1, <2>2, <3>2 DEF DeliveredSent, SentNow
    <3>4. deliveries[n][m] = 0
      BY <2>2 DEF IInv, LoggedOnce
    <3>5. deliveries' = [deliveries EXCEPT ![n][m] = 1]
      BY <2>2, <3>4
    <3>6. RB!Deliver(n, m)
      BY <1>1, <3>3, <3>4, <3>5 DEF SentNow, RB!Deliver
    <3>. QED  BY <3>6 DEF RB!Next
  <2>. QED  BY <2>1, <2>2, NewDeliveries
<1>2. ASSUME NEW m \in Sender, deliveries' = deliveries, m \notin SentNow,
             SentNow' = SentNow \cup {m}
      PROVE  RB!Next
  BY <1>2 DEF SentNow, RB!Next, RB!Initiate
<1>. QED  BY <1>1, <1>2, SendsOrDelivers

\* Bracha implements the abstract broadcast: nobody delivers before the sender
\* has broadcast, or twice (bracha.py:90-188), whatever the thresholds are.
THEOREM Refinement == Spec => ImplementsBroadcast
<1>1. IInv /\ DeliveredSent' /\ [Next]_vars => [RB!Next]_(RB!vars)
  BY RefinesStep DEF Steps
<1>. QED
  BY <1>1, RefinesInit, Invariance, DeliveredWereSent, PTL
  DEF Spec, ImplementsBroadcast, RB!Spec

-----------------------------------------------------------------------------
(***************************************************************************)
(* The phase counters.  A sender has not seen its message before it echoes *)
(* it, because its own SEND never comes back to it.                        *)
(***************************************************************************)
NotSeenYet ==
  \A n \in Node : onStart[n] \in {"idle", "sending"} => n \notin seen[n]

\* A phase is counted exactly when its message is marked.
LEMMA CountPhase ==
  ASSUME NEW S \in SUBSET Sender, NEW m \in Sender, m \notin S
  PROVE  Cardinality(S \cup {m}) = Cardinality(S) + 1
BY Finite, FS_Subset, FS_AddElement

\* The pairs of a counter and the set it counts, after a step of node n.
CountsMarks(n) ==
  /\ phaseCount'[n]["echo"] = Cardinality(seen'[n])
  /\ phaseCount'[n]["ready"] = Cardinality(sentReady'[n])

OneNode(n) ==
  \A k \in Node \ {n} :
    /\ phaseCount'[k] = phaseCount[k]
    /\ seen'[k] = seen[k]
    /\ sentReady'[k] = sentReady[k]

LEMMA PhaseStep ==
  ASSUME IInv, NotSeenYet, OncePerPhase, [Steps]_vars
  PROVE  NotSeenYet' /\ OncePerPhase'
<1>. USE DEF NoBroadcast
<1>1. /\ phaseCount \in [Node -> [Phase -> Nat]]
      /\ seen \in Marks /\ sentReady \in Marks
      /\ onStart \in [Node -> {"idle", "sending", "echoing", "done", "failed"}]
      /\ dolev \subseteq DMsg
      /\ \A n \in Node : seen[n] \subseteq Sender /\ sentReady[n] \subseteq Sender
  BY DEF IInv, TypeOK, Marks
<1>2. \A n \in Node : /\ phaseCount[n]["echo"] = Cardinality(seen[n])
                      /\ phaseCount[n]["ready"] = Cardinality(sentReady[n])
  BY DEF OncePerPhase
<1>3. ASSUME NEW n \in Node, CountsMarks(n), OneNode(n) PROVE OncePerPhase'
  BY <1>2, <1>3 DEF CountsMarks, OneNode, OncePerPhase
<1>4. ASSUME NEW n \in Node, NEW p \in Phase, NEW m \in Sender, Broadcast(n, p, m)
      PROVE  /\ phaseCount'[n][p] = phaseCount[n][p] + 1
             /\ \A q \in Phase \ {p} : phaseCount'[n][q] = phaseCount[n][q]
             /\ \A k \in Node \ {n} : phaseCount'[k] = phaseCount[k]
  <2>1. phaseCount' = [phaseCount EXCEPT ![n][p] = @ + 1]
    BY <1>4 DEF Broadcast
  <2>. QED  BY <1>1, <2>1
<1>5. CASE UNCHANGED <<phaseCount, seen, sentReady>>
  <2>1. OncePerPhase'
    BY <1>5 DEF OncePerPhase
  <2>2. \A k \in Node : onStart'[k] \in {"idle", "sending"} =>
          onStart[k] \in {"idle", "sending"}
    <3>1. \/ UNCHANGED onStart
          \/ \E k \in Node : onStart[k] = "idle" /\ onStart' = [onStart EXCEPT ![k] = "sending"]
          \/ \E k \in Node, pc \in {"echoing", "done", "failed"} :
               onStart' = [onStart EXCEPT ![k] = pc]
      BY StartMoves DEF StartSend, BasicStartSend
    <3>. QED  BY <1>1, <3>1
  <2>3. NotSeenYet'
    BY <1>5, <2>2 DEF NotSeenYet
  <2>. QED  BY <2>1, <2>3
<1>6. ASSUME NEW n \in Node, StartSend(n) \/ BasicStartSend(n)
      PROVE  NotSeenYet' /\ OncePerPhase'
  <2>1. /\ n \in Sender /\ onStart[n] = "idle"
        /\ onStart' = [onStart EXCEPT ![n] = "sending"]
        /\ seen' = seen /\ sentReady' = sentReady
        /\ Broadcast(n, "send", n)
    BY <1>6 DEF StartSend, BasicStartSend, nodeVars
  <2>2. CountsMarks(n) /\ OneNode(n)
    BY <1>2, <1>4, <2>1 DEF CountsMarks, OneNode, Phase
  <2>3. NotSeenYet'
    BY <1>1, <2>1 DEF NotSeenYet
  <2>. QED  BY <1>3, <2>2, <2>3
<1>7. ASSUME NEW n \in Node, StartEcho(n) \/ BasicStartEcho(n)
      PROVE  NotSeenYet' /\ OncePerPhase'
  <2>1. /\ n \in Sender /\ n \notin seen[n]
        /\ onStart' \in {[onStart EXCEPT ![n] = "echoing"], [onStart EXCEPT ![n] = "done"]}
        /\ seen' = Marked(seen, n, n) /\ sentReady' = sentReady
        /\ Broadcast(n, "echo", n)
    BY <1>7 DEF StartEcho, BasicStartEcho, IInv, OnlySenders, NotSeenYet, Marked
  <2>2. /\ Marked(seen, n, n)[n] = seen[n] \cup {n}
        /\ \A k \in Node : k # n => Marked(seen, n, n)[k] = seen[k]
    BY <1>1, <2>1, Marking
  <2>3. Cardinality(seen'[n]) = Cardinality(seen[n]) + 1
    BY <1>1, <2>1, <2>2, CountPhase
  <2>4. CountsMarks(n) /\ OneNode(n)
    BY <1>2, <1>4, <2>1, <2>2, <2>3 DEF CountsMarks, OneNode, Phase
  <2>5. NotSeenYet'
    BY <1>1, <2>1, <2>2 DEF NotSeenYet
  <2>. QED  BY <1>3, <2>4, <2>5
<1>8. ASSUME NEW n \in Node, NEW d \in dolev, RecvSend(n, d) \/ BasicSend(n, d),
             ~ UNCHANGED <<phaseCount, seen, sentReady>>
      PROVE  NotSeenYet' /\ OncePerPhase'
  <2>1. d.msg \in Sender
    BY <1>1 DEF DMsg
  <2>2. d.msg # n
    BY <1>8 DEF RecvSend, BasicSend, Takes, Receives, IInv, SendsAreOwn
  <2>3. /\ d.msg \notin seen[n]
        /\ onStart' = onStart
        /\ seen' = Marked(seen, n, d.msg) /\ sentReady' = sentReady
        /\ Broadcast(n, "echo", d.msg)
    BY <1>8 DEF RecvSend, BasicSend, Takes, Marked
  <2>4. /\ Marked(seen, n, d.msg)[n] = seen[n] \cup {d.msg}
        /\ \A k \in Node : k # n => Marked(seen, n, d.msg)[k] = seen[k]
    BY <1>1, <2>1, Marking
  <2>5. Cardinality(seen'[n]) = Cardinality(seen[n]) + 1
    BY <1>1, <2>1, <2>3, <2>4, CountPhase
  <2>6. CountsMarks(n) /\ OneNode(n)
    BY <1>2, <1>4, <2>1, <2>3, <2>4, <2>5 DEF CountsMarks, OneNode, Phase
  <2>7. NotSeenYet'
    BY <2>2, <2>3, <2>4 DEF NotSeenYet
  <2>. QED  BY <1>3, <2>6, <2>7
<1>9. ASSUME NEW n \in Node, NEW d \in dolev, EchoHandler(n, d) \/ ReadyHandler(n, d),
             ~ UNCHANGED <<phaseCount, seen, sentReady>>
      PROVE  NotSeenYet' /\ OncePerPhase'
  <2>1. d.msg \in Sender
    BY <1>1 DEF DMsg
  <2>2. /\ d.msg \notin sentReady[n]
        /\ onStart' = onStart
        /\ sentReady' = Marked(sentReady, n, d.msg) /\ seen' = seen
        /\ Broadcast(n, "ready", d.msg)
    BY <1>9 DEF EchoHandler, ReadyHandler, Amplifies, Takes, Marked
  <2>3. /\ Marked(sentReady, n, d.msg)[n] = sentReady[n] \cup {d.msg}
        /\ \A k \in Node : k # n => Marked(sentReady, n, d.msg)[k] = sentReady[k]
    BY <1>1, <2>1, Marking
  <2>4. Cardinality(sentReady'[n]) = Cardinality(sentReady[n]) + 1
    BY <1>1, <2>1, <2>2, <2>3, CountPhase
  <2>5. CountsMarks(n) /\ OneNode(n)
    BY <1>2, <1>4, <2>1, <2>2, <2>3, <2>4 DEF CountsMarks, OneNode, Phase
  <2>6. NotSeenYet'
    BY <2>2 DEF NotSeenYet
  <2>. QED  BY <1>3, <2>5, <2>6
<1>. QED
  BY <1>5, <1>6, <1>7, <1>8, <1>9
  DEF Steps, Next, BasicNext, BasicEcho, BasicReady, RecvEcho, RecvReady, Start, StartFinish, StartFails,
      Exit, RecvEarly, ReadyResume, ReadyFails, nodeVars, vars

\* A phase of a message is broadcast at most once by a node: each counter is the
\* number of messages marked for it (bracha.py:110-117, 157-182).
THEOREM PhasesAreCountedOnce == Spec => []OncePerPhase
<1>1. Init => NotSeenYet /\ OncePerPhase
  BY FS_EmptySet DEF Init, NotSeenYet, OncePerPhase, Phase
<1>2. IInv /\ NotSeenYet /\ OncePerPhase /\ [Next]_vars => NotSeenYet' /\ OncePerPhase'
  BY PhaseStep DEF Steps
<1>. QED  BY <1>1, <1>2, Invariance, PTL DEF Spec

-----------------------------------------------------------------------------
(***************************************************************************)
(* bracha_basic.py: the same invariant, although a node of it counts its   *)
(* own ECHO no more than its own READY.                                    *)
(***************************************************************************)
LEMMA BasicInvariance == BasicSpec => [](IInv /\ NotSeenYet /\ OncePerPhase)
<1>1. BasicInit => IInv /\ NotSeenYet /\ OncePerPhase
  BY InitIInv, FS_EmptySet DEF BasicInit, Init, NotSeenYet, OncePerPhase, Phase
<1>2. [BasicNext]_vars => [Steps]_vars
  BY DEF Steps
<1>3. /\ IInv /\ NotSeenYet /\ OncePerPhase /\ [Steps]_vars
      => IInv' /\ NotSeenYet' /\ OncePerPhase'
  BY Step, PhaseStep
<1>. QED  BY <1>1, <1>2, <1>3, PTL DEF BasicSpec

\* Without the Dolev child and without counting its own ECHO, too, a node is
\* ready only behind a quorum, and delivers only behind 2f + 1 READYs of others
\* (bracha_basic.py:74-101).
THEOREM BasicKeepsQuorum == BasicSpec => []ReadyBackedByEchoes
BY BasicInvariance, PTL DEF IInv

THEOREM BasicBacksDelivery == BasicSpec => []DeliveryBackedByReadies
BY BasicInvariance, DeliveredAreBacked, PTL

\* It broadcasts no phase of a message twice (bracha_basic.py:56-60, 74-97).
THEOREM BasicCountsPhasesOnce == BasicSpec => []OncePerPhase
BY BasicInvariance, PTL

\* It implements the abstract broadcast (bracha_basic.py:56-101).
THEOREM BasicRefinement == BasicSpec => ImplementsBroadcast
<1>1. IInv /\ DeliveredSent' /\ [BasicNext]_vars => [RB!Next]_(RB!vars)
  BY RefinesStep DEF Steps
<1>. QED
  BY <1>1, RefinesInit, BasicInvariance, DeliveredWereSent, PTL
  DEF BasicSpec, BasicInit, ImplementsBroadcast, RB!Spec

-----------------------------------------------------------------------------
(***************************************************************************)
(* Totality.  Once nothing more can arrive every listener has delivered    *)
(* every message, if no message arrives before on_start, processes stay,   *)
(* and the listeners are enough for both thresholds: those of a node's own *)
(* ECHO and the others', and those of the READYs of the others alone.      *)
(***************************************************************************)
EnoughListeners ==
  /\ Cardinality(Node \ Silent) >= ReadyThreshold
  /\ Cardinality(Node \ Silent) > DeliverThreshold

\* A message is seen when its ECHO is broadcast and counted by the node itself.
EchoSeen ==
  \A m \in Sender, n \in Node :
    /\ n \in Broadcasters("echo", m) => m \in seen[n]
    /\ m \in seen[n] => n \in Broadcasters("echo", m) /\ n \in echos[n][m]

StartHasEchoed ==
  \A n \in Sender : onStart[n] \in {"echoing", "done"} =>
    n \in Broadcasters("send", n) /\ n \in seen[n]

ReadyBroadcast ==
  \A n \in Node : \A m \in sentReady[n] : n \in Broadcasters("ready", m)

Amplified ==
  \A n \in Node, m \in Sender :
    m \in sentReady[n] \/ ~(Cardinality(readys[n][m]) >= F + 1)

Settled ==
  \A n \in Node, m \in Sender :
    m \in delivered[n] \/ m \in resuming[n] \/ ~EnoughReadies(readys[n][m])

\* The ECHOs of a message were compared to the threshold after the last one.
Checked(n, m) == m \in sentReady[n] \/ ~EnoughEchoes(echos[n][m])

\* A node does not compare after its own ECHO.  But of two nodes that count each
\* other's, one has counted the other's after its own.
OneUnchecked ==
  \A m \in Sender, k, n \in Node :
    k # n /\ k \in echos[n][m] /\ n \in echos[k][m] => Checked(k, m) \/ Checked(n, m)

Prompt ==
  /\ exited = {}
  /\ EchoSeen
  /\ StartHasEchoed
  /\ ReceivedIsHandled
  /\ ReadyBroadcast
  /\ Amplified
  /\ Settled
  /\ OneUnchecked

\* Nothing that is marked, counted or broadcast is taken back.
LEMMA Growth ==
  ASSUME IInv, [Next]_vars
  PROVE  /\ dolev \subseteq dolev'
         /\ \A n \in Node : /\ seen[n] \subseteq seen'[n]
                            /\ sentReady[n] \subseteq sentReady'[n]
                            /\ delivered[n] \subseteq delivered'[n]
         /\ \A n \in Node, m \in Sender : /\ echos[n][m] \subseteq echos'[n][m]
                                          /\ readys[n][m] \subseteq readys'[n][m]
<1>1. /\ seen \in Marks /\ sentReady \in Marks /\ delivered \in Marks
      /\ echos \in Tables /\ dolev \subseteq DMsg
      /\ \A d \in dolev : d.msg \in Sender /\ d.src \in Node
  BY DEF IInv, TypeOK, Marks, Tables, DMsg
<1>2. ASSUME NEW sets \in Marks, NEW n \in Node, NEW m \in Sender
      PROVE  \A k \in Node : sets[k] \subseteq Marked(sets, n, m)[k]
  BY Marking
<1>3. ASSUME NEW n \in Node, NEW m \in Sender, NEW k \in Node
      PROVE  \A i \in Node, j \in Sender :
               echos[i][j] \subseteq Counted(echos, n, m, k)[i][j]
  <2>. SUFFICES ASSUME NEW i \in Node, NEW j \in Sender
                PROVE  echos[i][j] \subseteq Counted(echos, n, m, k)[i][j]
    OBVIOUS
  <2>1. CASE i = n /\ j = m
    BY <1>1, <2>1, Counting
  <2>2. CASE i # n \/ j # m
    <3>. DEFINE table == Counted(echos, n, m, k)
    <3>1. \A a \in Node, b \in Sender : a # n \/ b # m => table[a][b] = echos[a][b]
      BY <1>1, Counting
    <3>. HIDE DEF table
    <3>2. table[i][j] = echos[i][j]
      BY <2>2, <3>1
    <3>. QED  BY <3>2 DEF table
  <2>. QED  BY <2>1, <2>2
<1>4. \/ UNCHANGED <<seen, echos, sentReady>>
      \/ \E n \in Node, m \in Sender, k \in Node :
           /\ seen' \in {seen, Marked(seen, n, m)}
           /\ echos' \in {echos, Counted(echos, n, m, k)}
           /\ sentReady' \in {sentReady, Marked(sentReady, n, m)}
  <2>1. ASSUME NEW n \in Node, NEW d \in dolev, RecvSend(n, d)
        PROVE  /\ seen' \in {seen, Marked(seen, n, d.msg)}
               /\ echos' \in {echos, Counted(echos, n, d.msg, n)}
               /\ sentReady' = sentReady
    BY <2>1 DEF RecvSend, Marked, Counted
  <2>2. ASSUME NEW n \in Node, NEW d \in dolev, RecvEcho(n, d)
        PROVE  /\ echos' = Counted(echos, n, d.msg, d.src) /\ seen' = seen
               /\ sentReady' \in {sentReady, Marked(sentReady, n, d.msg)}
    BY <2>2 DEF RecvEcho, EchoHandler, Marked, Counted
  <2>3. ASSUME NEW n \in Node, NEW d \in dolev, RecvReady(n, d)
        PROVE  /\ sentReady' \in {sentReady, Marked(sentReady, n, d.msg)}
               /\ seen' = seen /\ echos' = echos
    BY <2>3 DEF RecvReady, ReadyHandler, Marked
  <2>4. ASSUME NEW n \in Node, StartEcho(n)
        PROVE  /\ n \in Sender /\ seen' = Marked(seen, n, n)
               /\ echos' = Counted(echos, n, n, n) /\ sentReady' = sentReady
    BY <2>4 DEF StartEcho, IInv, OnlySenders, Marked, Counted
  <2>. QED
    BY <1>1, <2>1, <2>2, <2>3, <2>4 DEF Next, Start, StartSend, StartFinish, StartFails,
      Exit, RecvEarly, ReadyResume, ReadyFails, nodeVars, vars
<1>5. /\ \A n \in Node : seen[n] \subseteq seen'[n] /\ sentReady[n] \subseteq sentReady'[n]
      /\ \A n \in Node, m \in Sender : echos[n][m] \subseteq echos'[n][m]
  BY <1>1, <1>2, <1>3, <1>4
<1>6. [Steps]_vars
  BY DEF Steps
<1>7. \A n \in Node : delivered[n] \subseteq delivered'[n]
  BY <1>1, <1>2, <1>6, NewDeliveries
<1>. QED  BY <1>5, <1>6, <1>7, NewBroadcasts, NewCounts

\* Which steps are left when processes stay and nothing arrives early.
LEMMA CalmSteps ==
  ASSUME Synchronised, ~ProcessExit, IInv, exited = {}, [Next]_vars
  PROVE  /\ exited' = {}
         /\ \/ \E n \in Node : Start(n) \/ StartSend(n) \/ StartFinish(n)
            \/ \E n \in Sender : StartEcho(n)
            \/ \E n \in Node, d \in dolev :
                 /\ d \in DMsg /\ d.msg \in Sender /\ d.src \in Node /\ d.src # n
                 /\ RecvSend(n, d) \/ RecvEcho(n, d) \/ RecvReady(n, d)
            \/ \E n \in Node, m \in Sender : ReadyResume(n, m)
            \/ UNCHANGED vars
<1>1. ASSUME NEW n \in Node, NEW d \in dolev,
             RecvSend(n, d) \/ RecvEcho(n, d) \/ RecvReady(n, d)
      PROVE  d \in DMsg /\ d.msg \in Sender /\ d.src \in Node /\ d.src # n
  BY <1>1 DEF RecvSend, RecvEcho, EchoHandler, RecvReady, ReadyHandler, Takes, Receives, IInv, TypeOK, DMsg
<1>2. \A n \in Node : ~StartFails(n) /\ ~Exit(n)
  BY DEF StartFails, Exit
<1>3. \A n \in Node, m \in Sender : ~ReadyFails(n, m)
  BY DEF ReadyFails
<1>4. \A n \in Node, d \in dolev : ~RecvEarly(n, d)
  BY DEF RecvEarly
<1>5. \A n \in Node : StartEcho(n) => n \in Sender
  BY DEF StartEcho, IInv, OnlySenders
<1>6. \/ \E n \in Node : Start(n) \/ StartSend(n) \/ StartFinish(n)
      \/ \E n \in Sender : StartEcho(n)
      \/ \E n \in Node, d \in dolev :
           /\ d \in DMsg /\ d.msg \in Sender /\ d.src \in Node /\ d.src # n
           /\ RecvSend(n, d) \/ RecvEcho(n, d) \/ RecvReady(n, d)
      \/ \E n \in Node, m \in Sender : ReadyResume(n, m)
      \/ UNCHANGED vars
  BY <1>1, <1>2, <1>3, <1>4, <1>5 DEF Next
<1>7. exited' = exited
  <2>1. ASSUME NEW n \in Node, Start(n) \/ StartSend(n) \/ StartFinish(n) \/ StartEcho(n)
        PROVE  exited' = exited
    BY <2>1 DEF Start, StartSend, StartFinish, StartEcho
  <2>2. ASSUME NEW n, NEW d, RecvSend(n, d) \/ RecvEcho(n, d) \/ RecvReady(n, d)
        PROVE  exited' = exited
    BY <2>2 DEF RecvSend, RecvEcho, EchoHandler, RecvReady, ReadyHandler, Takes
  <2>3. ASSUME NEW n, NEW m, ReadyResume(n, m) PROVE exited' = exited
    BY <2>3 DEF ReadyResume
  <2>4. UNCHANGED vars => exited' = exited
    BY DEF vars
  <2>. QED  BY <1>6, <2>1, <2>2, <2>3, <2>4, BrachaAssumption
<1>. QED  BY <1>6, <1>7

\* A node marks a message seen, counts its own ECHO and broadcasts it.
FreshEcho(n, m) ==
  /\ m \notin seen[n]
  /\ seen' = Marked(seen, n, m)
  /\ echos' = Counted(echos, n, m, n)
  /\ Broadcast(n, "echo", m)
  /\ sentReady' = sentReady

LEMMA OwnEchoes ==
  ASSUME Synchronised, ~ProcessExit, IInv, NotSeenYet, exited = {}, [Next]_vars
  PROVE  \/ /\ seen' = seen
            /\ \A m \in Sender : Broadcasters("echo", m)' = Broadcasters("echo", m)
            /\ echos' = echos \/ \E n \in Node, d \in dolev : RecvEcho(n, d)
         \/ \E n \in Node, m \in Sender : FreshEcho(n, m)
<1>1. ASSUME NEW n \in Node, NEW p \in {"send", "ready"}, NEW m, Broadcast(n, p, m)
      PROVE  \A k \in Sender : Broadcasters("echo", k)' = Broadcasters("echo", k)
  <2>1. dolev' = dolev \cup {[phase |-> p, msg |-> m, src |-> n]}
    BY <1>1 DEF Broadcast
  <2>2. \A k \in Sender, i \in Node :
          [phase |-> "echo", msg |-> k, src |-> i] \in dolev'
            <=> [phase |-> "echo", msg |-> k, src |-> i] \in dolev
    BY <2>1
  <2>. QED  BY <2>2 DEF Broadcasters
<1>2. CASE UNCHANGED <<seen, dolev, echos>>
  BY <1>2 DEF Broadcasters
<1>3. ASSUME NEW n \in Sender, StartEcho(n) PROVE n \in Node /\ FreshEcho(n, n)
  BY <1>3, BrachaAssumption DEF StartEcho, FreshEcho, NotSeenYet, Marked, Counted
<1>4. ASSUME NEW n \in Node, NEW d \in dolev, d.msg \in Sender, RecvSend(n, d)
      PROVE  FreshEcho(n, d.msg) \/ UNCHANGED <<seen, dolev, echos>>
  BY <1>4 DEF RecvSend, FreshEcho, Marked, Counted, NoBroadcast
<1>5. ASSUME NEW n \in Node, NEW d \in dolev, RecvEcho(n, d) \/ RecvReady(n, d)
      PROVE  /\ seen' = seen
             /\ \A m \in Sender : Broadcasters("echo", m)' = Broadcasters("echo", m)
             /\ echos' = echos \/ RecvEcho(n, d)
  <2>1. UNCHANGED dolev \/ Broadcast(n, "ready", d.msg)
    BY <1>5 DEF RecvEcho, EchoHandler, RecvReady, ReadyHandler, NoBroadcast
  <2>2. seen' = seen /\ (echos' = echos \/ RecvEcho(n, d))
    BY <1>5 DEF RecvEcho, EchoHandler, RecvReady, ReadyHandler
  <2>. QED  BY <1>1, <2>1, <2>2 DEF Broadcasters
<1>6. ASSUME NEW n \in Node, StartSend(n)
      PROVE  /\ seen' = seen /\ echos' = echos
             /\ \A m \in Sender : Broadcasters("echo", m)' = Broadcasters("echo", m)
  <2>1. Broadcast(n, "send", n) /\ seen' = seen /\ echos' = echos
    BY <1>6 DEF StartSend, nodeVars
  <2>. QED  BY <1>1, <2>1
<1>7. ASSUME NEW n \in Node, Start(n) \/ StartFinish(n)
      PROVE  UNCHANGED <<seen, dolev, echos>>
  BY <1>7 DEF Start, StartFinish, NoBroadcast, nodeVars
<1>8. ASSUME NEW n \in Node, NEW m \in Sender, ReadyResume(n, m)
      PROVE  UNCHANGED <<seen, dolev, echos>>
  BY <1>8 DEF ReadyResume, NoBroadcast, nodeVars
<1>9. CASE UNCHANGED vars
  BY <1>2, <1>9 DEF vars, nodeVars
<1>. QED
  BY <1>2, <1>3, <1>4, <1>5, <1>6, <1>7, <1>8, <1>9, CalmSteps

LEMMA EchoSeenStep ==
  ASSUME Synchronised, ~ProcessExit, IInv, NotSeenYet, Prompt, [Next]_vars
  PROVE  EchoSeen'
<1>1. exited = {} /\ EchoSeen
  BY DEF Prompt
<1>2. CASE /\ seen' = seen
           /\ \A m \in Sender : Broadcasters("echo", m)' = Broadcasters("echo", m)
  BY <1>1, <1>2, Growth DEF EchoSeen
<1>3. ASSUME NEW n \in Node, NEW m \in Sender, FreshEcho(n, m) PROVE EchoSeen'
  <2>1. seen \in Marks /\ echos \in Tables
    BY DEF IInv, TypeOK, Marks, Tables
  <2>2. /\ seen'[n] = seen[n] \cup {m}
        /\ \A k \in Node : k # n => seen'[k] = seen[k]
    BY <1>3, <2>1, Marking DEF FreshEcho
  <2>3. n \in echos'[n][m]
    <3>1. Counted(echos, n, m, n)[n][m] = echos[n][m] \cup {n}
      BY <2>1, Counting
    <3>. QED  BY <1>3, <3>1 DEF FreshEcho
  <2>4. dolev' = dolev \cup {[phase |-> "echo", msg |-> m, src |-> n]}
    BY <1>3 DEF FreshEcho, Broadcast
  <2>5. \A j \in Sender, k \in Node : k \in Broadcasters("echo", j)' <=>
          k \in Broadcasters("echo", j) \/ (k = n /\ j = m)
    BY <2>4 DEF Broadcasters
  <2>6. \A k \in Node, j \in Sender : j \in seen'[k] <=> j \in seen[k] \/ (k = n /\ j = m)
    BY <2>2
  <2>. QED  BY <1>1, <2>3, <2>5, <2>6, Growth DEF EchoSeen
<1>. QED  BY <1>1, <1>2, <1>3, OwnEchoes

LEMMA StartedStep ==
  ASSUME Synchronised, ~ProcessExit, IInv, Prompt, [Next]_vars
  PROVE  StartHasEchoed'
<1>1. exited = {} /\ StartHasEchoed
  BY DEF Prompt
<1>2. /\ onStart \in [Node -> {"idle", "sending", "echoing", "done", "failed"}]
      /\ Sender \subseteq Node
  BY BrachaAssumption DEF IInv, TypeOK
<1>3. ASSUME NEW n \in Sender, onStart[n] \in {"echoing", "done"}
      PROVE  n \in Broadcasters("send", n)' /\ n \in seen'[n]
  BY <1>1, <1>2, <1>3, Growth DEF StartHasEchoed, Broadcasters
<1>4. ASSUME NEW n \in Sender, StartEcho(n)
      PROVE  n \in Broadcasters("send", n)' /\ n \in seen'[n]
  <2>1. n \in Broadcasters("send", n)
    BY <1>2, <1>4 DEF IInv, StartHasSent, StartEcho
  <2>2. n \in seen'[n]
    BY <1>2, <1>4 DEF StartEcho, IInv, TypeOK
  <2>. QED  BY <2>1, <2>2, Growth DEF Broadcasters
<1>5. ASSUME NEW n \in Sender, onStart'[n] \in {"echoing", "done"},
             onStart[n] \notin {"echoing", "done"}
      PROVE  StartEcho(n)
  <2>1. \/ UNCHANGED onStart
        \/ \E k \in Node \ Sender : onStart' = [onStart EXCEPT ![k] = "done"]
        \/ \E k \in Node : onStart' = [onStart EXCEPT ![k] = "sending"]
        \/ \E k \in Node : onStart[k] = "echoing" /\ onStart' = [onStart EXCEPT ![k] = "done"]
        \/ \E k \in Sender : StartEcho(k)
    <3>1. ASSUME NEW k \in Node, Start(k)
          PROVE  k \notin Sender /\ onStart' = [onStart EXCEPT ![k] = "done"]
      BY <3>1 DEF Start
    <3>2. ASSUME NEW k \in Node, StartSend(k)
          PROVE  onStart' = [onStart EXCEPT ![k] = "sending"]
      BY <3>2 DEF StartSend
    <3>3. ASSUME NEW k \in Node, StartFinish(k)
          PROVE  onStart[k] = "echoing" /\ onStart' = [onStart EXCEPT ![k] = "done"]
      BY <3>3 DEF StartFinish
    <3>4. ASSUME NEW k, NEW d, RecvSend(k, d) \/ RecvEcho(k, d) \/ RecvReady(k, d)
          PROVE  UNCHANGED onStart
      BY <3>4 DEF RecvSend, RecvEcho, EchoHandler, RecvReady, ReadyHandler, Takes
    <3>5. ASSUME NEW k, NEW m, ReadyResume(k, m) PROVE UNCHANGED onStart
      BY <3>5 DEF ReadyResume
    <3>6. UNCHANGED vars => UNCHANGED onStart
      BY DEF vars
    <3>. QED  BY <1>1, <3>1, <3>2, <3>3, <3>4, <3>5, <3>6, CalmSteps
  <2>2. PICK k \in Sender : StartEcho(k)
    BY <1>2, <1>5, <2>1
  <2>3. onStart' = [onStart EXCEPT ![k] = "echoing"]
    BY <2>2 DEF StartEcho
  <2>4. k = n
    BY <1>2, <1>5, <2>3
  <2>. QED  BY <2>2, <2>4
<1>. QED  BY <1>3, <1>4, <1>5 DEF StartHasEchoed

\* What arrives is marked or counted.
LEMMA HandledStep ==
  ASSUME Synchronised, ~ProcessExit, IInv, NotSeenYet, Prompt, [Next]_vars
  PROVE  ReceivedIsHandled'
<1>1. /\ exited = {} /\ ReceivedIsHandled
      /\ got \in [Node -> SUBSET DMsg] /\ echos \in Tables /\ readys \in Tables
      /\ seen \in Marks
  BY DEF Prompt, IInv, TypeOK, Tables, Marks
<1>. DEFINE Handled(n, d) ==
              /\ d.phase = "send" => d.msg \in seen'[n]
              /\ d.phase = "echo" => d.src \in echos'[n][d.msg]
              /\ d.phase = "ready" => d.src \in readys'[n][d.msg]
<1>2. ASSUME NEW n \in Node, NEW d \in got[n] PROVE Handled(n, d)
  <2>1. d.msg \in Sender
    BY <1>1 DEF DMsg
  <2>. QED  BY <1>1, <2>1, Growth DEF ReceivedIsHandled
<1>3. ASSUME NEW n \in Node, NEW d \in DMsg, d.msg \in Sender, d.src \in Node,
             RecvSend(n, d) \/ RecvEcho(n, d) \/ RecvReady(n, d)
      PROVE  got' = [got EXCEPT ![n] = @ \cup {d}] /\ Handled(n, d)
  <2>1. got' = [got EXCEPT ![n] = @ \cup {d}]
    BY <1>3 DEF RecvSend, RecvEcho, EchoHandler, RecvReady, ReadyHandler, Takes, Receives
  <2>2. CASE RecvSend(n, d)
    <3>1. d.phase = "send" /\ (d.msg \notin seen[n] => seen' = Marked(seen, n, d.msg))
      BY <2>2 DEF RecvSend, Takes, Marked
    <3>2. d.msg \in seen'[n]
      <4>1. CASE d.msg \in seen[n]
        BY <4>1, Growth
      <4>2. CASE d.msg \notin seen[n]
        BY <1>1, <1>3, <3>1, <4>2, Marking
      <4>. QED  BY <4>1, <4>2
    <3>. QED  BY <2>1, <3>1, <3>2
  <2>3. CASE RecvEcho(n, d)
    <3>1. d.phase = "echo" /\ echos' = Counted(echos, n, d.msg, d.src)
      BY <2>3 DEF RecvEcho, EchoHandler, Takes, Counted
    <3>. QED  BY <1>1, <1>3, <2>1, <3>1, Counting
  <2>4. CASE RecvReady(n, d)
    <3>1. d.phase = "ready" /\ readys' = Counted(readys, n, d.msg, d.src)
      BY <2>4 DEF RecvReady, ReadyHandler, Takes, Counted
    <3>. QED  BY <1>1, <1>3, <2>1, <3>1, Counting
  <2>. QED  BY <1>3, <2>2, <2>3, <2>4
<1>4. CASE got' = got
  BY <1>2, <1>4 DEF ReceivedIsHandled
<1>5. ASSUME NEW n \in Node, NEW d \in DMsg, got' = [got EXCEPT ![n] = @ \cup {d}],
             Handled(n, d)
      PROVE  ReceivedIsHandled'
  <2>1. \A k \in Node : \A e \in got'[k] : e \in got[k] \/ (k = n /\ e = d)
    BY <1>1, <1>5
  <2>2. \A k \in Node : \A e \in got'[k] : Handled(k, e)
    BY <1>2, <1>5, <2>1
  <2>. QED  BY <2>2 DEF ReceivedIsHandled
<1>6. \/ got' = got
      \/ \E n \in Node, d \in DMsg : /\ got' = [got EXCEPT ![n] = @ \cup {d}]
                                     /\ Handled(n, d)
  <2>1. ASSUME NEW n, Start(n) \/ StartSend(n) \/ StartFinish(n) \/ StartEcho(n)
        PROVE  got' = got
    BY <2>1 DEF Start, StartSend, StartFinish, StartEcho
  <2>2. ASSUME NEW n, NEW m, ReadyResume(n, m) PROVE got' = got
    BY <2>2 DEF ReadyResume
  <2>3. UNCHANGED vars => got' = got
    BY DEF vars
  <2>. QED  BY <1>1, <1>3, <2>1, <2>2, <2>3, CalmSteps
<1>. QED  BY <1>4, <1>5, <1>6

LEMMA CountedTable ==
  ASSUME NEW table \in Tables, NEW n \in Node, NEW m \in Sender, NEW k \in Node,
         NEW result, result = Counted(table, n, m, k)
  PROVE  /\ result[n][m] = table[n][m] \cup {k}
         /\ \A a \in Node, b \in Sender : a # n \/ b # m => result[a][b] = table[a][b]
BY DEF Counted, Tables

\* READYs are compared to both thresholds whenever one is counted, or when the
\* handler that broadcasts one is resumed.
LEMMA ReadyStep ==
  ASSUME Synchronised, ~ProcessExit, IInv, IInv', Prompt, [Next]_vars
  PROVE  ReadyBroadcast' /\ Amplified' /\ Settled'
<1>1. /\ exited = {} /\ ReadyBroadcast /\ Amplified /\ Settled
      /\ readys \in Tables /\ sentReady \in Marks /\ resuming \in Marks
      /\ delivered \in Marks
  BY DEF Prompt, IInv, TypeOK, Tables, Marks
<1>. DEFINE Ready(n, m) == /\ m \in sentReady'[n] => n \in Broadcasters("ready", m)'
                           /\ \/ m \in sentReady'[n]
                              \/ ~(Cardinality(readys'[n][m]) >= F + 1)
                           /\ \/ m \in delivered'[n] \/ m \in resuming'[n]
                              \/ ~EnoughReadies(readys'[n][m])
<1>2. (\A n \in Node, m \in Sender : Ready(n, m)) => ReadyBroadcast' /\ Amplified' /\ Settled'
  BY DEF IInv, TypeOK, ReadyBroadcast, Amplified, Settled
<1>3. ASSUME NEW n \in Node, NEW m \in Sender, readys'[n][m] = readys[n][m],
             m \in sentReady'[n] => m \in sentReady[n],
             m \in resuming[n] => m \in resuming'[n] \cup delivered'[n]
      PROVE  Ready(n, m)
  BY <1>1, <1>3, Growth DEF ReadyBroadcast, Amplified, Settled, Broadcasters
<1>4. CASE UNCHANGED <<readys, sentReady, resuming>>
  BY <1>2, <1>3, <1>4
<1>5. ASSUME NEW n \in Node, NEW d \in dolev, d.msg \in Sender, RecvEcho(n, d)
      PROVE  \A k \in Node, m \in Sender : Ready(k, m)
  <2>. SUFFICES ASSUME NEW k \in Node, NEW m \in Sender PROVE Ready(k, m)
    OBVIOUS
  <2>1. readys' = readys /\ resuming' = resuming
    BY <1>5 DEF RecvEcho, EchoHandler
  <2>2. CASE sentReady' = sentReady
    BY <1>3, <2>1, <2>2
  <2>3. CASE sentReady' # sentReady
    <3>1. sentReady' = Marked(sentReady, n, d.msg) /\ Broadcast(n, "ready", d.msg)
      BY <1>5, <2>3 DEF RecvEcho, EchoHandler, Marked
    <3>2. n \in Broadcasters("ready", d.msg)'
      BY <3>1 DEF Broadcast, Broadcasters
    <3>3. CASE k = n /\ m = d.msg
      BY <1>1, <1>5, <2>1, <3>1, <3>2, <3>3, Growth, Marking DEF Settled
    <3>4. CASE k # n \/ m # d.msg
      <4>1. m \in sentReady'[k] => m \in sentReady[k]
        BY <1>1, <1>5, <3>1, <3>4, Marking
      <4>. QED  BY <1>3, <2>1, <4>1
    <3>. QED  BY <3>3, <3>4
  <2>. QED  BY <2>2, <2>3
<1>6. ASSUME NEW n \in Node, NEW m \in Sender, NEW S, DeliverCheck(n, m, S),
             EnoughReadies(S)
      PROVE  m \in delivered'[n]
  BY <1>1, <1>6, Marking DEF DeliverCheck, Delivers, deliveryVars, Marked
<1>7. ASSUME NEW n \in Node, NEW d \in dolev, d.msg \in Sender, d.src \in Node,
             RecvReady(n, d)
      PROVE  \A k \in Node, m \in Sender : Ready(k, m)
  <2>. DEFINE R == readys[n][d.msg] \cup {d.src}
  <2>. SUFFICES ASSUME NEW k \in Node, NEW m \in Sender PROVE Ready(k, m)
    OBVIOUS
  <2>1. /\ readys' = Counted(readys, n, d.msg, d.src)
        /\ \/ /\ Amplifies(n, d.msg, R)
              /\ sentReady' = Marked(sentReady, n, d.msg)
              /\ resuming' = Marked(resuming, n, d.msg)
              /\ Broadcast(n, "ready", d.msg)
           \/ /\ ~Amplifies(n, d.msg, R)
              /\ DeliverCheck(n, d.msg, R)
              /\ sentReady' = sentReady /\ resuming' = resuming
    BY <1>7 DEF RecvReady, ReadyHandler, Counted, Marked
  <2>2. /\ readys'[n][d.msg] = R
        /\ k # n \/ m # d.msg => readys'[k][m] = readys[k][m]
    BY <1>1, <1>7, <2>1, CountedTable
  <2>3. CASE k # n \/ m # d.msg
    <3>1. /\ sentReady' \in {sentReady, Marked(sentReady, n, d.msg)}
          /\ resuming' \in {resuming, Marked(resuming, n, d.msg)}
      BY <2>1
    <3>2. m \in sentReady'[k] => m \in sentReady[k]
      BY <1>1, <1>7, <2>3, <3>1, Marking
    <3>3. m \in resuming[k] => m \in resuming'[k]
      BY <1>1, <1>7, <2>3, <3>1, Marking
    <3>. QED  BY <1>3, <2>2, <2>3, <3>2, <3>3
  <2>4. CASE k = n /\ m = d.msg
    <3>1. CASE sentReady' = Marked(sentReady, n, d.msg)
               /\ resuming' = Marked(resuming, n, d.msg) /\ Broadcast(n, "ready", d.msg)
      <4>1. n \in Broadcasters("ready", d.msg)'
        BY <3>1 DEF Broadcast, Broadcasters
      <4>2. d.msg \in sentReady'[n] /\ d.msg \in resuming'[n]
        BY <1>1, <1>7, <3>1, Marking
      <4>. QED  BY <2>4, <4>1, <4>2
    <3>2. CASE /\ ~Amplifies(n, d.msg, R) /\ DeliverCheck(n, d.msg, R)
               /\ sentReady' = sentReady
      <4>1. d.msg \in sentReady'[n] \/ ~(Cardinality(R) >= F + 1)
        BY <3>2 DEF Amplifies
      <4>2. d.msg \in delivered'[n] \/ ~EnoughReadies(R)
        BY <1>6, <1>7, <3>2
      <4>3. d.msg \in sentReady'[n] => n \in Broadcasters("ready", d.msg)'
        BY <1>1, <3>2, Growth DEF ReadyBroadcast, Broadcasters
      <4>. QED  BY <2>2, <2>4, <4>1, <4>2, <4>3
    <3>. QED  BY <2>1, <3>1, <3>2
  <2>. QED  BY <2>3, <2>4
<1>8. ASSUME NEW n \in Node, NEW m \in Sender, ReadyResume(n, m)
      PROVE  \A k \in Node, j \in Sender : Ready(k, j)
  <2>. SUFFICES ASSUME NEW k \in Node, NEW j \in Sender PROVE Ready(k, j)
    OBVIOUS
  <2>1. /\ readys' = readys /\ sentReady' = sentReady
        /\ DeliverCheck(n, m, readys[n][m])
        /\ resuming' = [resuming EXCEPT ![n] = @ \ {m}]
    BY <1>8 DEF ReadyResume, nodeVars
  <2>2. CASE k # n \/ j # m
    <3>1. j \in resuming[k] => j \in resuming'[k]
      BY <1>1, <2>1, <2>2 DEF Marks
    <3>. QED  BY <1>3, <2>1, <3>1
  <2>3. CASE k = n /\ j = m
    <3>1. m \in delivered'[n] \/ ~EnoughReadies(readys[n][m])
      BY <1>6, <2>1
    <3>. QED
      BY <1>1, <2>1, <2>3, <3>1, Growth DEF ReadyBroadcast, Amplified, Broadcasters
  <2>. QED  BY <2>2, <2>3
<1>9. \/ UNCHANGED <<readys, sentReady, resuming>>
      \/ \E n \in Node, d \in dolev :
           d.msg \in Sender /\ d.src \in Node /\ (RecvEcho(n, d) \/ RecvReady(n, d))
      \/ \E n \in Node, m \in Sender : ReadyResume(n, m)
  <2>1. ASSUME NEW n, Start(n) \/ StartSend(n) \/ StartFinish(n) \/ StartEcho(n)
        PROVE  UNCHANGED <<readys, sentReady, resuming>>
    BY <2>1 DEF Start, StartSend, StartFinish, StartEcho, nodeVars
  <2>2. ASSUME NEW n, NEW d, RecvSend(n, d)
        PROVE  UNCHANGED <<readys, sentReady, resuming>>
    BY <2>2 DEF RecvSend
  <2>3. UNCHANGED vars => UNCHANGED <<readys, sentReady, resuming>>
    BY DEF vars, nodeVars
  <2>. QED  BY <1>1, <2>1, <2>2, <2>3, CalmSteps
<1>. QED  BY <1>2, <1>4, <1>5, <1>7, <1>8, <1>9

\* Of two nodes that count each other's ECHO, the one that counted last had
\* broadcast its own before.
LEMMA UncheckedStep ==
  ASSUME Synchronised, ~ProcessExit, IInv, NotSeenYet, Prompt, [Next]_vars
  PROVE  OneUnchecked'
<1>1. /\ exited = {} /\ OneUnchecked /\ EchoSeen
      /\ echos \in Tables /\ sentReady \in Marks
  BY DEF Prompt, IInv, TypeOK, Tables, Marks
<1>2. \A n \in Node, m \in Sender : echos'[n][m] = echos[n][m] =>
        (Checked(n, m) => Checked(n, m)')
  BY Growth DEF Checked
<1>3. CASE echos' = echos
  BY <1>1, <1>2, <1>3 DEF OneUnchecked
<1>4. ASSUME NEW n \in Node, NEW m \in Sender, NEW k \in Node,
             echos' = Counted(echos, n, m, k)
      PROVE  /\ echos'[n][m] = echos[n][m] \cup {k}
             /\ \A a \in Node, b \in Sender : a # n \/ b # m => echos'[a][b] = echos[a][b]
  BY <1>1, <1>4, CountedTable
\* Nobody can have counted an ECHO that is only just broadcast.
<1>5. ASSUME NEW n \in Node, NEW m \in Sender, FreshEcho(n, m) PROVE OneUnchecked'
  <2>1. echos' = Counted(echos, n, m, n)
    BY <1>5 DEF FreshEcho
  <2>2. \A k \in Node : n \notin echos[k][m]
    <3>1. n \notin Broadcasters("echo", m)
      BY <1>1, <1>5 DEF EchoSeen, FreshEcho
    <3>. QED  BY <3>1 DEF IInv, CountedWereBroadcast
  <2>3. \A k \in Node : k # n => n \notin echos'[k][m]
    BY <1>4, <2>1, <2>2
  <2>. SUFFICES ASSUME NEW j \in Sender, NEW a \in Node, NEW b \in Node, a # b,
                       a \in echos'[b][j], b \in echos'[a][j]
                PROVE  Checked(a, j)' \/ Checked(b, j)'
    BY DEF OneUnchecked
  <2>4. j # m \/ (a # n /\ b # n)
    BY <2>3
  <2>5. echos'[a][j] = echos[a][j] /\ echos'[b][j] = echos[b][j]
    BY <1>4, <2>1, <2>4
  <2>. QED  BY <1>1, <1>2, <2>5 DEF OneUnchecked
<1>6. ASSUME NEW n \in Node, NEW d \in dolev, d.msg \in Sender, d.src \in Node,
             RecvEcho(n, d)
      PROVE  OneUnchecked'
  <2>. DEFINE m == d.msg
  <2>1. /\ echos' = Counted(echos, n, m, d.src)
        /\ \/ sentReady' = Marked(sentReady, n, m)
           \/ sentReady' = sentReady /\ (m \in sentReady[n]
                                           \/ ~EnoughEchoes(echos[n][m] \cup {d.src}))
    BY <1>6 DEF RecvEcho, EchoHandler, Counted, Marked
  <2>2. m \in sentReady'[n] \/ ~EnoughEchoes(echos[n][m] \cup {d.src})
    BY <1>1, <1>6, <2>1, Marking
  <2>3. Checked(n, m)'
    BY <1>4, <1>6, <2>1, <2>2 DEF Checked
  <2>. SUFFICES ASSUME NEW j \in Sender, NEW a \in Node, NEW b \in Node, a # b,
                       a \in echos'[b][j], b \in echos'[a][j],
                       ~(j = m /\ (a = n \/ b = n))
                PROVE  Checked(a, j)' \/ Checked(b, j)'
    BY <2>3 DEF OneUnchecked
  <2>4. echos'[a][j] = echos[a][j] /\ echos'[b][j] = echos[b][j]
    BY <1>4, <1>6, <2>1
  <2>. QED  BY <1>1, <1>2, <2>4 DEF OneUnchecked
<1>7. \A d \in dolev : d.msg \in Sender /\ d.src \in Node
  BY DEF IInv, TypeOK, DMsg
<1>. QED  BY <1>1, <1>3, <1>5, <1>6, <1>7, OwnEchoes

LEMMA InitPrompt == Init /\ Synchronised => Prompt /\ NotSeenYet /\ OncePerPhase
<1>. SUFFICES ASSUME Init, Synchronised PROVE Prompt /\ NotSeenYet /\ OncePerPhase
  OBVIOUS
<1>. USE DEF Init, InitState
<1>1. /\ exited = {} /\ EchoSeen /\ ReceivedIsHandled /\ ReadyBroadcast
      /\ OneUnchecked
  BY DEF EchoSeen, ReceivedIsHandled, ReadyBroadcast, OneUnchecked, Broadcasters
<1>2. StartHasEchoed
  BY BrachaAssumption DEF StartHasEchoed
<1>3. Amplified /\ Settled
  BY Finite, FS_EmptySet, BrachaAssumption DEF Amplified, Settled, EnoughReadies
<1>4. NotSeenYet /\ OncePerPhase
  BY FS_EmptySet DEF NotSeenYet, OncePerPhase, Phase
<1>. QED  BY <1>1, <1>2, <1>3, <1>4 DEF Prompt

LEMMA PromptInvariance ==
  ASSUME Synchronised, ~ProcessExit PROVE Spec => [](IInv /\ Prompt)
<1>. DEFINE Inv == Prompt /\ NotSeenYet /\ OncePerPhase
<1>1. Init => Inv
  BY InitPrompt
<1>2. ASSUME IInv, IInv', Inv, [Next]_vars PROVE Inv'
  <2>1. exited' = {}
    BY <1>2, CalmSteps DEF Prompt
  <2>2. [Steps]_vars
    BY <1>2 DEF Steps
  <2>. QED
    BY <1>2, <2>1, <2>2, PhaseStep, EchoSeenStep, StartedStep, HandledStep, ReadyStep,
      UncheckedStep DEF Prompt
<1>. HIDE DEF Inv
<1>3. Inv => Prompt
  BY DEF Inv
<1>. QED  BY <1>1, <1>2, <1>3, Invariance, PTL DEF Spec

\* If on_start has begun everywhere before anything is sent, whatever reaches a
\* node is handled (bracha.py:97, 122-131): the loss of what comes early is due
\* to the missing synchronisation alone.
THEOREM HandledWhenSynchronised ==
  ASSUME Synchronised, ~ProcessExit PROVE Spec => []ReceivedIsHandled
BY PromptInvariance, PTL DEF Prompt

LEMMA SubsetSize ==
  ASSUME NEW S \in SUBSET Node, NEW T \in SUBSET S
  PROVE  /\ Cardinality(T) \in Nat /\ Cardinality(S) \in Nat
         /\ Cardinality(T) <= Cardinality(S)
BY Finite, FS_Subset, FS_CardinalityType

\* When nothing more can arrive, every listener has counted the ECHOs of all.
LEMMA DrainedEchoes ==
  ASSUME IInv, Prompt, Drained, NEW m \in Sender
  PROVE  \A n \in Node \ Silent : Node \ Silent \subseteq echos[n][m]
<1>1. m \in Broadcasters("send", m) /\ m \in seen[m] /\ m \in Node
  BY BrachaAssumption DEF Drained, Prompt, StartHasEchoed
<1>2. ASSUME NEW n \in Node \ Silent PROVE n \in Broadcasters("echo", m) /\ n \in echos[n][m]
  <2>1. m \in seen[n]
    <3>1. CASE n = m
      BY <1>1, <3>1
    <3>2. CASE n # m
      <4>. DEFINE d == [phase |-> "send", msg |-> m, src |-> m]
      <4>1. d \in dolev
        BY <1>1 DEF Broadcasters
      <4>2. d \in got[n] /\ d.phase = "send" /\ d.msg = m
        BY <3>2, <4>1 DEF Drained
      <4>. QED  BY <4>2 DEF Prompt, ReceivedIsHandled
    <3>. QED  BY <3>1, <3>2
  <2>. QED  BY <2>1 DEF Prompt, EchoSeen
<1>3. ASSUME NEW n \in Node \ Silent, NEW k \in Node \ Silent PROVE k \in echos[n][m]
  <2>1. CASE k = n
    BY <1>2, <2>1
  <2>2. CASE k # n
    <3>. DEFINE d == [phase |-> "echo", msg |-> m, src |-> k]
    <3>1. d \in dolev
      BY <1>2 DEF Broadcasters
    <3>2. d \in got[n] /\ d.phase = "echo" /\ d.msg = m /\ d.src = k
      BY <2>2, <3>1 DEF Drained
    <3>. QED  BY <3>2 DEF Prompt, ReceivedIsHandled
  <2>. QED  BY <2>1, <2>2
<1>. QED  BY <1>3

\* Whoever has recorded a READY is counted by all other listeners.
LEMMA DrainedReadies ==
  ASSUME Prompt, Drained, NEW m \in Sender, NEW n \in Node \ Silent,
         NEW S \in SUBSET (Node \ Silent), \A k \in S : m \in sentReady[k]
  PROVE  S \ {n} \subseteq readys[n][m]
<1>. SUFFICES ASSUME NEW k \in S \ {n} PROVE k \in readys[n][m]
  OBVIOUS
<1>. DEFINE d == [phase |-> "ready", msg |-> m, src |-> k]
<1>1. d \in dolev
  BY DEF Prompt, ReadyBroadcast, Broadcasters
<1>2. d \in got[n] /\ d.phase = "ready" /\ d.msg = m /\ d.src = k
  BY <1>1 DEF Drained
<1>. QED  BY <1>2 DEF Prompt, ReceivedIsHandled

LEMMA DrainedDelivers ==
  ASSUME IInv, Prompt, EnoughListeners, Drained
  PROVE  \A n \in Node \ Silent : delivered[n] = Sender
<1>. DEFINE L == Node \ Silent
<1>1. /\ IsFiniteSet(L) /\ Cardinality(L) \in Nat
      /\ \A n \in L : IsFiniteSet(L \ {n}) /\ Cardinality(L \ {n}) = Cardinality(L) - 1
  BY Finite, FS_Subset, FS_CardinalityType, FS_RemoveElement
<1>2. \A n \in L : Cardinality(L \ {n}) >= DeliverThreshold
                   /\ Cardinality(L \ {n}) >= F + 1
  <2>1. F \in Nat /\ Cardinality(L) > 2 * F + 1
    BY BrachaAssumption DEF EnoughListeners, DeliverThreshold
  <2>2. ASSUME NEW c \in Nat, c > 2 * F + 1 PROVE c - 1 >= 2 * F + 1 /\ c - 1 >= F + 1
    BY <2>1, <2>2
  <2>. QED  BY <1>1, <2>1, <2>2 DEF DeliverThreshold
<1>. SUFFICES ASSUME NEW m \in Sender PROVE \A n \in L : m \in delivered[n]
  BY ZenonT(40) DEF IInv, TypeOK
<1>3. \A n \in L : echos[n][m] \in SUBSET Node /\ readys[n][m] \in SUBSET Node
  BY DEF IInv, TypeOK
<1>4. \A n \in L : L \subseteq echos[n][m]
  BY DrainedEchoes
<1>5. ASSUME NEW n \in L PROVE EnoughEchoes(echos[n][m])
  <2>1. Cardinality(L) <= Cardinality(echos[n][m]) /\ Cardinality(echos[n][m]) \in Nat
    BY <1>3, <1>4, SubsetSize
  <2>. QED  BY <1>1, <2>1, Finite DEF EnoughListeners, EnoughEchoes
\* One of two listeners has recorded a READY.
<1>6. ASSUME NEW k \in L, NEW n \in L, k # n, m \notin sentReady[k]
      PROVE  m \in sentReady[n]
  <2>1. k \in echos[n][m] /\ n \in echos[k][m]
    BY <1>4
  <2>2. Checked(k, m) \/ Checked(n, m)
    BY <1>6, <2>1 DEF Prompt, OneUnchecked
  <2>. QED  BY <1>5, <1>6, <2>2 DEF Checked
\* The last one would have amplified the READYs of the others.
<1>7. ASSUME NEW n \in L PROVE m \in sentReady[n]
  <2>. SUFFICES ASSUME m \notin sentReady[n] PROVE FALSE
    OBVIOUS
  <2>1. \A k \in L \ {n} : m \in sentReady[k]
    BY <1>6
  <2>2. L \ {n} \subseteq readys[n][m]
    BY <2>1, DrainedReadies
  <2>3. Cardinality(L \ {n}) <= Cardinality(readys[n][m])
        /\ Cardinality(readys[n][m]) \in Nat
    BY <1>3, <2>2, SubsetSize
  <2>4. F \in Nat /\ Cardinality(L \ {n}) >= F + 1 /\ Cardinality(L \ {n}) \in Nat
    BY <1>1, <1>2, BrachaAssumption, FS_CardinalityType
  <2>5. Cardinality(readys[n][m]) >= F + 1
    BY <2>3, <2>4
  <2>. QED  BY <2>5 DEF Prompt, Amplified
<1>8. ASSUME NEW n \in L PROVE m \in delivered[n]
  <2>1. L \ {n} \subseteq readys[n][m]
    BY <1>7, DrainedReadies
  <2>2. Cardinality(L \ {n}) <= Cardinality(readys[n][m])
        /\ Cardinality(readys[n][m]) \in Nat
    BY <1>3, <2>1, SubsetSize
  <2>3. EnoughReadies(readys[n][m])
    BY <1>1, <1>2, <2>2, Finite DEF EnoughReadies
  <2>. QED  BY <2>3 DEF Prompt, Settled, Drained
<1>. QED  BY <1>8

\* Totality: when every broadcast has reached every listener and no handler is
\* waiting, every listener has delivered every message, in whatever order SENDs,
\* ECHOs and READYs came (bracha.py:105-188).
THEOREM Totality ==
  ASSUME Synchronised, ~ProcessExit, EnoughListeners
  PROVE  Spec => []DrainedMeansDelivered
<1>1. IInv /\ Prompt => DrainedMeansDelivered
  BY DrainedDelivers DEF DrainedMeansDelivered
<1>. QED  BY <1>1, PromptInvariance, PTL
=============================================================================
