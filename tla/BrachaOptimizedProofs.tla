----------------------- MODULE BrachaOptimizedProofs -----------------------
(***************************************************************************)
(* Proofs about Bracha's broadcast with the optimisations: for every set   *)
(* of nodes, graph and f, and for every choice among the optimisations.    *)
(***************************************************************************)
EXTENDS BrachaVariants, BrachaProofs, FunctionTheorems

LEMMA OptHears ==
  ASSUME TypeOK, NEW n \in Node, NEW d \in dolev, NEW p \in Phase, OptReceives(n, d, p)
  PROVE  /\ d \in DMsg /\ d.msg \in Sender /\ d.src \in Node /\ d.src # n
         /\ d.src \in Broadcasters(p, d.msg)
         /\ got' \in [Node -> SUBSET DMsg] /\ UNCHANGED <<onStart, exited>>
<1>1. /\ d \in DMsg /\ d.phase = p /\ d.src # n
      /\ got' = [got EXCEPT ![n] = @ \cup {d}] /\ UNCHANGED <<onStart, exited>>
  BY DEF OptReceives, TypeOK
<1>2. /\ d.msg \in Sender /\ d.src \in Node
      /\ d = [phase |-> d.phase, msg |-> d.msg, src |-> d.src]
  BY <1>1 DEF DMsg
<1>3. got' \in [Node -> SUBSET DMsg]
  BY <1>1 DEF TypeOK
<1>. QED  BY <1>1, <1>2, <1>3 DEF Broadcasters

-----------------------------------------------------------------------------
(***************************************************************************)
(* Types.                                                                  *)
(***************************************************************************)
LEMMA MaybeBroadcast ==
  ASSUME TypeOK, NEW n \in Node, NEW p \in Phase, NEW m \in Sender,
         Broadcast(n, p, m) \/ NoBroadcast
  PROVE  phaseCount' \in [Node -> [Phase -> Nat]] /\ dolev' \in SUBSET DMsg
BY BroadcastTypes DEF NoBroadcast, TypeOK

LEMMA MaybeCounted ==
  ASSUME NEW table \in Tables, NEW after, NEW n \in Node, NEW m \in Sender,
         NEW k \in Node, after = table \/ after = Counted(table, n, m, k)
  PROVE  after \in Tables
BY Counting

LEMMA MaybeMarked ==
  ASSUME NEW sets \in Marks, NEW after, NEW n \in Node, NEW m \in Sender,
         after = sets \/ after = Marked(sets, n, m)
  PROVE  after \in Marks
BY Marking

LEMMA MaybeUnmarked ==
  ASSUME NEW sets \in Marks, NEW after, NEW n \in Node, NEW m \in Sender,
         after = sets \/ after = [sets EXCEPT ![n] = @ \ {m}]
  PROVE  after \in Marks
BY DEF Marks

\* The state in terms of tables and marks.
OptTypes ==
  /\ onStart \in [Node -> {"idle", "sending", "echoing", "done", "failed"}]
  /\ echos \in Tables /\ readys \in Tables
  /\ seen \in Marks /\ sentReady \in Marks /\ expected \in Marks
  /\ delivered \in Marks /\ resuming \in Marks /\ sentEcho \in Marks
  /\ deliveries \in [Node -> [Sender -> Nat]]
  /\ phaseCount \in [Node -> [Phase -> Nat]]
  /\ terminated \in SUBSET Node /\ exited \in SUBSET Node
  /\ dolev \in SUBSET DMsg
  /\ got \in [Node -> SUBSET DMsg]
  /\ afterEcho \in [Node -> SUBSET ({"echo", "ready"} \X Sender)]

LEMMA OptTypesMean == OptTypes <=> OptimizedTypeOK
BY DEF OptTypes, OptimizedTypeOK, TypeOK, Tables, Marks

LEMMA StartTypes ==
  ASSUME OptTypes, OnlySenders, NEW n \in Node,
         OptStart(n) \/ OptStartSend(n) \/ OptStartEcho(n)
  PROVE  OptTypes' /\ OnlySenders'
<1>0. TypeOK
  BY OptTypesMean DEF OptimizedTypeOK
<1>. USE DEF nodeVars, deliveryVars
<1>1. CASE OptStart(n)
  BY <1>1 DEF OptStart, Start, NoBroadcast, OptTypes, OnlySenders
<1>2. CASE OptStartSend(n)
  <2>1. n \in Sender /\ onStart' = [onStart EXCEPT ![n] = "sending"]
    BY <1>2 DEF OptStartSend
  <2>2. expected' \in Marks
    BY <1>2, <2>1, MaybeMarked DEF OptStartSend, Registers, Marked, OptTypes
  <2>3. phaseCount' \in [Node -> [Phase -> Nat]] /\ dolev' \in SUBSET DMsg
    <3>1. CASE Broadcast(n, "send", n)
      BY <1>0, <2>1, <3>1, MaybeBroadcast DEF Phase
    <3>2. CASE ~Broadcast(n, "send", n)
      <4>1. [phase |-> "send", msg |-> n, src |-> n] \in DMsg
        BY <2>1 DEF DMsg, Phase
      <4>. QED  BY <1>2, <3>2, <4>1 DEF OptStartSend, OptTypes
    <3>. QED  BY <3>1, <3>2
  <2>. QED  BY <1>2, <2>1, <2>2, <2>3 DEF OptStartSend, OptTypes, OnlySenders
<1>3. CASE OptStartEcho(n)
  <2>1. n \in Sender /\ onStart' = [onStart EXCEPT ![n] = "done"]
    BY <1>3 DEF OptStartEcho, OnlySenders
  <2>2. phaseCount' \in [Node -> [Phase -> Nat]] /\ dolev' \in SUBSET DMsg
    BY <1>0, <1>3, <2>1, MaybeBroadcast DEF OptStartEcho, Echoes, NoEcho, Phase
  <2>3. seen' \in Marks
    BY <1>3, <2>1, MaybeMarked DEF OptStartEcho, Marked, OptTypes
  <2>4. sentEcho' \in Marks
    BY <1>3, <2>1, MaybeMarked DEF OptStartEcho, Echoes, NoEcho, Marked, OptTypes
  <2>5. echos' \in Tables
    BY <1>3, <2>1, MaybeCounted DEF OptStartEcho, Counted, OptTypes
  <2>. QED
    BY <1>3, <2>1, <2>2, <2>3, <2>4, <2>5 DEF OptStartEcho, OptTypes, OnlySenders
<1>. QED  BY <1>1, <1>2, <1>3

LEMMA OptSendTypes ==
  ASSUME OptTypes, OnlySenders, NEW n \in Node, NEW d \in dolev, OptSend(n, d)
  PROVE  OptTypes' /\ OnlySenders'
<1>0. TypeOK
  BY OptTypesMean DEF OptimizedTypeOK
<1>. DEFINE m == d.msg
<1>1. m \in Sender /\ got' \in [Node -> SUBSET DMsg] /\ UNCHANGED <<onStart, exited>>
  BY <1>0, OptHears DEF OptSend, Phase
<1>2. expected' \in Marks /\ seen' \in Marks
  BY <1>1, MaybeMarked DEF OptSend, Registers, Marked, OptTypes
<1>3. echos' = echos \/ echos' = Counted(echos, n, m, n)
  BY DEF OptSend, Counted
<1>4. sentEcho' = sentEcho \/ sentEcho' = Marked(sentEcho, n, m)
  BY DEF OptSend, Echoes, NoEcho, Marked
<1>5. echos' \in Tables /\ sentEcho' \in Marks
  BY <1>1, <1>3, <1>4, MaybeMarked, MaybeCounted DEF OptTypes
<1>6. phaseCount' \in [Node -> [Phase -> Nat]] /\ dolev' \in SUBSET DMsg
  BY <1>0, <1>1, MaybeBroadcast DEF OptSend, Echoes, NoEcho, Phase
<1>. QED
  BY <1>1, <1>2, <1>5, <1>6 DEF OptSend, OptTypes, OnlySenders, deliveryVars

LEMMA ReadyCheckTypes ==
  ASSUME TypeOK, NEW n \in Node, NEW m \in Sender, NEW S, ReadyCheck(n, m, S)
  PROVE  /\ sentReady' \in Marks
         /\ phaseCount' \in [Node -> [Phase -> Nat]] /\ dolev' \in SUBSET DMsg
<1>1. sentReady' = sentReady \/ sentReady' = Marked(sentReady, n, m)
  BY DEF ReadyCheck, Marked
<1>2. sentReady \in Marks
  BY DEF TypeOK, Marks
<1>3. Broadcast(n, "ready", m) \/ NoBroadcast
  BY DEF ReadyCheck
<1>. QED  BY <1>1, <1>2, <1>3, MaybeMarked, MaybeBroadcast DEF Phase

LEMMA OptEchoTypes ==
  ASSUME OptTypes, OnlySenders, NEW n \in Node, NEW d \in dolev, OptEcho(n, d)
  PROVE  OptTypes' /\ OnlySenders'
<1>0. TypeOK
  BY OptTypesMean DEF OptimizedTypeOK
<1>. DEFINE m == d.msg
            echosNow == echos[n][m] \cup {d.src}
<1>1. /\ m \in Sender /\ d.src \in Node
      /\ got' \in [Node -> SUBSET DMsg] /\ UNCHANGED <<onStart, exited>>
  BY <1>0, OptHears DEF OptEcho, Phase
<1>2. expected' \in Marks
  BY <1>1, MaybeMarked DEF OptEcho, Registers, Marked, OptTypes
<1>3. echos[n][m] \in SUBSET Node
  BY <1>1 DEF OptTypes, Tables
<1>4. echos' \in Tables
  <2>1. \E S \in SUBSET Node : echos' = [echos EXCEPT ![n][m] = S]
    BY <1>1, <1>3 DEF OptEcho
  <2>. QED  BY <1>1, <2>1 DEF OptTypes, Tables
<1>5. CASE AmplifiesEcho(n, m, echosNow)
  <2>1. /\ Echoes(n, m) /\ UNCHANGED sentReady
        /\ afterEcho' = [afterEcho EXCEPT ![n] = @ \cup {<<"echo", m>>}]
    BY <1>5 DEF OptEcho
  <2>2. phaseCount' \in [Node -> [Phase -> Nat]] /\ dolev' \in SUBSET DMsg
    BY <1>0, <1>1, <2>1, MaybeBroadcast DEF Echoes, Phase
  <2>3. sentEcho' \in Marks
    BY <1>1, <2>1, MaybeMarked DEF Echoes, Marked, OptTypes
  <2>4. afterEcho' \in [Node -> SUBSET ({"echo", "ready"} \X Sender)]
    BY <1>1, <2>1 DEF OptTypes
  <2>. QED
    BY <1>1, <1>2, <1>4, <2>1, <2>2, <2>3, <2>4
    DEF OptEcho, OptTypes, OnlySenders, deliveryVars
<1>6. CASE ~AmplifiesEcho(n, m, echosNow)
  <2>1. ReadyCheck(n, m, echosNow) /\ UNCHANGED <<sentEcho, afterEcho>>
    BY <1>6 DEF OptEcho
  <2>2. /\ sentReady' \in Marks
        /\ phaseCount' \in [Node -> [Phase -> Nat]] /\ dolev' \in SUBSET DMsg
    BY <1>0, <1>1, <2>1, ReadyCheckTypes
  <2>. QED
    BY <1>1, <1>2, <1>4, <2>1, <2>2 DEF OptEcho, OptTypes, OnlySenders, deliveryVars
<1>. QED  BY <1>5, <1>6

LEMMA DeliverMarks ==
  ASSUME TypeOK, NEW n \in Node, NEW m \in Sender, NEW S, DeliverCheck(n, m, S)
  PROVE  /\ delivered' \in Marks /\ deliveries' \in [Node -> [Sender -> Nat]]
         /\ terminated' \in SUBSET Node
BY DeliverTypes DEF Marks

LEMMA OptReadyTypes ==
  ASSUME OptTypes, OnlySenders, NEW n \in Node, NEW d \in dolev, OptReady(n, d)
  PROVE  OptTypes' /\ OnlySenders'
<1>0. TypeOK
  BY OptTypesMean DEF OptimizedTypeOK
<1>. DEFINE m == d.msg
<1>1. /\ m \in Sender /\ d.src \in Node
      /\ got' \in [Node -> SUBSET DMsg] /\ UNCHANGED <<onStart, exited>>
  BY <1>0, OptHears DEF OptReady, Phase
<1>2. expected' \in Marks
  BY <1>1, MaybeMarked DEF OptReady, Registers, Marked, OptTypes
<1>3. readys' = Counted(readys, n, m, d.src)
  BY DEF OptReady, Counted
<1>4. echos' = echos \/ echos' = Counted(echos, n, m, n)
  BY DEF OptReady, Counted
<1>5. sentEcho' = sentEcho \/ sentEcho' = Marked(sentEcho, n, m)
  BY DEF OptReady, Marked
<1>6. sentReady' = sentReady \/ sentReady' = Marked(sentReady, n, m)
  BY DEF OptReady, Marked
<1>7. resuming' = resuming \/ resuming' = Marked(resuming, n, m)
  BY DEF OptReady, Marked
<1>8. /\ readys' \in Tables /\ echos' \in Tables
      /\ sentEcho' \in Marks /\ sentReady' \in Marks /\ resuming' \in Marks
  BY <1>1, <1>3, <1>4, <1>5, <1>6, <1>7, MaybeMarked, MaybeCounted DEF OptTypes
<1>9. afterEcho' \in [Node -> SUBSET ({"echo", "ready"} \X Sender)]
  <2>1. \/ afterEcho' = afterEcho
        \/ afterEcho' = [afterEcho EXCEPT ![n] = @ \cup {<<"ready", m>>}]
    BY DEF OptReady
  <2>. QED  BY <1>1, <2>1 DEF OptTypes
<1>10. phaseCount' \in [Node -> [Phase -> Nat]] /\ dolev' \in SUBSET DMsg
  <2>1. Broadcast(n, "ready", m) \/ Broadcast(n, "echo", m) \/ NoBroadcast
    BY DEF OptReady
  <2>. QED  BY <1>0, <1>1, <2>1, MaybeBroadcast DEF Phase
<1>11. /\ delivered' \in Marks /\ deliveries' \in [Node -> [Sender -> Nat]]
       /\ terminated' \in SUBSET Node
  <2>1. UNCHANGED deliveryVars \/ DeliverCheck(n, m, readys[n][m] \cup {d.src})
    BY DEF OptReady
  <2>. QED  BY <1>0, <1>1, <2>1, DeliverMarks DEF deliveryVars, OptTypes
<1>. QED
  BY <1>1, <1>2, <1>8, <1>9, <1>10, <1>11 DEF OptReady, OptTypes, OnlySenders

LEMMA ResumeTypes ==
  ASSUME OptTypes, OnlySenders, NEW n \in Node, NEW m \in Sender,
         OptEchoResume(n, m) \/ OptReadyResume(n, m)
  PROVE  OptTypes' /\ OnlySenders'
<1>0. TypeOK
  BY OptTypesMean DEF OptimizedTypeOK
<1>1. CASE OptEchoResume(n, m)
  <2>1. /\ sentReady' \in Marks
        /\ phaseCount' \in [Node -> [Phase -> Nat]] /\ dolev' \in SUBSET DMsg
    BY <1>0, <1>1, ReadyCheckTypes DEF OptEchoResume
  <2>2. afterEcho' \in [Node -> SUBSET ({"echo", "ready"} \X Sender)]
    BY <1>1 DEF OptEchoResume, OptTypes
  <2>. QED
    BY <1>1, <2>1, <2>2 DEF OptEchoResume, OptTypes, OnlySenders, deliveryVars
<1>2. CASE OptReadyResume(n, m)
  <2>1. /\ delivered' \in Marks /\ deliveries' \in [Node -> [Sender -> Nat]]
        /\ terminated' \in SUBSET Node
    BY <1>0, <1>2, DeliverMarks DEF OptReadyResume
  <2>2. afterEcho' \in [Node -> SUBSET ({"echo", "ready"} \X Sender)]
    BY <1>2 DEF OptReadyResume, OptTypes
  <2>3. resuming' \in Marks
    BY <1>2, MaybeUnmarked DEF OptReadyResume, OptTypes
  <2>. QED
    BY <1>2, <2>1, <2>2, <2>3
    DEF OptReadyResume, OptTypes, OnlySenders, nodeVars, NoBroadcast
<1>. QED  BY <1>1, <1>2

LEMMA OptTypeStep ==
  ASSUME OptimizedTypeOK, OnlySenders, [OptimizedNext]_optimizedVars
  PROVE  OptimizedTypeOK' /\ OnlySenders'
<1>1. OptTypes
  BY OptTypesMean
<1>2. CASE UNCHANGED optimizedVars
  BY <1>1, <1>2
  DEF optimizedVars, vars, nodeVars, deliveryVars, OptTypes, OptimizedTypeOK, TypeOK,
      OnlySenders
<1>3. ASSUME OptimizedNext PROVE OptTypes' /\ OnlySenders'
  BY <1>1, <1>3, StartTypes, OptSendTypes, OptEchoTypes, OptReadyTypes, ResumeTypes
  DEF OptimizedNext
<1>4. OptTypes' => OptimizedTypeOK'
  BY DEF OptTypes, OptimizedTypeOK, TypeOK, Tables, Marks
<1>. QED  BY <1>2, <1>3, <1>4

-----------------------------------------------------------------------------
(***************************************************************************)
(* The inductive invariant.  A node may count its own ECHO without having  *)
(* broadcast it, but only once a READY exists, and then the quorum behind  *)
(* the READYs has been there already.                                      *)
(***************************************************************************)
EchosCounted ==
  \A n \in Node, m \in Sender :
    echos[n][m] \subseteq Broadcasters("echo", m) \/ Broadcasters("ready", m) # {}

ReadysCounted ==
  \A n \in Node, m \in Sender : readys[n][m] \subseteq Broadcasters("ready", m) \ {n}

OInv ==
  /\ OptimizedTypeOK
  /\ OnlySenders
  /\ SendsAreOwn
  /\ StartHasSent
  /\ EchosCounted
  /\ ReadysCounted
  /\ ReadyBackedByEchoes
  /\ DeliveryBackedByReadies

LEMMA InitOInv == OptimizedInit => OInv
<1>. SUFFICES ASSUME OptimizedInit PROVE OInv
  OBVIOUS
<1>. USE DEF OptimizedInit, Init, InitState
<1>1. OptimizedTypeOK /\ OnlySenders
  BY DEF OptimizedTypeOK, TypeOK, OnlySenders
<1>2. SendsAreOwn /\ StartHasSent
  BY DEF SendsAreOwn, StartHasSent
<1>3. EchosCounted /\ ReadysCounted /\ ReadyBackedByEchoes
  BY DEF EchosCounted, ReadysCounted, ReadyBackedByEchoes, Broadcasters
<1>4. DeliveryBackedByReadies
  BY DEF DeliveryBackedByReadies
<1>. QED  BY <1>1, <1>2, <1>3, <1>4 DEF OInv

-----------------------------------------------------------------------------
(***************************************************************************)
(* What one step adds to the broadcasts, the counts and the deliveries.    *)
(***************************************************************************)
\* Why a broadcast may begin.
Warranted(n, p, m) ==
  \/ p = "send" /\ n = m
  \/ p = "echo" /\ m \in Broadcasters("send", m)
  \/ p = "ready" /\ Cardinality(Broadcasters("echo", m)) >= ReadyThreshold

Broadcasts ==
  \/ UNCHANGED dolev
  \/ \E n \in Node, p \in Phase, m \in Sender :
       /\ dolev' = dolev \cup {[phase |-> p, msg |-> m, src |-> n]}
       /\ Warranted(n, p, m)

\* Whatever has been broadcast goes back to the SEND, and a READY to a quorum.
LEMMA HeardMeansSent ==
  ASSUME OInv, NEW p \in Phase, NEW m \in Sender, Broadcasters(p, m) # {}
  PROVE  /\ m \in Broadcasters("send", m)
         /\ p = "ready" => Cardinality(Broadcasters("echo", m)) >= ReadyThreshold
<1>1. CASE p = "send"
  BY <1>1 DEF OInv, SendsAreOwn, Broadcasters
<1>2. CASE p = "echo"
  BY <1>2 DEF OInv, ReadyBackedByEchoes
<1>3. CASE p = "ready"
  <2>1. Cardinality(Broadcasters("echo", m)) >= ReadyThreshold
    BY <1>3 DEF OInv, ReadyBackedByEchoes
  <2>2. Broadcasters("echo", m) # {}
    BY <2>1, Finite, FS_EmptySet
  <2>. QED  BY <2>1, <2>2 DEF OInv, ReadyBackedByEchoes
<1>. QED  BY <1>1, <1>2, <1>3 DEF Phase

\* A quorum that was counted is a quorum that was broadcast.
LEMMA QuorumWasSent ==
  ASSUME OInv, NEW n \in Node, NEW m \in Sender, NEW S,
         S \subseteq echos[n][m] \cup Broadcasters("echo", m), EnoughEchoes(S)
  PROVE  Cardinality(Broadcasters("echo", m)) >= ReadyThreshold
<1>1. CASE Broadcasters("ready", m) # {}
  BY <1>1 DEF OInv, ReadyBackedByEchoes
<1>2. CASE Broadcasters("ready", m) = {}
  <2>1. S \subseteq Broadcasters("echo", m)
    BY <1>2 DEF OInv, EchosCounted
  <2>2. IsFiniteSet(Broadcasters("echo", m))
    BY Finite, FS_Subset DEF Broadcasters
  <2>3. /\ Cardinality(S) <= Cardinality(Broadcasters("echo", m))
        /\ Cardinality(S) \in Nat
        /\ Cardinality(Broadcasters("echo", m)) \in Nat
    BY <2>1, <2>2, FS_Subset, FS_CardinalityType
  <2>. QED  BY <2>3, Finite DEF EnoughEchoes
<1>. QED  BY <1>1, <1>2

LEMMA OptNewBroadcasts ==
  ASSUME OInv, [OptimizedNext]_optimizedVars PROVE Broadcasts
<1>. USE DEF NoBroadcast
<1>0. TypeOK
  BY DEF OInv, OptimizedTypeOK
<1>1. ASSUME NEW n \in Node, NEW p \in Phase, NEW m \in Sender,
             Broadcast(n, p, m) \/ NoBroadcast,
             dolev' # dolev => Warranted(n, p, m)
      PROVE  Broadcasts
  BY <1>1 DEF Broadcasts, Broadcast
<1>2. ASSUME NEW n \in Node, OptStart(n) \/ OptStartSend(n) \/ OptStartEcho(n)
      PROVE  Broadcasts
  <2>1. CASE OptStart(n)
    BY <2>1 DEF OptStart, Start, Broadcasts
  <2>2. CASE OptStartSend(n)
    BY <2>2 DEF OptStartSend, Broadcast, Broadcasts, Warranted, Phase
  <2>3. CASE OptStartEcho(n)
    <3>1. n \in Sender /\ n \in Broadcasters("send", n)
      BY <2>3 DEF OptStartEcho, OInv, OnlySenders, StartHasSent
    <3>2. Broadcast(n, "echo", n) \/ NoBroadcast
      BY <2>3 DEF OptStartEcho, Echoes, NoEcho
    <3>. QED  BY <1>1, <3>1, <3>2 DEF Warranted, Phase
  <2>. QED  BY <1>2, <2>1, <2>2, <2>3
<1>3. ASSUME NEW n \in Node, NEW d \in dolev, OptSend(n, d) PROVE Broadcasts
  <2>1. d.msg \in Sender /\ d.src \in Broadcasters("send", d.msg)
    BY <1>0, <1>3, OptHears DEF OptSend, Phase
  <2>2. d.msg \in Broadcasters("send", d.msg)
    BY <2>1, HeardMeansSent DEF Phase
  <2>3. Broadcast(n, "echo", d.msg) \/ NoBroadcast
    BY <1>3 DEF OptSend, Echoes, NoEcho
  <2>. QED  BY <1>1, <2>1, <2>2, <2>3 DEF Warranted, Phase
<1>4. ASSUME NEW n \in Node, NEW d \in dolev, OptEcho(n, d) PROVE Broadcasts
  <2>1. d.msg \in Sender /\ d.src \in Broadcasters("echo", d.msg)
    BY <1>0, <1>4, OptHears DEF OptEcho, Phase
  <2>2. d.msg \in Broadcasters("send", d.msg)
    BY <2>1, HeardMeansSent DEF Phase
  <2>3. CASE AmplifiesEcho(n, d.msg, echos[n][d.msg] \cup {d.src})
    <3>1. Broadcast(n, "echo", d.msg)
      BY <1>4, <2>3 DEF OptEcho, Echoes
    <3>. QED  BY <1>1, <2>1, <2>2, <3>1 DEF Warranted, Phase
  <2>4. CASE ~AmplifiesEcho(n, d.msg, echos[n][d.msg] \cup {d.src})
    <3>1. ReadyCheck(n, d.msg, echos[n][d.msg] \cup {d.src})
      BY <1>4, <2>4 DEF OptEcho
    <3>2. /\ Broadcast(n, "ready", d.msg) \/ NoBroadcast
          /\ dolev' # dolev => EnoughEchoes(echos[n][d.msg] \cup {d.src})
      BY <3>1 DEF ReadyCheck
    <3>3. dolev' # dolev =>
            Cardinality(Broadcasters("echo", d.msg)) >= ReadyThreshold
      BY <2>1, <3>2, QuorumWasSent
    <3>. QED  BY <1>1, <2>1, <3>2, <3>3 DEF Warranted, Phase
  <2>. QED  BY <2>3, <2>4
<1>5. ASSUME NEW n \in Node, NEW d \in dolev, OptReady(n, d) PROVE Broadcasts
  <2>1. d.msg \in Sender /\ d.src \in Broadcasters("ready", d.msg)
    BY <1>0, <1>5, OptHears DEF OptReady, Phase
  <2>2. /\ d.msg \in Broadcasters("send", d.msg)
        /\ Cardinality(Broadcasters("echo", d.msg)) >= ReadyThreshold
    BY <2>1, HeardMeansSent DEF Phase
  <2>3. \/ Broadcast(n, "ready", d.msg)
        \/ Broadcast(n, "echo", d.msg)
        \/ NoBroadcast
    BY <1>5 DEF OptReady
  <2>. QED  BY <1>1, <2>1, <2>2, <2>3 DEF Warranted, Phase
<1>6. ASSUME NEW n \in Node, NEW m \in Sender, OptEchoResume(n, m)
      PROVE  Broadcasts
  <2>1. ReadyCheck(n, m, echos[n][m])
    BY <1>6 DEF OptEchoResume
  <2>2. /\ Broadcast(n, "ready", m) \/ NoBroadcast
        /\ dolev' # dolev => EnoughEchoes(echos[n][m])
    BY <2>1 DEF ReadyCheck
  <2>3. dolev' # dolev => Cardinality(Broadcasters("echo", m)) >= ReadyThreshold
    BY <2>2, QuorumWasSent
  <2>. QED  BY <1>1, <2>2, <2>3 DEF Warranted, Phase
<1>7. ASSUME NEW n \in Node, NEW m \in Sender, OptReadyResume(n, m)
      PROVE  Broadcasts
  BY <1>7 DEF OptReadyResume, Broadcasts
<1>8. CASE UNCHANGED optimizedVars
  BY <1>8 DEF optimizedVars, vars, Broadcasts
<1>. QED
  BY <1>2, <1>3, <1>4, <1>5, <1>6, <1>7, <1>8 DEF OptimizedNext

\* No broadcast is withdrawn, and the sets of broadcasters stay finite.
LEMMA BroadcastersGrow ==
  ASSUME Broadcasts, NEW p, NEW m
  PROVE  /\ Broadcasters(p, m) \subseteq Broadcasters(p, m)'
         /\ IsFiniteSet(Broadcasters(p, m)')
         /\ Cardinality(Broadcasters(p, m)') \in Nat
         /\ Cardinality(Broadcasters(p, m)) \in Nat
         /\ Cardinality(Broadcasters(p, m)) <= Cardinality(Broadcasters(p, m)')
<1>1. Broadcasters(p, m) \subseteq Broadcasters(p, m)'
  BY DEF Broadcasts, Broadcasters
<1>2. IsFiniteSet(Broadcasters(p, m)') /\ IsFiniteSet(Broadcasters(p, m))
  BY Finite, FS_Subset DEF Broadcasters
<1>. QED  BY <1>1, <1>2, FS_Subset, FS_CardinalityType

\* Who is new among the broadcasters had a reason.
LEMMA NewBroadcaster ==
  ASSUME Broadcasts, NEW p, NEW m, NEW n \in Broadcasters(p, m)' \ Broadcasters(p, m)
  PROVE  Warranted(n, p, m)
BY DEF Broadcasts, Broadcasters

-----------------------------------------------------------------------------
\* An ECHO is counted if it has been broadcast, or is implied by a READY.
LEMMA OptNewEchos ==
  ASSUME OInv, [OptimizedNext]_optimizedVars
  PROVE  \A n \in Node, m \in Sender :
           \/ echos'[n][m] \subseteq echos[n][m] \cup Broadcasters("echo", m)'
           \/ Broadcasters("ready", m) # {}
<1>. DEFINE Goal == \A n \in Node, m \in Sender :
              \/ echos'[n][m] \subseteq echos[n][m] \cup Broadcasters("echo", m)'
              \/ Broadcasters("ready", m) # {}
<1>0. TypeOK /\ echos \in Tables
  BY OptTypesMean DEF OInv, OptimizedTypeOK, OptTypes
<1>1. ASSUME NEW n \in Node, NEW m \in Sender, NEW K \in SUBSET Node,
             echos' = echos \/ echos' = [echos EXCEPT ![n][m] = @ \cup K],
             \/ echos' = echos
             \/ K \subseteq Broadcasters("echo", m)'
             \/ Broadcasters("ready", m) # {}
      PROVE  Goal
  <2>1. CASE echos' = echos
    BY <2>1
  <2>2. CASE echos' # echos
    <3>1. \A i \in Node, j \in Sender :
            \/ echos'[i][j] = echos[i][j]
            \/ i = n /\ j = m /\ echos'[i][j] = echos[i][j] \cup K
      BY <1>0, <1>1, <2>2 DEF Tables
    <3>. QED  BY <1>1, <2>2, <3>1
  <2>. QED  BY <2>1, <2>2
<1>2. ASSUME NEW n \in Node, NEW m, Echoes(n, m) PROVE n \in Broadcasters("echo", m)'
  BY <1>2 DEF Echoes, Broadcast, Broadcasters
<1>3. ASSUME NEW n \in Node, OptStartEcho(n) PROVE Goal
  <2>1. n \in Sender /\ {n} \in SUBSET Node
    BY <1>3 DEF OptStartEcho, OInv, OnlySenders
  <2>2. \/ echos' = echos
        \/ /\ echos' = [echos EXCEPT ![n][n] = @ \cup {n}]
           /\ {n} \subseteq Broadcasters("echo", n)'
    BY <1>2, <1>3 DEF OptStartEcho
  <2>. QED  BY ZenonT(40), <1>1, <2>1, <2>2
<1>4. ASSUME NEW n \in Node, NEW d \in dolev, OptSend(n, d) PROVE Goal
  <2>1. d.msg \in Sender /\ {n} \in SUBSET Node
    BY <1>0, <1>4, OptHears DEF OptSend, Phase
  <2>2. \/ echos' = echos
        \/ /\ echos' = [echos EXCEPT ![n][d.msg] = @ \cup {n}]
           /\ {n} \subseteq Broadcasters("echo", d.msg)'
    BY <1>2, <1>4 DEF OptSend
  <2>. QED  BY ZenonT(40), <1>1, <2>1, <2>2
<1>5. ASSUME NEW n \in Node, NEW d \in dolev, OptEcho(n, d) PROVE Goal
  <2>1. /\ d.msg \in Sender /\ d.src \in Node
        /\ d.src \in Broadcasters("echo", d.msg)
    BY <1>0, <1>5, OptHears DEF OptEcho, Phase
  <2>2. d.src \in Broadcasters("echo", d.msg)'
    BY <2>1, OptNewBroadcasts, BroadcastersGrow
  <2>3. CASE AmplifiesEcho(n, d.msg, echos[n][d.msg] \cup {d.src})
    <3>1. /\ echos' = [echos EXCEPT ![n][d.msg] = @ \cup {d.src, n}]
          /\ Echoes(n, d.msg)
      <4>1. echos[n][d.msg] \cup {d.src} \cup {n} = echos[n][d.msg] \cup {d.src, n}
        OBVIOUS
      <4>. QED  BY <1>5, <2>3, <4>1 DEF OptEcho
    <3>2. {d.src, n} \subseteq Broadcasters("echo", d.msg)'
      BY <1>2, <2>2, <3>1
    <3>. QED  BY <1>1, <2>1, <3>1, <3>2
  <2>4. CASE ~AmplifiesEcho(n, d.msg, echos[n][d.msg] \cup {d.src})
    <3>1. echos' = [echos EXCEPT ![n][d.msg] = @ \cup {d.src}]
      BY <1>5, <2>4 DEF OptEcho
    <3>2. {d.src} \subseteq Broadcasters("echo", d.msg)'
      BY <2>2
    <3>. QED  BY <1>1, <2>1, <3>1, <3>2
  <2>. QED  BY <2>3, <2>4
<1>6. ASSUME NEW n \in Node, NEW d \in dolev, OptReady(n, d) PROVE Goal
  <2>1. /\ d.msg \in Sender /\ {n} \in SUBSET Node
        /\ d.src \in Broadcasters("ready", d.msg)
    BY <1>0, <1>6, OptHears DEF OptReady, Phase
  <2>2. echos' = echos \/ echos' = [echos EXCEPT ![n][d.msg] = @ \cup {n}]
    BY <1>6 DEF OptReady
  <2>. QED  BY <1>1, <2>1, <2>2
<1>7. CASE UNCHANGED echos
  BY <1>7
<1>. QED
  BY <1>3, <1>4, <1>5, <1>6, <1>7
  DEF OptimizedNext, OptStart, Start, OptStartSend, OptEchoResume, OptReadyResume,
      nodeVars, optimizedVars, vars

\* A READY is counted if another node has broadcast it.
LEMMA OptNewReadys ==
  ASSUME OInv, [OptimizedNext]_optimizedVars
  PROVE  \A n \in Node, m \in Sender :
           readys'[n][m] \subseteq readys[n][m] \cup (Broadcasters("ready", m) \ {n})
<1>0. TypeOK /\ readys \in Tables
  BY OptTypesMean DEF OInv, OptimizedTypeOK, OptTypes
<1>1. CASE UNCHANGED readys
  BY <1>1
<1>2. ASSUME NEW n \in Node, NEW d \in dolev, OptReady(n, d)
      PROVE  \A i \in Node, j \in Sender :
               readys'[i][j] \subseteq readys[i][j] \cup (Broadcasters("ready", j) \ {i})
  <2>1. /\ d.msg \in Sender /\ {d.src} \in SUBSET Node /\ d.src # n
        /\ d.src \in Broadcasters("ready", d.msg)
    BY <1>0, <1>2, OptHears DEF OptReady, Phase
  <2>2. readys' = [readys EXCEPT ![n][d.msg] = @ \cup {d.src}]
    BY <1>2 DEF OptReady
  <2>3. \A i \in Node, j \in Sender :
          \/ readys'[i][j] = readys[i][j]
          \/ i = n /\ j = d.msg /\ readys'[i][j] = readys[i][j] \cup {d.src}
    BY <1>0, <2>1, <2>2 DEF Tables
  <2>. QED  BY <2>1, <2>3
<1>. QED
  BY ZenonT(40), <1>1, <1>2
  DEF OptimizedNext, OptStart, Start, OptStartSend, OptStartEcho, OptSend, OptEcho,
      OptEchoResume, OptReadyResume, nodeVars, optimizedVars, vars

\* A delivery has its READYs counted.
LEMMA OptNewDeliveries ==
  ASSUME OInv, [OptimizedNext]_optimizedVars
  PROVE  \/ UNCHANGED delivered
         \/ \E n \in Node, m \in Sender :
              EnoughReadies(readys'[n][m]) /\ delivered' = Marked(delivered, n, m)
<1>0. TypeOK /\ readys \in Tables
  BY OptTypesMean DEF OInv, OptimizedTypeOK, OptTypes
<1>1. ASSUME NEW n, NEW m, NEW S, DeliverCheck(n, m, S)
      PROVE  \/ UNCHANGED delivered
             \/ EnoughReadies(S) /\ delivered' = Marked(delivered, n, m)
  BY <1>1 DEF DeliverCheck, Delivers, Marked, deliveryVars
<1>2. ASSUME NEW n \in Node, NEW d \in dolev, OptReady(n, d), delivered' # delivered
      PROVE  \E m \in Sender :
               EnoughReadies(readys'[n][m]) /\ delivered' = Marked(delivered, n, m)
  <2>1. d.msg \in Sender /\ d.src \in Node
    BY <1>0, <1>2, OptHears DEF OptReady, Phase
  <2>2. /\ DeliverCheck(n, d.msg, readys[n][d.msg] \cup {d.src})
        /\ readys' = Counted(readys, n, d.msg, d.src)
    BY <1>2 DEF OptReady, Counted, deliveryVars
  <2>3. readys'[n][d.msg] = readys[n][d.msg] \cup {d.src}
    BY <1>0, <2>1, <2>2, Counting
  <2>. QED  BY <1>1, <1>2, <2>1, <2>2, <2>3
<1>3. ASSUME NEW n \in Node, NEW m \in Sender, OptReadyResume(n, m)
      PROVE  DeliverCheck(n, m, readys'[n][m])
  BY <1>3 DEF OptReadyResume, nodeVars
<1>4. \/ UNCHANGED delivered
      \/ \E n \in Node : \E d \in dolev : OptReady(n, d)
      \/ \E n \in Node, m \in Sender : OptReadyResume(n, m)
  BY ZenonT(40) DEF OptimizedNext, OptStart, Start, OptStartSend, OptStartEcho, OptSend, OptEcho,
         OptEchoResume, deliveryVars, optimizedVars, vars
<1>. QED  BY <1>1, <1>2, <1>3, <1>4

-----------------------------------------------------------------------------
(***************************************************************************)
(* Each part of the invariant is preserved.                                *)
(***************************************************************************)
LEMMA OptSendStep ==
  ASSUME OInv, [OptimizedNext]_optimizedVars PROVE SendsAreOwn' /\ StartHasSent'
<1>1. Broadcasts
  BY OptNewBroadcasts
<1>2. SendsAreOwn'
  BY <1>1 DEF OInv, SendsAreOwn, Broadcasts, Warranted
<1>3. ASSUME NEW n \in Node, onStart'[n] = "sending"
      PROVE  n \in Broadcasters("send", n)'
  <2>1. CASE onStart[n] = "sending"
    BY <1>1, <2>1, BroadcastersGrow DEF OInv, StartHasSent
  <2>2. CASE onStart[n] # "sending"
    <3>1. \/ UNCHANGED onStart
          \/ \E k \in Node : OptStartSend(k)
          \/ \E k \in Node : onStart' = [onStart EXCEPT ![k] = "done"]
      <4>1. ASSUME NEW k, NEW d, OptSend(k, d) \/ OptEcho(k, d) \/ OptReady(k, d)
            PROVE  UNCHANGED onStart
        <5>1. ASSUME NEW p, OptReceives(k, d, p) PROVE UNCHANGED onStart
          BY <5>1 DEF OptReceives
        <5>. QED  BY <4>1, <5>1 DEF OptSend, OptEcho, OptReady
      <4>2. ASSUME NEW k, NEW m, OptEchoResume(k, m) \/ OptReadyResume(k, m)
            PROVE  UNCHANGED onStart
        BY <4>2 DEF OptEchoResume, OptReadyResume
      <4>3. ASSUME NEW k, OptStart(k) \/ OptStartEcho(k)
            PROVE  onStart' = [onStart EXCEPT ![k] = "done"]
        BY <4>3 DEF OptStart, Start, OptStartEcho
      <4>. QED  BY <4>1, <4>2, <4>3 DEF OptimizedNext, optimizedVars, vars
    <3>2. onStart \in [Node -> {"idle", "sending", "echoing", "done", "failed"}]
      BY DEF OInv, OptimizedTypeOK, TypeOK
    <3>3. PICK k \in Node : OptStartSend(k)
      BY <1>3, <2>2, <3>1, <3>2
    <3>4. k = n
      BY <1>3, <2>2, <3>2, <3>3 DEF OptStartSend
    <3>. QED
      BY <3>3, <3>4 DEF OptStartSend, Broadcast, Broadcasters
  <2>. QED  BY <2>1, <2>2
<1>. QED  BY <1>2, <1>3 DEF StartHasSent

LEMMA OptCountStep ==
  ASSUME OInv, [OptimizedNext]_optimizedVars PROVE EchosCounted' /\ ReadysCounted'
<1>1. Broadcasts
  BY OptNewBroadcasts
<1>2. ASSUME NEW n \in Node, NEW m \in Sender
      PROVE  \/ echos'[n][m] \subseteq Broadcasters("echo", m)'
             \/ Broadcasters("ready", m)' # {}
  <2>1. /\ Broadcasters("echo", m) \subseteq Broadcasters("echo", m)'
        /\ Broadcasters("ready", m) \subseteq Broadcasters("ready", m)'
    BY <1>1, BroadcastersGrow
  <2>2. \/ echos[n][m] \subseteq Broadcasters("echo", m)
        \/ Broadcasters("ready", m) # {}
    BY DEF OInv, EchosCounted
  <2>3. \/ echos'[n][m] \subseteq echos[n][m] \cup Broadcasters("echo", m)'
        \/ Broadcasters("ready", m) # {}
    BY OptNewEchos
  <2>. QED  BY <2>1, <2>2, <2>3
<1>3. ASSUME NEW n \in Node, NEW m \in Sender
      PROVE  readys'[n][m] \subseteq Broadcasters("ready", m)' \ {n}
  <2>1. Broadcasters("ready", m) \subseteq Broadcasters("ready", m)'
    BY <1>1, BroadcastersGrow
  <2>2. readys[n][m] \subseteq Broadcasters("ready", m) \ {n}
    BY DEF OInv, ReadysCounted
  <2>3. readys'[n][m] \subseteq readys[n][m] \cup (Broadcasters("ready", m) \ {n})
    BY OptNewReadys
  <2>. QED  BY <2>1, <2>2, <2>3
<1>. QED  BY <1>2, <1>3 DEF EchosCounted, ReadysCounted

LEMMA OptBackedStep ==
  ASSUME OInv, [OptimizedNext]_optimizedVars PROVE ReadyBackedByEchoes'
<1>1. Broadcasts
  BY OptNewBroadcasts
<1>. SUFFICES ASSUME NEW m \in Sender
              PROVE  /\ Broadcasters("ready", m)' # {} =>
                          Cardinality(Broadcasters("echo", m)') >= ReadyThreshold
                     /\ Broadcasters("echo", m)' # {} => m \in Broadcasters("send", m)'
  BY DEF ReadyBackedByEchoes
<1>2. ASSUME Broadcasters("ready", m)' # {}
      PROVE  Cardinality(Broadcasters("echo", m)') >= ReadyThreshold
  <2>1. Cardinality(Broadcasters("echo", m)) >= ReadyThreshold
    <3>1. CASE Broadcasters("ready", m) # {}
      BY <3>1 DEF OInv, ReadyBackedByEchoes
    <3>2. CASE Broadcasters("ready", m) = {}
      BY <1>1, <1>2, <3>2, NewBroadcaster DEF Warranted
    <3>. QED  BY <3>1, <3>2
  <2>2. /\ Cardinality(Broadcasters("echo", m)) <= Cardinality(Broadcasters("echo", m)')
        /\ Cardinality(Broadcasters("echo", m)) \in Nat
        /\ Cardinality(Broadcasters("echo", m)') \in Nat
    BY <1>1, BroadcastersGrow
  <2>. QED  BY <2>1, <2>2, Finite
<1>3. ASSUME Broadcasters("echo", m)' # {}
      PROVE  m \in Broadcasters("send", m)'
  <2>1. m \in Broadcasters("send", m)
    <3>1. CASE Broadcasters("echo", m) # {}
      BY <3>1 DEF OInv, ReadyBackedByEchoes
    <3>2. CASE Broadcasters("echo", m) = {}
      BY <1>1, <1>3, <3>2, NewBroadcaster DEF Warranted
    <3>. QED  BY <3>1, <3>2
  <2>. QED  BY <1>1, <2>1, BroadcastersGrow
<1>. QED  BY <1>2, <1>3

LEMMA OptDeliveryStep ==
  ASSUME OInv, OptimizedTypeOK', ReadysCounted', [OptimizedNext]_optimizedVars
  PROVE  DeliveryBackedByReadies'
<1>1. Broadcasts
  BY OptNewBroadcasts
<1>. SUFFICES ASSUME NEW n \in Node, NEW m \in delivered'[n]
              PROVE  Cardinality(Broadcasters("ready", m)' \ {n}) >= DeliverThreshold
  BY DEF DeliveryBackedByReadies
<1>. DEFINE After == Broadcasters("ready", m)' \ {n}
            Before == Broadcasters("ready", m) \ {n}
<1>2. m \in Sender
  BY DEF OptimizedTypeOK, TypeOK
<1>3. IsFiniteSet(After) /\ Cardinality(After) \in Nat
  BY <1>1, BroadcastersGrow, FS_Subset, FS_CardinalityType
<1>4. CASE m \in delivered[n]
  <2>1. Before \subseteq After
    BY <1>1, BroadcastersGrow
  <2>2. Cardinality(Before) >= DeliverThreshold
    BY <1>4 DEF OInv, DeliveryBackedByReadies
  <2>3. Cardinality(Before) \in Nat /\ Cardinality(Before) <= Cardinality(After)
    BY <1>3, <2>1, FS_Subset, FS_CardinalityType
  <2>. QED  BY <1>3, <2>2, <2>3, Finite
<1>5. CASE m \notin delivered[n]
  <2>1. PICK k \in Node, j \in Sender :
          EnoughReadies(readys'[k][j]) /\ delivered' = Marked(delivered, k, j)
    BY <1>5, OptNewDeliveries
  <2>2. delivered \in Marks
    BY OptTypesMean DEF OInv, OptTypes
  <2>3. k = n /\ j = m
    <3>1. delivered'[n] = IF n = k THEN delivered[n] \cup {j} ELSE delivered[n]
      BY <2>1, <2>2 DEF Marked, Marks
    <3>. QED  BY <1>5, <3>1
  <2>4. readys'[n][m] \subseteq After
    BY <1>2 DEF ReadysCounted
  <2>5. /\ Cardinality(readys'[n][m]) <= Cardinality(After)
        /\ Cardinality(readys'[n][m]) \in Nat
    BY <1>3, <2>4, FS_Subset, FS_CardinalityType
  <2>6. Cardinality(readys'[n][m]) >= DeliverThreshold
    BY <2>1, <2>3 DEF EnoughReadies
  <2>. QED  BY <1>3, <2>5, <2>6, Finite
<1>. QED  BY <1>4, <1>5

LEMMA OInvStep == OInv /\ [OptimizedNext]_optimizedVars => OInv'
<1>. SUFFICES ASSUME OInv, [OptimizedNext]_optimizedVars PROVE OInv'
  OBVIOUS
<1>1. OptimizedTypeOK' /\ OnlySenders'
  BY OptTypeStep DEF OInv
<1>2. /\ SendsAreOwn' /\ StartHasSent' /\ EchosCounted' /\ ReadysCounted'
      /\ ReadyBackedByEchoes'
  BY OptSendStep, OptCountStep, OptBackedStep
<1>3. DeliveryBackedByReadies'
  BY <1>1, <1>2, OptDeliveryStep
<1>. QED  BY <1>1, <1>2, <1>3 DEF OInv

-----------------------------------------------------------------------------
\* The optimised handlers keep the tables that `__init__' and `init_state' set
\* up, and count only nodes of the configuration (bracha_optimized.py:52-77).
THEOREM OptimizedInvariance == OptimizedSpec => []OInv
<1>. QED  BY InitOInv, OInvStep, PTL DEF OptimizedSpec

\* Amplification and implied ECHOs (bracha_optimized.py:276-347) do not weaken
\* the quorum: a READY exists only when ReadyThreshold nodes have broadcast
\* ECHO, an ECHO only when the sender has broadcast SEND.
THEOREM AmplificationKeepsQuorum == OptimizedSpec => []ReadyBackedByEchoes
<1>1. OInv => ReadyBackedByEchoes
  BY DEF OInv
<1>. QED  BY OptimizedInvariance, <1>1, PTL

\* With the READY committee, too, a node delivers only what 2f + 1 other nodes
\* have broadcast READY for (bracha_optimized.py:340-347).
THEOREM CommitteeStillBacksDelivery == OptimizedSpec => []DeliveryBackedByReadies
<1>1. OInv => DeliveryBackedByReadies
  BY DEF OInv
<1>. QED  BY OptimizedInvariance, <1>1, PTL

-----------------------------------------------------------------------------
(***************************************************************************)
(* The phase counters.  A READY is counted with its mark.  An ECHO is      *)
(* counted with a new mark in sent_echo or in seen_messages; the sender's  *)
(* on_start, which looks at neither, has the second to itself: a sender    *)
(* has not seen its message before it echoes it.                           *)
(***************************************************************************)
ReadyCounted(n) ==
  \/ /\ phaseCount'[n]["ready"] = phaseCount[n]["ready"]
     /\ sentReady'[n] = sentReady[n]
  \/ /\ phaseCount'[n]["ready"] = phaseCount[n]["ready"] + 1
     /\ \E m \in Sender \ sentReady[n] : sentReady'[n] = sentReady[n] \cup {m}

EchoCounted(n) ==
  /\ sentEcho[n] \subseteq sentEcho'[n]
  /\ seen[n] \subseteq seen'[n]
  /\ \/ phaseCount'[n]["echo"] = phaseCount[n]["echo"]
     \/ /\ phaseCount'[n]["echo"] = phaseCount[n]["echo"] + 1
        /\ \/ sentEcho'[n] # sentEcho[n]
           \/ seen'[n] # seen[n] /\ (SingleHopSend => n \in seen'[n] \ seen[n])

LEMMA StrictlyMore ==
  ASSUME NEW S, NEW T, S \subseteq T, IsFiniteSet(T)
  PROVE  /\ Cardinality(S) \in Nat /\ Cardinality(T) \in Nat
         /\ Cardinality(S) <= Cardinality(T)
         /\ S # T => Cardinality(S) + 1 <= Cardinality(T)
BY FS_Subset, FS_CardinalityType

LEMMA CountsStayBounded ==
  ASSUME OptimizedTypeOK, OptimizedTypeOK', EchoedOnce,
         \A n \in Node : ReadyCounted(n) /\ EchoCounted(n)
  PROVE  EchoedOnce'
<1>. SUFFICES ASSUME NEW n \in Node
              PROVE  /\ phaseCount'[n]["ready"] = Cardinality(sentReady'[n])
                     /\ phaseCount'[n]["echo"] <=
                          Cardinality(sentEcho'[n]) + Cardinality(seen'[n])
                     /\ SingleHopSend =>
                          phaseCount'[n]["echo"] <=
                            Cardinality(sentEcho'[n]) + Cardinality(seen'[n] \cap {n})
  BY DEF EchoedOnce
<1>1. /\ sentReady[n] \subseteq Sender
      /\ sentEcho'[n] \subseteq Sender /\ seen'[n] \subseteq Sender
      /\ phaseCount[n]["echo"] \in Nat /\ phaseCount'[n]["echo"] \in Nat
      /\ phaseCount[n]["ready"] \in Nat
  BY DEF OptimizedTypeOK, TypeOK, Phase
<1>2. /\ IsFiniteSet(sentEcho'[n]) /\ IsFiniteSet(seen'[n])
      /\ IsFiniteSet(seen'[n] \cap {n})
  BY <1>1, Finite, FS_Subset
<1>3. /\ phaseCount[n]["ready"] = Cardinality(sentReady[n])
      /\ phaseCount[n]["echo"] <= Cardinality(sentEcho[n]) + Cardinality(seen[n])
      /\ SingleHopSend =>
           phaseCount[n]["echo"] <= Cardinality(sentEcho[n]) + Cardinality(seen[n] \cap {n})
  BY DEF EchoedOnce
<1>4. phaseCount'[n]["ready"] = Cardinality(sentReady'[n])
  BY <1>1, <1>3, CountPhase DEF ReadyCounted
<1>5. sentEcho[n] \subseteq sentEcho'[n] /\ seen[n] \subseteq seen'[n]
  BY DEF EchoCounted
<1>6. /\ Cardinality(sentEcho[n]) \in Nat /\ Cardinality(sentEcho'[n]) \in Nat
      /\ Cardinality(sentEcho[n]) <= Cardinality(sentEcho'[n])
      /\ sentEcho[n] # sentEcho'[n] =>
           Cardinality(sentEcho[n]) + 1 <= Cardinality(sentEcho'[n])
  BY <1>2, <1>5, StrictlyMore
<1>7. /\ Cardinality(seen[n]) \in Nat /\ Cardinality(seen'[n]) \in Nat
      /\ Cardinality(seen[n]) <= Cardinality(seen'[n])
      /\ seen[n] # seen'[n] => Cardinality(seen[n]) + 1 <= Cardinality(seen'[n])
  BY <1>2, <1>5, StrictlyMore
<1>8. /\ Cardinality(seen[n] \cap {n}) \in Nat /\ Cardinality(seen'[n] \cap {n}) \in Nat
      /\ Cardinality(seen[n] \cap {n}) <= Cardinality(seen'[n] \cap {n})
      /\ n \in seen'[n] \ seen[n] =>
           Cardinality(seen[n] \cap {n}) + 1 <= Cardinality(seen'[n] \cap {n})
  <2>1. seen[n] \cap {n} \subseteq seen'[n] \cap {n}
    BY <1>5
  <2>2. n \in seen'[n] \ seen[n] => seen[n] \cap {n} # seen'[n] \cap {n}
    OBVIOUS
  <2>. QED  BY <1>2, <2>1, <2>2, StrictlyMore
<1>9. \/ phaseCount'[n]["echo"] = phaseCount[n]["echo"]
      \/ /\ phaseCount'[n]["echo"] = phaseCount[n]["echo"] + 1
         /\ \/ sentEcho'[n] # sentEcho[n]
            \/ seen'[n] # seen[n] /\ (SingleHopSend => n \in seen'[n] \ seen[n])
  BY DEF EchoCounted
<1>. QED  BY <1>1, <1>3, <1>4, <1>6, <1>7, <1>8, <1>9

\* The counters and marks of the nodes that do not take the step.
Elsewhere(n) ==
  \A k \in Node \ {n} :
    /\ phaseCount'[k] = phaseCount[k]
    /\ sentReady'[k] = sentReady[k] /\ sentEcho'[k] = sentEcho[k] /\ seen'[k] = seen[k]

LEMMA CountedByOne ==
  ASSUME NEW n \in Node, Elsewhere(n), ReadyCounted(n), EchoCounted(n)
  PROVE  \A k \in Node : ReadyCounted(k) /\ EchoCounted(k)
BY DEF Elsewhere, ReadyCounted, EchoCounted

\* The ways in which the action of a node changes its counters and its marks.
EchoIsFresh(n, m) ==
  \/ m \notin sentEcho[n] /\ sentEcho' = Marked(sentEcho, n, m)
  \/ m \notin seen[n] /\ seen' = Marked(seen, n, m) /\ (SingleHopSend => m = n)

CountWay(n, m) ==
  /\ seen' = seen \/ seen' = Marked(seen, n, m)
  /\ sentEcho' = sentEcho \/ sentEcho' = Marked(sentEcho, n, m)
  /\ \/ UNCHANGED sentReady /\ (UNCHANGED phaseCount \/ Broadcast(n, "send", m))
     \/ UNCHANGED sentReady /\ Broadcast(n, "echo", m) /\ EchoIsFresh(n, m)
     \/ /\ m \notin sentReady[n] /\ sentReady' = Marked(sentReady, n, m)
        /\ Broadcast(n, "ready", m)

LEMMA CountWays ==
  ASSUME OptimizedTypeOK, NEW n \in Node, NEW m \in Sender, CountWay(n, m)
  PROVE  \A k \in Node : ReadyCounted(k) /\ EchoCounted(k)
<1>1. /\ phaseCount \in [Node -> [Phase -> Nat]]
      /\ seen \in Marks /\ sentReady \in Marks /\ sentEcho \in Marks
  BY DEF OptimizedTypeOK, TypeOK, Marks
<1>2. ASSUME NEW p \in Phase, Broadcast(n, p, m)
      PROVE  /\ phaseCount'[n][p] = phaseCount[n][p] + 1
             /\ \A q \in Phase \ {p} : phaseCount'[n][q] = phaseCount[n][q]
             /\ \A k \in Node \ {n} : phaseCount'[k] = phaseCount[k]
  <2>1. phaseCount' = [phaseCount EXCEPT ![n][p] = @ + 1]
    BY <1>2 DEF Broadcast
  <2>. QED  BY <1>1, <2>1
<1>3. /\ \A k \in Node \ {n} : seen'[k] = seen[k]
      /\ \/ seen'[n] = seen[n]
         \/ seen' = Marked(seen, n, m) /\ seen'[n] = seen[n] \cup {m}
  BY <1>1, Marking DEF CountWay
<1>4. /\ \A k \in Node \ {n} : sentEcho'[k] = sentEcho[k]
      /\ \/ sentEcho'[n] = sentEcho[n]
         \/ sentEcho' = Marked(sentEcho, n, m) /\ sentEcho'[n] = sentEcho[n] \cup {m}
  BY <1>1, Marking DEF CountWay
<1>5. "echo" \in Phase /\ "ready" \in Phase /\ "send" \in Phase
  BY DEF Phase
<1>6. sentEcho[n] \subseteq sentEcho'[n] /\ seen[n] \subseteq seen'[n]
  BY <1>3, <1>4
<1>7. CASE UNCHANGED sentReady /\ (UNCHANGED phaseCount \/ Broadcast(n, "send", m))
  <2>1. /\ phaseCount'[n]["echo"] = phaseCount[n]["echo"]
        /\ phaseCount'[n]["ready"] = phaseCount[n]["ready"]
        /\ \A k \in Node \ {n} : phaseCount'[k] = phaseCount[k]
    BY <1>2, <1>5, <1>7
  <2>. QED
    BY <1>3, <1>4, <1>6, <1>7, <2>1 DEF ReadyCounted, EchoCounted
<1>8. CASE UNCHANGED sentReady /\ Broadcast(n, "echo", m) /\ EchoIsFresh(n, m)
  <2>1. /\ phaseCount'[n]["echo"] = phaseCount[n]["echo"] + 1
        /\ phaseCount'[n]["ready"] = phaseCount[n]["ready"]
        /\ \A k \in Node \ {n} : phaseCount'[k] = phaseCount[k]
    BY <1>2, <1>5, <1>8
  <2>2. \/ m \notin sentEcho[n] /\ sentEcho'[n] = sentEcho[n] \cup {m}
        \/ m \notin seen[n] /\ seen'[n] = seen[n] \cup {m} /\ (SingleHopSend => m = n)
    BY <1>1, <1>8, Marking DEF EchoIsFresh
  <2>3. EchoCounted(n)
    <3>1. \/ sentEcho'[n] # sentEcho[n]
          \/ seen'[n] # seen[n] /\ (SingleHopSend => n \in seen'[n] \ seen[n])
      BY <2>2
    <3>. QED  BY <1>6, <2>1, <3>1 DEF EchoCounted
  <2>. QED
    BY <1>3, <1>4, <1>8, <2>1, <2>3 DEF ReadyCounted, EchoCounted
<1>9. CASE /\ m \notin sentReady[n] /\ sentReady' = Marked(sentReady, n, m)
           /\ Broadcast(n, "ready", m)
  <2>1. /\ phaseCount'[n]["echo"] = phaseCount[n]["echo"]
        /\ phaseCount'[n]["ready"] = phaseCount[n]["ready"] + 1
        /\ \A k \in Node \ {n} : phaseCount'[k] = phaseCount[k]
    BY <1>2, <1>5, <1>9
  <2>2. /\ sentReady'[n] = sentReady[n] \cup {m}
        /\ \A k \in Node \ {n} : sentReady'[k] = sentReady[k]
    BY <1>1, <1>9, Marking
  <2>3. ReadyCounted(n) /\ EchoCounted(n)
    BY <1>6, <1>9, <2>1, <2>2 DEF ReadyCounted, EchoCounted
  <2>. QED
    BY <1>3, <1>4, <2>1, <2>2, <2>3 DEF ReadyCounted, EchoCounted
<1>. QED  BY <1>7, <1>8, <1>9 DEF CountWay

LEMMA OptCountWays ==
  ASSUME OInv, NotSeenYet, OptimizedNext
  PROVE  \E n \in Node : \/ UNCHANGED <<phaseCount, seen, sentEcho, sentReady>>
                         \/ \E m \in Sender : CountWay(n, m)
<1>0. TypeOK
  BY DEF OInv, OptimizedTypeOK
<1>1. ASSUME NEW n \in Node, OptStartSend(n)
      PROVE  n \in Sender /\ CountWay(n, n)
  BY <1>1 DEF OptStartSend, CountWay, nodeVars
<1>2. ASSUME NEW n \in Node, OptStartEcho(n)
      PROVE  n \in Sender /\ CountWay(n, n)
  <2>1. n \in Sender /\ n \notin seen[n]
    BY <1>2 DEF OptStartEcho, OInv, OnlySenders, NotSeenYet
  <2>2. /\ seen' = Marked(seen, n, n) /\ UNCHANGED sentReady
        /\ \/ Broadcast(n, "echo", n) /\ sentEcho' = Marked(sentEcho, n, n)
           \/ UNCHANGED <<sentEcho, phaseCount>>
    BY <1>2 DEF OptStartEcho, Echoes, NoEcho, NoBroadcast, Marked
  <2>. QED  BY <2>1, <2>2 DEF CountWay, EchoIsFresh
<1>3. ASSUME NEW n \in Node, NEW d \in dolev, OptSend(n, d)
      PROVE  d.msg \in Sender /\ CountWay(n, d.msg)
  <2>1. d.msg \in Sender
    BY <1>0, <1>3, OptHears DEF OptSend, Phase
  <2>2. /\ seen' = Marked(seen, n, d.msg) /\ UNCHANGED sentReady
        /\ \/ /\ Broadcast(n, "echo", d.msg) /\ sentEcho' = Marked(sentEcho, n, d.msg)
              /\ d.msg \notin seen[n] /\ EchoesOnSend(n, d.msg)
           \/ UNCHANGED <<sentEcho, phaseCount>>
    BY <1>3 DEF OptSend, Echoes, NoEcho, NoBroadcast, Marked
  <2>. QED  BY <2>1, <2>2 DEF CountWay, EchoIsFresh, EchoesOnSend
<1>4. ASSUME NEW n \in Node, NEW m, NEW S, ReadyCheck(n, m, S),
             UNCHANGED <<seen, sentEcho>>
      PROVE  CountWay(n, m)
  BY <1>4 DEF ReadyCheck, NoBroadcast, CountWay, Marked
<1>5. ASSUME NEW n \in Node, NEW d \in dolev, OptEcho(n, d)
      PROVE  d.msg \in Sender /\ CountWay(n, d.msg)
  <2>1. d.msg \in Sender
    BY <1>0, <1>5, OptHears DEF OptEcho, Phase
  <2>2. CASE AmplifiesEcho(n, d.msg, echos[n][d.msg] \cup {d.src})
    <3>1. /\ d.msg \notin sentEcho[n] /\ UNCHANGED <<seen, sentReady>>
          /\ Broadcast(n, "echo", d.msg) /\ sentEcho' = Marked(sentEcho, n, d.msg)
      BY <1>5, <2>2 DEF OptEcho, AmplifiesEcho, Echoes, Marked
    <3>. QED  BY <2>1, <3>1 DEF CountWay, EchoIsFresh
  <2>3. CASE ~AmplifiesEcho(n, d.msg, echos[n][d.msg] \cup {d.src})
    BY <1>4, <1>5, <2>1, <2>3 DEF OptEcho
  <2>. QED  BY <2>2, <2>3
<1>6. ASSUME NEW n \in Node, NEW d \in dolev, OptReady(n, d)
      PROVE  d.msg \in Sender /\ CountWay(n, d.msg)
  <2>1. d.msg \in Sender
    BY <1>0, <1>6, OptHears DEF OptReady, Phase
  <2>2. /\ UNCHANGED seen
        /\ \/ sentEcho' = sentEcho
           \/ d.msg \notin sentEcho[n] /\ sentEcho' = Marked(sentEcho, n, d.msg)
    BY <1>6 DEF OptReady, Marked
  <2>3. \/ UNCHANGED <<sentReady, phaseCount>>
        \/ /\ UNCHANGED sentReady /\ Broadcast(n, "echo", d.msg)
           /\ d.msg \notin sentEcho[n] /\ sentEcho' = Marked(sentEcho, n, d.msg)
        \/ /\ d.msg \notin sentReady[n] /\ sentReady' = Marked(sentReady, n, d.msg)
           /\ Broadcast(n, "ready", d.msg)
    BY <1>6 DEF OptReady, Amplifies, NoBroadcast, Marked
  <2>. QED  BY <2>1, <2>2, <2>3 DEF CountWay, EchoIsFresh
<1>7. ASSUME NEW n \in Node, NEW m \in Sender, OptEchoResume(n, m)
      PROVE  CountWay(n, m)
  BY <1>4, <1>7 DEF OptEchoResume
<1>8. ASSUME NEW n \in Node, NEW m, OptStart(n) \/ OptReadyResume(n, m)
      PROVE  UNCHANGED <<phaseCount, seen, sentEcho, sentReady>>
  BY <1>8 DEF OptStart, Start, OptReadyResume, NoBroadcast, nodeVars
<1>. QED  BY <1>1, <1>2, <1>3, <1>5, <1>6, <1>7, <1>8 DEF OptimizedNext

\* A sender's own message is not among the SENDs that it receives.
LEMMA OptNotSeenStep ==
  ASSUME OInv, NotSeenYet, [OptimizedNext]_optimizedVars PROVE NotSeenYet'
<1>0. TypeOK /\ seen \in Marks
  BY DEF OInv, OptimizedTypeOK, TypeOK, Marks
<1>. SUFFICES ASSUME NEW k \in Node, onStart'[k] \in {"idle", "sending"}, k \in seen'[k]
              PROVE  FALSE
  BY DEF NotSeenYet
<1>1. CASE UNCHANGED <<onStart, seen>>
  BY <1>1 DEF NotSeenYet
<1>2. ASSUME NEW n \in Node, OptStart(n) \/ OptStartSend(n) PROVE FALSE
  <2>1. UNCHANGED seen /\ onStart[n] = "idle" /\ \A i \in Node \ {n} : onStart'[i] = onStart[i]
    BY <1>0, <1>2 DEF OptStart, Start, OptStartSend, nodeVars, TypeOK
  <2>. QED  BY <2>1 DEF NotSeenYet
<1>3. ASSUME NEW n \in Node, OptStartEcho(n) PROVE FALSE
  <2>1. /\ onStart'[n] = "done" /\ \A i \in Node \ {n} : onStart'[i] = onStart[i]
        /\ \A i \in Node \ {n} : seen'[i] = seen[i]
    BY <1>0, <1>3, Marking DEF OptStartEcho, Marked, Marks, TypeOK
  <2>. QED  BY <2>1 DEF NotSeenYet
<1>4. ASSUME NEW n \in Node, NEW d \in dolev, OptSend(n, d) PROVE FALSE
  <2>1. /\ d.msg \in Sender /\ d.src # n /\ UNCHANGED onStart
        /\ d.src \in Broadcasters("send", d.msg)
    BY <1>0, <1>4, OptHears DEF OptSend, Phase
  <2>2. d.msg # n
    BY <2>1 DEF OInv, SendsAreOwn, Broadcasters
  <2>3. seen' = Marked(seen, n, d.msg)
    BY <1>4 DEF OptSend, Marked
  <2>. QED  BY <1>0, <2>1, <2>2, <2>3, Marking DEF NotSeenYet
<1>5. ASSUME NEW n \in Node, NEW d \in dolev, OptEcho(n, d) \/ OptReady(n, d)
      PROVE  UNCHANGED <<onStart, seen>>
  BY <1>5 DEF OptEcho, OptReady, OptReceives
<1>6. ASSUME NEW n \in Node, NEW m \in Sender, OptEchoResume(n, m) \/ OptReadyResume(n, m)
      PROVE  UNCHANGED <<onStart, seen>>
  BY <1>6 DEF OptEchoResume, OptReadyResume, nodeVars
<1>7. CASE UNCHANGED optimizedVars
  BY <1>1, <1>7 DEF optimizedVars, vars, nodeVars
<1>. QED  BY <1>1, <1>2, <1>3, <1>4, <1>5, <1>6, <1>7 DEF OptimizedNext

CountInv == OInv /\ NotSeenYet /\ EchoedOnce

LEMMA InitCountInv == OptimizedInit => CountInv
<1>. SUFFICES ASSUME OptimizedInit PROVE CountInv
  OBVIOUS
<1>1. NotSeenYet
  BY DEF OptimizedInit, Init, NotSeenYet
<1>2. EchoedOnce
  BY FS_EmptySet DEF OptimizedInit, Init, EchoedOnce, Phase
<1>. QED  BY <1>1, <1>2, InitOInv DEF CountInv

LEMMA CountInvStep == CountInv /\ [OptimizedNext]_optimizedVars => CountInv'
<1>. SUFFICES ASSUME CountInv, [OptimizedNext]_optimizedVars PROVE CountInv'
  OBVIOUS
<1>1. OInv' /\ NotSeenYet'
  BY OInvStep, OptNotSeenStep DEF CountInv
<1>2. EchoedOnce'
  <2>1. CASE UNCHANGED <<phaseCount, seen, sentEcho, sentReady>>
    BY <2>1 DEF CountInv, EchoedOnce
  <2>2. ASSUME NEW n \in Node, NEW m \in Sender, CountWay(n, m) PROVE EchoedOnce'
    BY <1>1, <2>2, CountWays, CountsStayBounded DEF CountInv, OInv
  <2>3. CASE UNCHANGED optimizedVars
    BY <2>1, <2>3 DEF optimizedVars, vars, nodeVars
  <2>. QED  BY <2>1, <2>2, <2>3, OptCountWays DEF CountInv
<1>. QED  BY <1>1, <1>2 DEF CountInv

\* ECHO and READY are broadcast no more often than their marks allow
\* (bracha_optimized.py:201-205, 266-347), although a SEND, the ECHOs, the READYs
\* and on_start may each give rise to the ECHO.
THEOREM EchoesAreCountedOnce == OptimizedSpec => []EchoedOnce
BY InitCountInv, CountInvStep, PTL DEF CountInv, OptimizedSpec

-----------------------------------------------------------------------------
(***************************************************************************)
(* Totality.  What a node owes for a message, given what it has heard:     *)
(* nothing is left undone unless a handler still has to go on.  A node     *)
(* looks at its ECHO quorum only when it hears an ECHO, so its own ECHO,   *)
(* which it may count at other times, is left out of what it has heard.    *)
(***************************************************************************)
HeardIsCounted(n, m) ==
  \A d \in got[n] : d.msg = m =>
    /\ d.phase = "send" => m \in seen[n]
    /\ d.phase = "echo" => d.src \in echos[n][m]
    /\ d.phase = "ready" => d.src \in readys[n][m]

SenderHasSent(n, m) ==
  n = m /\ onStart[n] = "done" => m \in seen[n] /\ n \in Broadcasters("send", m)

SeenIsEchoed(n, m) ==
  m \in seen[n] /\ (MayEcho(n, m) \/ (SingleHopSend /\ n # m)) => m \in sentEcho[n]

EchoIsMarked(n, m) == n \in Broadcasters("echo", m) => m \in sentEcho[n]

\* Only a READY lets a node mark an ECHO that it does not broadcast.
MarkIsEchoed(n, m) ==
  m \in sentEcho[n] =>
    \/ n \in Broadcasters("echo", m)
    \/ /\ EchoAmplification
       /\ \/ ~MayEcho(n, m) /\ Broadcasters("ready", m) # {}
          \/ Cardinality(readys[n][m]) >= F + 1

MarkIsReadied(n, m) == m \in sentReady[n] <=> n \in Broadcasters("ready", m)

EchoIsAmplified(n, m) ==
  EchoAmplification /\ MayEcho(n, m) /\ Cardinality(echos[n][m] \ {n}) >= F + 1 =>
    m \in sentEcho[n]

QuorumIsReady(n, m) ==
  MayReady(n, m) /\ EnoughEchoes(echos[n][m] \ {n}) =>
    m \in sentReady[n] \/ <<"echo", m>> \in afterEcho[n]

ReadyIsAmplified(n, m) ==
  MayReady(n, m) /\ Cardinality(readys[n][m]) >= F + 1 => m \in sentReady[n]

ReadiesDeliver(n, m) ==
  EnoughReadies(readys[n][m]) =>
    m \in delivered[n] \/ m \in resuming[n] \/ <<"ready", m>> \in afterEcho[n]

Owed(n, m) ==
  /\ HeardIsCounted(n, m)
  /\ SenderHasSent(n, m)
  /\ SeenIsEchoed(n, m)
  /\ EchoIsMarked(n, m)
  /\ MarkIsEchoed(n, m)
  /\ MarkIsReadied(n, m)
  /\ EchoIsAmplified(n, m)
  /\ QuorumIsReady(n, m)
  /\ ReadyIsAmplified(n, m)
  /\ ReadiesDeliver(n, m)

AllOwed == \A n \in Node, m \in Sender : Owed(n, m)

LEMMA InitAllOwed == OptimizedInit => AllOwed
<1>. SUFFICES ASSUME OptimizedInit, NEW n \in Node, NEW m \in Sender PROVE Owed(n, m)
  BY DEF AllOwed
<1>1. /\ onStart[m] # "done" \/ m \notin Sender
      /\ seen[n] = {} /\ sentEcho[n] = {} /\ sentReady[n] = {} /\ got[n] = {}
      /\ echos[n][m] = {} /\ readys[n][m] = {} /\ dolev = {}
  BY BrachaAssumption DEF OptimizedInit, Init, InitState
<1>2. Cardinality({}) = 0 /\ {} \ {n} = {}
  BY FS_EmptySet
<1>3. ReadyThreshold > 0 /\ DeliverThreshold > 0 /\ F + 1 > 0
  BY Finite, BrachaAssumption
<1>4. HeardIsCounted(n, m) /\ SenderHasSent(n, m) /\ SeenIsEchoed(n, m)
  BY <1>1 DEF HeardIsCounted, SenderHasSent, SeenIsEchoed
<1>5. EchoIsMarked(n, m) /\ MarkIsEchoed(n, m) /\ MarkIsReadied(n, m)
  BY <1>1 DEF EchoIsMarked, MarkIsEchoed, MarkIsReadied, Broadcasters
<1>6. EchoIsAmplified(n, m) /\ QuorumIsReady(n, m)
  BY <1>1, <1>2, <1>3, BrachaAssumption, Finite DEF EchoIsAmplified, QuorumIsReady, EnoughEchoes
<1>7. ReadyIsAmplified(n, m) /\ ReadiesDeliver(n, m)
  BY <1>1, <1>2, <1>3, BrachaAssumption, Finite DEF ReadyIsAmplified, ReadiesDeliver, EnoughReadies
<1>. QED  BY <1>4, <1>5, <1>6, <1>7 DEF Owed

\* Where a node holds nothing new about a message it owes nothing new.
Unmoved(n, m) ==
  /\ n = m => onStart'[n] = onStart[n]
  /\ m \in seen'[n] <=> m \in seen[n]
  /\ m \in sentEcho'[n] <=> m \in sentEcho[n]
  /\ m \in sentReady'[n] <=> m \in sentReady[n]
  /\ m \in delivered'[n] <=> m \in delivered[n]
  /\ m \in resuming'[n] <=> m \in resuming[n]
  /\ \A h \in {"echo", "ready"} : <<h, m>> \in afterEcho'[n] <=> <<h, m>> \in afterEcho[n]
  /\ echos'[n][m] = echos[n][m]
  /\ readys'[n][m] = readys[n][m]
  /\ \A d \in got'[n] : d.msg = m => d \in got[n]
  /\ n \in Broadcasters("echo", m)' => n \in Broadcasters("echo", m)
  /\ n \in Broadcasters("ready", m)' => n \in Broadcasters("ready", m)

LEMMA UnmovedOwes ==
  ASSUME NEW n \in Node, NEW m \in Sender, Owed(n, m), Unmoved(n, m), dolev \subseteq dolev'
  PROVE  Owed(n, m)'
<1>1. \A p : Broadcasters(p, m) \subseteq Broadcasters(p, m)'
  BY DEF Broadcasters
<1>. USE DEF Owed, Unmoved
<1>2. HeardIsCounted(n, m)'
  BY DEF HeardIsCounted
<1>3. SenderHasSent(n, m)' /\ SeenIsEchoed(n, m)'
  BY <1>1 DEF SenderHasSent, SeenIsEchoed
<1>4. EchoIsMarked(n, m)' /\ MarkIsReadied(n, m)'
  BY <1>1 DEF EchoIsMarked, MarkIsReadied
<1>5. MarkIsEchoed(n, m)'
  BY <1>1 DEF MarkIsEchoed
<1>6. EchoIsAmplified(n, m)' /\ QuorumIsReady(n, m)'
  BY DEF EchoIsAmplified, QuorumIsReady
<1>7. ReadyIsAmplified(n, m)' /\ ReadiesDeliver(n, m)'
  BY DEF ReadyIsAmplified, ReadiesDeliver
<1>. QED  BY <1>2, <1>3, <1>4, <1>5, <1>6, <1>7

\* A step of node n about message m.
OwnMark(before, after, n, m) ==
  after \in {before, Marked(before, n, m), [before EXCEPT ![n] = @ \ {m}]}

OwnCount(before, after, n, m) ==
  \E S \in SUBSET Node : after \in {before, [before EXCEPT ![n][m] = S]}

About(n, m) ==
  /\ OwnMark(seen, seen', n, m) /\ OwnMark(sentEcho, sentEcho', n, m)
  /\ OwnMark(sentReady, sentReady', n, m) /\ OwnMark(delivered, delivered', n, m)
  /\ OwnMark(resuming, resuming', n, m)
  /\ OwnCount(echos, echos', n, m) /\ OwnCount(readys, readys', n, m)
  /\ \E h \in {"echo", "ready"} :
       afterEcho' \in {afterEcho, [afterEcho EXCEPT ![n] = @ \cup {<<h, m>>}],
                       [afterEcho EXCEPT ![n] = @ \ {<<h, m>>}]}
  /\ \E d \in DMsg : d.msg = m /\ got' \in {got, [got EXCEPT ![n] = @ \cup {d}]}
  /\ \E p \in Phase : dolev' \in {dolev, dolev \cup {[phase |-> p, msg |-> m, src |-> n]}}
  /\ \A k \in Node : k # n \/ k # m => onStart'[k] = onStart[k]

LEMMA MarkElsewhere ==
  ASSUME NEW before \in Marks, NEW after, NEW n \in Node, NEW m \in Sender,
         OwnMark(before, after, n, m),
         NEW i \in Node, NEW j \in Sender, i # n \/ j # m
  PROVE  j \in after[i] <=> j \in before[i]
BY DEF OwnMark, Marked, Marks

LEMMA CountElsewhere ==
  ASSUME NEW before \in Tables, NEW after, NEW n \in Node, NEW m \in Sender,
         OwnCount(before, after, n, m),
         NEW i \in Node, NEW j \in Sender, i # n \/ j # m
  PROVE  after[i][j] = before[i][j]
BY DEF OwnCount, Tables

LEMMA AboutUnmoved ==
  ASSUME OptTypes, NEW n \in Node, NEW m \in Sender, About(n, m),
         NEW i \in Node, NEW j \in Sender, i # n \/ j # m
  PROVE  Unmoved(i, j)
<1>1. /\ j \in seen'[i] <=> j \in seen[i]
      /\ j \in sentEcho'[i] <=> j \in sentEcho[i]
      /\ j \in sentReady'[i] <=> j \in sentReady[i]
      /\ j \in delivered'[i] <=> j \in delivered[i]
      /\ j \in resuming'[i] <=> j \in resuming[i]
  BY MarkElsewhere DEF About, OptTypes
<1>2. echos'[i][j] = echos[i][j] /\ readys'[i][j] = readys[i][j]
  BY CountElsewhere DEF About, OptTypes
<1>3. \A h \in {"echo", "ready"} : <<h, j>> \in afterEcho'[i] <=> <<h, j>> \in afterEcho[i]
  <2>1. PICK g \in {"echo", "ready"} :
          afterEcho' \in {afterEcho, [afterEcho EXCEPT ![n] = @ \cup {<<g, m>>}],
                          [afterEcho EXCEPT ![n] = @ \ {<<g, m>>}]}
    BY DEF About
  <2>. QED  BY <2>1 DEF OptTypes
<1>4. \A d \in got'[i] : d.msg = j => d \in got[i]
  <2>1. PICK d \in DMsg : d.msg = m /\ got' \in {got, [got EXCEPT ![n] = @ \cup {d}]}
    BY DEF About
  <2>. QED  BY <2>1 DEF OptTypes
<1>5. /\ i \in Broadcasters("echo", j)' => i \in Broadcasters("echo", j)
      /\ i \in Broadcasters("ready", j)' => i \in Broadcasters("ready", j)
  BY DEF About, Broadcasters
<1>6. i = j => onStart'[i] = onStart[i]
  BY DEF About
<1>. QED  BY <1>1, <1>2, <1>3, <1>4, <1>5, <1>6 DEF Unmoved

LEMMA AboutOwes ==
  ASSUME OptTypes, AllOwed, NEW n \in Node, NEW m \in Sender, About(n, m), Owed(n, m)'
  PROVE  AllOwed'
<1>1. dolev \subseteq dolev'
  BY DEF About
<1>2. ASSUME NEW i \in Node, NEW j \in Sender, i # n \/ j # m PROVE Owed(i, j)'
  BY <1>1, <1>2, AboutUnmoved, UnmovedOwes DEF AllOwed
<1>. QED  BY <1>2 DEF AllOwed

LEMMA SetsAndOneMore ==
  ASSUME NEW S \in SUBSET Node, NEW n
  PROVE  /\ Cardinality(S) \in Nat /\ Cardinality(S \ {n}) \in Nat
         /\ Cardinality(S \ {n}) <= Cardinality(S)
         /\ (S \cup {n}) \ {n} = S \ {n}
BY Finite, FS_Subset, FS_CardinalityType

\* The parts of what is owed that a step leaves as they are.
LEMMA OwedBySets ==
  ASSUME NEW n \in Node, NEW m \in Sender, Owed(n, m), dolev \subseteq dolev'
  PROVE  /\ /\ \A d \in got'[n] : d.msg = m => d \in got[n]
            /\ m \in seen[n] => m \in seen'[n]
            /\ echos[n][m] \subseteq echos'[n][m]
            /\ readys[n][m] \subseteq readys'[n][m]
            => HeardIsCounted(n, m)'
         /\ /\ n = m => onStart'[n] = onStart[n]
            /\ m \in seen[n] => m \in seen'[n]
            => SenderHasSent(n, m)'
         /\ /\ m \in seen'[n] <=> m \in seen[n]
            /\ m \in sentEcho[n] => m \in sentEcho'[n]
            => SeenIsEchoed(n, m)'
         /\ /\ n \in Broadcasters("echo", m)' => n \in Broadcasters("echo", m)
            /\ m \in sentEcho[n] => m \in sentEcho'[n]
            => EchoIsMarked(n, m)'
         /\ /\ m \in sentEcho'[n] <=> m \in sentEcho[n]
            /\ readys'[n][m] = readys[n][m]
            => MarkIsEchoed(n, m)'
         /\ /\ m \in sentReady'[n] <=> m \in sentReady[n]
            /\ n \in Broadcasters("ready", m)' => n \in Broadcasters("ready", m)
            => MarkIsReadied(n, m)'
         /\ /\ m \in sentEcho[n] => m \in sentEcho'[n]
            /\ echos'[n][m] \ {n} = echos[n][m] \ {n}
            => EchoIsAmplified(n, m)'
         /\ /\ m \in sentReady[n] => m \in sentReady'[n]
            /\ <<"echo", m>> \in afterEcho[n] => <<"echo", m>> \in afterEcho'[n]
            /\ echos'[n][m] \ {n} = echos[n][m] \ {n}
            => QuorumIsReady(n, m)'
         /\ /\ m \in sentReady[n] => m \in sentReady'[n]
            /\ readys'[n][m] = readys[n][m]
            => ReadyIsAmplified(n, m)'
         /\ /\ m \in delivered[n] => m \in delivered'[n]
            /\ m \in resuming[n] => m \in resuming'[n]
            /\ <<"ready", m>> \in afterEcho[n] => <<"ready", m>> \in afterEcho'[n]
            /\ readys'[n][m] = readys[n][m]
            => ReadiesDeliver(n, m)'
<1>1. \A p : Broadcasters(p, m) \subseteq Broadcasters(p, m)'
  BY DEF Broadcasters
<1>2. ASSUME \A d \in got'[n] : d.msg = m => d \in got[n],
             m \in seen[n] => m \in seen'[n],
             echos[n][m] \subseteq echos'[n][m], readys[n][m] \subseteq readys'[n][m]
      PROVE  HeardIsCounted(n, m)'
  BY <1>2 DEF Owed, HeardIsCounted
<1>3. ASSUME n = m => onStart'[n] = onStart[n], m \in seen[n] => m \in seen'[n]
      PROVE  SenderHasSent(n, m)'
  BY <1>1, <1>3 DEF Owed, SenderHasSent
<1>4. ASSUME m \in seen'[n] <=> m \in seen[n], m \in sentEcho[n] => m \in sentEcho'[n]
      PROVE  SeenIsEchoed(n, m)'
  BY <1>4 DEF Owed, SeenIsEchoed
<1>5. ASSUME n \in Broadcasters("echo", m)' => n \in Broadcasters("echo", m),
             m \in sentEcho[n] => m \in sentEcho'[n]
      PROVE  EchoIsMarked(n, m)'
  BY <1>5 DEF Owed, EchoIsMarked
<1>6. ASSUME m \in sentEcho'[n] <=> m \in sentEcho[n], readys'[n][m] = readys[n][m]
      PROVE  MarkIsEchoed(n, m)'
  BY <1>1, <1>6 DEF Owed, MarkIsEchoed
<1>7. ASSUME m \in sentReady'[n] <=> m \in sentReady[n],
             n \in Broadcasters("ready", m)' => n \in Broadcasters("ready", m)
      PROVE  MarkIsReadied(n, m)'
  BY <1>1, <1>7 DEF Owed, MarkIsReadied
<1>8. ASSUME m \in sentEcho[n] => m \in sentEcho'[n],
             echos'[n][m] \ {n} = echos[n][m] \ {n}
      PROVE  EchoIsAmplified(n, m)'
  BY <1>8 DEF Owed, EchoIsAmplified
<1>9. ASSUME m \in sentReady[n] => m \in sentReady'[n],
             <<"echo", m>> \in afterEcho[n] => <<"echo", m>> \in afterEcho'[n],
             echos'[n][m] \ {n} = echos[n][m] \ {n}
      PROVE  QuorumIsReady(n, m)'
  BY <1>9 DEF Owed, QuorumIsReady
<1>10. ASSUME m \in sentReady[n] => m \in sentReady'[n], readys'[n][m] = readys[n][m]
       PROVE  ReadyIsAmplified(n, m)'
  BY <1>10 DEF Owed, ReadyIsAmplified
<1>11. ASSUME m \in delivered[n] => m \in delivered'[n],
              m \in resuming[n] => m \in resuming'[n],
              <<"ready", m>> \in afterEcho[n] => <<"ready", m>> \in afterEcho'[n],
              readys'[n][m] = readys[n][m]
       PROVE  ReadiesDeliver(n, m)'
  BY <1>11 DEF Owed, ReadiesDeliver
<1>. QED  BY <1>2, <1>3, <1>4, <1>5, <1>6, <1>7, <1>8, <1>9, <1>10, <1>11

\* What the sets of a node hold of a message after a step.
LEMMA MarkNow ==
  ASSUME NEW before \in Marks, NEW n \in Node, NEW m \in Sender
  PROVE  /\ m \in Marked(before, n, m)[n]
         /\ \A k : k \in Marked(before, n, m)[n] <=> k \in before[n] \/ k = m
BY DEF Marked, Marks

LEMMA StartOwes ==
  ASSUME OInv, AllOwed, NEW n \in Node, OptStart(n) \/ OptStartSend(n) \/ OptStartEcho(n)
  PROVE  AllOwed'
<1>0. OptTypes
  BY OptTypesMean DEF OInv
<1>1. CASE OptStart(n)
  <2>1. ASSUME NEW i \in Node, NEW j \in Sender PROVE Unmoved(i, j)
    <3>1. i = j => onStart'[i] = onStart[i]
      BY <1>0, <1>1 DEF OptStart, Start, OptTypes
    <3>. QED
      BY <1>1, <3>1
      DEF OptStart, Start, NoBroadcast, nodeVars, deliveryVars, Unmoved, Broadcasters
  <2>2. dolev' = dolev
    BY <1>1 DEF OptStart, Start, NoBroadcast
  <2>. QED  BY <2>1, <2>2, UnmovedOwes DEF AllOwed
<1>2. CASE OptStartSend(n)
  <2>1. n \in Sender /\ onStart[n] = "idle" /\ onStart' = [onStart EXCEPT ![n] = "sending"]
    BY <1>2 DEF OptStartSend
  <2>2. /\ dolev' = dolev \cup {[phase |-> "send", msg |-> n, src |-> n]}
        /\ seen' = seen /\ echos' = echos /\ readys' = readys /\ sentReady' = sentReady
        /\ delivered' = delivered /\ resuming' = resuming /\ got' = got
        /\ sentEcho' = sentEcho /\ afterEcho' = afterEcho
    BY <1>2 DEF OptStartSend, Broadcast, nodeVars, deliveryVars
  <2>3. \A i \in Node, j \in Sender :
          /\ i \in Broadcasters("echo", j)' => i \in Broadcasters("echo", j)
          /\ i \in Broadcasters("ready", j)' => i \in Broadcasters("ready", j)
    BY <2>2 DEF Broadcasters
  <2>4. ASSUME NEW i \in Node, NEW j \in Sender, i # n \/ j # n PROVE Unmoved(i, j)
    <3>1. i = j => onStart'[i] = onStart[i]
      BY <1>0, <2>1, <2>4 DEF OptTypes
    <3>. QED  BY <2>2, <2>3, <3>1 DEF Unmoved
  <2>5. Owed(n, n)'
    <3>1. Owed(n, n) /\ dolev \subseteq dolev' /\ onStart'[n] = "sending"
      BY <1>0, <2>1, <2>2 DEF AllOwed, OptTypes
    <3>2. SenderHasSent(n, n)'
      BY <3>1 DEF SenderHasSent
    <3>. QED  BY <2>1, <2>2, <2>3, <3>1, <3>2, OwedBySets DEF Owed
  <2>. QED  BY <2>2, <2>4, <2>5, UnmovedOwes DEF AllOwed
<1>3. CASE OptStartEcho(n)
  <2>1. /\ n \in Sender /\ onStart' = [onStart EXCEPT ![n] = "done"]
        /\ n \in Broadcasters("send", n)
    BY <1>3 DEF OptStartEcho, OInv, OnlySenders, StartHasSent
  <2>2. /\ seen' = Marked(seen, n, n) /\ readys' = readys /\ sentReady' = sentReady
        /\ delivered' = delivered /\ resuming' = resuming /\ got' = got
        /\ afterEcho' = afterEcho
    BY <1>3 DEF OptStartEcho, Marked, deliveryVars
  <2>3. \/ /\ MayEcho(n, n) /\ echos' = [echos EXCEPT ![n][n] = @ \cup {n}]
           /\ sentEcho' = Marked(sentEcho, n, n)
           /\ dolev' = dolev \cup {[phase |-> "echo", msg |-> n, src |-> n]}
        \/ ~MayEcho(n, n) /\ echos' = echos /\ sentEcho' = sentEcho /\ dolev' = dolev
    BY <1>3 DEF OptStartEcho, Echoes, NoEcho, Broadcast, NoBroadcast, Marked
  <2>4. echos[n][n] \in SUBSET Node /\ echos \in Tables
    BY <1>0, <2>1 DEF OptTypes, Tables
  <2>5. /\ echos[n][n] \subseteq echos'[n][n]
        /\ echos'[n][n] \ {n} = echos[n][n] \ {n}
    BY <2>1, <2>3, <2>4 DEF Tables
  <2>6. About(n, n)
    <3>1. OwnCount(echos, echos', n, n)
      BY <2>3, <2>4 DEF OwnCount
    <3>2. OwnCount(readys, readys', n, n)
      BY <2>2 DEF OwnCount
    <3>3. \E p \in Phase : dolev' \in {dolev, dolev \cup {[phase |-> p, msg |-> n, src |-> n]}}
      BY <2>3 DEF Phase
    <3>4. \E d \in DMsg : d.msg = n /\ got' \in {got, [got EXCEPT ![n] = @ \cup {d}]}
      <4>1. [phase |-> "echo", msg |-> n, src |-> n] \in DMsg
        BY <2>1 DEF DMsg, Phase
      <4>. QED  BY <2>2, <4>1
    <3>5. \A k \in Node : k # n \/ k # n => onStart'[k] = onStart[k]
      BY <1>0, <2>1 DEF OptTypes
    <3>. QED
      BY <2>2, <2>3, <3>1, <3>2, <3>3, <3>4, <3>5 DEF About, OwnMark
  <2>7. Owed(n, n)'
    <3>1. Owed(n, n) /\ dolev \subseteq dolev'
      BY <2>1, <2>3 DEF AllOwed
    <3>2. n \in seen'[n]
      BY <1>0, <2>1, <2>2, MarkNow DEF OptTypes
    <3>3. \/ MayEcho(n, n) /\ n \in sentEcho'[n] /\ n \in Broadcasters("echo", n)'
          \/ /\ ~MayEcho(n, n) /\ sentEcho' = sentEcho /\ dolev' = dolev
      BY <1>0, <2>1, <2>3, MarkNow DEF OptTypes, Broadcasters
    <3>4. SenderHasSent(n, n)'
      BY <2>1, <3>1, <3>2 DEF SenderHasSent, Broadcasters
    <3>5. SeenIsEchoed(n, n)'
      BY <3>3 DEF SeenIsEchoed
    <3>6. EchoIsMarked(n, n)' /\ MarkIsEchoed(n, n)'
      BY <2>2, <3>1, <3>3 DEF EchoIsMarked, MarkIsEchoed, Owed, Broadcasters
    <3>7. HeardIsCounted(n, n)'
      BY <2>1, <2>2, <2>5, <3>1, <3>2, OwedBySets
    <3>8. n \in sentEcho[n] => n \in sentEcho'[n]
      BY <3>3
    <3>9. EchoIsAmplified(n, n)' /\ QuorumIsReady(n, n)'
      BY <2>1, <2>2, <2>5, <3>1, <3>8, OwedBySets
    <3>10. n \in Broadcasters("ready", n)' => n \in Broadcasters("ready", n)
      BY <2>3 DEF Broadcasters
    <3>11. MarkIsReadied(n, n)' /\ ReadyIsAmplified(n, n)' /\ ReadiesDeliver(n, n)'
      BY <2>1, <2>2, <3>1, <3>10, OwedBySets
    <3>. QED  BY <3>4, <3>5, <3>6, <3>7, <3>9, <3>11 DEF Owed
  <2>. QED  BY <1>0, <2>1, <2>6, <2>7, AboutOwes
<1>. QED  BY <1>1, <1>2, <1>3

\* What a handler does with the message that it receives.
LEMMA Receipt ==
  ASSUME OptTypes, NEW n \in Node, NEW d \in dolev, NEW p \in Phase, OptReceives(n, d, p)
  PROVE  /\ d \in DMsg /\ d.msg \in Sender /\ d.src \in Node /\ d.src # n /\ d.phase = p
         /\ got' = [got EXCEPT ![n] = @ \cup {d}]
         /\ got'[n] = got[n] \cup {d}
         /\ UNCHANGED onStart
<1>1. TypeOK
  BY OptTypesMean DEF OptimizedTypeOK
<1>2. /\ d \in DMsg /\ d.msg \in Sender /\ d.src \in Node /\ d.src # n
      /\ UNCHANGED onStart
  BY <1>1, OptHears
<1>. QED  BY <1>2 DEF OptReceives, OptTypes

LEMMA SendOwes ==
  ASSUME OInv, AllOwed, NEW n \in Node, NEW d \in dolev, OptSend(n, d)
  PROVE  AllOwed'
<1>. DEFINE m == d.msg
<1>0. OptTypes
  BY OptTypesMean DEF OInv
<1>1. /\ d \in DMsg /\ m \in Sender /\ d.phase = "send"
      /\ got' = [got EXCEPT ![n] = @ \cup {d}] /\ got'[n] = got[n] \cup {d}
      /\ UNCHANGED onStart
  BY <1>0, Receipt DEF OptSend, Phase
<1>2. /\ seen' = Marked(seen, n, m) /\ readys' = readys /\ sentReady' = sentReady
      /\ delivered' = delivered /\ resuming' = resuming /\ afterEcho' = afterEcho
  BY DEF OptSend, Marked, deliveryVars
<1>3. \/ /\ m \notin seen[n] /\ EchoesOnSend(n, m)
         /\ echos' = [echos EXCEPT ![n][m] = @ \cup {n}]
         /\ sentEcho' = Marked(sentEcho, n, m)
         /\ dolev' = dolev \cup {[phase |-> "echo", msg |-> m, src |-> n]}
      \/ /\ m \in seen[n] \/ ~EchoesOnSend(n, m)
         /\ echos' = echos /\ sentEcho' = sentEcho /\ dolev' = dolev
  BY DEF OptSend, Echoes, NoEcho, Broadcast, NoBroadcast, Marked
<1>4. echos[n][m] \in SUBSET Node /\ echos \in Tables
  BY <1>0, <1>1 DEF OptTypes, Tables
<1>5. echos[n][m] \subseteq echos'[n][m] /\ echos'[n][m] \ {n} = echos[n][m] \ {n}
  BY <1>1, <1>3, <1>4 DEF Tables
<1>6. About(n, m)
  <2>1. OwnCount(echos, echos', n, m) /\ OwnCount(readys, readys', n, m)
    BY <1>2, <1>3, <1>4 DEF OwnCount
  <2>2. \E p \in Phase : dolev' \in {dolev, dolev \cup {[phase |-> p, msg |-> m, src |-> n]}}
    BY <1>3 DEF Phase
  <2>. QED  BY <1>1, <1>2, <1>3, <2>1, <2>2 DEF About, OwnMark
<1>7. Owed(n, m)'
  <2>1. Owed(n, m) /\ dolev \subseteq dolev'
    BY <1>1, <1>3 DEF AllOwed
  <2>2. m \in seen'[n]
    BY <1>0, <1>1, <1>2, MarkNow DEF OptTypes
  <2>3. \/ m \in sentEcho'[n] /\ n \in Broadcasters("echo", m)'
        \/ /\ m \in seen[n] \/ ~EchoesOnSend(n, m)
           /\ sentEcho' = sentEcho /\ dolev' = dolev
    BY <1>0, <1>1, <1>3, MarkNow DEF OptTypes, Broadcasters
  <2>4. HeardIsCounted(n, m)'
    BY <1>1, <1>2, <1>5, <2>1, <2>2 DEF HeardIsCounted, Owed
  <2>5. SenderHasSent(n, m)'
    BY <1>1, <2>1, <2>2, OwedBySets
  <2>6. SeenIsEchoed(n, m)'
    BY <2>1, <2>3 DEF SeenIsEchoed, EchoesOnSend, Owed
  <2>7. EchoIsMarked(n, m)' /\ MarkIsEchoed(n, m)'
    BY <1>2, <2>1, <2>3 DEF EchoIsMarked, MarkIsEchoed, Owed, Broadcasters
  <2>8. m \in sentEcho[n] => m \in sentEcho'[n]
    BY <2>3
  <2>9. EchoIsAmplified(n, m)' /\ QuorumIsReady(n, m)'
    BY <1>1, <1>2, <1>5, <2>1, <2>8, OwedBySets
  <2>10. n \in Broadcasters("ready", m)' => n \in Broadcasters("ready", m)
    BY <1>3 DEF Broadcasters
  <2>11. MarkIsReadied(n, m)' /\ ReadyIsAmplified(n, m)' /\ ReadiesDeliver(n, m)'
    BY <1>1, <1>2, <2>1, <2>10, OwedBySets
  <2>. QED  BY <2>4, <2>5, <2>6, <2>7, <2>9, <2>11 DEF Owed
<1>. QED  BY <1>0, <1>1, <1>6, <1>7, AboutOwes

\* ReadyCheck leaves no quorum of ECHOs without its READY.
LEMMA CheckedReady ==
  ASSUME OptTypes, NEW n \in Node, NEW m \in Sender, NEW S \in SUBSET Node,
         ReadyCheck(n, m, S)
  PROVE  /\ \/ sentReady' = sentReady /\ dolev' = dolev
            \/ /\ sentReady' = Marked(sentReady, n, m)
               /\ dolev' = dolev \cup {[phase |-> "ready", msg |-> m, src |-> n]}
         /\ m \in sentReady[n] => m \in sentReady'[n]
         /\ MayReady(n, m) /\ EnoughEchoes(S \ {n}) => m \in sentReady'[n]
<1>1. EnoughEchoes(S \ {n}) => EnoughEchoes(S)
  BY Finite, SetsAndOneMore DEF EnoughEchoes
<1>2. /\ m \in Marked(sentReady, n, m)[n]
      /\ m \in sentReady[n] => m \in Marked(sentReady, n, m)[n]
  BY MarkNow DEF OptTypes
<1>. QED  BY <1>1, <1>2 DEF ReadyCheck, Broadcast, NoBroadcast, Marked

LEMMA EchoOwes ==
  ASSUME OInv, AllOwed, NEW n \in Node, NEW d \in dolev, OptEcho(n, d)
  PROVE  AllOwed'
<1>. DEFINE m == d.msg
            echosNow == echos[n][m] \cup {d.src}
<1>0. OptTypes
  BY OptTypesMean DEF OInv
<1>1. /\ d \in DMsg /\ m \in Sender /\ d.src \in Node /\ d.phase = "echo"
      /\ got' = [got EXCEPT ![n] = @ \cup {d}] /\ got'[n] = got[n] \cup {d}
      /\ UNCHANGED onStart
  BY <1>0, Receipt DEF OptEcho, Phase
<1>2. /\ seen' = seen /\ readys' = readys
      /\ delivered' = delivered /\ resuming' = resuming
  BY DEF OptEcho, deliveryVars
<1>3. echosNow \in SUBSET Node /\ echos \in Tables
  BY <1>0, <1>1 DEF OptTypes, Tables
<1>4. \/ /\ AmplifiesEcho(n, m, echosNow)
         /\ echos' = [echos EXCEPT ![n][m] = echosNow \cup {n}]
         /\ sentEcho' = Marked(sentEcho, n, m) /\ sentReady' = sentReady
         /\ afterEcho' = [afterEcho EXCEPT ![n] = @ \cup {<<"echo", m>>}]
         /\ dolev' = dolev \cup {[phase |-> "echo", msg |-> m, src |-> n]}
      \/ /\ ~AmplifiesEcho(n, m, echosNow)
         /\ echos' = [echos EXCEPT ![n][m] = echosNow]
         /\ ReadyCheck(n, m, echosNow)
         /\ sentEcho' = sentEcho /\ afterEcho' = afterEcho
  BY DEF OptEcho, Echoes, Broadcast, Marked
<1>5. ReadyCheck(n, m, echosNow) =>
        /\ \/ sentReady' = sentReady /\ dolev' = dolev
           \/ /\ sentReady' = Marked(sentReady, n, m)
              /\ dolev' = dolev \cup {[phase |-> "ready", msg |-> m, src |-> n]}
        /\ m \in sentReady[n] => m \in sentReady'[n]
        /\ MayReady(n, m) /\ EnoughEchoes(echosNow \ {n}) => m \in sentReady'[n]
  BY <1>0, <1>1, <1>3, CheckedReady
<1>6. /\ echosNow \subseteq echos'[n][m]
      /\ echos'[n][m] \ {n} = echosNow \ {n}
  BY <1>1, <1>3, <1>4 DEF Tables
<1>7. About(n, m)
  <2>1. OwnCount(echos, echos', n, m) /\ OwnCount(readys, readys', n, m)
    BY <1>2, <1>3, <1>4 DEF OwnCount
  <2>2. \E p \in Phase : dolev' \in {dolev, dolev \cup {[phase |-> p, msg |-> m, src |-> n]}}
    BY <1>4, <1>5 DEF Phase
  <2>3. OwnMark(sentReady, sentReady', n, m) /\ OwnMark(sentEcho, sentEcho', n, m)
    BY <1>4, <1>5 DEF OwnMark
  <2>. QED  BY <1>1, <1>2, <1>4, <2>1, <2>2, <2>3 DEF About, OwnMark
<1>8. Owed(n, m)'
  <2>1. Owed(n, m) /\ dolev \subseteq dolev'
    BY <1>1, <1>4, <1>5 DEF AllOwed
  <2>2. HeardIsCounted(n, m)'
    BY <1>1, <1>2, <1>6, <2>1 DEF HeardIsCounted, Owed
  <2>3. /\ m \in sentEcho[n] => m \in sentEcho'[n]
        /\ m \in sentReady[n] => m \in sentReady'[n]
        /\ m \in sentReady'[n] \ sentReady[n] => n \in Broadcasters("ready", m)'
        /\ n \in Broadcasters("ready", m)' => m \in sentReady'[n] \/ n \in Broadcasters("ready", m)
        /\ n \in Broadcasters("echo", m)' => m \in sentEcho'[n] \/ n \in Broadcasters("echo", m)
        /\ m \in sentEcho'[n] => m \in sentEcho[n] \/ n \in Broadcasters("echo", m)'
    <3>1. m \in Marked(sentEcho, n, m)[n] /\ m \in Marked(sentReady, n, m)[n]
      BY <1>0, <1>1, MarkNow DEF OptTypes
    <3>. QED  BY <1>4, <1>5, <3>1 DEF Broadcasters
  <2>4. SenderHasSent(n, m)' /\ SeenIsEchoed(n, m)'
    BY <1>1, <1>2, <2>1, <2>3 DEF SenderHasSent, SeenIsEchoed, Owed, Broadcasters
  <2>5. EchoIsMarked(n, m)'
    BY <2>1, <2>3 DEF EchoIsMarked, Owed
  <2>6. MarkIsEchoed(n, m)' /\ MarkIsReadied(n, m)'
    BY <1>2, <2>1, <2>3 DEF MarkIsEchoed, MarkIsReadied, Owed, Broadcasters
  <2>7. EchoIsAmplified(n, m)'
    <3>1. /\ Cardinality(echosNow) \in Nat /\ Cardinality(echosNow \ {n}) \in Nat
          /\ Cardinality(echosNow \ {n}) <= Cardinality(echosNow)
      BY <1>3, SetsAndOneMore
    <3>2. Cardinality(echosNow \ {n}) >= F + 1 => Cardinality(echosNow) >= F + 1
      BY <3>1, BrachaAssumption
    <3>3. AmplifiesEcho(n, m, echosNow) => m \in sentEcho'[n]
      BY <1>0, <1>1, <1>4, MarkNow DEF OptTypes
    <3>. QED  BY <1>6, <2>3, <3>2, <3>3 DEF EchoIsAmplified, AmplifiesEcho
  <2>8. QuorumIsReady(n, m)'
    <3>1. AmplifiesEcho(n, m, echosNow) => <<"echo", m>> \in afterEcho'[n]
      BY <1>0, <1>4 DEF OptTypes
    <3>. QED  BY <1>4, <1>5, <1>6, <3>1 DEF QuorumIsReady
  <2>9. ReadyIsAmplified(n, m)'
    BY <1>1, <1>2, <2>1, <2>3, OwedBySets
  <2>10. ReadiesDeliver(n, m)'
    <3>1. <<"ready", m>> \in afterEcho[n] => <<"ready", m>> \in afterEcho'[n]
      BY <1>0, <1>4 DEF OptTypes
    <3>. QED  BY <1>1, <1>2, <2>1, <3>1, OwedBySets
  <2>. QED  BY <2>2, <2>4, <2>5, <2>6, <2>7, <2>8, <2>9, <2>10 DEF Owed
<1>. QED  BY <1>0, <1>1, <1>7, <1>8, AboutOwes

\* DeliverCheck leaves no quorum of READYs without its delivery.
LEMMA CheckedDelivery ==
  ASSUME OptTypes, NEW n \in Node, NEW m \in Sender, NEW S, DeliverCheck(n, m, S)
  PROVE  /\ delivered' = delivered \/ delivered' = Marked(delivered, n, m)
         /\ m \in delivered[n] => m \in delivered'[n]
         /\ EnoughReadies(S) => m \in delivered'[n]
<1>1. /\ m \in Marked(delivered, n, m)[n]
      /\ m \in delivered[n] => m \in Marked(delivered, n, m)[n]
  BY MarkNow DEF OptTypes
<1>. QED  BY <1>1 DEF DeliverCheck, Delivers, Marked, deliveryVars

LEMMA ReadyOwes ==
  ASSUME OInv, AllOwed, NEW n \in Node, NEW d \in dolev, OptReady(n, d)
  PROVE  AllOwed'
<1>. DEFINE m == d.msg
            readysNow == readys[n][m] \cup {d.src}
            willSendReady == Amplifies(n, m, readysNow) /\ MayReady(n, m)
            implicitEcho == EchoAmplification /\ m \notin sentEcho[n]
            sendsEcho == implicitEcho /\ ~willSendReady /\ MayEcho(n, m)
<1>0. OptTypes
  BY OptTypesMean DEF OInv
<1>1. /\ d \in DMsg /\ m \in Sender /\ d.src \in Node /\ d.phase = "ready"
      /\ got' = [got EXCEPT ![n] = @ \cup {d}] /\ got'[n] = got[n] \cup {d}
      /\ UNCHANGED onStart
  BY <1>0, Receipt DEF OptReady, Phase
<1>2. /\ readysNow \in SUBSET Node /\ echos[n][m] \in SUBSET Node
      /\ readys \in Tables /\ echos \in Tables
  BY <1>0, <1>1 DEF OptTypes, Tables
<1>3. /\ seen' = seen /\ readys' = [readys EXCEPT ![n][m] = readysNow]
      /\ readys'[n][m] = readysNow
  BY <1>1, <1>2 DEF OptReady, Tables
<1>4. \/ /\ implicitEcho /\ sentEcho' = Marked(sentEcho, n, m)
         /\ echos' = [echos EXCEPT ![n][m] = @ \cup {n}]
      \/ ~implicitEcho /\ sentEcho' = sentEcho /\ echos' = echos
  BY DEF OptReady, Marked
<1>5. \/ /\ willSendReady
         /\ sentReady' = Marked(sentReady, n, m) /\ resuming' = Marked(resuming, n, m)
         /\ dolev' = dolev \cup {[phase |-> "ready", msg |-> m, src |-> n]}
         /\ afterEcho' = afterEcho /\ delivered' = delivered
      \/ /\ sendsEcho
         /\ dolev' = dolev \cup {[phase |-> "echo", msg |-> m, src |-> n]}
         /\ afterEcho' = [afterEcho EXCEPT ![n] = @ \cup {<<"ready", m>>}]
         /\ sentReady' = sentReady /\ resuming' = resuming /\ delivered' = delivered
      \/ /\ ~willSendReady /\ ~sendsEcho
         /\ DeliverCheck(n, m, readysNow) /\ dolev' = dolev
         /\ sentReady' = sentReady /\ resuming' = resuming /\ afterEcho' = afterEcho
  BY DEF OptReady, Broadcast, NoBroadcast, Marked, deliveryVars
<1>6. DeliverCheck(n, m, readysNow) =>
        /\ delivered' = delivered \/ delivered' = Marked(delivered, n, m)
        /\ m \in delivered[n] => m \in delivered'[n]
        /\ EnoughReadies(readysNow) => m \in delivered'[n]
  BY <1>0, <1>1, CheckedDelivery
<1>7. /\ echos[n][m] \subseteq echos'[n][m]
      /\ echos'[n][m] \ {n} = echos[n][m] \ {n}
  BY <1>1, <1>2, <1>4 DEF Tables
<1>8. About(n, m)
  <2>1. OwnCount(echos, echos', n, m) /\ OwnCount(readys, readys', n, m)
    <3>1. echos[n][m] \cup {n} \in SUBSET Node
      BY <1>2
    <3>. QED  BY <1>2, <1>3, <1>4, <3>1 DEF OwnCount
  <2>2. \E p \in Phase : dolev' \in {dolev, dolev \cup {[phase |-> p, msg |-> m, src |-> n]}}
    BY <1>5 DEF Phase
  <2>3. \E h \in {"echo", "ready"} :
          afterEcho' \in {afterEcho, [afterEcho EXCEPT ![n] = @ \cup {<<h, m>>}],
                          [afterEcho EXCEPT ![n] = @ \ {<<h, m>>}]}
    BY <1>5
  <2>4. /\ OwnMark(sentReady, sentReady', n, m) /\ OwnMark(sentEcho, sentEcho', n, m)
        /\ OwnMark(resuming, resuming', n, m) /\ OwnMark(delivered, delivered', n, m)
    BY <1>4, <1>5, <1>6 DEF OwnMark
  <2>. QED  BY <1>1, <1>3, <2>1, <2>2, <2>3, <2>4 DEF About, OwnMark
<1>9. Owed(n, m)'
  <2>1. Owed(n, m) /\ dolev \subseteq dolev'
    BY <1>1, <1>5 DEF AllOwed
  <2>2. HeardIsCounted(n, m)'
    BY <1>1, <1>3, <1>7, <2>1 DEF HeardIsCounted, Owed
  <2>3. /\ m \in Marked(sentEcho, n, m)[n] /\ m \in Marked(sentReady, n, m)[n]
        /\ m \in Marked(resuming, n, m)[n]
    BY <1>0, <1>1, MarkNow DEF OptTypes
  <2>4. /\ m \in sentEcho[n] \/ implicitEcho => m \in sentEcho'[n]
        /\ m \in sentEcho'[n] => m \in sentEcho[n] \/ implicitEcho
        /\ m \in sentReady[n] \/ willSendReady => m \in sentReady'[n]
        /\ m \in sentReady'[n] \ sentReady[n] => n \in Broadcasters("ready", m)'
        /\ n \in Broadcasters("ready", m)' => n \in Broadcasters("ready", m) \/ willSendReady
        /\ sendsEcho => n \in Broadcasters("echo", m)'
        /\ n \in Broadcasters("echo", m)' => n \in Broadcasters("echo", m) \/ sendsEcho
    BY <1>4, <1>5, <2>3 DEF Broadcasters
  <2>5. SenderHasSent(n, m)' /\ SeenIsEchoed(n, m)'
    BY <1>1, <1>3, <2>1, <2>4 DEF SenderHasSent, SeenIsEchoed, Owed, Broadcasters
  <2>6. EchoIsMarked(n, m)'
    BY <2>1, <2>4 DEF EchoIsMarked, Owed
  <2>7. MarkIsReadied(n, m)'
    BY <2>1, <2>4 DEF MarkIsReadied, Owed, Broadcasters
  <2>8. MarkIsEchoed(n, m)'
    <3>1. d.src \in Broadcasters("ready", m)'
      BY <1>1, <2>1 DEF Broadcasters, DMsg
    <3>2. CASE m \in sentEcho[n]
      <4>1. Cardinality(readys[n][m]) >= F + 1 => Cardinality(readysNow) >= F + 1
        <5>1. IsFiniteSet(readysNow)
          BY <1>2, Finite, FS_Subset
        <5>2. /\ Cardinality(readys[n][m]) \in Nat /\ Cardinality(readysNow) \in Nat
              /\ Cardinality(readys[n][m]) <= Cardinality(readysNow)
          BY <5>1, StrictlyMore
        <5>. QED  BY <5>2, BrachaAssumption
      <4>. QED
        BY <1>3, <2>1, <3>1, <3>2, <4>1 DEF MarkIsEchoed, Owed, Broadcasters
    <3>3. CASE m \notin sentEcho[n] /\ m \in sentEcho'[n]
      <4>1. implicitEcho
        BY <2>4, <3>3
      <4>2. willSendReady => Cardinality(readysNow) >= F + 1
        BY DEF Amplifies
      <4>. QED  BY <1>3, <2>4, <3>1, <4>1, <4>2 DEF MarkIsEchoed
    <3>. QED  BY <3>2, <3>3 DEF MarkIsEchoed
  <2>9. EchoIsAmplified(n, m)'
    BY <1>1, <1>7, <2>1, <2>4, OwedBySets
  <2>10. QuorumIsReady(n, m)'
    <3>1. <<"echo", m>> \in afterEcho[n] => <<"echo", m>> \in afterEcho'[n]
      BY <1>0, <1>5 DEF OptTypes
    <3>. QED  BY <1>1, <1>7, <2>1, <2>4, <3>1, OwedBySets
  <2>11. ReadyIsAmplified(n, m)'
    BY <1>3, <2>4 DEF ReadyIsAmplified, Amplifies
  <2>12. ReadiesDeliver(n, m)'
    <3>1. sendsEcho /\ ~willSendReady => <<"ready", m>> \in afterEcho'[n]
      BY <1>0, <1>5 DEF OptTypes
    <3>2. willSendReady => m \in resuming'[n]
      BY <1>5, <2>3
    <3>. QED  BY <1>3, <1>5, <1>6, <3>1, <3>2 DEF ReadiesDeliver
  <2>. QED  BY <2>2, <2>5, <2>6, <2>7, <2>8, <2>9, <2>10, <2>11, <2>12 DEF Owed
<1>. QED  BY <1>0, <1>1, <1>8, <1>9, AboutOwes

LEMMA ResumeOwes ==
  ASSUME OInv, AllOwed, NEW n \in Node, NEW m \in Sender,
         OptEchoResume(n, m) \/ OptReadyResume(n, m)
  PROVE  AllOwed'
<1>0. OptTypes
  BY OptTypesMean DEF OInv
<1>1. Owed(n, m)
  BY DEF AllOwed
<1>2. /\ onStart' = onStart /\ seen' = seen /\ echos' = echos /\ readys' = readys
      /\ sentEcho' = sentEcho /\ got' = got
  BY DEF OptEchoResume, OptReadyResume, nodeVars
<1>3. echos[n][m] \in SUBSET Node
  BY <1>0 DEF OptTypes, Tables
<1>4. \E d \in DMsg : d.msg = m /\ got' \in {got, [got EXCEPT ![n] = @ \cup {d}]}
  <2>1. [phase |-> "echo", msg |-> m, src |-> n] \in DMsg
    BY DEF DMsg, Phase
  <2>. QED  BY <1>2, <2>1
<1>5. /\ OwnCount(echos, echos', n, m) /\ OwnCount(readys, readys', n, m)
      /\ OwnMark(seen, seen', n, m) /\ OwnMark(sentEcho, sentEcho', n, m)
  BY <1>2 DEF OwnCount, OwnMark
<1>6. CASE OptEchoResume(n, m)
  <2>1. /\ afterEcho' = [afterEcho EXCEPT ![n] = @ \ {<<"echo", m>>}]
        /\ ReadyCheck(n, m, echos[n][m])
        /\ delivered' = delivered /\ resuming' = resuming
    BY <1>6 DEF OptEchoResume, deliveryVars
  <2>2. /\ \/ sentReady' = sentReady /\ dolev' = dolev
           \/ /\ sentReady' = Marked(sentReady, n, m)
              /\ dolev' = dolev \cup {[phase |-> "ready", msg |-> m, src |-> n]}
        /\ m \in sentReady[n] => m \in sentReady'[n]
        /\ MayReady(n, m) /\ EnoughEchoes(echos[n][m] \ {n}) => m \in sentReady'[n]
    BY <1>0, <1>3, <2>1, CheckedReady
  <2>3. About(n, m)
    <3>1. \E p \in Phase : dolev' \in {dolev, dolev \cup {[phase |-> p, msg |-> m, src |-> n]}}
      BY <2>2 DEF Phase
    <3>. QED  BY <1>2, <1>4, <1>5, <2>1, <2>2, <3>1 DEF About, OwnMark
  <2>4. dolev \subseteq dolev'
    BY <2>2
  <2>5. n \in Broadcasters("echo", m)' => n \in Broadcasters("echo", m)
    BY <2>2 DEF Broadcasters
  <2>6. /\ HeardIsCounted(n, m)' /\ SenderHasSent(n, m)' /\ SeenIsEchoed(n, m)'
        /\ EchoIsMarked(n, m)' /\ MarkIsEchoed(n, m)' /\ EchoIsAmplified(n, m)'
        /\ ReadyIsAmplified(n, m)'
    BY <1>1, <1>2, <2>2, <2>4, <2>5, OwedBySets
  <2>7. QuorumIsReady(n, m)'
    BY <1>2, <2>2 DEF QuorumIsReady
  <2>8. MarkIsReadied(n, m)'
    <3>1. m \in Marked(sentReady, n, m)[n]
      BY <1>0, MarkNow DEF OptTypes
    <3>. QED  BY <1>1, <2>2, <3>1 DEF MarkIsReadied, Owed, Broadcasters
  <2>9. ReadiesDeliver(n, m)'
    <3>1. <<"ready", m>> \in afterEcho[n] => <<"ready", m>> \in afterEcho'[n]
      BY <1>0, <2>1 DEF OptTypes
    <3>. QED  BY <1>1, <1>2, <2>1, <2>4, <3>1, OwedBySets
  <2>10. Owed(n, m)'
    BY <2>6, <2>7, <2>8, <2>9 DEF Owed
  <2>. QED  BY <1>0, <2>3, <2>10, AboutOwes
<1>7. CASE OptReadyResume(n, m)
  <2>1. /\ \/ /\ afterEcho' = [afterEcho EXCEPT ![n] = @ \ {<<"ready", m>>}]
              /\ resuming' = resuming
           \/ resuming' = [resuming EXCEPT ![n] = @ \ {m}] /\ afterEcho' = afterEcho
        /\ DeliverCheck(n, m, readys[n][m])
        /\ sentReady' = sentReady /\ dolev' = dolev
    BY <1>7 DEF OptReadyResume, nodeVars, NoBroadcast
  <2>2. /\ delivered' = delivered \/ delivered' = Marked(delivered, n, m)
        /\ EnoughReadies(readys[n][m]) => m \in delivered'[n]
    BY <1>0, <2>1, CheckedDelivery
  <2>3. About(n, m)
    <3>1. \E p \in Phase : dolev' \in {dolev, dolev \cup {[phase |-> p, msg |-> m, src |-> n]}}
      BY <2>1 DEF Phase
    <3>2. OwnMark(resuming, resuming', n, m) /\ OwnMark(delivered, delivered', n, m)
      BY <2>1, <2>2 DEF OwnMark
    <3>. QED  BY <1>2, <1>4, <1>5, <2>1, <3>1, <3>2 DEF About, OwnMark
  <2>4. /\ n \in Broadcasters("echo", m)' => n \in Broadcasters("echo", m)
        /\ n \in Broadcasters("ready", m)' => n \in Broadcasters("ready", m)
    BY <2>1 DEF Broadcasters
  <2>5. <<"echo", m>> \in afterEcho[n] => <<"echo", m>> \in afterEcho'[n]
    BY <1>0, <2>1 DEF OptTypes
  <2>6. /\ HeardIsCounted(n, m)' /\ SenderHasSent(n, m)' /\ SeenIsEchoed(n, m)'
        /\ EchoIsMarked(n, m)' /\ MarkIsEchoed(n, m)' /\ EchoIsAmplified(n, m)'
        /\ ReadyIsAmplified(n, m)' /\ QuorumIsReady(n, m)' /\ MarkIsReadied(n, m)'
    BY <1>1, <1>2, <2>1, <2>4, <2>5, OwedBySets
  <2>7. ReadiesDeliver(n, m)'
    BY <1>2, <2>2 DEF ReadiesDeliver
  <2>8. Owed(n, m)'
    BY <2>6, <2>7 DEF Owed
  <2>. QED  BY <1>0, <2>3, <2>8, AboutOwes
<1>. QED  BY <1>6, <1>7

LEMMA OwedStep == OInv /\ AllOwed /\ [OptimizedNext]_optimizedVars => AllOwed'
<1>. SUFFICES ASSUME OInv, AllOwed, [OptimizedNext]_optimizedVars PROVE AllOwed'
  OBVIOUS
<1>1. CASE UNCHANGED optimizedVars
  <2>1. ASSUME NEW n \in Node, NEW m \in Sender PROVE Unmoved(n, m)
    BY <1>1
    DEF optimizedVars, vars, nodeVars, deliveryVars, Unmoved, Broadcasters
  <2>2. dolev' = dolev
    BY <1>1 DEF optimizedVars, vars
  <2>. QED  BY <2>1, <2>2, UnmovedOwes DEF AllOwed
<1>2. CASE OptimizedNext
  BY <1>2, StartOwes, SendOwes, EchoOwes, ReadyOwes, ResumeOwes DEF OptimizedNext
<1>. QED  BY <1>1, <1>2

-----------------------------------------------------------------------------
(***************************************************************************)
(* The committees.  calculate_eligible_nodes (bracha_optimized.py:79-89)   *)
(* goes round the circle of the names: as many nodes as it is asked for.   *)
(***************************************************************************)
LEMMA Around ==
  ASSUME NEW K \in Nat \ {0}, NEW a \in 0..(K - 1), NEW i \in 1..K, NEW j \in 1..K,
         (a + i) % K = (a + j) % K
  PROVE  i = j
<1>1. \A b \in 0..(K - 1) : b % K = b
  OBVIOUS
<1>2. \A b \in K..(2 * K - 1) : b % K = b - K
  OBVIOUS
<1>3. \A x \in 1..K : IF a + x < K THEN (a + x) % K = a + x ELSE (a + x) % K = a + x - K
  BY <1>1, <1>2
<1>. QED  BY <1>3

LEMMA EligibleSize ==
  ASSUME NEW m \in Sender, NEW c \in 0..N
  PROVE  IsFiniteSet(Eligible(m, c)) /\ Cardinality(Eligible(m, c)) >= c
<1>. DEFINE Places == 0..(N - 1)
            At(i) == (Rank[m] + i) % N
            next == [i \in 1..c |-> CHOOSE n \in Node : Rank[n] = At(i)]
<1>1. m \in Node /\ Rank[m] \in Places /\ N \in Nat \ {0}
  <2>1. m \in Node
    BY BrachaAssumption
  <2>2. Rank[m] \in 0..(N - 1)
    BY <2>1, OptimizedAssumption
  <2>. QED  BY <2>1, <2>2, Finite
<1>2. \A p \in Places : \E n \in Node : Rank[n] = p
  <2>1. Rank \in Injection(Node, Places)
    BY OptimizedAssumption, Fun_IsInj
  <2>2. IsFiniteSet(Places) /\ Cardinality(Places) = N
    BY <1>1, FS_Interval
  <2>3. Rank \in Surjection(Node, Places)
    BY <2>1, <2>2, FS_Injection DEF N
  <2>. QED  BY <2>3 DEF Surjection
<1>3. \A i \in 1..c : At(i) \in Places
  BY <1>1
<1>4. \A i \in 1..c : next[i] \in Node /\ Rank[next[i]] = At(i)
  BY <1>2, <1>3
<1>. HIDE DEF next
<1>5. next \in Injection(1..c, Eligible(m, c))
  <2>1. next \in [1..c -> Eligible(m, c)]
    <3>1. \A i \in 1..c : next[i] \in Eligible(m, c)
      BY <1>4 DEF Eligible
    <3>. QED  BY <3>1 DEF next
  <2>2. \A i, j \in 1..c : next[i] = next[j] => i = j
    <3>. SUFFICES ASSUME NEW i \in 1..c, NEW j \in 1..c, next[i] = next[j] PROVE i = j
      OBVIOUS
    <3>1. At(i) = At(j)
      BY <1>4
    <3>2. i \in 1..N /\ j \in 1..N
      BY <1>1
    <3>. QED  BY <1>1, <3>1, <3>2, Around
  <2>. QED  BY <2>1, <2>2, Fun_IsInj
<1>6. IsFiniteSet(Eligible(m, c))
  BY Finite, FS_Subset DEF Eligible
<1>7. IsFiniteSet(1..c) /\ Cardinality(1..c) = c
  BY FS_Interval
<1>. QED  BY <1>5, <1>6, <1>7, FS_Injection

\* Not all of the silent nodes, and a node itself, are as many as f.
FewSilent == Cardinality(Silent) < F /\ N >= 3 * F + 1

\* The neighbours that hear the SEND, and the sender's own ECHO, set off the
\* amplification.
EnoughFirstEchoes ==
  SingleHopSend => \A m \in Sender :
    Cardinality({n \in Node : \/ n # m /\ n \in Neighbour[m] \ Silent
                              \/ n = m /\ MayEcho(m, m)}) >= F + 1

LEMMA CommitteeHeard ==
  ASSUME FewSilent, NEW m \in Sender, NEW n \in Node, NEW c \in 0..N
  PROVE  /\ IsFiniteSet((Eligible(m, c) \ Silent) \ {n})
         /\ Cardinality((Eligible(m, c) \ Silent) \ {n}) \in Nat
         /\ Cardinality((Eligible(m, c) \ Silent) \ {n}) + F >= c
<1>. DEFINE C == Eligible(m, c)
<1>1. IsFiniteSet(C) /\ Cardinality(C) >= c /\ Cardinality(C) \in Nat
  BY EligibleSize, FS_CardinalityType
<1>2. IsFiniteSet(Silent) /\ Cardinality(Silent) \in Nat
  BY BrachaAssumption, FS_Subset, FS_CardinalityType
<1>3. /\ IsFiniteSet(C \ Silent)
      /\ Cardinality(C \ Silent) = Cardinality(C) - Cardinality(C \cap Silent)
  BY <1>1, FS_Difference
<1>4. Cardinality(C \cap Silent) <= Cardinality(Silent) /\ Cardinality(C \cap Silent) \in Nat
  BY <1>2, FS_Intersection, FS_CardinalityType
<1>5. /\ IsFiniteSet((C \ Silent) \ {n})
      /\ Cardinality((C \ Silent) \ {n}) >= Cardinality(C \ Silent) - 1
      /\ Cardinality((C \ Silent) \ {n}) \in Nat /\ Cardinality(C \ Silent) \in Nat
  <2>. DEFINE D == C \ Silent
  <2>1. IsFiniteSet(D) /\ Cardinality(D) \in Nat
    BY <1>3, FS_CardinalityType
  <2>. HIDE DEF D
  <2>2. /\ IsFiniteSet(D \ {n})
        /\ Cardinality(D \ {n}) = IF n \in D THEN Cardinality(D) - 1 ELSE Cardinality(D)
    BY <2>1, FS_RemoveElement
  <2>3. Cardinality(D \ {n}) \in Nat
    BY <2>2, FS_CardinalityType
  <2>4. Cardinality(D \ {n}) >= Cardinality(D) - 1
    BY <2>1, <2>2
  <2>. QED  BY <2>1, <2>2, <2>3, <2>4 DEF D
<1>6. Cardinality(Silent) + 1 <= F
  BY <1>2, BrachaAssumption DEF FewSilent
<1>. HIDE DEF C
<1>7. Cardinality((C \ Silent) \ {n}) + F >= c
  BY <1>1, <1>2, <1>3, <1>4, <1>5, <1>6, BrachaAssumption
<1>. QED  BY <1>5, <1>7 DEF C

LEMMA CommitteesFit ==
  ASSUME FewSilent
  PROVE  /\ ReadyThreshold + F \in 0..N /\ DeliverThreshold + F \in 0..N
         /\ ReadyThreshold >= F + 1 /\ DeliverThreshold >= F + 1
<1>1. F \in Nat /\ N \in Nat /\ N >= 3 * F + 1
  BY BrachaAssumption, Finite DEF FewSilent
<1>. QED  BY <1>1 DEF ReadyThreshold, DeliverThreshold

(***************************************************************************)
(* Everything has arrived.                                                 *)
(***************************************************************************)
LEMMA AllHeard ==
  ASSUME OInv, AllOwed, OptimizedDrained, NEW m \in Sender, NEW n \in Node \ Silent
  PROVE  /\ Broadcasters("echo", m) \ {n} \subseteq echos[n][m] \ {n}
         /\ Broadcasters("ready", m) \ {n} \subseteq readys[n][m]
         /\ n # m /\ (SingleHopSend => n \in Neighbour[m]) => m \in seen[n]
<1>0. HeardIsCounted(n, m) /\ SenderHasSent(m, m) /\ m \in Node
  BY BrachaAssumption DEF AllOwed, Owed
<1>1. ASSUME NEW k \in Broadcasters("echo", m) \ {n} PROVE k \in echos[n][m]
  <2>. DEFINE d == [phase |-> "echo", msg |-> m, src |-> k]
  <2>1. d \in dolev /\ d.src # n /\ d.phase # "send"
    BY DEF Broadcasters
  <2>2. d \in got[n]
    BY <2>1 DEF OptimizedDrained
  <2>. QED  BY <1>0, <2>2 DEF HeardIsCounted
<1>2. ASSUME NEW k \in Broadcasters("ready", m) \ {n} PROVE k \in readys[n][m]
  <2>. DEFINE d == [phase |-> "ready", msg |-> m, src |-> k]
  <2>1. d \in dolev /\ d.src # n /\ d.phase # "send"
    BY DEF Broadcasters
  <2>2. d \in got[n]
    BY <2>1 DEF OptimizedDrained
  <2>. QED  BY <1>0, <2>2 DEF HeardIsCounted
<1>3. ASSUME n # m, SingleHopSend => n \in Neighbour[m] PROVE m \in seen[n]
  <2>. DEFINE d == [phase |-> "send", msg |-> m, src |-> m]
  <2>1. d \in dolev
    BY <1>0 DEF OptimizedDrained, SenderHasSent, Broadcasters
  <2>2. d \in got[n]
    BY <1>3, <2>1 DEF OptimizedDrained
  <2>. QED  BY <1>0, <2>2 DEF HeardIsCounted
<1>. QED  BY <1>1, <1>2, <1>3

\* Before there is a READY, every marked ECHO has been broadcast.
LEMMA FirstEchoes ==
  ASSUME OInv, AllOwed, OptimizedDrained, FewSilent, EnoughFirstEchoes, NEW m \in Sender,
         SingleHopSend \/ Broadcasters("ready", m) # {}
  PROVE  Cardinality(Broadcasters("echo", m)) >= F + 1
<1>0. F \in Nat /\ m \in Node
  BY BrachaAssumption
<1>1. /\ IsFiniteSet(Broadcasters("echo", m))
      /\ Cardinality(Broadcasters("echo", m)) \in Nat
  BY Finite, FS_Subset, FS_CardinalityType DEF Broadcasters
<1>2. CASE Broadcasters("ready", m) # {}
  <2>1. Cardinality(Broadcasters("echo", m)) >= ReadyThreshold
    BY <1>2 DEF OInv, ReadyBackedByEchoes
  <2>. QED  BY <1>0, <1>1, <2>1, CommitteesFit, Finite
<1>3. CASE Broadcasters("ready", m) = {} /\ SingleHopSend
  <2>. DEFINE First == {n \in Node : \/ n # m /\ n \in Neighbour[m] \ Silent
                                     \/ n = m /\ MayEcho(m, m)}
  <2>1. \A n \in Node : m \in sentEcho[n] => n \in Broadcasters("echo", m)
    <3>. SUFFICES ASSUME NEW n \in Node, m \in sentEcho[n]
                  PROVE  n \in Broadcasters("echo", m)
      OBVIOUS
    <3>1. MarkIsEchoed(n, m)
      BY DEF AllOwed, Owed
    <3>2. readys[n][m] = {}
      BY <1>3 DEF OInv, ReadysCounted
    <3>3. ~(Cardinality(readys[n][m]) >= F + 1)
      BY <1>0, <3>2, FS_EmptySet
    <3>. QED  BY <1>3, <3>1, <3>3 DEF MarkIsEchoed
  <2>2. ASSUME NEW n \in First PROVE m \in sentEcho[n]
    <3>1. SeenIsEchoed(n, m) /\ SenderHasSent(m, m)
      BY <1>0 DEF AllOwed, Owed
    <3>2. m \in seen[n]
      <4>1. CASE n = m
        BY <1>0, <3>1, <4>1 DEF SenderHasSent, OptimizedDrained
      <4>2. CASE n # m
        BY <4>2, AllHeard
      <4>. QED  BY <4>1, <4>2
    <3>. QED  BY <1>3, <3>1, <3>2 DEF SeenIsEchoed
  <2>3. First \subseteq Broadcasters("echo", m)
    BY <2>1, <2>2
  <2>4. Cardinality(First) >= F + 1
    BY <1>3 DEF EnoughFirstEchoes
  <2>5. /\ Cardinality(First) \in Nat
        /\ Cardinality(First) <= Cardinality(Broadcasters("echo", m))
    BY <1>1, <2>3, StrictlyMore
  <2>. QED  BY <1>0, <1>1, <2>4, <2>5
<1>. QED  BY <1>2, <1>3

LEMMA CommitteeMarks ==
  ASSUME OInv, AllOwed, OptimizedDrained, FewSilent, EnoughFirstEchoes, NEW m \in Sender,
         NEW n \in Node \ Silent, MayEcho(n, m)
  PROVE  m \in sentEcho[n]
<1>0. Owed(n, m) /\ Owed(m, m) /\ m \in Node
  BY BrachaAssumption DEF AllOwed
<1>1. CASE SingleHopSend /\ n \notin Broadcasters("echo", m)
  <2>1. EchoAmplification
    BY <1>1, OptimizedAssumption
  <2>2. Cardinality(Broadcasters("echo", m)) >= F + 1
    BY <1>1, FirstEchoes
  <2>3. Broadcasters("echo", m) \subseteq echos[n][m] \ {n}
    BY <1>1, AllHeard
  <2>4. IsFiniteSet(echos[n][m] \ {n})
    BY Finite, FS_Subset DEF OInv, OptimizedTypeOK, TypeOK
  <2>5. /\ Cardinality(Broadcasters("echo", m)) \in Nat
        /\ Cardinality(echos[n][m] \ {n}) \in Nat
        /\ Cardinality(Broadcasters("echo", m)) <= Cardinality(echos[n][m] \ {n})
    BY <2>3, <2>4, StrictlyMore
  <2>6. Cardinality(echos[n][m] \ {n}) >= F + 1
    BY <2>2, <2>5, BrachaAssumption
  <2>. QED  BY <1>0, <2>1, <2>6 DEF Owed, EchoIsAmplified
<1>2. CASE n \in Broadcasters("echo", m)
  BY <1>0, <1>2 DEF Owed, EchoIsMarked
<1>3. CASE ~SingleHopSend
  <2>1. m \in seen[n]
    <3>1. CASE n = m
      BY <1>0, <3>1 DEF Owed, SenderHasSent, OptimizedDrained
    <3>2. CASE n # m
      BY <1>3, <3>2, AllHeard
    <3>. QED  BY <3>1, <3>2
  <2>. QED  BY <1>0, <2>1 DEF Owed, SeenIsEchoed
<1>. QED  BY <1>1, <1>2, <1>3

\* Either f + 1 READYs have been heard somewhere, and then everywhere, or every
\* listener in the ECHO committee has broadcast its ECHO.
LEMMA CommitteeReadies ==
  ASSUME OInv, AllOwed, OptimizedDrained, FewSilent, EnoughFirstEchoes, NEW m \in Sender,
         NEW n \in Node \ Silent, MayReady(n, m)
  PROVE  m \in sentReady[n]
<1>0. Owed(n, m) /\ F \in Nat
  BY BrachaAssumption DEF AllOwed
<1>1. IsFiniteSet(readys[n][m]) /\ IsFiniteSet(echos[n][m] \ {n})
  BY Finite, FS_Subset DEF OInv, OptimizedTypeOK, TypeOK
<1>2. CASE \E k \in Node : Cardinality(readys[k][m]) >= F + 1
  <2>1. PICK k \in Node : Cardinality(readys[k][m]) >= F + 1
    BY <1>2
  <2>2. CASE n \in Broadcasters("ready", m)
    BY <1>0, <2>2 DEF Owed, MarkIsReadied
  <2>3. CASE n \notin Broadcasters("ready", m)
    <3>1. readys[k][m] \subseteq Broadcasters("ready", m)
      BY DEF OInv, ReadysCounted
    <3>2. readys[k][m] \subseteq readys[n][m]
      BY <2>3, <3>1, AllHeard
    <3>3. /\ Cardinality(readys[k][m]) \in Nat /\ Cardinality(readys[n][m]) \in Nat
          /\ Cardinality(readys[k][m]) <= Cardinality(readys[n][m])
      BY <1>1, <3>2, StrictlyMore
    <3>4. Cardinality(readys[n][m]) >= F + 1
      BY <1>0, <2>1, <3>3
    <3>. QED  BY <1>0, <3>4 DEF Owed, ReadyIsAmplified
  <2>. QED  BY <2>2, <2>3
<1>3. CASE ~ \E k \in Node : Cardinality(readys[k][m]) >= F + 1
  <2>. DEFINE C == (Eligible(m, ReadyThreshold + F) \ Silent) \ {n}
  <2>1. C \subseteq Broadcasters("echo", m) \ {n}
    <3>. SUFFICES ASSUME NEW k \in C PROVE k \in Broadcasters("echo", m)
      OBVIOUS
    <3>1. k \in Node \ Silent /\ MayEcho(k, m)
      BY DEF MayEcho, Eligible
    <3>2. m \in sentEcho[k]
      BY <3>1, CommitteeMarks
    <3>3. MarkIsEchoed(k, m)
      BY <3>1 DEF AllOwed, Owed
    <3>. QED  BY <1>3, <3>1, <3>2, <3>3 DEF MarkIsEchoed
  <2>2. C \subseteq echos[n][m] \ {n}
    BY <2>1, AllHeard
  <2>3. Cardinality(C) \in Nat /\ Cardinality(C) + F >= ReadyThreshold + F
    BY CommitteeHeard, CommitteesFit
  <2>4. /\ Cardinality(echos[n][m] \ {n}) \in Nat
        /\ Cardinality(C) <= Cardinality(echos[n][m] \ {n})
    BY <1>1, <2>2, StrictlyMore
  <2>5. EnoughEchoes(echos[n][m] \ {n})
    <3>. HIDE DEF C
    <3>. QED  BY <1>0, <2>3, <2>4, Finite DEF EnoughEchoes
  <2>. QED  BY <1>0, <2>5 DEF Owed, QuorumIsReady, OptimizedDrained
<1>. QED  BY <1>2, <1>3

LEMMA EverybodyDelivers ==
  ASSUME OInv, AllOwed, OptimizedDrained, FewSilent, EnoughFirstEchoes, NEW m \in Sender,
         NEW n \in Node \ Silent
  PROVE  m \in delivered[n]
<1>. DEFINE C == (Eligible(m, DeliverThreshold + F) \ Silent) \ {n}
<1>0. Owed(n, m) /\ F \in Nat
  BY BrachaAssumption DEF AllOwed
<1>1. C \subseteq Broadcasters("ready", m) \ {n}
  <2>. SUFFICES ASSUME NEW k \in C PROVE k \in Broadcasters("ready", m)
    OBVIOUS
  <2>1. k \in Node \ Silent /\ MayReady(k, m)
    BY DEF MayReady, Eligible
  <2>2. m \in sentReady[k]
    BY <2>1, CommitteeReadies
  <2>. QED  BY <2>1, <2>2 DEF AllOwed, Owed, MarkIsReadied
<1>2. C \subseteq readys[n][m]
  BY <1>1, AllHeard
<1>3. Cardinality(C) \in Nat /\ Cardinality(C) + F >= DeliverThreshold + F
  BY CommitteeHeard, CommitteesFit
<1>4. IsFiniteSet(readys[n][m])
  BY Finite, FS_Subset DEF OInv, OptimizedTypeOK, TypeOK
<1>5. Cardinality(readys[n][m]) \in Nat /\ Cardinality(C) <= Cardinality(readys[n][m])
  BY <1>2, <1>4, StrictlyMore
<1>. HIDE DEF C
<1>6. EnoughReadies(readys[n][m])
  BY <1>0, <1>3, <1>5, Finite DEF EnoughReadies
<1>. QED  BY <1>0, <1>6 DEF Owed, ReadiesDeliver, OptimizedDrained

LEMMA OwedDelivers ==
  ASSUME FewSilent, EnoughFirstEchoes, OInv, AllOwed PROVE FewMessagesSuffice
<1>. SUFFICES ASSUME OptimizedDrained, NEW n \in Node \ Silent
              PROVE  delivered[n] = Sender
  BY DEF FewMessagesSuffice
<1>1. delivered[n] \subseteq Sender
  BY DEF OInv, OptimizedTypeOK, TypeOK
<1>. QED  BY <1>1, EverybodyDelivers

\* MBD.2, MBD.11 and ECHO amplification leave out only messages that are not
\* needed (bracha_optimized.py:79-124, 189-347): when nothing is on its way any
\* more, every listener has delivered every message, provided that fewer than f
\* nodes are silent among at least 3f + 1 and that f + 1 ECHOs answer the SEND.
THEOREM OptimizedTotality ==
  ASSUME FewSilent, EnoughFirstEchoes PROVE OptimizedSpec => []FewMessagesSuffice
<1>1. OptimizedInit => OInv /\ AllOwed
  BY InitOInv, InitAllOwed
<1>2. OInv /\ AllOwed /\ [OptimizedNext]_optimizedVars => OInv' /\ AllOwed'
  BY OInvStep, OwedStep
<1>3. OInv /\ AllOwed => FewMessagesSuffice
  BY OwedDelivers
<1>. QED  BY <1>1, <1>2, <1>3, PTL DEF OptimizedSpec

-----------------------------------------------------------------------------
(***************************************************************************)
(* The three programs side by side.  They share the state, so one          *)
(* invariant speaks of whichever of them a behaviour follows.              *)
(***************************************************************************)
VInv ==
  /\ program \in {"bracha", "basic", "optimized"}
  /\ program \in {"bracha", "basic"} => IInv
  /\ program = "optimized" => CountInv /\ AllOwed

THEOREM VariantsInvariance == VariantsSpec => []VInv
<1>1. VariantsInit => VInv
  BY InitIInv, InitCountInv, InitAllOwed, ProgramsAssumption DEF VariantsInit, OptimizedInit, VInv
<1>2. VInv /\ [VariantsNext]_variantsVars => VInv'
  <2>. SUFFICES ASSUME VInv, [VariantsNext]_variantsVars PROVE VInv'
    OBVIOUS
  <2>1. UNCHANGED program
    BY DEF VariantsNext, variantsVars
  <2>2. CASE program \in {"bracha", "basic"}
    <3>1. [Steps]_vars
      BY <2>2 DEF VariantsNext, variantsVars, optimizedVars, Steps
    <3>. QED  BY <2>1, <2>2, <3>1, Step DEF VInv
  <2>3. CASE program = "optimized"
    <3>1. [OptimizedNext]_optimizedVars
      BY <2>3 DEF VariantsNext, variantsVars
    <3>. QED  BY <2>1, <2>3, <3>1, CountInvStep, OwedStep DEF VInv, CountInv
  <2>. QED  BY <2>2, <2>3 DEF VInv
<1>. QED  BY <1>1, <1>2, PTL DEF VariantsSpec

\* The optimised program's counters (bracha_optimized.py:201-205, 266-347), where
\* the run compares it with the other two.
THEOREM EchoesNotRepeated == VariantsSpec => []EchoesAreNotRepeated
<1>1. VInv => EchoesAreNotRepeated
  BY DEF VInv, CountInv, EchoesAreNotRepeated
<1>. QED  BY <1>1, VariantsInvariance, PTL

\* No program of the three shows a READY without a quorum of ECHOs, or delivers
\* without the READYs of 2f + 1 other nodes (bracha.py:152-188, bracha_basic.py:
\* 79-100, bracha_optimized.py:189-347).
THEOREM EveryProgramKeepsQuorum ==
  VariantsSpec => [](ReadyBackedByEchoes /\ DeliveryBackedByReadies)
<1>1. VInv => ReadyBackedByEchoes /\ DeliveryBackedByReadies
  BY DeliveredAreBacked DEF VInv, IInv, CountInv, OInv
<1>. QED  BY <1>1, VariantsInvariance, PTL
=============================================================================
