------------------------- MODULE NodeLifecycleProofs -------------------------
(***************************************************************************)
(* Proofs about the lifecycle: for every set of nodes, in one process or   *)
(* in many, with or without timeouts and lost messages.                    *)
(***************************************************************************)
EXTENDS NodeLifecycle, TLAPS

MonitorState == {"idle", "keys", "starting", "on_start", "waiting",
                 "finishing", "exited"}

Statuses == [Node -> NodeStatus]

Monitors == [Node -> MonitorState]

-----------------------------------------------------------------------------
(***************************************************************************)
(* Types.                                                                  *)
(***************************************************************************)
LEMMA StatusTypes ==
  ASSUME TypeOK, NEW n \in Node, NEW s \in NodeStatus, SetStatus(n, s)
  PROVE  /\ status' \in Statuses
         /\ woken' \in [Node -> BOOLEAN]
         /\ status'[n] = s
         /\ \A p \in Node : p # n => status'[p] = status[p]
<1>1. /\ status' \in Statuses
      /\ status'[n] = s
      /\ \A p \in Node : p # n => status'[p] = status[p]
  BY DEF TypeOK, SetStatus, Statuses
<1>2. woken' \in [Node -> BOOLEAN]
  BY DEF TypeOK, SetStatus
<1>. QED  BY <1>1, <1>2

LEMMA MonitorTypes ==
  ASSUME TypeOK, NEW n \in Node, NEW pc \in MonitorState, MonitorGoes(n, pc)
  PROVE  /\ monitor' \in Monitors
         /\ monitor'[n] = pc
         /\ \A p \in Node : p # n => monitor'[p] = monitor[p]
BY DEF TypeOK, MonitorGoes, Monitors, MonitorState

LEMMA CastTypes ==
  ASSUME TypeOK, NEW n \in Node, NEW k \in Kind, CastAll(n, k)
  PROVE  /\ cast \subseteq cast' /\ cast' \in SUBSET Message
         /\ \A m \in cast' \ cast : m.src = n /\ m.kind = k
         /\ HasCast(n, k)'
BY DEF TypeOK, CastAll, Message, Peers, HasCast

\* A received message is one that was cast.
LEMMA ReceiveTypes ==
  ASSUME TypeOK, NEW n \in Node, NEW m, Receives(n, m)
  PROVE  /\ m \in cast /\ m.src \in Node /\ m.dst = n /\ m.kind \in Kind
         /\ settled' \in SUBSET cast
BY DEF TypeOK, Receives, InTransit, Message

LEMMA RecordTypes ==
  ASSUME TypeOK, NEW n \in Node, NEW p \in Node, NEW s \in NodeStatus,
         NEW own \in NodeStatus, NEW next \in NodeStatus,
         Records(n, p, s, own, next)
  PROVE  /\ status' \in Statuses
         /\ woken' \in [Node -> BOOLEAN]
         /\ peerStatus' \in [Node -> Statuses]
         /\ peerStatus'[n] = [peerStatus[n] EXCEPT ![p] = s]
         /\ \A q \in Node : q # n => peerStatus'[q] = peerStatus[q]
<1>1. /\ peerStatus \in [Node -> Statuses]
      /\ peerStatus' = [peerStatus EXCEPT ![n] = [peerStatus[n] EXCEPT ![p] = s]]
  BY DEF TypeOK, Records, Statuses
<1>2. [peerStatus[n] EXCEPT ![p] = s] \in Statuses
  BY <1>1 DEF Statuses
<1>3. SetStatus(n, next) \/ UNCHANGED <<status, woken>>
  BY DEF Records
<1>4. status' \in Statuses /\ woken' \in [Node -> BOOLEAN]
  BY <1>3, StatusTypes DEF TypeOK, Statuses
<1>. QED  BY <1>1, <1>2, <1>4

LEMMA TypeStep == ASSUME TypeOK, [Next]_vars PROVE TypeOK'
<1>. USE DEF taskVars, communityVars
<1>1. ASSUME NEW n \in Node,
             Boot(n) \/ Return(n) \/ TimeOut(n) \/ Terminate(n)
      PROVE  TypeOK'
  BY <1>1 DEF TypeOK, Boot, Return, TimeOut, Terminate
<1>2. ASSUME NEW n \in Node, ShareKeys(n) \/ Stop(n) PROVE TypeOK'
  <2>1. status' \in Statuses /\ woken' \in [Node -> BOOLEAN]
    BY <1>2, StatusTypes DEF ShareKeys, Stop, NodeStatus
  <2>. QED  BY <1>2, <2>1 DEF TypeOK, Statuses, ShareKeys, Stop
<1>3. ASSUME NEW n \in Node, MonitorShare(n) \/ MonitorFinishing(n) PROVE TypeOK'
  <2>1. monitor' \in Monitors /\ cast' \in SUBSET Message /\ cast \subseteq cast'
    BY <1>3, MonitorTypes, CastTypes
    DEF MonitorShare, MonitorFinishing, MonitorState, Kind
  <2>. QED
    BY <1>3, <2>1 DEF TypeOK, Monitors, MonitorState, MonitorShare, MonitorFinishing
<1>4. ASSUME NEW n \in Node, MonitorStarting(n) PROVE TypeOK'
  <2>1. /\ status' \in Statuses /\ woken' \in [Node -> BOOLEAN]
        /\ monitor' \in Monitors /\ cast' \in SUBSET Message /\ cast \subseteq cast'
    BY <1>4, StatusTypes, MonitorTypes, CastTypes
    DEF MonitorStarting, MonitorState, NodeStatus, Kind
  <2>. QED
    BY <1>4, <2>1 DEF TypeOK, Statuses, Monitors, MonitorState, MonitorStarting
<1>5. ASSUME NEW n \in Node, MonitorRunning(n) \/ MonitorExit(n) PROVE TypeOK'
  <2>1. /\ status' \in Statuses /\ woken' \in [Node -> BOOLEAN]
        /\ monitor' \in Monitors
    BY <1>5, StatusTypes, MonitorTypes
    DEF MonitorRunning, MonitorExit, MonitorState, NodeStatus
  <2>. QED
    BY <1>5, <2>1
    DEF TypeOK, Statuses, Monitors, MonitorState, MonitorRunning, MonitorExit
<1>6. ASSUME NEW n \in Node, OnStartReturns(n) \/ MonitorSkipsFinished(n)
      PROVE  TypeOK'
  <2>1. monitor' \in Monitors
    BY <1>6, MonitorTypes DEF OnStartReturns, MonitorSkipsFinished, MonitorState
  <2>. QED
    BY <1>6, <2>1
    DEF TypeOK, Monitors, MonitorState, OnStartReturns, MonitorSkipsFinished
<1>7. ASSUME NEW n \in Node, NEW m, HandlePubkey(n, m) PROVE TypeOK'
  <2>1. settled' \in SUBSET cast /\ m.src \in Node
    BY <1>7, ReceiveTypes DEF HandlePubkey
  <2>. QED  BY <1>7, <2>1 DEF TypeOK, HandlePubkey
<1>8. ASSUME NEW n \in Node, NEW m, HandleStarted(n, m) \/ HandleFinished(n, m)
      PROVE  TypeOK'
  <2>1. settled' \in SUBSET cast /\ m.src \in Node
    BY <1>8, ReceiveTypes DEF HandleStarted, HandleFinished
  <2>2. /\ status' \in Statuses
        /\ woken' \in [Node -> BOOLEAN]
        /\ peerStatus' \in [Node -> Statuses]
    BY <1>8, <2>1, RecordTypes DEF HandleStarted, HandleFinished, NodeStatus
  <2>. QED
    BY <1>8, <2>1, <2>2 DEF TypeOK, Statuses, HandleStarted, HandleFinished
<1>9. ASSUME NEW m, Lose(m) PROVE TypeOK'
  BY <1>9 DEF TypeOK, Lose, InTransit
<1>10. CASE UNCHANGED vars
  BY <1>10 DEF TypeOK, vars
<1>11. \A m \in InTransit : m.dst \in Node
  BY DEF InTransit, TypeOK, Message
<1>. QED
  BY <1>1, <1>2, <1>3, <1>4, <1>5, <1>6, <1>7, <1>8, <1>9, <1>10, <1>11
  DEF Next, Start, Monitor, Handle

-----------------------------------------------------------------------------
(***************************************************************************)
(* The inductive invariant: what is cast, recorded about a peer, or        *)
(* reached by a monitor implies how far the node it is about has come.     *)
(***************************************************************************)
HasStarted(n) == monitor[n] \notin {"idle", "keys"}

HasFinished(n) == n \in algDone /\ HasCast(n, "finished")

OwnKey == \A n \in Node : runner[n] # "off" => n \in keys[n]

\* A monitor has something to do only when its node has been started.
ActiveAreBooted == \A n \in Node : woken[n] \/ monitor[n] # "idle" => runner[n] # "off"

StartedHaveKeys ==
  \A n \in Node : HasStarted(n) => HasCast(n, "started") /\ keys[n] = Node

CastsAreTrue ==
  \A m \in cast : /\ m.kind = "started" => HasStarted(m.src)
                  /\ m.kind = "finished" => HasFinished(m.src)

RecordsAreTrue ==
  \A n, p \in Node : /\ peerStatus[n][p] = "running" => HasStarted(p)
                     /\ peerStatus[n][p] = "terminated" => HasFinished(p)

BegunAfterAll == \A n, p \in Node : Begun(n) => HasStarted(p)

StoppingIsDone ==
  \A n \in Node : status[n] = "stopping" \/ monitor[n] = "finishing" => n \in algDone

IInv ==
  /\ TypeOK
  /\ OwnKey
  /\ ActiveAreBooted
  /\ StartedHaveKeys
  /\ CastsAreTrue
  /\ RecordsAreTrue
  /\ BegunAfterAll
  /\ StoppingIsDone
  /\ ExitAfterAll

LEMMA InitIInv == Init => IInv
<1>. SUFFICES ASSUME Init PROVE IInv
  OBVIOUS
<1>. USE DEF Init
<1>1. TypeOK
  BY LifecycleAssumption DEF TypeOK, NodeStatus
<1>2. OwnKey /\ ActiveAreBooted /\ StartedHaveKeys /\ CastsAreTrue
  BY DEF OwnKey, ActiveAreBooted, StartedHaveKeys, CastsAreTrue, HasStarted
<1>3. RecordsAreTrue /\ BegunAfterAll
  BY DEF RecordsAreTrue, BegunAfterAll, Begun
<1>4. StoppingIsDone /\ ExitAfterAll
  BY DEF StoppingIsDone, ExitAfterAll
<1>. QED  BY <1>1, <1>2, <1>3, <1>4 DEF IInv

\* Nothing that a node has said, learnt or reached is ever taken back.
LEMMA NothingTakenBack ==
  ASSUME TypeOK, [Next]_vars
  PROVE  /\ algDone \subseteq algDone' /\ cast \subseteq cast'
         /\ \A n \in Node : keys[n] \subseteq keys'[n]
         /\ \A n \in Node : HasStarted(n) => HasStarted(n)'
<1>1. algDone \subseteq algDone'
  BY DEF Next, Start, Boot, ShareKeys, Stop, Return, Monitor, MonitorShare,
    MonitorStarting, MonitorRunning, OnStartReturns, MonitorFinishing, MonitorExit,
    MonitorSkipsFinished, Terminate, TimeOut, Handle, HandlePubkey, HandleStarted,
    HandleFinished, Lose, vars
<1>2. cast \subseteq cast'
  BY DEF Next, Start, Boot, ShareKeys, Stop, Return, Monitor, MonitorShare,
    MonitorStarting, MonitorRunning, OnStartReturns, MonitorFinishing, MonitorExit,
    MonitorSkipsFinished, Terminate, TimeOut, Handle, HandlePubkey, HandleStarted,
    HandleFinished, Lose, CastAll, vars
<1>3. \A n \in Node : keys[n] \subseteq keys'[n]
  <2>1. \/ UNCHANGED keys
        \/ \E n \in Node : \E p : keys' = [keys EXCEPT ![n] = @ \cup {p}]
    <3>1. \A m \in InTransit : m.dst \in Node
      BY DEF InTransit, TypeOK, Message
    <3>. QED
      BY <3>1 DEF Next, Start, Boot, ShareKeys, Stop, Return, Monitor, MonitorShare,
        MonitorStarting, MonitorRunning, OnStartReturns, MonitorFinishing, MonitorExit,
        MonitorSkipsFinished, Terminate, TimeOut, Handle, HandlePubkey, HandleStarted,
        HandleFinished, Lose, communityVars, vars
  <2>2. keys \in [Node -> SUBSET Node]
    BY DEF TypeOK
  <2>. QED  BY <2>1, <2>2
<1>4. \A n \in Node : HasStarted(n) => HasStarted(n)'
  <2>1. \/ UNCHANGED monitor
        \/ \E n \in Node, pc \in MonitorState \ {"idle"} :
             /\ monitor' = [monitor EXCEPT ![n] = pc]
             /\ pc = "keys" => monitor[n] = "idle"
    BY DEF Next, Start, Boot, ShareKeys, Stop, Return, Monitor, MonitorShare,
        MonitorStarting, MonitorRunning, OnStartReturns, MonitorFinishing, MonitorExit,
        MonitorSkipsFinished, Terminate, TimeOut, Handle, HandlePubkey, HandleStarted,
        HandleFinished, Lose, MonitorGoes, MonitorState, taskVars, vars
  <2>2. monitor \in Monitors
    BY DEF TypeOK, Monitors, MonitorState
  <2>. QED  BY <2>1, <2>2 DEF HasStarted, Monitors
<1>. QED  BY <1>1, <1>2, <1>3, <1>4

LEMMA FinishedStays ==
  ASSUME TypeOK, [Next]_vars, NEW n \in Node
  PROVE  /\ \A k : HasCast(n, k) => HasCast(n, k)'
         /\ HasFinished(n) => HasFinished(n)'
BY NothingTakenBack DEF HasCast, HasFinished

LEMMA Moving ==
  ASSUME TypeOK, NEW n \in Node
  PROVE  \A pc \in MonitorState : MonitorGoes(n, pc) =>
           /\ monitor'[n] = pc
           /\ \A k \in Node : k # n => monitor'[k] = monitor[k]
BY MonitorTypes

-----------------------------------------------------------------------------
(***************************************************************************)
(* Each part of the invariant is preserved.                                *)
(***************************************************************************)
LEMMA OwnKeyStep == ASSUME IInv, TypeOK', [Next]_vars PROVE OwnKey'
<1>1. runner \in [Node -> {"off", "booting", "running", "stopping",
                           "returned", "cancelled"}]
  BY DEF IInv, TypeOK
<1>2. \A n \in Node : keys[n] \subseteq keys'[n]
  BY NothingTakenBack DEF IInv
<1>3. \/ UNCHANGED runner
      \/ \E n \in Node : Boot(n)
      \/ \E n \in Node, r \in {"running", "stopping", "returned"} :
           runner[n] # "off" /\ runner' = [runner EXCEPT ![n] = r]
      \/ \E n \in Node : TimeOut(n)
  BY DEF Next, Start, Boot, ShareKeys, Stop, Return, Monitor, MonitorShare,
    MonitorStarting, MonitorRunning, OnStartReturns, MonitorFinishing, MonitorExit,
    MonitorSkipsFinished, Terminate, Handle, HandlePubkey, HandleStarted,
    HandleFinished, Lose, vars
<1>4. CASE UNCHANGED runner
  BY <1>2, <1>4 DEF IInv, OwnKey
<1>5. ASSUME NEW n \in Node, Boot(n) PROVE OwnKey'
  <2>1. /\ runner' = [runner EXCEPT ![n] = "booting"]
        /\ keys' = [keys EXCEPT ![n] = @ \cup {n}]
        /\ keys \in [Node -> SUBSET Node]
    BY <1>5 DEF Boot, IInv, TypeOK
  <2>. QED  BY <1>1, <1>2, <2>1 DEF IInv, OwnKey
<1>6. ASSUME NEW n \in Node, NEW r \in {"running", "stopping", "returned"},
             runner[n] # "off", runner' = [runner EXCEPT ![n] = r]
      PROVE  OwnKey'
  BY <1>1, <1>2, <1>6 DEF IInv, OwnKey
<1>7. ASSUME NEW n \in Node, TimeOut(n) PROVE OwnKey'
  <2>1. \A k \in Node : runner'[k] # "off" <=> runner[k] # "off"
    BY <1>1, <1>7 DEF TimeOut, Active
  <2>. QED  BY <1>2, <2>1 DEF IInv, OwnKey
<1>. QED  BY <1>3, <1>4, <1>5, <1>6, <1>7

LEMMA BootedStep == ASSUME IInv, [Next]_vars PROVE ActiveAreBooted'
<1>1. \A n \in Node : runner[n] # "off" => runner'[n] # "off"
  <2>1. \/ UNCHANGED runner
        \/ \E n \in Node, r \in {"booting", "running", "stopping", "returned"} :
             runner' = [runner EXCEPT ![n] = r]
        \/ \E n \in Node : TimeOut(n)
    BY DEF Next, Start, Boot, ShareKeys, Stop, Return, Monitor, MonitorShare,
      MonitorStarting, MonitorRunning, OnStartReturns, MonitorFinishing, MonitorExit,
      MonitorSkipsFinished, Terminate, Handle, HandlePubkey, HandleStarted,
      HandleFinished, Lose, vars
  <2>2. runner \in [Node -> {"off", "booting", "running", "stopping",
                             "returned", "cancelled"}]
    BY DEF IInv, TypeOK
  <2>. QED  BY <2>1, <2>2 DEF TimeOut
<1>2. \A n \in Node : woken'[n] => woken[n] \/ runner[n] # "off"
  <2>1. \A m \in InTransit : m.dst \in Node
    BY DEF IInv, TypeOK, InTransit, Message
  <2>2. woken \in [Node -> BOOLEAN]
    BY DEF IInv, TypeOK
  <2>3. ASSUME NEW n \in Node, NEW s, SetStatus(n, s), runner[n] # "off",
               NEW k \in Node, woken'[k]
        PROVE  woken[k] \/ runner[k] # "off"
    BY <2>2, <2>3 DEF SetStatus
  <2>4. \A n \in Node : monitor[n] # "idle" => runner[n] # "off"
    BY DEF IInv, ActiveAreBooted
  <2>5. \/ \E n \in Node, s \in NodeStatus : SetStatus(n, s) /\ runner[n] # "off"
        \/ UNCHANGED woken
        \/ \E n \in Node : woken' = [woken EXCEPT ![n] = FALSE]
    BY <2>1, <2>4
    DEF Next, Start, Boot, ShareKeys, Stop, Return, Monitor, MonitorShare,
      MonitorStarting, MonitorRunning, OnStartReturns, MonitorFinishing, MonitorExit,
      MonitorSkipsFinished, Terminate, TimeOut, Handle, HandlePubkey, HandleStarted,
      HandleFinished, Lose, Records, Receives, NodeStatus, taskVars, vars
  <2>. QED  BY <2>2, <2>3, <2>5
<1>3. \A n \in Node : monitor'[n] # "idle" => monitor[n] # "idle" \/ woken[n]
  <2>1. \/ UNCHANGED monitor
        \/ \E n \in Node, pc \in MonitorState :
             MonitorGoes(n, pc) /\ (monitor[n] # "idle" \/ woken[n])
    BY DEF Next, Start, Boot, ShareKeys, Stop, Return, Monitor, MonitorShare,
      MonitorStarting, MonitorRunning, OnStartReturns, MonitorFinishing, MonitorExit,
      MonitorSkipsFinished, Terminate, TimeOut, Handle, HandlePubkey, HandleStarted,
      HandleFinished, Lose, MonitorState, taskVars, vars
  <2>. QED  BY <2>1, Moving DEF IInv
<1>. QED  BY <1>1, <1>2, <1>3 DEF IInv, ActiveAreBooted

LEMMA StartedStep == ASSUME IInv, TypeOK', [Next]_vars PROVE StartedHaveKeys'
<1>. SUFFICES ASSUME NEW n \in Node, HasStarted(n)'
              PROVE  HasCast(n, "started")' /\ keys'[n] = Node
  BY DEF StartedHaveKeys
<1>1. keys[n] \subseteq keys'[n] /\ keys'[n] \subseteq Node /\ TypeOK
  BY NothingTakenBack DEF IInv, TypeOK
<1>2. CASE HasStarted(n)
  <2>1. HasCast(n, "started") /\ keys[n] = Node
    BY <1>2 DEF IInv, StartedHaveKeys
  <2>. QED  BY <1>1, <2>1, FinishedStays
<1>3. CASE ~HasStarted(n)
  <2>1. MonitorStarting(n)
    <3>1. monitor[n] \in {"idle", "keys"} /\ monitor'[n] \notin {"idle", "keys"}
      BY <1>3 DEF HasStarted
    <3>2. \/ UNCHANGED monitor
          \/ \E k \in Node : MonitorStarting(k)
          \/ \E k \in Node : MonitorGoes(k, "keys")
          \/ \E k \in Node, pc \in MonitorState :
               MonitorGoes(k, pc) /\ monitor[k] \notin {"idle", "keys"}
      BY DEF Next, Start, Boot, ShareKeys, Stop, Return, Monitor, MonitorShare,
        MonitorRunning, OnStartReturns, MonitorFinishing, MonitorExit,
        MonitorSkipsFinished, Terminate, TimeOut, Handle, HandlePubkey,
        HandleStarted, HandleFinished, Lose, MonitorState, taskVars, vars
    <3>3. ASSUME NEW k \in Node, MonitorStarting(k) PROVE k = n
      BY <1>1, <3>1, <3>3, Moving DEF MonitorStarting, MonitorState
    <3>4. ASSUME NEW k \in Node, MonitorGoes(k, "keys") PROVE FALSE
      BY <1>1, <3>1, <3>4, Moving DEF MonitorState
    <3>5. ASSUME NEW k \in Node, NEW pc \in MonitorState, MonitorGoes(k, pc),
                 monitor[k] \notin {"idle", "keys"}
          PROVE  FALSE
      BY <1>1, <3>1, <3>5, Moving
    <3>. QED  BY <3>1, <3>2, <3>3, <3>4, <3>5
  <2>2. HasCast(n, "started")'
    BY <1>1, <2>1, CastTypes DEF MonitorStarting, Kind
  <2>3. runner[n] # "off"
    BY <2>1 DEF MonitorStarting, IInv, ActiveAreBooted
  <2>4. Node \subseteq keys[n]
    BY <2>1, <2>3 DEF MonitorStarting, HasAllKeys, Peers, IInv, OwnKey
  <2>. QED  BY <1>1, <2>2, <2>4
<1>. QED  BY <1>2, <1>3

LEMMA CastStep == ASSUME IInv, TypeOK', [Next]_vars PROVE CastsAreTrue'
<1>1. TypeOK /\ \A m \in cast : m.src \in Node
  BY DEF IInv, TypeOK, Message
<1>2. ASSUME NEW m \in cast
      PROVE  /\ m.kind = "started" => HasStarted(m.src)'
             /\ m.kind = "finished" => HasFinished(m.src)'
  BY <1>1, NothingTakenBack, FinishedStays DEF IInv, CastsAreTrue
<1>3. ASSUME cast' = cast PROVE CastsAreTrue'
  BY <1>2, <1>3 DEF CastsAreTrue
<1>4. ASSUME NEW n \in Node, MonitorShare(n) PROVE CastsAreTrue'
  <2>1. \A m \in cast' \ cast : m.kind = "pubkey"
    BY <1>1, <1>4, CastTypes DEF MonitorShare, Kind
  <2>. QED  BY <1>2, <2>1 DEF CastsAreTrue
<1>5. ASSUME NEW n \in Node, MonitorStarting(n) PROVE CastsAreTrue'
  <2>1. \A m \in cast' \ cast : m.src = n /\ m.kind = "started"
    BY <1>1, <1>5, CastTypes DEF MonitorStarting, Kind
  <2>2. HasStarted(n)'
    BY <1>1, <1>5, Moving DEF MonitorStarting, MonitorState, HasStarted
  <2>. QED  BY <1>2, <2>1, <2>2 DEF CastsAreTrue
<1>6. ASSUME NEW n \in Node, MonitorFinishing(n) PROVE CastsAreTrue'
  <2>1. /\ \A m \in cast' \ cast : m.src = n /\ m.kind = "finished"
        /\ HasCast(n, "finished")'
    BY <1>1, <1>6, CastTypes DEF MonitorFinishing, Kind
  <2>2. n \in algDone'
    BY <1>6 DEF MonitorFinishing, IInv, StoppingIsDone
  <2>. QED  BY <1>2, <2>1, <2>2 DEF CastsAreTrue, HasFinished
<1>. QED
  BY <1>3, <1>4, <1>5, <1>6
  DEF Next, Start, Boot, ShareKeys, Stop, Return, Monitor, MonitorRunning,
    OnStartReturns, MonitorExit, MonitorSkipsFinished, Terminate, TimeOut, Handle,
    HandlePubkey, HandleStarted, HandleFinished, Lose, vars

LEMMA RecordStep == ASSUME IInv, TypeOK', [Next]_vars PROVE RecordsAreTrue'
<1>1. TypeOK /\ \A m \in InTransit : m.dst \in Node
  BY DEF IInv, TypeOK, InTransit, Message
<1>2. \A n, p \in Node : /\ peerStatus[n][p] = "running" => HasStarted(p)'
                         /\ peerStatus[n][p] = "terminated" => HasFinished(p)'
  BY <1>1, NothingTakenBack, FinishedStays DEF IInv, RecordsAreTrue
<1>3. ASSUME UNCHANGED peerStatus PROVE RecordsAreTrue'
  BY <1>2, <1>3 DEF RecordsAreTrue
<1>4. ASSUME NEW n \in Node, NEW p \in Node, NEW s,
             peerStatus'[n] = [peerStatus[n] EXCEPT ![p] = s],
             \A q \in Node : q # n => peerStatus'[q] = peerStatus[q],
             s = "running" => HasStarted(p)',
             s = "terminated" => HasFinished(p)'
      PROVE  RecordsAreTrue'
  <2>1. \A i, j \in Node : peerStatus'[i][j] \in {peerStatus[i][j], s}
                           /\ (j # p \/ i # n => peerStatus'[i][j] = peerStatus[i][j])
    BY <1>4 DEF IInv, TypeOK
  <2>. QED  BY <1>2, <1>4, <2>1 DEF RecordsAreTrue
<1>5. ASSUME NEW n \in Node, NEW m, HandleStarted(n, m) PROVE RecordsAreTrue'
  <2>1. m \in cast /\ m.src \in Node /\ m.kind = "started"
    BY <1>1, <1>5, ReceiveTypes DEF HandleStarted
  <2>2. HasStarted(m.src)'
    BY <1>1, <2>1, NothingTakenBack DEF IInv, CastsAreTrue
  <2>3. /\ peerStatus'[n] = [peerStatus[n] EXCEPT ![m.src] = "running"]
        /\ \A q \in Node : q # n => peerStatus'[q] = peerStatus[q]
    BY <1>1, <1>5, <2>1, RecordTypes DEF HandleStarted, NodeStatus
  <2>. QED  BY <1>4, <2>1, <2>2, <2>3
<1>6. ASSUME NEW n \in Node, NEW m, HandleFinished(n, m) PROVE RecordsAreTrue'
  <2>1. m \in cast /\ m.src \in Node /\ m.kind = "finished"
    BY <1>1, <1>6, ReceiveTypes DEF HandleFinished
  <2>2. HasFinished(m.src)'
    BY <1>1, <2>1, FinishedStays DEF IInv, CastsAreTrue
  <2>3. /\ peerStatus'[n] = [peerStatus[n] EXCEPT ![m.src] = "terminated"]
        /\ \A q \in Node : q # n => peerStatus'[q] = peerStatus[q]
    BY <1>1, <1>6, <2>1, RecordTypes DEF HandleFinished, NodeStatus
  <2>. QED  BY <1>4, <2>1, <2>2, <2>3
<1>. QED
  BY <1>1, <1>3, <1>5, <1>6
  DEF Next, Start, Boot, ShareKeys, Stop, Return, Monitor, MonitorShare,
    MonitorStarting, MonitorRunning, OnStartReturns, MonitorFinishing, MonitorExit,
    MonitorSkipsFinished, Terminate, TimeOut, Handle, HandlePubkey, Lose,
    communityVars, vars

\* How the monitors move: on_start begins only in MonitorRunning.
LEMMA MonitorMoves ==
  ASSUME IInv, [Next]_vars
  PROVE  \/ UNCHANGED monitor
         \/ \E n \in Node : MonitorRunning(n)
         \/ \E n \in Node, pc \in {"keys", "starting"} :
              MonitorGoes(n, pc) /\ monitor[n] \in {"idle", "keys"}
         \/ \E n \in Node, pc \in {"waiting", "finishing", "exited"} :
              MonitorGoes(n, pc) /\ Begun(n)
BY DEF Next, Start, Boot, ShareKeys, Stop, Return, Monitor, MonitorShare,
  MonitorStarting, OnStartReturns, MonitorFinishing, MonitorExit,
  MonitorSkipsFinished, Terminate, TimeOut, Handle, HandlePubkey,
  HandleStarted, HandleFinished, Lose, Begun, taskVars, vars

\* A node's on_start begins after it has heard every peer and has started itself.
LEMMA RunningAfterAll ==
  ASSUME IInv, NEW n \in Node, MonitorRunning(n)
  PROVE  \A p \in Node : HasStarted(p)
<1>1. \A p \in Peers(n) : peerStatus[n][p] = "running"
  BY DEF MonitorRunning, AllPeers
<1>2. HasStarted(n)
  BY DEF MonitorRunning, HasStarted
<1>. QED  BY <1>1, <1>2 DEF IInv, RecordsAreTrue, Peers

LEMMA BegunStep == ASSUME IInv, [Next]_vars PROVE BegunAfterAll'
<1>1. TypeOK /\ \A p \in Node : HasStarted(p) => HasStarted(p)'
  BY NothingTakenBack DEF IInv
<1>2. \A n, p \in Node : Begun(n) => HasStarted(p)'
  BY <1>1 DEF IInv, BegunAfterAll
<1>3. ASSUME NEW n \in Node, MonitorRunning(n) PROVE \A p \in Node : HasStarted(p)'
  BY <1>1, <1>3, RunningAfterAll
<1>4. \/ \A n \in Node : Begun(n)' => Begun(n)
      \/ \E n \in Node : MonitorRunning(n)
  <2>1. ASSUME UNCHANGED monitor PROVE \A n \in Node : Begun(n)' => Begun(n)
    BY <2>1 DEF Begun
  <2>2. ASSUME NEW k \in Node, NEW pc \in {"keys", "starting"}, MonitorGoes(k, pc)
        PROVE  \A n \in Node : Begun(n)' => Begun(n)
    <3>1. /\ monitor'[k] = pc
          /\ \A n \in Node : n # k => monitor'[n] = monitor[n]
      BY <1>1, <2>2, Moving DEF MonitorState
    <3>. QED  BY <3>1 DEF Begun
  <2>3. ASSUME NEW k \in Node, NEW pc \in {"waiting", "finishing", "exited"},
               MonitorGoes(k, pc), Begun(k)
        PROVE  \A n \in Node : Begun(n)' => Begun(n)
    <3>1. \A n \in Node : n # k => monitor'[n] = monitor[n]
      BY <1>1, <2>3, Moving DEF MonitorState
    <3>. QED  BY <2>3, <3>1 DEF Begun
  <2>. QED  BY <2>1, <2>2, <2>3, MonitorMoves
<1>. QED  BY <1>2, <1>3, <1>4 DEF BegunAfterAll

\* Where the statuses come from.
LEMMA StatusMoves ==
  ASSUME IInv, [Next]_vars
  PROVE  \/ UNCHANGED status
         \/ \E n \in Node, s \in {"key_sharing", "starting", "running"} : SetStatus(n, s)
         \/ \E n \in Node : Stop(n) \/ MonitorExit(n)
         \/ \E n \in Node : \E m \in InTransit :
              /\ HandleFinished(n, m) /\ SetStatus(n, "terminated")
              /\ status[n] = "stopping"
<1>1. \A m \in InTransit : m.dst \in Node
  BY DEF InTransit, IInv, TypeOK, Message
<1>2. ASSUME NEW n \in Node, NEW m \in InTransit, HandleStarted(n, m)
      PROVE  UNCHANGED status \/ SetStatus(n, "running")
  BY <1>2 DEF HandleStarted, Records
<1>3. ASSUME NEW n \in Node, NEW m \in InTransit, HandleFinished(n, m)
      PROVE  \/ UNCHANGED status
             \/ SetStatus(n, "terminated") /\ status[n] = "stopping"
  BY <1>3 DEF HandleFinished, Records
<1>. QED
  BY <1>1, <1>2, <1>3
  DEF Next, Start, Boot, ShareKeys, Return, Monitor, MonitorShare, MonitorStarting,
    MonitorRunning, OnStartReturns, MonitorFinishing, MonitorSkipsFinished,
    Terminate, TimeOut, Handle, HandlePubkey, Lose, taskVars, vars

LEMMA Setting ==
  ASSUME IInv, NEW n \in Node
  PROVE  \A s \in NodeStatus : SetStatus(n, s) =>
           status'[n] = s /\ \A p \in Node : p # n => status'[p] = status[p]
BY StatusTypes DEF IInv

LEMMA StoppingStep == ASSUME IInv, [Next]_vars PROVE StoppingIsDone'
<1>1. TypeOK /\ algDone \subseteq algDone'
  BY NothingTakenBack DEF IInv
<1>2. \A n \in Node :
        status[n] = "stopping" \/ monitor[n] = "finishing" => n \in algDone'
  BY <1>1 DEF IInv, StoppingIsDone
<1>3. ASSUME NEW n \in Node, status'[n] = "stopping" PROVE n \in algDone'
  <2>1. CASE UNCHANGED status
    BY <1>2, <1>3, <2>1
  <2>2. ASSUME NEW k \in Node, Stop(k) PROVE n \in algDone'
    BY <1>2, <1>3, <2>2, Setting DEF Stop, NodeStatus
  <2>3. ASSUME NEW k \in Node,
               NEW s \in {"key_sharing", "starting", "running", "terminated"},
               SetStatus(k, s)
        PROVE  n \in algDone'
    <3>1. status'[k] = s /\ \A p \in Node : p # k => status'[p] = status[p]
      BY <2>3, Setting DEF NodeStatus
    <3>. QED  BY <1>2, <1>3, <3>1
  <2>. QED  BY <2>1, <2>2, <2>3, StatusMoves DEF MonitorExit
<1>4. ASSUME NEW n \in Node, monitor'[n] = "finishing" PROVE n \in algDone'
  <2>1. \/ UNCHANGED monitor
        \/ \E k \in Node : MonitorFinishing(k)
        \/ \E k \in Node, pc \in MonitorState \ {"finishing"} : MonitorGoes(k, pc)
    BY DEF Next, Start, Boot, ShareKeys, Stop, Return, Monitor, MonitorShare,
      MonitorStarting, MonitorRunning, OnStartReturns, MonitorExit,
      MonitorSkipsFinished, Terminate, TimeOut, Handle, HandlePubkey,
      HandleStarted, HandleFinished, Lose, MonitorState, taskVars, vars
  <2>2. ASSUME NEW k \in Node, MonitorFinishing(k) PROVE n \in algDone'
    <3>1. \A p \in Node : p # k => monitor'[p] = monitor[p]
      BY <1>1, <2>2, Moving DEF MonitorFinishing, MonitorState
    <3>. QED  BY <1>2, <1>4, <2>2, <3>1 DEF MonitorFinishing
  <2>3. ASSUME NEW k \in Node, NEW pc \in MonitorState \ {"finishing"},
               MonitorGoes(k, pc)
        PROVE  n \in algDone'
    <3>1. monitor'[k] = pc /\ \A p \in Node : p # k => monitor'[p] = monitor[p]
      BY <1>1, <2>3, Moving
    <3>. QED  BY <1>2, <1>4, <3>1
  <2>. QED  BY <1>2, <1>4, <2>1, <2>2, <2>3
<1>. QED  BY <1>3, <1>4 DEF StoppingIsDone

\* Every algorithm has terminated and every peer of n has cast FINISHED.
Over(n) == \A p \in Node : p \in algDone /\ (p # n => HasCast(p, "finished"))

LEMMA ExitStep == ASSUME IInv, TypeOK', RecordsAreTrue', [Next]_vars PROVE ExitAfterAll'
<1>1. TypeOK /\ algDone \subseteq algDone'
  BY NothingTakenBack DEF IInv
<1>2. \A n \in Node : status[n] = "terminated" \/ monitor[n] = "exited" => Over(n)'
  BY <1>1, FinishedStays DEF IInv, ExitAfterAll, Over
<1>3. ASSUME NEW n \in Node, n \in algDone, AllPeers(n, peerStatus'[n], "terminated")
      PROVE  Over(n)'
  BY <1>1, <1>3 DEF AllPeers, Peers, RecordsAreTrue, HasFinished, Over
<1>4. ASSUME NEW n \in Node, MonitorExit(n) PROVE Over(n)'
  <2>1. n \in algDone
    BY <1>4 DEF MonitorExit, IInv, StoppingIsDone
  <2>2. AllPeers(n, peerStatus'[n], "terminated")
    BY <1>4 DEF MonitorExit, communityVars
  <2>. QED  BY <1>3, <2>1, <2>2
<1>5. ASSUME NEW n \in Node, NEW m \in InTransit, HandleFinished(n, m),
             SetStatus(n, "terminated"), status[n] = "stopping"
      PROVE  Over(n)' \/ UNCHANGED status
  <2>1. n \in algDone
    BY <1>5 DEF IInv, StoppingIsDone
  <2>2. \/ UNCHANGED status
        \/ AllPeers(n, [peerStatus[n] EXCEPT ![m.src] = "terminated"], "terminated")
    BY <1>5 DEF HandleFinished, Records
  <2>3. peerStatus'[n] = [peerStatus[n] EXCEPT ![m.src] = "terminated"]
    <3>1. m.src \in Node
      BY <1>1, <1>5, ReceiveTypes DEF HandleFinished
    <3>. QED  BY <1>1, <1>5, <3>1, RecordTypes DEF HandleFinished, NodeStatus
  <2>. QED  BY <1>3, <2>1, <2>2, <2>3
<1>6. ASSUME NEW n \in Node, status'[n] = "terminated" PROVE Over(n)'
  <2>1. CASE UNCHANGED status
    BY <1>2, <1>6, <2>1
  <2>2. ASSUME NEW k \in Node, NEW s \in NodeStatus, SetStatus(k, s)
        PROVE  (n = k /\ s = "terminated") \/ status[n] = "terminated"
    BY <1>6, <2>2, Setting
  <2>. QED
    BY <1>2, <1>4, <1>5, <2>1, <2>2, StatusMoves DEF MonitorExit, Stop, NodeStatus
<1>7. ASSUME NEW n \in Node, monitor'[n] = "exited" PROVE Over(n)'
  <2>1. \/ UNCHANGED monitor
        \/ \E k \in Node : MonitorExit(k) \/ MonitorSkipsFinished(k)
        \/ \E k \in Node, pc \in MonitorState \ {"exited"} : MonitorGoes(k, pc)
    BY DEF Next, Start, Boot, ShareKeys, Stop, Return, Monitor, MonitorShare,
      MonitorStarting, MonitorRunning, OnStartReturns, MonitorFinishing,
      Terminate, TimeOut, Handle, HandlePubkey,
      HandleStarted, HandleFinished, Lose, MonitorState, taskVars, vars
  <2>2. ASSUME NEW k \in Node, NEW pc \in MonitorState, MonitorGoes(k, pc)
        PROVE  (n = k /\ pc = "exited") \/ monitor[n] = "exited"
    BY <1>1, <1>7, <2>2, Moving
  <2>3. ASSUME NEW k \in Node, MonitorSkipsFinished(k) PROVE Over(k)'
    BY <1>2, <2>3 DEF MonitorSkipsFinished
  <2>. QED
    BY <1>2, <1>4, <1>7, <2>1, <2>2, <2>3
    DEF MonitorExit, MonitorSkipsFinished, MonitorState
<1>. QED  BY <1>6, <1>7 DEF ExitAfterAll, Over

-----------------------------------------------------------------------------
(***************************************************************************)
(* The theorems.                                                           *)
(***************************************************************************)
LEMMA Step == IInv /\ [Next]_vars => IInv'
<1>. SUFFICES ASSUME IInv, [Next]_vars PROVE IInv'
  OBVIOUS
<1>1. TypeOK'
  BY TypeStep DEF IInv
<1>2. RecordsAreTrue'
  BY <1>1, RecordStep
<1>. QED
  BY <1>1, <1>2, OwnKeyStep, BootedStep, StartedStep, CastStep, BegunStep, StoppingStep, ExitStep
  DEF IInv

\* The inductive invariant holds in every reachable state.
THEOREM Invariance == Spec => []IInv
BY InitIInv, Step, PTL DEF Spec

\* The state of Node and Community has its types.
THEOREM TypeCorrect == Spec => []TypeOK
BY Invariance, PTL DEF IInv

\* No on_start begins before every node holds every key and has cast STARTED
\* (node.py:117-147), so nobody is sent a message it cannot verify.
THEOREM Ready == Spec => []ReadyToCommunicate
<1>1. IInv => ReadyToCommunicate
  BY DEF IInv, BegunAfterAll, StartedHaveKeys, ReadyToCommunicate
<1>. QED  BY <1>1, Invariance, PTL

\* on_exit runs only when every algorithm has terminated and every peer has
\* cast FINISHED (node.py:158-182 and 236-243).
THEOREM NobodyExitsEarly == Spec => []ExitAfterAll
BY Invariance, PTL DEF IInv

\* The start-up of the nodes is a barrier, whatever messages are lost and
\* whichever processes end.
THEOREM StartupRefinement == Spec => StartupIsBarrier
<1>1. Init => Startup!Init
  BY DEF Init, Startup!Init, Begun
<1>2. ASSUME IInv, [Next]_vars PROVE [Startup!Next]_(Startup!vars)
  <2>. DEFINE arrived == {n \in Node : monitor[n] \notin {"idle", "keys"}}
              passed == {n \in Node : Begun(n)}
  <2>. USE <1>2
  <2>1. TypeOK
    BY DEF IInv
  <2>2. CASE UNCHANGED monitor
    BY <2>2 DEF Startup!vars, Begun
  <2>3. ASSUME NEW n \in Node, MonitorRunning(n) PROVE Startup!Next
    <3>1. /\ monitor[n] = "starting" /\ monitor'[n] = "on_start"
          /\ \A k \in Node : k # n => monitor'[k] = monitor[k]
      BY <2>1, <2>3, Moving DEF MonitorRunning, MonitorState
    <3>2. arrived = Node
      BY <2>3, RunningAfterAll DEF HasStarted
    <3>3. arrived' = arrived
      BY <3>1
    <3>4. passed' = passed \cup {n}
      BY <3>1 DEF Begun
    <3>5. Startup!Pass(n)
      BY <3>2, <3>3, <3>4 DEF Startup!Pass
    <3>. QED  BY <3>5 DEF Startup!Next
  <2>4. ASSUME NEW n \in Node, NEW pc \in {"keys", "starting"}, MonitorGoes(n, pc),
               monitor[n] \in {"idle", "keys"}
        PROVE  [Startup!Next]_(Startup!vars)
    <3>1. /\ monitor'[n] = pc
          /\ \A k \in Node : k # n => monitor'[k] = monitor[k]
      BY <2>1, <2>4, Moving DEF MonitorState
    <3>2. passed' = passed
      BY <2>4, <3>1 DEF Begun
    <3>3. CASE pc = "keys"
      <4>1. arrived' = arrived
        BY <2>4, <3>1, <3>3
      <4>. QED  BY <3>2, <4>1 DEF Startup!vars
    <3>4. CASE pc = "starting"
      <4>1. n \notin arrived /\ arrived' = arrived \cup {n}
        BY <2>4, <3>1, <3>4
      <4>2. Startup!Arrive(n)
        BY <3>2, <4>1 DEF Startup!Arrive
      <4>. QED  BY <4>2 DEF Startup!Next
    <3>. QED  BY <3>3, <3>4
  <2>5. ASSUME NEW n \in Node, NEW pc \in {"waiting", "finishing", "exited"},
               MonitorGoes(n, pc), Begun(n)
        PROVE  UNCHANGED Startup!vars
    <3>1. /\ monitor'[n] = pc
          /\ \A k \in Node : k # n => monitor'[k] = monitor[k]
      BY <2>1, <2>5, Moving DEF MonitorState
    <3>2. passed' = passed
      BY <2>5, <3>1 DEF Begun
    <3>3. arrived' = arrived
      BY <2>5, <3>1 DEF Begun
    <3>. QED  BY <3>2, <3>3 DEF Startup!vars
  <2>. QED  BY <2>2, <2>3, <2>4, <2>5, MonitorMoves
<1>. QED  BY <1>1, <1>2, Invariance, PTL DEF Spec, StartupIsBarrier, Startup!Spec

\* The shutdown of the nodes is a barrier: on_exit waits for every algorithm.
THEOREM ShutdownRefinement == Spec => ShutdownIsBarrier
<1>1. Init => Shutdown!Init
  BY DEF Init, Shutdown!Init
<1>2. ASSUME IInv, IInv', [Next]_vars PROVE [Shutdown!Next]_(Shutdown!vars)
  <2>. DEFINE passed == {n \in Node : monitor[n] = "exited"}
  <2>. USE <1>2
  <2>1. TypeOK
    BY DEF IInv
  <2>2. ASSUME NEW n \in Node, Terminate(n) PROVE Shutdown!Next
    BY <2>2 DEF Terminate, taskVars, Shutdown!Next, Shutdown!Arrive
  <2>3. ASSUME NEW n \in Node, MonitorExit(n) \/ MonitorSkipsFinished(n)
        PROVE  Shutdown!Next
    <3>1. /\ monitor'[n] = "exited" /\ algDone' = algDone
          /\ \A k \in Node : k # n => monitor'[k] = monitor[k]
      BY <2>1, <2>3, Moving DEF MonitorExit, MonitorSkipsFinished, MonitorState
    <3>2. algDone = Node
      BY <2>1, <3>1 DEF IInv, ExitAfterAll, TypeOK
    <3>3. passed' = passed \cup {n}
      BY <3>1
    <3>4. Shutdown!Pass(n)
      BY <3>1, <3>2, <3>3 DEF Shutdown!Pass
    <3>. QED  BY <3>4 DEF Shutdown!Next
  <2>4. ASSUME UNCHANGED <<algDone, monitor>> PROVE UNCHANGED Shutdown!vars
    BY <2>4 DEF Shutdown!vars
  <2>5. ASSUME NEW n \in Node, NEW pc \in MonitorState \ {"exited"},
               MonitorGoes(n, pc), monitor[n] # "exited", UNCHANGED algDone
        PROVE  UNCHANGED Shutdown!vars
    <3>1. /\ monitor'[n] = pc
          /\ \A k \in Node : k # n => monitor'[k] = monitor[k]
      BY <2>1, <2>5, Moving
    <3>2. passed' = passed
      BY <2>5, <3>1
    <3>. QED  BY <2>5, <3>2 DEF Shutdown!vars
  <2>6. \/ \E n \in Node : Terminate(n) \/ MonitorExit(n) \/ MonitorSkipsFinished(n)
        \/ UNCHANGED <<algDone, monitor>>
        \/ \E n \in Node, pc \in MonitorState \ {"exited"} :
             MonitorGoes(n, pc) /\ monitor[n] # "exited" /\ UNCHANGED algDone
    BY DEF Next, Start, Boot, ShareKeys, Stop, Return, Monitor, MonitorShare,
      MonitorStarting, MonitorRunning, OnStartReturns, MonitorFinishing,
      TimeOut, Handle, HandlePubkey, HandleStarted, HandleFinished, Lose,
      MonitorState, taskVars, vars
  <2>. QED  BY <2>2, <2>3, <2>4, <2>5, <2>6
<1>. QED  BY <1>1, <1>2, Invariance, PTL DEF Spec, ShutdownIsBarrier, Shutdown!Spec

-----------------------------------------------------------------------------
(***************************************************************************)
(* What can stop the start-up of nodes in one process, where no cast is    *)
(* lost: only that a peer is recorded as finished before the node has seen *)
(* it run.                                                                 *)
(***************************************************************************)
\* ShareKeys wakes a monitor that waits for its first status.
WokenOnceRunning ==
  \A n \in Node :
    monitor[n] = "idle" /\ runner[n] \in {"running", "stopping", "returned"} => woken[n]

SharedKeys == \A n \in Node : monitor[n] # "idle" => HasCast(n, "pubkey")

\* What was handled has been noted, and is forgotten only for something later.
HeardIsNoted ==
  \A m \in settled :
    /\ m.kind = "pubkey" => m.src \in keys[m.dst]
    /\ m.kind = "started" => peerStatus[m.dst][m.src] \in {"running", "terminated"}

SInv == WokenOnceRunning /\ SharedKeys /\ HeardIsNoted

\* Nothing more will happen to the start-up of the nodes, though the process
\* lives: all of them share keys or have gone on, what they cast for it has
\* been handled, and no monitor can pass the gate it is at.
StartupRests ==
  /\ Active # {}
  /\ \A n \in Node : runner[n] \notin {"off", "booting", "cancelled"}
  /\ \A m \in InTransit : m.kind = "finished"
  /\ \A n \in Node :
       /\ monitor[n] = "idle" => ~woken[n]
       /\ monitor[n] = "keys" => ~HasAllKeys(n)
       /\ monitor[n] = "starting" => ~AllPeers(n, peerStatus[n], "running")

\* Only a peer that ran and finished too quickly keeps on_start from a node:
\* the poll of node.py:142 asks for RUNNING, and the peer is TERMINATED.
OnlyTheQuickHinder ==
  StartupRests =>
    \A n \in Node :
      \/ Begun(n)
      \/ \E p \in Peers(n) : peerStatus[n][p] = "terminated" /\ HasFinished(p)

LEMMA WokenStep == ASSUME IInv, WokenOnceRunning, [Next]_vars PROVE WokenOnceRunning'
<1>. SUFFICES ASSUME NEW n \in Node, monitor'[n] = "idle",
                     runner'[n] \in {"running", "stopping", "returned"}
              PROVE  woken'[n]
  BY DEF WokenOnceRunning
<1>1. TypeOK
  BY DEF IInv
<1>2. monitor[n] = "idle"
  <2>1. \/ UNCHANGED monitor
        \/ \E k \in Node, pc \in MonitorState \ {"idle"} : MonitorGoes(k, pc)
    BY MonitorMoves DEF MonitorRunning, MonitorState
  <2>. QED  BY <1>1, <2>1, Moving
<1>3. \/ runner[n] \in {"running", "stopping", "returned"}
      \/ ShareKeys(n)
  <2>1. \/ UNCHANGED runner
        \/ \E k \in Node : ShareKeys(k) \/ TimeOut(k)
        \/ \E k \in Node : runner' = [runner EXCEPT ![k] = "booting"]
        \/ \E k \in Node, r \in {"stopping", "returned"} :
             /\ runner' = [runner EXCEPT ![k] = r]
             /\ runner[k] \in {"running", "stopping"}
    BY DEF Next, Start, Boot, Stop, Return, Monitor, MonitorShare, MonitorStarting,
      MonitorRunning, OnStartReturns, MonitorFinishing, MonitorExit,
      MonitorSkipsFinished, Terminate, Handle, HandlePubkey, HandleStarted,
      HandleFinished, Lose, vars
  <2>2. runner \in [Node -> {"off", "booting", "running", "stopping",
                             "returned", "cancelled"}]
    BY <1>1 DEF TypeOK
  <2>3. ASSUME NEW k \in Node, ShareKeys(k), k # n PROVE runner'[n] = runner[n]
    BY <2>2, <2>3 DEF ShareKeys
  <2>4. ASSUME NEW k \in Node, TimeOut(k) PROVE runner'[n] = runner[n]
    BY <2>2, <2>4 DEF TimeOut
  <2>. QED  BY <2>1, <2>2, <2>3, <2>4
<1>4. woken[n] => woken'[n]
  <2>1. woken \in [Node -> BOOLEAN]
    BY <1>1 DEF TypeOK
  <2>2. ASSUME NEW k \in Node, NEW s, SetStatus(k, s), woken[n] PROVE woken'[n]
    BY <2>1, <2>2 DEF SetStatus
  <2>3. ASSUME NEW k \in Node, NEW pc \in MonitorState \ {"idle"}, MonitorGoes(k, pc),
               woken' = [woken EXCEPT ![k] = FALSE], woken[n]
        PROVE  woken'[n]
    <3>1. k # n
      BY <1>1, <2>3, Moving
    <3>. QED  BY <2>1, <2>3, <3>1
  <2>4. \/ UNCHANGED woken
        \/ \E k \in Node, s \in NodeStatus : SetStatus(k, s)
        \/ \E k \in Node, pc \in MonitorState \ {"idle"} :
             MonitorGoes(k, pc) /\ woken' = [woken EXCEPT ![k] = FALSE]
    <3>1. \A m \in InTransit : m.dst \in Node
      BY <1>1 DEF TypeOK, InTransit, Message
    <3>. QED
      BY <3>1
      DEF Next, Start, Boot, ShareKeys, Stop, Return, Monitor, MonitorShare,
        MonitorStarting, MonitorRunning, OnStartReturns, MonitorFinishing, MonitorExit,
        MonitorSkipsFinished, Terminate, TimeOut, Handle, HandlePubkey, HandleStarted,
        HandleFinished, Lose, Records, NodeStatus, MonitorState, taskVars, vars
  <2>. QED  BY <2>2, <2>3, <2>4
<1>5. ASSUME ShareKeys(n) PROVE woken'[n]
  BY <1>1, <1>2, <1>5 DEF ShareKeys, SetStatus, TypeOK
<1>. QED  BY <1>2, <1>3, <1>4, <1>5 DEF WokenOnceRunning

LEMMA SharedStep == ASSUME IInv, SharedKeys, [Next]_vars PROVE SharedKeys'
<1>. SUFFICES ASSUME NEW n \in Node, monitor'[n] # "idle" PROVE HasCast(n, "pubkey")'
  BY DEF SharedKeys
<1>1. TypeOK
  BY DEF IInv
<1>2. CASE monitor[n] # "idle"
  BY <1>1, <1>2, FinishedStays DEF SharedKeys
<1>3. CASE monitor[n] = "idle"
  <2>1. MonitorShare(n)
    <3>1. \/ UNCHANGED monitor
          \/ \E k \in Node : MonitorShare(k)
          \/ \E k \in Node, pc \in MonitorState :
               MonitorGoes(k, pc) /\ monitor[k] # "idle"
      BY DEF Next, Start, Boot, ShareKeys, Stop, Return, Monitor, MonitorStarting,
        MonitorRunning, OnStartReturns, MonitorFinishing, MonitorExit,
        MonitorSkipsFinished, Terminate, TimeOut, Handle, HandlePubkey,
        HandleStarted, HandleFinished, Lose, MonitorState, taskVars, vars
    <3>2. ASSUME NEW k \in Node, NEW pc \in MonitorState, MonitorGoes(k, pc), k # n
          PROVE  FALSE
      BY <1>1, <1>3, <3>2, Moving
    <3>. QED  BY <1>3, <3>1, <3>2 DEF MonitorShare, MonitorState
  <2>. QED  BY <1>1, <2>1, CastTypes DEF MonitorShare, Kind
<1>. QED  BY <1>2, <1>3

LEMMA NotedStep ==
  ASSUME OneProcess, IInv, HeardIsNoted, [Next]_vars PROVE HeardIsNoted'
<1>1. /\ TypeOK
      /\ \A n \in Node : keys[n] \subseteq keys'[n]
      /\ \A m \in settled : m.src \in Node /\ m.dst \in Node
      /\ \A m \in InTransit : m.dst \in Node
  <2>1. TypeOK /\ cast \subseteq Message /\ settled \subseteq cast
    BY DEF IInv, TypeOK
  <2>2. \A m \in cast : m.src \in Node /\ m.dst \in Node
    BY <2>1 DEF Message
  <2>. QED  BY <2>1, <2>2, NothingTakenBack DEF InTransit
<1>. DEFINE Late == {"running", "terminated"}
<1>2. \A m \in settled : m.kind = "pubkey" => m.src \in keys'[m.dst]
  BY <1>1 DEF HeardIsNoted, Message
<1>3. ASSUME UNCHANGED settled, UNCHANGED peerStatus PROVE HeardIsNoted'
  BY <1>2, <1>3 DEF HeardIsNoted
<1>4. ASSUME NEW n \in Node, NEW m, HandlePubkey(n, m) PROVE HeardIsNoted'
  <2>1. m.src \in Node /\ m.dst = n /\ m.kind = "pubkey"
    BY <1>1, <1>4, ReceiveTypes DEF HandlePubkey
  <2>2. settled' = settled \cup {m} /\ UNCHANGED peerStatus
    BY <1>4 DEF HandlePubkey, Receives
  <2>3. m.src \in keys'[m.dst]
    BY <1>1, <1>4, <2>1 DEF HandlePubkey, TypeOK
  <2>. QED  BY <1>2, <2>1, <2>2, <2>3 DEF HeardIsNoted
<1>5. ASSUME NEW n \in Node, NEW m, NEW s \in Late,
             m.src \in Node, m.dst = n, m.kind # "pubkey",
             settled' = settled \cup {m},
             peerStatus'[n] = [peerStatus[n] EXCEPT ![m.src] = s],
             \A q \in Node : q # n => peerStatus'[q] = peerStatus[q]
      PROVE  HeardIsNoted'
  <2>1. \A i, j \in Node : peerStatus[i][j] \in Late => peerStatus'[i][j] \in Late
    BY <1>1, <1>5 DEF TypeOK
  <2>2. peerStatus'[m.dst][m.src] \in Late
    BY <1>1, <1>5 DEF TypeOK
  <2>. QED  BY <1>1, <1>2, <1>5, <2>1, <2>2 DEF HeardIsNoted, Message
<1>6. ASSUME NEW n \in Node, NEW m, HandleStarted(n, m) \/ HandleFinished(n, m)
      PROVE  HeardIsNoted'
  <2>1. m.src \in Node /\ m.dst = n /\ m.kind # "pubkey"
    BY <1>1, <1>6, ReceiveTypes DEF HandleStarted, HandleFinished
  <2>2. settled' = settled \cup {m}
    BY <1>6 DEF HandleStarted, HandleFinished, Receives
  <2>3. PICK s \in Late : /\ peerStatus'[n] = [peerStatus[n] EXCEPT ![m.src] = s]
                          /\ \A q \in Node : q # n => peerStatus'[q] = peerStatus[q]
    BY <1>1, <1>6, <2>1, RecordTypes DEF HandleStarted, HandleFinished, NodeStatus
  <2>. QED  BY <1>5, <2>1, <2>2, <2>3
<1>. QED
  BY <1>1, <1>3, <1>4, <1>6
  DEF Next, Start, Boot, ShareKeys, Stop, Return, Monitor, MonitorShare,
    MonitorStarting, MonitorRunning, OnStartReturns, MonitorFinishing, MonitorExit,
    MonitorSkipsFinished, Terminate, TimeOut, Handle, Lose, communityVars, vars

\* When the start-up rests, everybody has cast everything and it was handled.
LEMMA AllHaveStarted ==
  ASSUME OneProcess, IInv, SInv, StartupRests
  PROVE  \A n \in Node : HasStarted(n)
<1>1. \A n \in Node : monitor[n] # "idle"
  BY DEF SInv, WokenOnceRunning, StartupRests, IInv, TypeOK
<1>2. ASSUME NEW n \in Node, NEW p \in Peers(n) PROVE p \in keys[n]
  <2>. DEFINE m == [src |-> p, dst |-> n, kind |-> "pubkey"]
  <2>1. p \in Node /\ n \in Peers(p)
    BY DEF Peers
  <2>2. m \in cast
    BY <1>1, <2>1 DEF SInv, SharedKeys, HasCast
  <2>3. m \in settled
    BY <2>2 DEF StartupRests, InTransit
  <2>. QED  BY <2>3 DEF SInv, HeardIsNoted
<1>3. \A n \in Node : HasAllKeys(n)
  BY <1>2 DEF HasAllKeys
<1>. QED  BY <1>1, <1>3 DEF StartupRests, HasStarted

LEMMA RestIsBegun == OneProcess /\ IInv /\ SInv => OnlyTheQuickHinder
<1>. SUFFICES ASSUME OneProcess, IInv, SInv, StartupRests,
                     NEW n \in Node, ~Begun(n)
              PROVE  \E p \in Peers(n) : peerStatus[n][p] = "terminated" /\ HasFinished(p)
  BY DEF OnlyTheQuickHinder
<1>1. monitor[n] = "starting"
  BY AllHaveStarted DEF HasStarted, Begun, IInv, TypeOK
<1>2. PICK p \in Peers(n) : peerStatus[n][p] # "running"
  BY <1>1 DEF StartupRests, AllPeers
<1>. DEFINE m == [src |-> p, dst |-> n, kind |-> "started"]
<1>3. p \in Node /\ n \in Peers(p)
  BY DEF Peers
<1>4. m \in cast
  BY <1>3, AllHaveStarted DEF IInv, StartedHaveKeys, HasCast
<1>5. m \in settled
  BY <1>4 DEF StartupRests, InTransit
<1>6. peerStatus[n][p] = "terminated"
  BY <1>2, <1>5 DEF SInv, HeardIsNoted
<1>. QED  BY <1>3, <1>6 DEF IInv, RecordsAreTrue

\* In one process, without a timeout, the start-up of the nodes hangs in one
\* way only, whatever else is delayed: a peer has finished, and told so, before
\* the node has seen it RUNNING.  If no algorithm has terminated, nobody is
\* held up: this is what StartupCompletes asks, without the fairness that
\* brings it about (node.py:104-147 and 217-243).
THEOREM StartupNeverStuck == ASSUME OneProcess PROVE Spec => []OnlyTheQuickHinder
<1>1. Init => SInv
  BY DEF Init, SInv, WokenOnceRunning, SharedKeys, HeardIsNoted
<1>2. IInv /\ SInv /\ [Next]_vars => SInv'
  BY WokenStep, SharedStep, NotedStep DEF SInv
<1>3. IInv /\ SInv => OnlyTheQuickHinder
  BY RestIsBegun
<1>. QED  BY <1>1, <1>2, <1>3, Invariance, PTL DEF Spec
=============================================================================
