---------------------------- MODULE NodeLifecycle ----------------------------
(***************************************************************************)
(* The lifecycle of distbench nodes: Node.start, the _monitor task and the *)
(* handlers of the lifecycle messages (distbench/node.py), the peer        *)
(* statuses and keys of a node's Community, and the process the nodes run  *)
(* in (_run_nodes of distbench/main.py).                                   *)
(*                                                                         *)
(* The locks of Node and Community are never held across another await, so *)
(* what runs between two awaits of a task is one action.  A cast whose     *)
(* peer cannot be reached fails, and the monitor discards the failure.     *)
(* Key bytes are left out: a key is named by its owner.                    *)
(***************************************************************************)
EXTENDS FiniteSets

CONSTANTS
  Node,         \* the nodes of the configuration file
  OneProcess,   \* offline and local mode; otherwise one process per node
  MayTimeOut    \* the run may reach the timeout of _run_nodes

ASSUME LifecycleAssumption ==
  /\ IsFiniteSet(Node)
  /\ OneProcess \in BOOLEAN
  /\ MayTimeOut \in BOOLEAN

NodeStatus == {"not_started", "key_sharing", "starting", "running",
               "stopping", "terminated"}

Kind == {"pubkey", "started", "finished"}

Message == [src : Node, dst : Node, kind : Kind]

Peers(n) == Node \ {n}

VARIABLES
  status,       \* Node.status
  peerStatus,   \* Community._peer_status
  keys,         \* Community._keys
  monitor,      \* the await the _monitor task is at
  woken,        \* the _status_changed event the monitor waits for is set
  runner,       \* how far Node.start has come
  algDone,      \* nodes whose algorithm has called terminate()
  cast,         \* lifecycle messages cast so far
  settled       \* those that were handled or lost

taskVars == <<status, monitor, woken>>
communityVars == <<peerStatus, keys>>
vars == <<taskVars, communityVars, runner, algDone, cast, settled>>

TypeOK ==
  /\ status \in [Node -> NodeStatus]
  /\ peerStatus \in [Node -> [Node -> NodeStatus]]
  /\ keys \in [Node -> SUBSET Node]
  /\ monitor \in [Node -> {"idle", "keys", "starting", "on_start", "waiting",
                           "finishing", "exited"}]
  /\ woken \in [Node -> BOOLEAN]
  /\ runner \in [Node -> {"off", "booting", "running", "stopping",
                          "returned", "cancelled"}]
  /\ algDone \in SUBSET Node
  /\ cast \in SUBSET Message
  /\ settled \in SUBSET cast

Init ==
  /\ status = [n \in Node |-> "not_started"]
  /\ peerStatus = [n \in Node |-> [p \in Node |-> "not_started"]]
  /\ keys = [n \in Node |-> {}]
  /\ monitor = [n \in Node |-> "idle"]
  /\ woken = [n \in Node |-> FALSE]
  /\ runner = [n \in Node |-> "off"]
  /\ algDone = {}
  /\ cast = {}
  /\ settled = {}

-----------------------------------------------------------------------------
Active == {n \in Node : runner[n] \in {"booting", "running", "stopping"}}

\* A process lives until every Node.start in it has returned; its event loop
\* then cancels the remaining tasks, the monitors among them.
Alive(n) == IF OneProcess THEN Active # {} ELSE n \in Active

\* on_start has been called.
Begun(n) == monitor[n] \in {"on_start", "waiting", "finishing", "exited"}

\* Slip: only peers with a recorded status are asked.
AllPeersRecorded(n, statuses, s) ==
  \A p \in Peers(n) : statuses[p] \in {s, "not_started"}

AllPeers(n, statuses, s) == \A p \in Peers(n) : statuses[p] = s

\* Slip: the first key is enough.
HasAllKeysAny(n) == Peers(n) \cap keys[n] # {}

HasAllKeys(n) == Peers(n) \subseteq keys[n]

\* Slip: the tasks that wait for the change are not told.
SetStatusSilent(n, s) ==
  /\ status' = [status EXCEPT ![n] = s]
  /\ UNCHANGED woken

\* _set_status: the event of the tasks that wait now is set and replaced, so
\* a task that begins to wait afterwards is not woken.
SetStatus(n, s) ==
  /\ status' = [status EXCEPT ![n] = s]
  /\ woken' = [woken EXCEPT ![n] = @ \/ monitor[n] \in {"idle", "waiting"}]

\* The monitor's gather over conn.cast.
CastAll(n, k) ==
  cast' = cast \cup {[src |-> n, dst |-> p, kind |-> k] : p \in Peers(n)}

MonitorGoes(n, pc) == monitor' = [monitor EXCEPT ![n] = pc]

-----------------------------------------------------------------------------
(***************************************************************************)
(* Node.start.                                                             *)
(***************************************************************************)
\* A process starts: own key stored, monitor and server tasks created.
Boot(n) ==
  /\ runner[n] = "off"
  /\ runner' = [runner EXCEPT ![n] = "booting"]
  /\ keys' = [keys EXCEPT ![n] = @ \cup {n}]
  /\ UNCHANGED <<taskVars, peerStatus, algDone, cast, settled>>

\* After a pause, before the end of which all tasks of the process have begun.
ShareKeys(n) ==
  /\ runner[n] = "booting"
  /\ OneProcess => \A p \in Node : runner[p] # "off"
  /\ runner' = [runner EXCEPT ![n] = "running"]
  /\ SetStatus(n, "key_sharing")
  /\ UNCHANGED <<monitor, communityVars, algDone, cast, settled>>

\* asyncio.wait sees the algorithm terminated, whatever the status is.
Stop(n) ==
  /\ runner[n] = "running"
  /\ n \in algDone
  /\ runner' = [runner EXCEPT ![n] = "stopping"]
  /\ SetStatus(n, "stopping")
  /\ UNCHANGED <<monitor, communityVars, algDone, cast, settled>>

\* Server cancelled, connections closed, report written; the monitor is not
\* waited for.
Return(n) ==
  /\ runner[n] = "stopping"
  /\ runner' = [runner EXCEPT ![n] = "returned"]
  /\ UNCHANGED <<taskVars, communityVars, algDone, cast, settled>>

\* asyncio.wait_for cancels every Node.start of the process.
TimeOut(n) ==
  /\ MayTimeOut
  /\ n \in Active
  /\ runner' = [p \in Node |-> IF p \in Active /\ (OneProcess \/ p = n)
                               THEN "cancelled" ELSE runner[p]]
  /\ UNCHANGED <<taskVars, communityVars, algDone, cast, settled>>

\* The algorithm calls terminate(): in on_start, or in the handler of a message
\* of a peer whose on_start has begun.  node.handle passes algorithm messages
\* on in every status.
Terminate(n) ==
  /\ Alive(n)
  /\ n \notin algDone
  /\ \E p \in Node : Begun(p)
  /\ algDone' = algDone \cup {n}
  /\ UNCHANGED <<taskVars, communityVars, runner, cast, settled>>

-----------------------------------------------------------------------------
(***************************************************************************)
(* _monitor.  Each action runs from one await to the next, including the   *)
(* turn of the loop that reads the new status.                             *)
(***************************************************************************)
MonitorShare(n) ==
  /\ Alive(n)
  /\ monitor[n] = "idle" /\ woken[n]
  /\ MonitorGoes(n, "keys")
  /\ woken' = [woken EXCEPT ![n] = FALSE]
  /\ CastAll(n, "pubkey")
  /\ UNCHANGED <<status, communityVars, runner, algDone, settled>>

MonitorStarting(n) ==
  /\ Alive(n)
  /\ monitor[n] = "keys"
  /\ HasAllKeys(n)
  /\ SetStatus(n, "starting")
  /\ MonitorGoes(n, "starting")
  /\ CastAll(n, "started")
  /\ UNCHANGED <<communityVars, runner, algDone, settled>>

\* The poll of the peers, which does not look at the node's own status.
MonitorRunning(n) ==
  /\ Alive(n)
  /\ monitor[n] = "starting"
  /\ AllPeers(n, peerStatus[n], "running")
  /\ SetStatus(n, "running")
  /\ MonitorGoes(n, "on_start")
  /\ UNCHANGED <<communityVars, runner, algDone, cast, settled>>

OnStartReturns(n) ==
  /\ Alive(n)
  /\ monitor[n] = "on_start"
  /\ MonitorGoes(n, "waiting")
  /\ UNCHANGED <<status, woken, communityVars, runner, algDone, cast, settled>>

MonitorFinishing(n) ==
  /\ Alive(n)
  /\ monitor[n] = "waiting" /\ woken[n]
  /\ status[n] = "stopping"
  /\ MonitorGoes(n, "finishing")
  /\ woken' = [woken EXCEPT ![n] = FALSE]
  /\ CastAll(n, "finished")
  /\ UNCHANGED <<status, communityVars, runner, algDone, settled>>

\* All peers have finished: TERMINATED, on_exit, and the monitor ends.
MonitorExit(n) ==
  /\ Alive(n)
  /\ monitor[n] = "finishing"
  /\ AllPeers(n, peerStatus[n], "terminated")
  /\ SetStatus(n, "terminated")
  /\ MonitorGoes(n, "exited")
  /\ UNCHANGED <<communityVars, runner, algDone, cast, settled>>

\* A handler made the status TERMINATED before the monitor had run: it calls
\* on_exit without having cast FINISHED.
MonitorSkipsFinished(n) ==
  /\ Alive(n)
  /\ monitor[n] = "waiting" /\ woken[n]
  /\ status[n] = "terminated"
  /\ MonitorGoes(n, "exited")
  /\ woken' = [woken EXCEPT ![n] = FALSE]
  /\ UNCHANGED <<status, communityVars, runner, algDone, cast, settled>>

-----------------------------------------------------------------------------
(***************************************************************************)
(* Node.handle, for the lifecycle messages.  STARTED follows PUBKEY on one *)
(* connection; FINISHED may use another, made after close_all.             *)
(***************************************************************************)
InTransit == cast \ settled

Receives(n, m) ==
  /\ m \in InTransit
  /\ m.dst = n
  /\ Alive(n)
  /\ runner[n] # "off"
  /\ m.kind = "started" => [m EXCEPT !.kind = "pubkey"] \notin InTransit
  /\ settled' = settled \cup {m}

HandlePubkey(n, m) ==
  /\ Receives(n, m)
  /\ m.kind = "pubkey"
  /\ keys' = [keys EXCEPT ![n] = @ \cup {m.src}]
  /\ UNCHANGED <<taskVars, peerStatus, runner, algDone, cast>>

\* Marks the peer, and moves on if that was the last one the node waited for.
Records(n, p, peerNow, ownNow, ownNext) ==
  LET statuses == [peerStatus[n] EXCEPT ![p] = peerNow] IN
  /\ peerStatus' = [peerStatus EXCEPT ![n] = statuses]
  /\ IF status[n] = ownNow /\ AllPeers(n, statuses, peerNow)
     THEN SetStatus(n, ownNext)
     ELSE UNCHANGED <<status, woken>>

\* Slip: the peer gets the status its message is named after.
HandleStartedNamed(n, m) ==
  /\ Receives(n, m)
  /\ m.kind = "started"
  /\ Records(n, m.src, m.kind, "starting", "running")
  /\ UNCHANGED <<monitor, keys, runner, algDone, cast>>

HandleStarted(n, m) ==
  /\ Receives(n, m)
  /\ m.kind = "started"
  /\ Records(n, m.src, "running", "starting", "running")
  /\ UNCHANGED <<monitor, keys, runner, algDone, cast>>

HandleFinished(n, m) ==
  /\ Receives(n, m)
  /\ m.kind = "finished"
  /\ Records(n, m.src, "terminated", "stopping", "terminated")
  /\ UNCHANGED <<monitor, keys, runner, algDone, cast>>

\* The receiver's process does not listen yet or any more, or the sender's
\* ended before its cast was written.
Lose(m) ==
  /\ ~OneProcess
  /\ m \in InTransit
  /\ ~(Alive(m.src) /\ Alive(m.dst) /\ runner[m.dst] # "off")
  /\ settled' = settled \cup {m}
  /\ UNCHANGED <<taskVars, communityVars, runner, algDone, cast>>

-----------------------------------------------------------------------------
Monitor(n) ==
  \/ MonitorShare(n)
  \/ MonitorStarting(n)
  \/ MonitorRunning(n)
  \/ OnStartReturns(n)
  \/ MonitorFinishing(n)
  \/ MonitorExit(n)
  \/ MonitorSkipsFinished(n)

Start(n) ==
  \/ Boot(n)
  \/ ShareKeys(n)
  \/ Stop(n)
  \/ Return(n)

Handle(n, m) ==
  \/ HandlePubkey(n, m)
  \/ HandleStarted(n, m)
  \/ HandleFinished(n, m)

Next ==
  \/ \E n \in Node : Start(n) \/ Monitor(n) \/ Terminate(n) \/ TimeOut(n)
  \/ \E m \in InTransit : Handle(m.dst, m) \/ Lose(m)

Spec == Init /\ [][Next]_vars

(***************************************************************************)
(* The event loop runs every ready task, what is cast to a living process  *)
(* arrives, on_start returns, and an algorithm whose on_start has begun    *)
(* terminates in the end.                                                  *)
(***************************************************************************)
Fairness ==
  /\ \A n \in Node : /\ WF_vars(Start(n))
                     /\ WF_vars(Monitor(n))
                     /\ WF_vars(Begun(n) /\ Terminate(n))
  /\ \A m \in Message : WF_vars(Handle(m.dst, m))

FairSpec == Spec /\ Fairness

-----------------------------------------------------------------------------
(***************************************************************************)
(* Properties.                                                             *)
(***************************************************************************)
HasCast(n, k) == \A p \in Peers(n) : [src |-> n, dst |-> p, kind |-> k] \in cast

\* Once any node's on_start has begun, every node has cast STARTED and holds
\* every key, so that no algorithm message, the first included, meets a node
\* that cannot verify its signatures (the gates of node.py:122 and 142).
ReadyToCommunicate ==
  \A n, p \in Node : Begun(n) => HasCast(p, "started") /\ keys[p] = Node

\* on_exit runs, and a status becomes TERMINATED, only after every algorithm
\* has terminated and every peer has cast FINISHED (node.py:176 and 239).
ExitAfterAll ==
  \A n, p \in Node :
    status[n] = "terminated" \/ monitor[n] = "exited" =>
      /\ p \in algDone
      /\ p # n => HasCast(p, "finished")

\* Start-up cannot hang by itself: if no algorithm terminates before all have
\* begun, and no timeout comes before that, every node's on_start is called.
StartupCompletes ==
  LET AllBegun == \A n \in Node : Begun(n)
      Over == algDone # {} \/ \E n \in Node : runner[n] = "cancelled"
  IN  [](Over => AllBegun) => <>AllBegun

\* Algorithm.on_start, algorithm.py:139: "Called when all nodes are ready and
\* synchronized": every node is called in the end, or told by another to stop.
EveryNodeBegins == \A n \in Node : <>(Begun(n) \/ n \in algDone)

\* The start-up and the shutdown of the nodes are barriers.
Startup == INSTANCE Barrier WITH
             arrived <- {n \in Node : monitor[n] \notin {"idle", "keys"}},
             passed <- {n \in Node : Begun(n)}

Shutdown == INSTANCE Barrier WITH
              arrived <- algDone,
              passed <- {n \in Node : monitor[n] = "exited"}

StartupIsBarrier == Startup!Spec
ShutdownIsBarrier == Shutdown!Spec
=============================================================================
