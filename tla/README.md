# TLA+ models of distbench

This directory holds TLA+ specifications of the distributed algorithms and of the node framework in this repository,
TLC configurations that model-check them on small instances, and TLAPS proofs of their main properties for every
value of the parameters.

The repository holds three programs that share one design:

* `distbench-py`: a Python framework (nodes, transports, layers of algorithms) with Bracha's and Dolev's broadcast,
  leader election and other algorithms. It is the program under active development and most of this project is about it.
* `distbench-rs`: the Rust framework from which it was ported, with its own implementation of the node lifecycle.
* `in4150`: an older Python framework on a peer-to-peer library, with a ring election and an echo algorithm.

## 1. Inventory

### 1.1 The nodes and what they run in (`distbench-py`)

| Component | State | Operations | Talks to |
|---|---|---|---|
| `Node` (`node.py`) | `status`, the `_status_changed` event, the monitor task, counters | `start`, `_monitor`, `handle`, `_set_status`, `terminate` | its `Community`; peers by casts of PUBKEY, STARTED, FINISHED; its algorithm by `on_start`, `handle`, `on_exit` |
| `Community` (`community.py`) | `_peer_status`, `_keys`, neighbours, the connection managers | `set_status`, `statuses`, `set_key`, `has_all_keys`, `close_all` | read and written by the monitor and by the handlers of one node |
| `ConnectionManager` (`connection.py`) | one cached connection per peer, under a lock | `send`, `cast`, `close`, with a retry of the connect | a transport |
| Transports (`transport/*.py`) | TCP sockets, an in-memory registry, or either with a delay | `connect`, `send`, `cast`, `serve` | the receiver's `Node.handle` |
| Algorithm framework (`algorithm.py`, `decorators.py`) | `_terminated`, `_children`, the handler tables | `on_start`, `terminate`, `deliver` to the parent, `_broadcast`, signing | its node, its parent and its children |
| Runner (`main.py`, `config.py`) | the transports, communities and node tasks | `run_offline`, `run_local`, `run_network`, `build_tcp_mappings`; `_run_nodes`: gather with a timeout | every node of the process |

All of a process runs in one asyncio event loop: code between two awaits is atomic, and every await is a point at which
any other task may run. In *offline* and *local* mode one process holds every node; in *network* mode there is one
process per node, which ends when `Node.start` returns.

### 1.2 The algorithms (`distbench-py/distbench/algorithms`)

| Component | State | Operations |
|---|---|---|
| `Bracha` | `seen_messages`, `echos`, `readys`, `sent_ready`, `delivered`, `expected_senders`, counters; a `Dolev` child | `on_start`, `dolev_deliver` dispatching to `send`, `echo`, `ready`; `check_completion` |
| `Dolev` | `delivered`, `paths`, `delivered_neighbours`, `forwarded_empty`, counters | `on_start`, `broadcast_message`, `yes_daddy_bracha`, `dolev`, `my_deliver`, `distPaths` |
| `BrachaBasic` | as `Bracha`, without a child | the same handlers, over direct messages |
| `BrachaOptimized` | as `Bracha`, and `sent_echo` | the same handlers with committees, amplification and implied ECHOs |
| `DolevNaive` | `delivered`, `received_paths` | one handler, a greedy choice of disjoint paths |
| `ChangRoberts` | `node_id`, `leader` | `on_start`, `election`, `termination` |
| `Echo`, `MessageChain`, `SimpleBroadcast` | a counter, a signed chain, a layered demonstration | one handler or two each |

### 1.3 Rust and in4150

`distbench-rs/lib/core` has the lifecycle again (`node.rs`, `community.rs`, `status.rs`), the connection manager
(`managers/thin.rs`) and the transports (`channel.rs`, `tcp.rs`, with a table of pending requests);
`distbench-rs/src/algorithms` has Chang-Roberts, Echo and MessageChain. `in4150/cs4545` has the start-up
of its framework (`da_types.py`) and its two algorithms.

### 1.4 What is hard here

* **Tasks interleave at awaits.** A handler that awaits a send is suspended in the middle of its state change:
  `Bracha.ready` between its READY broadcast and its delivery check, `Bracha.on_start` between its SEND and marking the message
  seen, `ChangRoberts.election` between setting `leader` and `terminate`, the monitor inside `on_start`.
* **Messages are not ordered.** Casts are tasks, and with a simulated latency each sleeps for a time of its own.
* **Nodes start and stop at different times.** Messages reach a node before its `on_start`; a peer finishes before
  another has noticed that it is running; in network mode processes end while others still send to them, and such a send raises.
* **Checks read state that other tasks change.** Statuses of peers, the number of known senders, cached connections.
* **Thresholds** with rounding and off-by-one risks.

### 1.5 What makes each component correct

* *Bracha*: a READY is backed by a quorum of ECHOs and an ECHO by the SEND; a delivery is backed by 2f + 1 READYs of others;
  no phase is broadcast twice; deliveries happen once; nothing is missing once all messages have arrived; every listener delivers.
* *Lifecycle*: no `on_start` before every node has every key; no `on_exit` before every node has finished; both are barriers;
  start-up does not hang by itself.
* *Chang-Roberts*: only the largest id wins; every node learns it before it stops; messages run out.
* *Dolev*: whatever is delivered came over f + 1 disjoint paths or from its source; paths are what the messages did, so
  relaying stops; the skipping of neighbours that have delivered keeps the message from nobody; the parent is called once;
  on a 2f + 1-connected graph with f silent nodes everybody else delivers (this one does not hold).
* *Connection manager and transports*: a call is handled at most once and returns or raises; an answer reaches the send it
  belongs to, though nothing in a frame says so; tasks share a connection, casts of one task stay in order; a connection known
  to have failed leaves the cache.
* *Variants*: the messages that `BrachaOptimized` leaves out are not needed by any quorum; `DolevNaive` delivers what it could; a message
  in another's name is not delivered.
* *Framework and runner*: layers keep the order of what arrives; a message comes to the node it is for, which knows whose it is.
* *in4150*: elections begun at different times and in different directions elect one node; nobody begins before all are ready.

`PROJECT.json` lists every component with its status, and under `hazards` every place of the code that a test would
hardly reach, with the properties that are about it.

## 2. Modules

| Module | Models | Source |
|---|---|---|
| `Bracha` | Bracha's broadcast, a node's handlers and `on_start` split at their awaits | `algorithms/bracha.py`, what it needs of `dolev.py`, `connection.py`, `algorithm.py` |
| `ReliableBroadcast` | the abstract broadcast: after the source, at most once | refined by `Bracha` and by `Dolev` |
| `Dolev` | one broadcast of Dolev's algorithm on a graph, as the child of Bracha, the handler split at its awaits | `algorithms/dolev.py` |
| `NodeLifecycle` | `Node.start`, the monitor, lifecycle messages, statuses, keys, the process | `node.py`, `community.py`, `main.py` |
| `Barrier` | the abstract barrier: nobody passes before all have arrived | refined twice by `NodeLifecycle` |
| `ChangRoberts` | the ring election with delays, reordering and process exits | `algorithms/chang_roberts.py` |
| `LeaderElection` | the abstract election: one decision, for ever | refined by `ChangRoberts` |
| `BrachaBasic`, `BrachaOptimized` | the variants of `Bracha`, as modules that extend it | `algorithms/bracha_basic.py`, `bracha_optimized.py` |
| `DolevStandalone` | `Dolev` as the algorithm of a node, with a message in another's name | `algorithms/dolev.py` |
| `DolevNaive` | Dolev's broadcast without optimisations | `algorithms/dolev_naive.py` |
| `Connection` | the calls of one node to one peer: connection manager, connection, `handle_client` | `connection.py`, `transport/tcp.py`, `offline.py`, `delayed.py` |
| `RpcChannel` | the abstract channel: at most once, a send that returns was handled, every call ends | refined by `Connection` |
| `Wiring` | the three ways to run: addresses, numbers, who a message is taken to be from | `main.py`, `config.py`, `community.py`, transports |
| `Layers` | a child and its parent, and the framework between them | `algorithms/simple_broadcast.py`, `algorithm.py`, `decorators.py` |
| `MessageChain` | chains of signatures that walk through the network | `algorithms/message_chain.py` |
| `DistributedAlgorithm`, `RingElection`, `EchoAlgorithm` | the start-up of in4150 and its two algorithms, as modules that extend it | `in4150/cs4545` |
| `BrachaVariants`, `Flooding`, `Programs` | several programs side by side: a variable `program` says which one a behaviour is of. `Flooding` has the three forms of Dolev's broadcast | |
| `MCBrachaVariants`, `MCFlooding`, `MCPrograms` | these on small instances | |
| `MCBrachaOptimized` | the optimised program by itself, on more nodes than its committees have | |
| other `MC*` | instances for TLC: symmetry, the ring's ids, graphs, tasks | |
| `*Proofs` | theorems and proofs about the module of that name; `BrachaProofs` has `BrachaBasic`, `BrachaOptimizedProofs` has `BrachaVariants`, `FloodingProofs` has `DolevStandalone` and `DolevNaive` too | |

### 2.1 `Bracha`

A sender initiates exactly one message under a fresh uuid, so a message is named by its sender. The variables carry the names of the
Python fields (`seen`, `echos`, `readys`, `sentReady`, `delivered`, `expected`, `phaseCount`); `onStart` is how far the
`on_start` task has come and `resuming` the messages whose `ready` handler awaits its READY broadcast.
`deliveries` counts the executions of lines 185-188, where a broadcast protocol would hand the message to its user.
`sent_echo` is written and never read, and is left out.

* `Start`; `StartSend`, `StartEcho`, `StartFinish`: `on_start`, cut at each awaited broadcast. `StartFails`: the
  exception of a send to an ended process, which leaves `on_start` at once.
* `RecvSend`, `RecvEcho`, `RecvReady`: `dolev_deliver` and the handler it dispatches to, up to the first await. `EchoHandler` and `ReadyHandler`
  are the handlers themselves, which `bracha_basic.py` shares; here they need the logger, that is an `on_start` that has begun. `ReadyResume` is what `ready` does after the await, `ReadyFails` the exception there. `send` and `echo` do nothing
  after their await.
* `RecvEarly`: a message before `on_start`. Every handler's first line uses `self.logger`, which only `on_start` creates, so
  the handler raises; a SEND has already been noted in `expected_senders`, and the Dolev child has already marked the message delivered.
* `Exit`: network mode ends the process once the algorithm has terminated.

The Dolev child is a channel: a broadcast reaches every other listener at most once, at any time after it began, with the
broadcaster as `src` (`my_deliver` marks the message delivered before it calls the parent). Path counting and topology are
not in this module, so what is shown is Bracha *given* that channel. That Dolev never delivers twice or too early is shown
in `Dolev`, of which `ReliableBroadcast` is the abstraction too; that it always delivers in the end is not true (finding 3). A node in `Silent` has a Dolev child in mode
`BYZANTINE_SILENT`, whose `dolev` handler drops what it receives; what the node itself broadcasts goes out.

Each condition is an operator of its own (`EnoughEchoes`, `EnoughReadies`, `Amplifies`, `Delivers`). Operators that say *Slip* or
stand in front of those are plausible mistakes and not part of the specification; `PROJECT.json` pairs each with a property that notices it.

### 2.2 `NodeLifecycle`

`monitor` is the await at which the `_monitor` task is (`keys` and `starting` and `finishing` are its polls, `waiting` is the wait on
`_status_changed` after `on_start`), `runner` is how far `Node.start` has come. `woken` is the event: `_set_status` sets the current event and
replaces it, so only tasks that already wait are woken. `cast` and `settled` are the lifecycle messages cast and those
handled or lost. PUBKEY and STARTED of one node travel in order, since they use one connection; FINISHED may use
another, made after `close_all`.

Each action runs from one await to the next: `MonitorShare`, `MonitorStarting`, `MonitorRunning`, `OnStartReturns`,
`MonitorFinishing`, `MonitorExit`, `MonitorSkipsFinished` for `_monitor`; `Boot`, `ShareKeys`, `Stop`, `Return` for `start`;
`HandlePubkey`, `HandleStarted`, `HandleFinished` for `handle`; `TimeOut` for the timeout of `_run_nodes`; `Terminate` for the
algorithm's `terminate()`, which may happen in `on_start` or in any handler once some node has begun, because `handle` passes algorithm
messages on in every status. `Lose` is a failed cast: one process per node, and the receiver does not listen or the
sender has ended. Locks are never held across another await and need no state.

### 2.3 `ChangRoberts`

A node is its place in the ring, which is the order of the sorted names; `Id` is its `node_id`. `elections` and
`terminations` count the messages in transit to each node: casts are unordered. `announcing` are the
nodes with a handler between its termination cast and `terminate()`. `Wake` is `on_start` after its random sleep;
`Exit` and `Lose` are the end of a process and of what it was sending.

### 2.4 `Dolev`

All state of `dolev.py` is kept per `msg_id` and messages do not interact, so the module follows one broadcast of one source.
`paths`, `delivered`, `announced` (`forwarded_empty`), `told` (`neighbour_delivered`) are the fields; `tasks` are the handlers at an await,
with the `new_path` they relay and the peers the loop has still to come to; `deliveries` counts the calls of the parent's `dolev_deliver`.

* `Broadcast`: `yes_daddy_bracha`. `RecvDirect`, `RecvAnnouncement`, `RecvPath`, `RecvFinished`: the handler `dolev` up to its
  first await, for a message of the source (MD1), an empty path of another node (ND3), any path, and a message about which nothing is
  left to do (MD5). The empty path of a node that is not the source announces that it has delivered (MD2).
* `Relay`: the next turn of the relay loop. `delivered_neighbours` is the live set if the node has an entry in
  `neighbour_delivered` when the loop begins, so that the loop notices announcements that come at its awaits; otherwise it is a set of its own
  that stays empty (`Relayed`, `RelayedAtOnce`).
* `CheckDelivers`, `CheckAnnounces`, `CheckEnds`: `my_deliver` after the loop. `ParentReturns` and `ParentRaises` end the
  await of `dolev_deliver`, `Announced` the awaits of the announcement; `Continue` is what follows `my_deliver`.

`distPaths` asks networkx for the number of node-disjoint ways in the graph of the stored paths. By Menger's theorem there are f + 1 exactly if no
f nodes cut the node off, which is how `Connects` says it. A handler sleeps for a random time before every send. A send is modelled
where the handler decides on it, the sleep counting as time on the way; the order of the peers in the loop is free.

### 2.5 `Connection`

A call is one `send` or `cast`, and it names its message, its answer and the connection it makes, if it makes one. `lock` and `holder` are the
locks of the manager and of each connection; `out`, `in` and `serving` are a connection's frames to the peer, those back, and the
message whose handler the peer's `handle_client` awaits. A frame carries nothing that tells which call it answers.

* `Reuse`, `StartConnect`, `Connects`, `ConnectFails`: `_ensure_connected`, which keeps the lock through all attempts.
* `Write`, `WriteRefused`, `WriteFails`, `ReadAnswer`, `ReadFails`: `TcpConnection.send` and `cast`. What is written to a broken connection is
  lost, which the first write need not notice.
* `Invalidate`: the `except` branch of the manager, which drops whatever is cached by then. `Close`, `CloseEnds`: `close`.
* `Take`, `Answer`: `handle_client`, one message after the other. `Break`, `PeerStarts`, `PeerEnds`: what a network and a process can do.
* `LocalSend`, `LocalReturns`, `LocalCast`, `LocalTask`: `LocalConnection` in offline mode. A `DelayedConnection` sleeps before it calls either: any step may come late.

### 2.6 `BrachaBasic`, `BrachaOptimized`

Both extend `Bracha` and keep its variables and channel, so that its properties of quorums hold of their states too. In `BrachaBasic` a node counts neither its own ECHO nor
its own READY, and handles messages in every state, before its `on_start` too: its logger is the module's. So is that of `BrachaOptimized`. The latter adds `sentEcho` and `afterEcho`, the handlers that await an ECHO broadcast. `Eligible` is the committee:
the nodes after the sender in the circle of the sorted names. `OptEcho` amplifies an ECHO, and `OptEchoResume` goes on with the check for
READY; `OptReady` counts an implied ECHO of the node itself, which it broadcasts only if it does not broadcast READY, and goes on in `OptReadyResume`.
A SEND to the neighbours does not pass the Dolev child.
`BrachaVariants` puts the three side by side; `Programs` are those that a run looks at.

### 2.7 `DolevStandalone`, `DolevNaive`, `Flooding`

`DolevStandalone` adds to `Dolev` the node without a parent: `TriggerByzantineSpoof` sends a message in the source's name,
`BroadcastMessage` the source's own. `DolevNaive` stores every path in the order of arrival, relays each, and
takes disjoint ones greedily from the first (`DistPaths`). A message is not sent on to whoever is on its path, nor by a node to itself (`Messages`). `IsWay` says what such a path is, a way from the
source through the graph without repetition, and `WaysApart` is the condition on a graph under which a second disjoint way is always there to be found.
`Flooding` puts the child, the standalone program and the naive one side by side, the last with a graph of its own (`NaiveNode`, `NaiveNeighbour`, `NaiveSource`).

### 2.8 `Wiring`, `Layers`, `MessageChain`

`Wiring`: every process reads its own copy of the configuration file, whose keys may stand in another order (`File`), and numbers the
nodes by their names. `CommunityOf` builds the addresses and their inverse, `Accepts` says who listens behind an address, `Cast` delivers
with the number that begins every TCP connection, which the receiver turns into a name by its own table.
`Layers`: `Methods` are the handlers as the decorators mark them, `HandledBy` and `Deliver` the two look-ups. It assumes that casts of one node to another do not overtake
each other, which `InOrder` of `Connection` says of casts while no connection breaks; a cast may fail, but none is delayed past a later one.

`MessageChain`: a chain is the sequence of its signers; a loop over the peers is modelled at its beginning (`OnStart`, `ReceiveChain`) and its end (`Forwarded`). `mode` is the command line.
In network mode the process of a node that has terminated ends (`Exit`), the initiator's first of all, since its `on_start` terminates: what was on its way to it is lost, and `Forward` puts nothing on the way to it any more, as such a send raises and is swallowed.
`SendFails` is a send of a node that has terminated and closes its connections. `lost` remembers that a send has failed.

### 2.9 `DistributedAlgorithm`, `RingElection`, `EchoAlgorithm`

A turn of `_ensure_nodes_connected` is cut at its sleep: `BeginPoll` sets the states of all neighbours to "init", `PollInVain` or `Poll` is what follows, before or after the library has found the peers.
Greetings (`hellos`) are handled in between, and may overtake each other as all datagrams may. `AllReady` and `OnStart` are the starter's `on_start` before and after its own sleep. `RingElection` keeps `nodes` as a sequence, since the order of that dictionary is the direction of the first message,
and remembers which elections were begun and which messages raised.

## 3. Runs

| Run | Instance | Question | Result |
|---|---|---|---|
| `MCBracha_tasks` | 3 nodes, 1 sender, f = 0, early messages, process exits | do races of `on_start`, handlers, exits and exceptions broadcast a phase twice, deliver twice or before the SEND? | never |
| `MCBracha_quorum` | 4 nodes, 1 sender, f = 1; the three Bracha programs, the optimised one on a circle | are READYs and deliveries backed by their quorums, and is everything delivered once all has arrived? does the optimised program repeat no ECHO but the sender's? | yes |
| `MCBracha_few` | the optimised program on a circle of 6 nodes, f = 1 | do its committees leave out no message that a quorum needs? | yes |
| `MCBracha_live` | 3 nodes, 2 senders, 1 silent, f = 0, fair | does every listener deliver every message? | yes |
| `MCBracha_missed` | 3 nodes, f = 0 | "If we've delivered all messages from known senders, we're done" (`bracha.py:198`) | violated |
| `MCNodeLifecycle_network` | 3 processes, late starts, lost casts, timeouts | keys before `on_start`, everyone finished before `on_exit`, two barriers | yes |
| the same | ring election on 3 nodes, echo on 2, layers on 3 with 2 starters, chains on 3, wiring of 3 nodes in all modes | only the largest id wins, and one-way elections stop everyone; no message before all are ready; deliveries in order, the echo last; while no send fails chains stop every node; senders are recognised | yes |
| `MCNodeLifecycle_startup` | 3 nodes in a process, timeouts, fair | does every `on_start` run if nobody terminates and no timeout comes before? | yes |
| `MCNodeLifecycle_stuck` | 3 nodes in a process, fair | "Called when all nodes are ready and synchronized" (`algorithm.py:139`): is `on_start` always called? | violated |
| `MCChangRoberts` | 4 nodes, ids 2, 1, 4, 3, process exits, fair | one winner, no gap, everyone stops, messages run out, one decision | yes |
| `MCConnection` | 3 tasks with 4 calls, 2 attempts, 1 fault, fair | are answers not confused, casts of a task in order, connections shared and dropped once failed, calls at most once and never without end? | yes |
| `MCDolev` | a ring of 5 nodes, f = 1; as a child, standalone, and `DolevNaive` on 4 nodes | are paths real, deliveries backed by f + 1 disjoint ways, the parent called once, and does the flood reach everybody although announcers are skipped? does a message in another's name die out, and can only overtaking keep the naive program from delivering? | yes |
| `MCDolev_faulty` | 6 nodes laid out as `dolev_f_faulty.yaml`, f = 1, one silent | "all correct nodes still deliver despite f faulty nodes" (`dolev_f_faulty.yaml:3`) | violated |

Runs of several programs decide at the beginning which one the behaviour follows; the state of the others rests.

**Deadlock** is not checked in any run: all these systems stop when their work is done, and a call, a node or an election that does not is what
`ImplementsRpc`, `StartupCompletes`, `EveryNodeStops`, `RingOneWayStops` and `ChainsStopEveryone` are about.

**Bounds.** Every action constraint is explained here. Bracha: each sender has one message, so everything is finite. With f = 0 and three
nodes every threshold is reached by one message less than all, so the conditions fire at different times at each node; the four-node
run is n = 3f + 1 with f = 1, where `ReadyThreshold` is 3 and `DeliverThreshold` is 3, all READYs of the others. That run bounds
the order in which a node hears ECHOs and READYs to that of the senders' numbers (`HeardInOrder`): a node's reaction depends only on how
many it has heard, and different nodes still hear at different times. It is a bound and no symmetry: a node may wait for the ECHO of a lower number while a higher one is there. The theorems have all orders. The run leaves out exits, and
messages before the `on_start` of a node of `bracha.py`, which the three-node run has: every `on_start` but the sender's comes first (`StartsFirst`), except that of one node of `bracha_basic.py`. For the optimised program a node does not wait for what another leaves out. Its graph is a circle, in which a SEND
reaches two of three nodes and the fourth must come in by amplification.
With four nodes the committees of the optimised program are everybody. `MCBracha_few` has six, of which five (`ReadyThreshold` + f) may broadcast ECHO and four (`DeliverThreshold` + f) READY: one node does neither, and one only the former.
There all other `on_start`s come before the sender's messages (`StartsFirst`; they do nothing, and messages are handled without them), a node hears what is on its way in the order of the numbers (`HeardInTurn`), and three nodes (`Prompt`: the sender, which is in neither committee, one of its neighbours, and one that hears of the message by ECHOs only) hear at once what they can hear, the lower number first (`PromptFirst`), while the other three hear at any time.
Lifecycle: three nodes are the smallest number in which two peers of a node can be in
different phases; each message is cast once. Chang-Roberts: four nodes with ids neither ascending nor descending, so that
ids are swallowed, replaced and passed on twice. The number of messages is bounded by the protocol itself, which `RunsOut` is about.
Dolev: in a ring of five, two nodes are not the source's neighbours, each has one short and one long way from the source, and with f = 1 it needs
both; it hears the first, cannot deliver, and announces; so every branch of `my_deliver` is taken. `IdleFirst` makes steps without
effect happen at once: messages to the source, of whose `told` no use is made, or to a node that has finished, and the end of handlers that have nothing left to do.
The naive program has four nodes of which two are not neighbours (`Kite`, given in `MCDolev.cfg`), the smallest graph in which a long path blocks two short ones; `KiteAssumption` has TLC evaluate that it
satisfies the hypotheses of `NaiveGreedy`; `VainFirst` runs
at once a `my_deliver` that will not deliver, which changes nothing.
The six nodes of the other run are connected as the ten of `dolev_f_faulty.yaml`: a circle in which each node has its opposite as third neighbour.

Connection: with two sends and two casts of one task, a cast and a send can fail while the other send begins; one fault (`MaxFaults`) is a
break, a `close` or the end of the peer, and two attempts (`MaxRetries`) are one failure that is retried and one that is final. The proofs have no such bound.
Programs: `Programs` leaves open who is in the ring, which nodes start, how many messages there are and what the file holds; `MCPrograms` gives them values. Three nodes make a ring in which each has one neighbour on either side, and a chain that can avoid its last sender. Every behaviour of the ring is finite; `VainFirst` makes repeated greetings and
news that has been passed on happen at once. `EchoesEnd` ends the process of a node that has stopped before it has answered twice more; `ShortChains`
follows chains three messages further than `ChainsStopEveryone` looks, and behaviours until a send has failed, of which the property says nothing. `Wiring` has a template key, a list of neighbours with a name nobody has and one with the node itself, and two orders of the file.

**Symmetry** is used only in runs that check no liveness, over nodes that the specification does not distinguish.

**Fairness.** Weak fairness on the tasks of the event loop (asyncio runs every ready task), on the handling of messages cast to a living
process (offline transport or an open connection), on the end of sleeps and of `on_start`. `FairSpec` of `NodeLifecycle` also
assumes that an algorithm that has begun terminates in the end. In `Connection` every call goes on when it can, handlers return, and a broken connection is reported in the end,
as the operating system does. Nothing that may fail, time out, be lost or exit is fair.

### Findings

1. `MCBracha_missed`: completion is checked only when something is delivered. A node that delivers before it has seen the
   SEND (its ECHOs and READYs came faster) has an empty `expected_senders` at that moment, and never checks again.
2. `MCNodeLifecycle_stuck`: a peer that runs and finishes quickly turns from RUNNING to TERMINATED before a slower node has seen
   everybody RUNNING; the slower node then waits for ever for `all(s == RUNNING)` and never calls `on_start`.
3. `MCDolev_faulty`: the empty forward of `my_deliver` (line 357) is not conditional on the delivery. A node that has received its first path and needs
   another announces all the same; its neighbours take it for one that has delivered and skip it in their relay loops, so the
   path it needs is never sent to it, and what it gets from them (announcements) is not stored as a path. When all is quiet a correct
   node has not delivered, although the graph is 3-connected and one node is silent. The run is of Dolev as a child; with the configuration file as it is, an honest standalone
   node does not even broadcast (observations, `dolev.py:95`). `FloodReachesAll` is what does hold: such a node has announced.

### Observations

Behaviours of the code that no run is spent on, met while modelling. Where a doc or a comment is quoted, TLC showed a counterexample
of the quoted statement; where a definition is named, the model has the behaviour there.

* `node.py:311` sets STOPPING, which the monitor's `_set_status(RUNNING)` at line 143 overwrites when the algorithm
  terminated early: a status goes back, although `community.py:26` calls the list of statuses a lifecycle.
* `node.py:157`: STOPPING set while `on_start` still runs is a lost wake-up; the monitor waits for the next event, and FINISHED is
  never cast. `on_exit`, which `algorithm.py:150` announces, is then never called.
* `node.py:306`: `Node.start` returns as soon as its own algorithm has terminated; the report is written while peers still run
  (`GUIDE.md:226` describes the shutdown as synchronised).
* `main.py:130`: at the timeout `asyncio.wait_for` cancels the node tasks themselves, so that the graceful stop announced in line 141 finds none left.
* `bracha.py:69` creates `self.logger`, which every handler uses in its first line (154, 165, 175), in `on_start` only. A message that arrives before raises `AttributeError`, after Dolev has marked it
  delivered (`dolev.py:331`, 346), and is lost (`RecvEarly`), although `algorithm.py:141` says that `on_start` is "called after all nodes have started and are ready to communicate". `ReceivedIsHandled` is
  violated on the instance of `MCBracha_missed` with `Synchronised = FALSE`, and `HandledWhenSynchronised` (proved) says that nothing else loses a message.
* `bracha.py:199` compares the *number* of delivered messages with the number of senders *known so far*. A node may
  terminate with a known sender's message undelivered.
* `dolev.py:95-131`, the logic of a standalone Dolev node, is in the body of `trigger_byzantine_spoof`, which returns at once
  unless the mode is `BYZANTINE_SPOOF`: an honest standalone node neither broadcasts nor terminates. The model is of Dolev as a child.
* `dolev.py:326` and 358 ("MD2 ignore forwarded empty so no repeats") do not prevent a second announcement: `forwarded_empty` is set after
  the awaits of the first (371), and a second handler of the same message may begin its own meanwhile.
* `dolev.py:301` (MD4) is never true: a path never holds the node that sends it.
* `StarvedBySilence` (proved): a node does not count its own READY, so with n = 3f + 1 and f silent nodes nobody delivers.
* `main.py:219`: offline mode with a latency wraps each transport in a `DelayedTransport`, which has no `register_server`; the run
  ends with the exception (`crashed` in `Wiring`).
* `connection.py:121`: a call that fails drops whatever is cached, also a connection that another call has made since, which then
  stays open and unused. `tcp.py:105` sets `closed` before it calls `close`, which returns at once: the writer of a failed connection is never closed.
* `connection.py:154`: after `close` the next call connects anew; casts that a node makes after `close_all` do so.
* `connection.py:64`: the lock is held through all attempts and their sleeps, and `open_connection` has no timeout: every call to the peer, `close` included, waits for it.
* `bracha_optimized.py:201`: the sender may broadcast ECHO twice. `enable_reduced_messages` (266) is consulted in `send` only; the
  committees apply in any case. The READY committee has 3f + 1 nodes, of which f silent ones leave a listening member 2f others to count, one less than it needs. With f = 0 it is one
  node, which does not count its own READY and never delivers.
* `bracha_optimized.py` sets the `behavior_mode` of its Dolev child from its own configuration; `bracha.py` does not, and its nodes cannot be made silent that way.
* `dolev_naive.py:154`: on the graph of `MCFlooding` a node whose first path has overtaken shorter ones never delivers; messages before `on_start` are dropped.
* `ring_election.py:42`: elections begun in opposite directions may leave the winner running for ever, as the news meets a node that has stopped and goes no further; a node that
  knows only the sender raises an `IndexError` (49) and loses the message.
* `da_types.py:106`: a starter that begins another poll after a neighbour has said "ready" sets it back to "init", and waits for ever. A "ready" that comes during the sleep of the poll (114) survives.
* `message_chain.py:149`: with two nodes a chain is not sent back, so that the second never terminates; with more, chains go on growing past `max_hops`.
* `message_chain.py:85`: in network mode the initiator terminates in `on_start` and its process ends. Every chain that would go on through it dies (143-146), as it does at any node that has stopped, and the
  remaining nodes may never meet a chain of `max_hops` and never stop. `ChainsStopEveryone` holds only as long as no send has failed.
* `algorithm.py:295`: `deliver_message` uses `alg_msg` unbound after a message that cannot be decoded. A message is routed to children of the root only (`HandledBy`), and a delivery to the
  parent's handler of its type, whichever child it comes from (`Deliver`).
* `config.py`: `extract_neighbours` announces a validation and looks up no name; a neighbour nobody has is kept (`NeighboursOf`).

## 4. Proofs

TLAPS checks every proof to its last leaf, with Z3, Zenon and, for the temporal steps, LS4. All theorems hold for every finite set of
nodes (`BrachaAssumption`, `LifecycleAssumption`) or every ring of nodes with different ids (`RingAssumption`, of two or more nodes in `ChangRoberts`
and three or more in `Programs`), without fairness, with processes that may end at any time the model allows. Where a theorem needs more of
the constants than the module assumes, its `ASSUME` says so and is named below. The back ends cannot apply the library's induction theorems; where an argument runs along a path, round a ring or through a list, the proofs take
a least counterexample instead (`LeastOf`, from the well-founded order on the subsets of an interval).

**Bracha.** `TypeOK` is not inductive alone: `StartEcho` counts the node under its own name as message, so only senders may be in that
phase (`OnlySenders`). The invariant says that whatever a node has *counted* was *broadcast* (`CountedWereBroadcast`, its own
READY excepted), and that a broadcast is backed by what its handler had counted (`ReadyBackedByEchoes`). The core is
`BackedStep`: the first READY has an ECHO quorum behind it because an amplifying node must have counted an earlier READY.
From it follow the quorums (`Backed`, `DeliveryIsBacked`), that nobody delivers when only 2f + 1 nodes listen (`Starvation`: the counted nodes are
all others, so the node itself would have to be silent, and silent nodes count nothing), and that Bracha implements
`ReliableBroadcast` (`Refinement`). `PhasesAreCountedOnce` needs besides that a sender's own SEND never comes back to it, so that `on_start` finds
its message unseen after the await.

`Totality` says that nothing is forgotten: when no broadcast is on its way and no handler waits, every listener has delivered every message. It holds if `on_start` has begun everywhere before anything
arrives (`Synchronised`), processes stay (`~ProcessExit`), and the listeners are enough for the ECHOs of all and for the READYs of the *others*
(`EnoughListeners`); `RecvEarly` is what happens without the first, `Starvation` without the last. Its invariant `Prompt` ties every piece of a node's state to what the node still owes: a message is seen exactly
when its ECHO is broadcast and counted (`EchoSeen`), what is received is handled (`ReceivedIsHandled`, by itself the theorem `HandledWhenSynchronised`), and a quorum has its READY. One case is delicate:
`on_start` counts the node's own ECHO without comparing with the threshold. Of two nodes that count each other's ECHO, one has counted the other's
after its own (`OneUnchecked`), so there is always one that has compared; its READY brings the others along.

`bracha_basic.py` shares the state and most of the steps, but not the guard of the handlers: its nodes take messages before their `on_start`. The proofs are about `Steps`, a step of either program, and `BasicKeepsQuorum`, `BasicBacksDelivery`, `BasicCountsPhasesOnce` and
`BasicRefinement` come from the same lemmas.

**Lifecycle.** The invariant says that what is cast, recorded or reached is true of the node it is about: a STARTED or
FINISHED that was cast (`CastsAreTrue`), a status recorded for a peer (`RecordsAreTrue`), a monitor past a gate (`StartedHaveKeys`, `BegunAfterAll`,
`StoppingIsDone`, `ExitAfterAll`). Nothing a node has said is taken back (`NothingTakenBack`), although *statuses* do go back, which is why
the invariant speaks of the monitor and of the messages and hardly of `status`. It gives the type invariant, both gates and both
refinements of `Barrier`, with losses and timeouts.
`StartupNeverStuck` is about one process, where casts are not lost: what was handled has been noted (`HeardIsNoted`), who is past the first wait has cast its key (`SharedKeys`), and a monitor that still waits was woken
(`WokenOnceRunning`). So when nothing of the start-up can move and no timeout came (`StartupRests`), whoever has not begun has a peer that it saw finish before it saw it run: finding 2 is the only way to hang, and the safety half of `StartupCompletes`.

**Chang-Roberts.** An id in transit has not passed the winner unless it is the winner's (`StoppedByTheWinner`), measured by the distance
from the winner along the ring; so only the winner meets its own id again. The news: a message comes from a node that knows, and a node
that knows has only nodes that know between the winner and itself (`NoGapInTheNews`). `Flow` describes one step of the news, from which the
three parts follow. `NeverStuck` is the safety half of `EveryNodeStops`: as long as a node runs, a delay, a handler or a message to a living process is left. The winner's id is either still to be sent,
or on its way, or has come home (`WinnerGoesRound`), and nobody exits before that; whoever knows the leader has stopped or is about to (`KnowersStop`). That delays and messages run out is with TLC (`RunsOut`).

**Dolev.** For every graph, source, set of silent nodes and f. Types are inductive. That paths are real needs an invariant over
messages, waiting handlers and stored paths at once (`Messaging`, `Working`, `Storing`): a path under way was stored by its sender, a handler's loop
considers only peers that are not on its path, and `NextHop` adds one hop to a real path. `Storing` says besides that all hops of a stored path
have been *made*, which a node that only knows what it was shown cannot see; with `MoreEdges` (more edges connect at least as well) it
turns the check of `distPaths` in what a node was shown into `DeliveryIsBackedByPaths`, about what happened. `Counting` ties the calls of the parent
to `delivered` and gives the refinement. `DolevAssumption` asks for finite nodes and well-formed neighbour sets only. `FloodReaches` rests on `Flooding`: for every node that has been reached, whoever hears it has been
reached too or is about to be by a path on its way (`Spread`), unless one of the node's handlers is still to finish its loop; the neighbours that the loop skips were told of, and only nodes that were reached announce. When all is quiet the nodes reached are closed under the edges of relaying nodes, which is what
`FloodReachesAll` asks.

**The three forms of Dolev's broadcast** (`FloodingProofs`). `EveryFloodIsSound` and `FloodingRefinement` carry the results above over to the algorithm of a node, which delivers its own message at once and may be
spoofed (`DolevInv`). Until the source has begun, all that is on its way are announcements (`OnlyAnnouncements`), and an announcement
stores no path, relays nothing and delivers nothing: so a message in another's name dies out on every graph (`SpoofsDieOut`).
The naive program asks a fold over its stored paths. `GreedyRuns` unfolds it through the `CHOOSE` of the fold's definition into the list after each path, and `GreedyChooses` says what comes out (`Chosen`): some of the stored
paths, the first among them, disjoint, and every other path meets one of them. So a node that delivers is cut off by no f nodes (`DisjointAreUncut`, `NaiveDeliversUncut`): f + 1 disjoint sets cannot all be hit by f nodes. For the converse, `NaiveInv` follows
a path from node to node (`SentOn`): whoever stored it has sent it on to all that are not on it. When all is quiet and nothing was dropped before `on_start`, every way of the graph is stored where it ends
(`AllWaysStored`, a shortest missing one would have been sent). If then the first path is a shortest one, `WaysApart` gives another that avoids it, and with f = 1 two are enough: `NaiveGreedy`. For f > 1 a greedy choice may fail on
shortest paths too, so F <= 1 and `WaysApart` are hypotheses; `MCDolev` has a graph that satisfies both.

**Connection** (`ConnectionProofs`), for any number of calls, tasks, attempts and faults, over TCP and in one process. Types need `Connected` and `OneConnects`: who connects holds the
manager's lock, and nobody does while a connection is cached. `AnswerIsOwn` needs to know where the frames of a connection are: a waiting
send holds the connection's lock (`WaitersHold`), and on a connection that works the only send on its way there, being handled or on its way back is the
holder's (`Good`, of `ServedIsHolder` and `SentIsHolder`); a send that gave up has closed its connection, and a broken connection brings no new answers.
`ConnectionsBounded` counts the connections that work but are no longer cached against the calls that have failed (`LostByFailures`). `AtMostOnce` needs besides that
what is on its way was sent and is there once (`FrameInv`), and is the refinement of `RpcChannel` without its liveness. `TasksInOrder` needs `Ordered`: as long as nothing is broken all sends of a pair go through one connection (`OneStream`), nothing is lost (`NoneLost`),
and what has left is handled, or stands in the stream, only behind what its task sent before (`HandledInOrder`, `FramesInOrder`).
`NoCallHangs` is the safety half of the liveness of `RpcChannel`: when no call, handler or `close` has a step to take (`Rests`), every call has returned or raised. The manager's lock is held by a call that connects, which never
waits; a connection's lock by a send that waits on it (`HoldersWait`); such a send is on its connection somewhere, or the connection is broken (`Awaited`); and a connection that works has a living peer (`PeerLives`). The hypothesis `TasksBegin` says that every task has a first call.

**Bracha with optimisations** (`BrachaOptimizedProofs`), for every graph, order of names and choice of optimisations. The invariant of `Bracha` does not carry over: a node counts its own ECHO on a READY without
ever sending it. `EchosCounted` therefore says that what is counted was broadcast, a node's own ECHO excepted once a READY of the message exists; and the first
READY is broadcast by a node for which no READY existed, so that its quorum is real (`AmplificationKeepsQuorum`). READYs are counted only when broadcast,
whichever committee sends them (`CommitteeStillBacksDelivery`). `EchoesNotRepeated` counts the broadcasts of a phase against the marks that each of them leaves (`CountInv`); five places of the program begin an ECHO.
That the messages left out are not needed (`OptimizedTotality`) is proved from `Owed`, which lists for each node and message what its state obliges it to: what is heard is counted, what is seen is echoed
if the node may echo, enough ECHOs are amplified, a quorum gives a READY, enough READYs are amplified or deliver. The hypotheses are `FewSilent` (n >= 3f + 1 and *fewer* than f silent
nodes: a committee holds what the thresholds ask plus f, of which the node itself may be one, since nobody counts its own READY) and `EnoughFirstEchoes` (with single-hop SENDs, f + 1 nodes that hear the SEND and may
answer). `VInv` puts the three programs side by side for `BrachaVariants`, of which `EveryProgramKeepsQuorum` speaks.

**Programs** (`ProgramsProofs`), with one theorem or two for each program of `Programs`; the assumptions on the constants are `RingAssumption`, `EchoAssumption`, `ExamplesAssumption` and
`FileAssumption`.

- *Wiring*, `SendersRecognised`: the invariant `WiredInv` follows whoever answers at an address. An address holds one number, the number is a place in the sorted list of keys, and copies of
  the file with the same keys in another order sort to the same list (`NamesAreNumbers`); so the receiver finds its sender under the name the sender has for itself.
- *Ring election*, `OnlyTheLargestOfTheRing`: nodes begin either way round, so the invariant `RingInv` speaks of both directions: an id in transit has passed nobody larger the way it goes (`NotPassed`, with distances `Way`),
  and no answer turns round (`NoTurning`). `OneWayStops`: when all go the same way, which is a `Direction` and its distances, an election has come to everyone between the owner of its id and its sender
  (`Onward`), an elected id therefore to everyone, and news never ends before a node that has stopped (`Told`). Nodes may begin after they were passed, or after they have stopped. It is proved for both ways round from the same lemmas.
- *Message chain*, `ChainsReachEveryone`: a chain under way has not been received, and whoever signed it had received the part before (`ChainInv`); for every two nodes besides the initiator there is one that goes round the three of them
  (`OnTheWayRound`), and where it was longer than the hop limit it has stopped a node. Failed sends and the ends of processes take chains away (`ChainLoses`), which is why the property is about behaviours in which no send has failed yet.
- *Echo*, `OneMessageToAndFro`: the bag of messages is empty or a single message, and only the latter if all nodes have begun (`EchoInv`); a node is recorded as ready only once it has begun, although every poll resets the records and
  "ready" may be heard during its sleep; and the starter, once it has seen all ready, is not polling any more, so that nothing is reset under it.
- *Layers*, `EchoLast`: between a starter and a parent there is a line of numbers that only grow and are larger than all that was heard (`InTurn`); what was heard was sent (`WasSent`), and a starter has its own messages up to the
  one it is at (`OwnSends`).

**Model-checked only:** liveness (`Validity`, `StartupCompletes`, `EveryNodeStops`, `RunsOut`, and that every call ends, in `ImplementsRpc`), which the installed back ends do not prove. For all but `RunsOut` a theorem says
that nothing is missing when nothing can move (`Totality`, `StartupNeverStuck`, `NeverStuck`, `NoCallHangs`); what remains with TLC is that, under fairness, the system comes to such a state.
Every safety invariant that a run checks is also a theorem.
`ToldFirst`, `Starvation`, `NaiveDeliversUncut` and the theorems on what rests are proved and no run checks them.


## 5. Not modelled

* *Rust*: the lifecycle, transports and algorithms from which `distbench-py` was ported. They differ from it in ways of their own (STARTED is
  cast on two paths, answers carry request numbers), so that no module here is about them, and would be modules beside the ones here.
* *`Echo`*: a request, a reply and a counter; `Connection` has calls of any client.
* *Signing, encodings*: pure functions. A signature is the name of its signer in `MessageChain`.
* *Class construction by decorators, and macros*: they build the tables that `Layers` begins with.
* *Scripts, command line, logs, reports, dockerfiles*: I/O around a run.
* *Dolev*: `BYZANTINE_SELECTIVE`, which no reachable branch of a standalone node uses; relays that raise because the receiver's process has ended (`Bracha` has the
  exception where it reaches the parent); the end of a standalone or naive sender after its waiting time, on which nothing depends.
* *Variants of Bracha*: the end of a process while others still send to it, which `Bracha` has; the spoofing mode of the child.
* *in4150*: the finding of peers, which a library does, and the loss of datagrams between living processes: nothing is sent again,
  so that with a loss only the safety properties could hold.
* *A serve task that fails*: `Node.start` waits for the first of three tasks to end (`node.py:307`), of which `NodeLifecycle` lets the monitor's and the algorithm's end, but not the server's.
* *The tasks of a TCP server after the stop event*: a peer that ends takes everything with it at once (`PeerEnds`).

`PROJECT.json` gives the reason for each component.
