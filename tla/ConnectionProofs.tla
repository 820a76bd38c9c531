-------------------------- MODULE ConnectionProofs --------------------------
(***************************************************************************)
(* Proofs about the calls of one node to one peer: for any number of       *)
(* calls, tasks, attempts and faults, over TCP and in one process.         *)
(***************************************************************************)
EXTENDS Connection, FiniteSetTheorems, WellFoundedInduction, TLAPS

LEMMA NoSuchCall == NoCall \notin Call /\ Closer \notin Call /\ Closer # NoCall
BY ConnectionAssumption

-----------------------------------------------------------------------------
(***************************************************************************)
(* Types, and what the manager's lock protects.                            *)
(***************************************************************************)
\* A call that uses a connection uses one that exists, a call that has not
\* connected has made none, and what made a call fail is closed.
Connected ==
  \A c \in Call :
    /\ pc[c] \in {"using", "waiting", "failing"} => conn[c] \in opened
    /\ pc[c] \in {"idle", "connecting"} => c \notin opened
    /\ pc[c] = "failing" => conn[c] \in closed

\* One task at a time connects, and none does while a connection is cached.
OneConnects ==
  /\ \A c \in Call : pc[c] = "connecting" <=> lock = c
  /\ lock \in Call => connection = NoCall
  /\ lock = Closer => connection \in closed
  /\ connection \in opened \cup {NoCall}

Place == {"idle", "connecting", "using", "waiting", "failing", "ok", "error"}

ManagerTypes ==
  /\ transport \in {"tcp", "local"}
  /\ peer \in {"down", "up", "ended"}
  /\ lock \in Null \cup {Closer}
  /\ connection \in Null

CallTypes ==
  /\ pc \in [Call -> Place]
  /\ attempts \in [Call -> 0..(MaxRetries - 1)]
  /\ conn \in [Call -> Null]
  /\ answer \in [Call -> Null]

SocketTypes ==
  /\ opened \subseteq Call
  /\ closed \subseteq opened
  /\ broken \subseteq opened
  /\ faults \in Nat

StreamTypes ==
  /\ holder \in [Call -> Null]
  /\ out \in [Call -> Seq(Call)]
  /\ in \in [Call -> Seq(Call)]
  /\ serving \in [Call -> Null]
  /\ handled \in Seq(Call)

LEMMA TypeParts == TypeOK <=> ManagerTypes /\ CallTypes /\ SocketTypes /\ StreamTypes
BY DEF TypeOK, ManagerTypes, CallTypes, SocketTypes, StreamTypes, Place

LEMMA ManagerTypeStep == ASSUME ManagerTypes, [Next]_vars PROVE ManagerTypes'
<1>. USE DEF ManagerTypes, Null, managerVars
<1>1. ASSUME NEW c \in Call, Proceeds(c) PROVE ManagerTypes'
  BY <1>1
  DEF Proceeds, Reuse, StartConnect, Connects, ConnectFails, WriteRefused, Write,
      WriteFails, ReadAnswer, ReadFails, Invalidate, LocalSend, LocalReturns,
      LocalCast
<1>2. ASSUME NEW k \in Call, Serves(k) \/ Break(k) PROVE ManagerTypes'
  BY <1>2 DEF Serves, Take, Answer, LocalTask, Break
<1>3. CASE Close \/ CloseEnds \/ PeerStarts \/ PeerEnds
  BY <1>3 DEF Close, CloseEnds, PeerStarts, PeerEnds
<1>. QED  BY <1>1, <1>2, <1>3 DEF Next, vars

LEMMA CallTypeStep ==
  ASSUME TypeOK, Connected, [Next]_vars PROVE CallTypes'
<1>0. CallTypes /\ connection \in Null
  BY TypeParts DEF ManagerTypes
<1>1. ASSUME NEW c \in Call, NEW p \in Place, Goes(c, p),
             UNCHANGED <<attempts, conn, answer>>
      PROVE  CallTypes'
  BY <1>0, <1>1 DEF CallTypes, Goes
<1>2. ASSUME NEW c \in Call, Reuse(c) \/ Connects(c) PROVE CallTypes'
  BY <1>0, <1>2 DEF CallTypes, Reuse, Connects, Goes, Place, Null
<1>3. ASSUME NEW c \in Call, ConnectFails(c) PROVE CallTypes'
  <2>1. attempts' \in [Call -> 0..(MaxRetries - 1)]
    BY <1>0, <1>3, ConnectionAssumption DEF CallTypes, ConnectFails
  <2>. QED  BY <1>0, <1>3, <2>1 DEF CallTypes, ConnectFails, Goes, Place
<1>4. ASSUME NEW c \in Call, ReadAnswer(c) PROVE CallTypes'
  <2>1. conn[c] \in Call
    BY <1>4 DEF ReadAnswer, Waits, Connected, TypeOK
  <2>2. in[conn[c]] \in Seq(Call) /\ in[conn[c]] # <<>>
    BY <1>4, <2>1 DEF ReadAnswer, TypeOK
  <2>3. Head(in[conn[c]]) \in Call
    BY <2>2
  <2>. QED  BY <1>0, <1>4, <2>3 DEF CallTypes, ReadAnswer, Goes, Place, Null
<1>5. ASSUME NEW c \in Call, LocalReturns(c) PROVE CallTypes'
  BY <1>0, <1>5 DEF CallTypes, LocalReturns, Goes, Place, Null
<1>6. ASSUME NEW c \in Call, Proceeds(c) PROVE CallTypes'
  <2>1. CASE StartConnect(c)
    BY <1>1, <2>1 DEF StartConnect, Place
  <2>2. CASE WriteRefused(c) \/ WriteFails(c) \/ ReadFails(c)
    BY <1>1, <2>2 DEF WriteRefused, WriteFails, ReadFails, Place
  <2>3. CASE Write(c)
    BY <1>1, <2>3 DEF Write, Place
  <2>4. CASE LocalSend(c) \/ LocalCast(c) \/ Invalidate(c)
    BY <1>1, <2>4 DEF LocalSend, LocalCast, Invalidate, Place
  <2>. QED  BY <1>2, <1>3, <1>4, <1>5, <1>6, <2>1, <2>2, <2>3, <2>4 DEF Proceeds
<1>7. ASSUME NEW k \in Call, Serves(k) \/ Break(k) PROVE CallTypes'
  BY <1>0, <1>7 DEF CallTypes, Serves, Take, Answer, LocalTask, Break, callVars
<1>8. CASE Close \/ CloseEnds \/ PeerStarts \/ PeerEnds \/ UNCHANGED vars
  BY <1>0, <1>8 DEF CallTypes, Close, CloseEnds, PeerStarts, PeerEnds, vars, callVars
<1>. QED  BY <1>6, <1>7, <1>8 DEF Next

LEMMA SocketTypeStep ==
  ASSUME SocketTypes, OneConnects, [Next]_vars PROVE SocketTypes'
<1>. USE DEF SocketTypes, socketVars
<1>1. ASSUME NEW c \in Call, Connects(c) PROVE SocketTypes'
  BY <1>1 DEF Connects
<1>2. ASSUME NEW c \in Call, WriteFails(c) \/ ReadFails(c) PROVE SocketTypes'
  BY <1>2 DEF WriteFails, ReadFails
<1>3. ASSUME NEW c \in Call, Proceeds(c) PROVE SocketTypes'
  BY <1>1, <1>2, <1>3
  DEF Proceeds, Reuse, StartConnect, ConnectFails, WriteRefused, Write,
      ReadAnswer, Invalidate, LocalSend, LocalReturns, LocalCast
<1>4. ASSUME NEW k \in Call, Serves(k) \/ Break(k) PROVE SocketTypes'
  BY <1>4 DEF Serves, Take, Answer, LocalTask, Break, Faults
<1>5. CASE CloseEnds \/ PeerStarts \/ PeerEnds \/ UNCHANGED vars
  BY <1>5 DEF CloseEnds, PeerStarts, PeerEnds, Faults, vars
<1>6. CASE Close
  BY <1>6 DEF Close, Faults, OneConnects
<1>. QED  BY <1>3, <1>4, <1>5, <1>6 DEF Next

LEMMA PrefixType ==
  ASSUME NEW s \in Seq(Call), NEW p \in Prefixes(s)
  PROVE  p \in Seq(Call)
BY DEF Prefixes

LEMMA StreamSet ==
  ASSUME NEW table \in [Call -> Seq(Call)], NEW k, NEW s \in Seq(Call)
  PROVE  [table EXCEPT ![k] = s] \in [Call -> Seq(Call)]
OBVIOUS

LEMMA StreamTypeStep ==
  ASSUME TypeOK, Connected, [Next]_vars PROVE StreamTypes'
<1>0. StreamTypes /\ CallTypes
  BY TypeParts
<1>1. ASSUME NEW c \in Call, Write(c) PROVE StreamTypes'
  <2>1. conn[c] \in Call
    BY <1>1 DEF Write, Locks, HasConnection, Connected, TypeOK
  <2>2. out' \in [Call -> Seq(Call)]
    BY <1>0, <1>1, <2>1 DEF Write, StreamTypes
  <2>. QED  BY ZenonT(40), <1>0, <1>1, <2>1, <2>2 DEF Write, StreamTypes, Null
<1>2. ASSUME NEW c \in Call, ReadAnswer(c) PROVE StreamTypes'
  <2>1. conn[c] \in Call
    BY <1>2 DEF ReadAnswer, Waits, Connected, TypeOK
  <2>2. in[conn[c]] \in Seq(Call) /\ in[conn[c]] # <<>>
    BY <1>0, <1>2, <2>1 DEF ReadAnswer, StreamTypes
  <2>3. Tail(in[conn[c]]) \in Seq(Call)
    BY <2>2
  <2>. QED  BY <1>0, <1>2, <2>3 DEF ReadAnswer, StreamTypes, Null
<1>3. ASSUME NEW c \in Call, ReadFails(c) PROVE StreamTypes'
  BY <1>0, <1>3 DEF ReadFails, StreamTypes, Null, streamVars
<1>4. ASSUME NEW c \in Call, LocalSend(c) PROVE StreamTypes'
  BY <1>0, <1>4 DEF LocalSend, StreamTypes
<1>5. ASSUME NEW c \in Call, LocalCast(c) PROVE StreamTypes'
  <2>1. conn[c] \in Call
    BY <1>5 DEF LocalCast, HasConnection, Connected, TypeOK
  <2>2. Append(out[conn[c]], c) \in Seq(Call)
    BY <1>0, <2>1 DEF StreamTypes
  <2>3. out' \in [Call -> Seq(Call)]
    BY <1>0, <1>5, <2>2, StreamSet DEF LocalCast, StreamTypes
  <2>. QED  BY <1>0, <1>5, <2>3 DEF LocalCast, StreamTypes
<1>6. ASSUME NEW k \in Call, Take(k) \/ LocalTask(k) PROVE StreamTypes'
  <2>1. out[k] \in Seq(Call) /\ out[k] # <<>>
    BY <1>0, <1>6 DEF Take, LocalTask, StreamTypes
  <2>2. Head(out[k]) \in Call /\ Tail(out[k]) \in Seq(Call)
    BY <2>1
  <2>3. out' \in [Call -> Seq(Call)]
    BY <1>0, <1>6, <2>2, StreamSet DEF Take, LocalTask, StreamTypes
  <2>4. handled' \in Seq(Call)
    <3>1. handled \in Seq(Call) /\ handled' = Append(handled, Head(out[k]))
      BY <1>0, <1>6 DEF Take, LocalTask, StreamTypes
    <3>. QED  BY <2>2, <3>1
  <2>. QED  BY <1>0, <1>6, <2>2, <2>3, <2>4 DEF Take, LocalTask, StreamTypes, Null
<1>7. ASSUME NEW k \in Call, Answer(k) PROVE StreamTypes'
  <2>1. serving[k] \in Call
    BY <1>0, <1>7 DEF Answer, StreamTypes, Null
  <2>2. Append(in[k], serving[k]) \in Seq(Call) /\ <<>> \in Seq(Call)
    BY <1>0, <2>1 DEF StreamTypes
  <2>3. out' \in {out, [out EXCEPT ![k] = <<>>]}
    BY <1>7 DEF Answer
  <2>4. in' \in {in, [in EXCEPT ![k] = Append(in[k], serving[k])]}
    BY <1>7 DEF Answer
  <2>5. out' \in [Call -> Seq(Call)]
    BY <1>0, <2>2, <2>3, StreamSet DEF StreamTypes
  <2>6. in' \in [Call -> Seq(Call)]
    BY <1>0, <2>2, <2>4, StreamSet DEF StreamTypes
  <2>7. serving' \in [Call -> Null] /\ UNCHANGED <<holder, handled>>
    BY <1>0, <1>7 DEF Answer, StreamTypes, Null
  <2>. QED  BY <1>0, <2>5, <2>6, <2>7 DEF StreamTypes
<1>8. ASSUME NEW k \in Call, Break(k) PROVE StreamTypes'
  <2>1. PICK o \in Prefixes(out[k]), i \in Prefixes(in[k]) :
          out' = [out EXCEPT ![k] = o] /\ in' = [in EXCEPT ![k] = i]
    BY <1>8 DEF Break
  <2>2. o \in Seq(Call) /\ i \in Seq(Call)
    BY <1>0, PrefixType DEF StreamTypes
  <2>. QED  BY <1>0, <1>8, <2>1, <2>2 DEF Break, StreamTypes
<1>9. CASE PeerEnds
  <2>1. <<>> \in Seq(Call)
    OBVIOUS
  <2>2. [k \in Call |-> <<>>] \in [Call -> Seq(Call)]
    BY <2>1
  <2>3. None \in [Call -> Null]
    BY DEF None, Null
  <2>4. /\ out' = [k \in Call |-> <<>>] /\ in' \in {in, [k \in Call |-> <<>>]}
        /\ serving' = None /\ UNCHANGED <<holder, handled>>
    BY <1>9 DEF PeerEnds
  <2>. QED  BY <1>0, <2>2, <2>3, <2>4 DEF StreamTypes
<1>10. CASE Close \/ CloseEnds \/ PeerStarts \/ UNCHANGED vars
  BY <1>0, <1>10 DEF Close, CloseEnds, PeerStarts, StreamTypes, vars, streamVars
<1>11. ASSUME NEW c \in Call,
              Reuse(c) \/ StartConnect(c) \/ Connects(c) \/ ConnectFails(c)
                \/ WriteRefused(c) \/ WriteFails(c) \/ Invalidate(c)
                \/ LocalReturns(c)
       PROVE  StreamTypes'
  BY <1>0, <1>11
  DEF Reuse, StartConnect, Connects, ConnectFails, WriteRefused, WriteFails,
      Invalidate, LocalReturns, StreamTypes, streamVars
<1>. QED
  BY <1>1, <1>2, <1>3, <1>4, <1>5, <1>6, <1>7, <1>8, <1>9, <1>10, <1>11
  DEF Next, Proceeds, Serves

LEMMA TypeStep == ASSUME TypeOK, Connected, OneConnects, [Next]_vars PROVE TypeOK'
<1>1. ManagerTypes /\ CallTypes /\ SocketTypes /\ StreamTypes
  BY TypeParts
<1>2. ManagerTypes' /\ CallTypes' /\ SocketTypes' /\ StreamTypes'
  BY <1>1, ManagerTypeStep, CallTypeStep, SocketTypeStep, StreamTypeStep
<1>. QED
  BY <1>2 DEF TypeOK, ManagerTypes, CallTypes, SocketTypes, StreamTypes, Place, Null

\* A call that has its connection goes on, or fails as the connection is closed.
LEMMA CallGoesOn ==
  ASSUME TypeOK, Connected, OneConnects, NEW c \in Call,
         NEW place \in {"waiting", "failing", "ok"},
         pc[c] \in {"using", "waiting"}, Goes(c, place),
         UNCHANGED <<managerVars, conn, opened>>,
         closed \subseteq closed', place = "failing" => conn[c] \in closed'
  PROVE  Connected' /\ OneConnects'
<1>1. pc \in [Call -> Place] /\ pc' = [pc EXCEPT ![c] = place]
  BY DEF TypeOK, Goes, Place
<1>2. /\ pc'[c] = place
      /\ \A k \in Call : k # c => pc'[k] = pc[k]
  BY <1>1
<1>3. UNCHANGED <<lock, connection, conn, opened>>
  BY DEF managerVars
<1>4. Connected'
  <2>. SUFFICES ASSUME NEW k \in Call
                PROVE  /\ pc'[k] \in {"using", "waiting", "failing"} => conn[k] \in opened
                       /\ pc'[k] \in {"idle", "connecting"} => k \notin opened
                       /\ pc'[k] = "failing" => conn[k] \in closed'
    BY <1>3 DEF Connected
  <2>1. CASE k = c
    BY <1>2, <2>1 DEF Connected
  <2>2. CASE k # c
    BY <1>2, <2>2 DEF Connected
  <2>. QED  BY <2>1, <2>2
<1>5. OneConnects'
  <2>1. \A k \in Call : pc'[k] = "connecting" <=> pc[k] = "connecting"
    BY <1>2
  <2>. QED  BY <1>3, <2>1 DEF OneConnects
<1>. QED  BY <1>4, <1>5

LEMMA ManagerStep ==
  ASSUME TypeOK, Connected, OneConnects, [Next]_vars
  PROVE  Connected' /\ OneConnects'
<1>1. ASSUME NEW c \in Call, Reuse(c) PROVE Connected' /\ OneConnects'
  BY <1>1, NoSuchCall
  DEF Reuse, MayBegin, TypeOK, Null, Goes, Connected, OneConnects, managerVars,
      socketVars
<1>8. ASSUME NEW c \in Call, StartConnect(c) PROVE Connected' /\ OneConnects'
  BY <1>8, NoSuchCall
  DEF StartConnect, MayBegin, TypeOK, Null, Goes, Connected, OneConnects, socketVars
<1>9. ASSUME NEW c \in Call, Connects(c) PROVE Connected' /\ OneConnects'
  BY <1>9, NoSuchCall DEF Connects, TypeOK, Null, Goes, Connected, OneConnects
<1>10. ASSUME NEW c \in Call, ConnectFails(c) PROVE Connected' /\ OneConnects'
  <2>. USE NoSuchCall DEF TypeOK, Null, Goes, Connected, OneConnects, socketVars
  <2>1. lock = c
    BY <1>10 DEF ConnectFails
  <2>2. CASE pc' = pc /\ lock' = lock
    BY <1>10, <2>2 DEF ConnectFails
  <2>3. CASE pc' = [pc EXCEPT ![c] = "error"] /\ lock' = NoCall
    BY <1>10, <2>1, <2>3 DEF ConnectFails
  <2>. QED  BY <1>10, <2>2, <2>3 DEF ConnectFails
<1>11. ASSUME NEW c \in Call, Invalidate(c) PROVE Connected' /\ OneConnects'
  BY <1>11, NoSuchCall
  DEF Invalidate, TypeOK, Null, Goes, Connected, OneConnects, socketVars
<1>2. ASSUME NEW c \in Call, WriteRefused(c) \/ Write(c) \/ WriteFails(c)
      PROVE  Connected' /\ OneConnects'
  <2>. USE DEF Locks, HasConnection, socketVars
  <2>1. CASE WriteRefused(c)
    BY <2>1, CallGoesOn DEF WriteRefused
  <2>2. CASE Write(c)
    <3>1. Goes(c, "ok") \/ Goes(c, "waiting")
      BY <2>2 DEF Write
    <3>. QED  BY <2>2, <3>1, CallGoesOn DEF Write
  <2>3. CASE WriteFails(c)
    BY <2>3, CallGoesOn DEF WriteFails
  <2>. QED  BY <1>2, <2>1, <2>2, <2>3
<1>3. ASSUME NEW c \in Call, ReadAnswer(c) \/ ReadFails(c)
      PROVE  Connected' /\ OneConnects'
  <2>. USE DEF Waits, socketVars
  <2>1. CASE ReadAnswer(c)
    BY <2>1, CallGoesOn DEF ReadAnswer
  <2>2. CASE ReadFails(c)
    BY <2>2, CallGoesOn DEF ReadFails
  <2>. QED  BY <1>3, <2>1, <2>2
<1>4. ASSUME NEW c \in Call, LocalSend(c) \/ LocalReturns(c) \/ LocalCast(c)
      PROVE  Connected' /\ OneConnects'
  BY <1>4, CallGoesOn DEF LocalSend, LocalReturns, LocalCast, HasConnection, socketVars
<1>5. ASSUME NEW k \in Call, Serves(k) \/ Break(k) PROVE Connected' /\ OneConnects'
  <2>1. UNCHANGED <<lock, connection, pc, conn, opened, closed>>
    BY <1>5
    DEF Serves, Take, Answer, LocalTask, Break, managerVars, callVars, socketVars
  <2>. QED  BY <2>1 DEF Connected, OneConnects
<1>6. CASE Close
  <2>1. /\ lock' = Closer /\ connection # NoCall
        /\ closed' = closed \cup {connection}
        /\ UNCHANGED <<connection, pc, conn, opened>>
    BY <1>6 DEF Close, callVars
  <2>2. \A c \in Call : pc[c] # "connecting" /\ c # Closer
    BY <1>6, NoSuchCall DEF Close, OneConnects
  <2>. QED  BY <2>1, <2>2, NoSuchCall DEF Connected, OneConnects
<1>12. CASE CloseEnds
  <2>1. /\ lock = Closer /\ lock' = NoCall /\ connection' = NoCall
        /\ UNCHANGED <<pc, conn, opened, closed>>
    BY <1>12 DEF CloseEnds, callVars, socketVars
  <2>. QED  BY <2>1, NoSuchCall DEF Connected, OneConnects
<1>7. CASE PeerStarts \/ PeerEnds \/ UNCHANGED vars
  <2>1. UNCHANGED <<lock, connection, pc, conn, opened, closed>>
    BY <1>7 DEF PeerStarts, PeerEnds, vars, managerVars, callVars, socketVars
  <2>. QED  BY <2>1 DEF Connected, OneConnects
<1>. QED
  BY <1>1, <1>2, <1>3, <1>4, <1>5, <1>6, <1>7, <1>8, <1>9, <1>10, <1>11, <1>12
  DEF Next, Proceeds

-----------------------------------------------------------------------------
(***************************************************************************)
(* The connections that are given up.                                      *)
(***************************************************************************)\* The calls that have raised because their connection failed.
Gave == {c \in Call : pc[c] = "error" /\ conn[c] \in closed}

\* Those of which no field of the manager tells any more, although they work.
Lost == (opened \ closed) \ {connection}

\* Each of them was dropped by a call whose own connection had failed.
LostByFailures == Cardinality(Lost) <= Cardinality(Gave)

LEMMA GaveFinite == ASSUME TypeOK PROVE IsFiniteSet(Gave) /\ IsFiniteSet(Lost)
BY ConnectionAssumption, FS_Subset DEF Gave, Lost, TypeOK

LEMMA LostStep ==
  ASSUME TypeOK, TypeOK', Connected, OneConnects, LostByFailures, [Next]_vars
  PROVE  LostByFailures'
<1>1. Cardinality(Gave) \in Nat /\ Cardinality(Lost) \in Nat
  BY GaveFinite, FS_CardinalityType
<1>2. IsFiniteSet(Gave') /\ IsFiniteSet(Lost')
  BY ConnectionAssumption, FS_Subset DEF Gave, Lost, TypeOK
<1>3. Cardinality(Gave') \in Nat /\ Cardinality(Lost') \in Nat
  BY <1>2, FS_CardinalityType
<1>4. ASSUME Lost' \subseteq Lost, Gave \subseteq Gave' PROVE LostByFailures'
  <2>1. Cardinality(Lost') <= Cardinality(Lost)
    BY <1>4, GaveFinite, FS_Subset
  <2>2. Cardinality(Gave) <= Cardinality(Gave')
    BY <1>2, <1>4, FS_Subset
  <2>. QED  BY <1>1, <1>3, <2>1, <2>2 DEF LostByFailures
<1>. USE NoSuchCall
<1>5. ASSUME NEW c \in Call, Invalidate(c) PROVE LostByFailures'
  <2>1. Lost' \subseteq Lost \cup {connection}
    BY <1>5 DEF Invalidate, Lost, socketVars
  <2>2. Gave' = Gave \cup {c} /\ c \notin Gave
    <3>1. /\ pc[c] = "failing" /\ pc' = [pc EXCEPT ![c] = "error"]
          /\ UNCHANGED <<conn, closed>>
      BY <1>5 DEF Invalidate, Goes, socketVars
    <3>2. conn[c] \in closed
      BY <3>1 DEF Connected
    <3>. QED  BY <3>1, <3>2 DEF Gave, TypeOK
  <2>3. Cardinality(Gave') = Cardinality(Gave) + 1
    BY <2>2, GaveFinite, FS_AddElement
  <2>4. Cardinality(Lost') <= Cardinality(Lost) + 1
    <3>0. IsFiniteSet(Lost)
      BY GaveFinite
    <3>1. /\ IsFiniteSet(Lost \cup {connection})
          /\ Cardinality(Lost \cup {connection}) \in Nat
          /\ Cardinality(Lost \cup {connection}) <= Cardinality(Lost) + 1
      BY <3>0, <1>1, FS_AddElement
    <3>2. Cardinality(Lost') <= Cardinality(Lost \cup {connection})
      BY <2>1, <3>1, FS_Subset
    <3>. QED  BY <1>1, <1>3, <3>1, <3>2
  <2>. QED  BY <1>1, <1>3, <2>3, <2>4 DEF LostByFailures
<1>6. ASSUME NEW c \in Call, Connects(c) PROVE LostByFailures'
  <2>1. Lost' \subseteq Lost
    <3>1. connection = NoCall
      BY <1>6 DEF Connects, OneConnects
    <3>. QED  BY <1>6, <3>1 DEF Connects, Lost, TypeOK
  <2>2. Gave \subseteq Gave'
    BY <1>6 DEF Connects, Goes, Gave, TypeOK
  <2>. QED  BY <1>4, <2>1, <2>2
<1>7. ASSUME NEW c \in Call, ReadFails(c) \/ WriteFails(c) PROVE LostByFailures'
  <2>1. Lost' \subseteq Lost
    BY <1>7 DEF ReadFails, WriteFails, Lost, managerVars
  <2>2. Gave \subseteq Gave'
    BY ZenonT(40), <1>7
    DEF ReadFails, WriteFails, Waits, Locks, HasConnection, Goes, Gave, TypeOK
  <2>. QED  BY <1>4, <2>1, <2>2
<1>8. ASSUME NEW c \in Call, Proceeds(c), UNCHANGED <<connection, closed, opened>>
      PROVE  LostByFailures'
  <2>1. Lost' = Lost
    BY <1>8 DEF Lost
  <2>2. \A d \in Gave : pc'[d] = pc[d] /\ conn'[d] = conn[d]
    <3>1. pc[c] # "error"
      BY <1>8
      DEF Proceeds, Reuse, StartConnect, Connects, ConnectFails, WriteRefused,
          Write, WriteFails, ReadAnswer, ReadFails, Invalidate, LocalSend,
          LocalReturns, LocalCast, MayBegin, Locks, HasConnection, Waits
    <3>2. ASSUME NEW d \in Call, d # c PROVE pc'[d] = pc[d]
      BY ZenonT(40), <1>8, <3>2
      DEF Proceeds, Reuse, StartConnect, Connects, ConnectFails, WriteRefused,
          Write, WriteFails, ReadAnswer, ReadFails, Invalidate, LocalSend,
          LocalReturns, LocalCast, Goes, TypeOK
    <3>3. ASSUME NEW d \in Call, d # c PROVE conn'[d] = conn[d]
      BY ZenonT(40), <1>8, <3>3
      DEF Proceeds, Reuse, StartConnect, Connects, ConnectFails, WriteRefused,
          Write, WriteFails, ReadAnswer, ReadFails, Invalidate, LocalSend,
          LocalReturns, LocalCast, TypeOK
    <3>. QED  BY <3>1, <3>2, <3>3 DEF Gave
  <2>3. Gave \subseteq Gave'
    BY <1>8, <2>2 DEF Gave
  <2>. QED  BY <1>4, <2>1, <2>3
<1>9. ASSUME NEW c \in Call, Proceeds(c) PROVE LostByFailures'
  <2>1. \/ Invalidate(c) \/ Connects(c) \/ ReadFails(c) \/ WriteFails(c)
        \/ UNCHANGED <<connection, closed, opened>>
    BY <1>9
    DEF Proceeds, Reuse, StartConnect, ConnectFails, WriteRefused, Write,
        ReadAnswer, LocalSend, LocalReturns, LocalCast, managerVars, socketVars
  <2>. QED  BY <1>5, <1>6, <1>7, <1>8, <1>9, <2>1
<1>10. CASE Close \/ CloseEnds
  <2>1. Lost' \subseteq Lost
    BY <1>10 DEF Close, CloseEnds, OneConnects, Lost, socketVars
  <2>2. Gave \subseteq Gave'
    BY <1>10 DEF Close, CloseEnds, Gave, callVars, socketVars
  <2>. QED  BY <1>4, <2>1, <2>2
<1>11. CASE UNCHANGED <<managerVars, callVars, opened, closed>>
  BY <1>4, <1>11 DEF managerVars, callVars, Lost, Gave
<1>12. ASSUME NEW k \in Call, Serves(k) \/ Break(k)
       PROVE  UNCHANGED <<managerVars, callVars, opened, closed>>
  BY <1>12 DEF Serves, Take, Answer, LocalTask, Break, socketVars
<1>13. ASSUME PeerStarts \/ PeerEnds \/ UNCHANGED vars
       PROVE  UNCHANGED <<managerVars, callVars, opened, closed>>
  BY <1>13 DEF PeerStarts, PeerEnds, vars, socketVars
<1>. QED  BY <1>9, <1>10, <1>11, <1>12, <1>13 DEF Next

LEMMA BoundedConnections ==
  ASSUME TypeOK, LostByFailures PROVE ConnectionsBounded
<1>1. opened \subseteq (closed \cup Lost) \cup {connection}
  BY DEF Lost
<1>2. IsFiniteSet(closed) /\ IsFiniteSet(opened)
  BY ConnectionAssumption, FS_Subset DEF TypeOK
<1>3. /\ Cardinality(closed) \in Nat /\ Cardinality(Lost) \in Nat
      /\ Cardinality(Gave) \in Nat /\ Cardinality(opened) \in Nat
  BY <1>2, GaveFinite, FS_CardinalityType
<1>4. /\ IsFiniteSet(closed \cup Lost)
      /\ Cardinality(closed \cup Lost) <= Cardinality(closed) + Cardinality(Lost)
  <2>1. /\ IsFiniteSet(closed \cup Lost)
        /\ Cardinality(closed \cup Lost) =
             Cardinality(closed) + Cardinality(Lost) - Cardinality(closed \cap Lost)
    BY <1>2, GaveFinite, FS_Union
  <2>2. Cardinality(closed \cap Lost) \in Nat
    BY <1>2, FS_Subset, FS_CardinalityType
  <2>. QED  BY <1>3, <2>1, <2>2
<1>5. /\ IsFiniteSet((closed \cup Lost) \cup {connection})
      /\ Cardinality((closed \cup Lost) \cup {connection})
           <= Cardinality(closed \cup Lost) + 1
  BY <1>4, FS_AddElement, FS_CardinalityType
<1>6. Cardinality(opened) <= Cardinality((closed \cup Lost) \cup {connection})
  BY <1>1, <1>5, FS_Subset
<1>7. /\ Cardinality(closed \cup Lost) \in Nat
      /\ Cardinality((closed \cup Lost) \cup {connection}) \in Nat
  BY <1>4, <1>5, FS_CardinalityType
<1>. QED
  BY <1>3, <1>4, <1>5, <1>6, <1>7 DEF LostByFailures, ConnectionsBounded, Gave

-----------------------------------------------------------------------------
(***************************************************************************)
(* Answers.  While a send waits it holds its connection, and nothing of    *)
(* another send is on the way there and back.                              *)
(***************************************************************************)
IsSend(c) == c \in Call \ Cast

WaitersHold ==
  transport = "tcp" =>
    \A c \in Call : pc[c] = "waiting" => holder[conn[c]] = c

Clear(k) == in[k] = <<>> /\ serving[k] = NoCall

ServedIsHolder(k) ==
  serving[k] # NoCall => serving[k] = holder[k] /\ in[k] = <<>>

SentIsHolder(k) ==
  \A i \in DOMAIN out[k] :
    IsSend(out[k][i]) =>
      /\ out[k][i] = holder[k] /\ Clear(k)
      /\ \A j \in DOMAIN out[k] : IsSend(out[k][j]) => j = i

LEMMA AppendSent ==
  ASSUME NEW s \in Seq(Call), NEW c \in Call
  PROVE  /\ DOMAIN Append(s, c) = DOMAIN s \cup {Len(s) + 1}
         /\ \A i \in DOMAIN s : i # Len(s) + 1 /\ Append(s, c)[i] = s[i]
         /\ Append(s, c)[Len(s) + 1] = c
OBVIOUS

LEMMA TailSent ==
  ASSUME NEW s \in Seq(Call), s # <<>>
  PROVE  /\ 1 \in DOMAIN s /\ Head(s) = s[1]
         /\ \A i \in DOMAIN Tail(s) :
              i + 1 \in DOMAIN s /\ i + 1 # 1 /\ Tail(s)[i] = s[i + 1]
         /\ \A i, j \in DOMAIN Tail(s) : i + 1 = j + 1 => i = j
OBVIOUS

LEMMA OnlyOne == ASSUME NEW s \in Seq(Call), NEW x, s = <<x>> PROVE x \in Call
<1>1. Len(s) = 1 /\ s[1] = x
  OBVIOUS
<1>2. \A i \in 1..Len(s) : s[i] \in Call
  OBVIOUS
<1>. QED  BY <1>1, <1>2

LEMMA PrefixOfOne ==
  ASSUME NEW x \in Call, NEW s, s = <<>> \/ s = <<x>>, NEW p \in Prefixes(s)
  PROVE  p = <<>> \/ p = <<x>>
<1>1. PICK i \in 0..Len(s) : p = SubSeq(s, 1, i)
  BY DEF Prefixes
<1>2. CASE s = <<>>
  <2>1. i = 0 /\ s \in Seq(Call)
    BY <1>1, <1>2
  <2>. QED  BY <1>1, <1>2, <2>1
<1>3. CASE s = <<x>>
  <2>1. s \in Seq(Call) /\ Len(s) = 1 /\ s[1] = x /\ i \in {0, 1}
    BY <1>1, <1>3
  <2>2. CASE i = 0
    BY <1>1, <2>1, <2>2
  <2>3. CASE i = 1
    <3>1. p \in Seq(Call) /\ Len(p) = 1 /\ p[1] = x
      BY <1>1, <2>1, <2>3
    <3>. QED  BY <3>1
  <2>. QED  BY <2>1, <2>2, <2>3
<1>. QED  BY <1>2, <1>3

\* What has lost its lock can only be on a broken connection, from where no
\* answer comes back.
Good(k) ==
  /\ in[k] \in {<<>>, <<holder[k]>>}
  /\ k \notin broken => ServedIsHolder(k) /\ SentIsHolder(k)

\* A connection whose frames a step leaves alone.
Untouched(k) ==
  /\ holder'[k] = holder[k]
  /\ in'[k] = in[k]
  /\ out'[k] = out[k]
  /\ serving'[k] = serving[k]

LEMMA StaysGood ==
  ASSUME broken \subseteq broken', NEW k \in Call, Untouched(k), Good(k)
  PROVE  Good(k)'
BY DEF Untouched, Good, ServedIsHolder, SentIsHolder, Clear, IsSend

\* Nobody begins to wait, and the connections are held as before.
LEMMA NobodyWaits ==
  ASSUME WaitersHold, transport' = transport, UNCHANGED holder,
         \A c \in Call : pc'[c] = "waiting" =>
           pc[c] = "waiting" /\ conn'[c] = conn[c]
  PROVE  WaitersHold'
BY DEF WaitersHold

LEMMA CallStep ==
  ASSUME TypeOK, TypeOK', Connected, WaitersHold, \A k \in Call : Good(k),
         NEW c \in Call, Proceeds(c)
  PROVE  WaitersHold' /\ \A k \in Call : Good(k)'
<1>. USE NoSuchCall
<1>1. UNCHANGED <<broken, transport>>
  BY DEF Proceeds, Reuse, StartConnect, Connects, ConnectFails, WriteRefused,
      Write, WriteFails, ReadAnswer, ReadFails, Invalidate, LocalSend,
      LocalReturns, LocalCast, socketVars
<1>2. CASE \/ Reuse(c) \/ StartConnect(c) \/ Connects(c) \/ ConnectFails(c)
           \/ WriteRefused(c) \/ WriteFails(c) \/ Invalidate(c) \/ LocalReturns(c)
  <2>1. UNCHANGED <<holder, in, out, serving>>
    BY <1>2
    DEF Reuse, StartConnect, Connects, ConnectFails, WriteRefused, WriteFails,
        Invalidate, LocalReturns, streamVars
  <2>2. \A d \in Call : pc'[d] = "waiting" =>
          pc[d] = "waiting" /\ conn'[d] = conn[d]
    <3>1. pc' = pc \/ \E p \in Place \ {"waiting"} : pc' = [pc EXCEPT ![c] = p]
      BY <1>2
      DEF Reuse, StartConnect, Connects, ConnectFails, WriteRefused, WriteFails,
          Invalidate, LocalReturns, Goes, Place
    <3>2. \/ conn' = conn
          \/ /\ pc'[c] = "using"
             /\ \A d \in Call : d # c => conn'[d] = conn[d]
      <4>1. CASE Reuse(c) \/ Connects(c)
        BY ZenonT(40), <4>1 DEF Reuse, Connects, Goes, TypeOK
      <4>2. CASE ~(Reuse(c) \/ Connects(c))
        BY <1>2, <4>2
        DEF StartConnect, ConnectFails, WriteRefused, WriteFails, Invalidate,
            LocalReturns
      <4>. QED  BY <4>1, <4>2
    <3>. QED  BY <3>1, <3>2 DEF TypeOK
  <2>3. \A k \in Call : Untouched(k)
    BY <2>1 DEF Untouched
  <2>. QED  BY <1>1, <2>1, <2>2, <2>3, StaysGood, NobodyWaits
<1>3. CASE LocalSend(c)
  <2>1. UNCHANGED <<holder, in, out, serving>> /\ transport' # "tcp"
    BY <1>3 DEF LocalSend
  <2>2. \A k \in Call : Untouched(k)
    BY <2>1 DEF Untouched
  <2>. QED  BY <1>1, <2>1, <2>2, StaysGood DEF WaitersHold
<1>4. CASE Write(c)
  <2>1. PICK k \in Call : k = conn[c] /\ holder[k] = NoCall /\ transport = "tcp"
    BY <1>4 DEF Write, Locks, HasConnection, Connected, TypeOK
  <2>2. /\ out' = IF k \in broken THEN out ELSE [out EXCEPT ![k] = Append(@, c)]
        /\ \/ c \in Cast /\ Goes(c, "ok") /\ holder' = holder
           \/ c \notin Cast /\ Goes(c, "waiting") /\ holder' = [holder EXCEPT ![k] = c]
        /\ UNCHANGED <<in, serving, conn>>
    BY <1>4, <2>1 DEF Write
  <2>3. \A j \in Call : j # k => Untouched(j)
    BY <2>1, <2>2 DEF Untouched, TypeOK
  <2>4. WaitersHold'
    <3>1. \A d \in Call : d # c => pc'[d] = pc[d]
      BY <2>2 DEF Goes, TypeOK
    <3>2. \A d \in Call : pc[d] = "waiting" => conn[d] # k
      BY <2>1 DEF WaitersHold
    <3>3. pc'[c] = "waiting" => holder'[k] = c
      BY <2>1, <2>2 DEF Goes, TypeOK
    <3>4. \A j \in Call : j # k => holder'[j] = holder[j]
      BY <2>3 DEF Untouched
    <3>5. \A d \in Call : pc[d] = "waiting" => conn[d] \in Call
      BY DEF Connected, TypeOK
    <3>. QED  BY <1>1, <2>1, <2>2, <3>1, <3>2, <3>3, <3>4, <3>5 DEF WaitersHold
  <2>5. Good(k)'
    <3>1. in[k] = <<>>
      <4>1. in[k] # <<NoCall>>
        BY OnlyOne DEF TypeOK
      <4>. QED  BY <2>1, <4>1 DEF Good
    <3>2. CASE k \in broken
      BY <1>1, <2>2, <3>1, <3>2 DEF Good
    <3>3. CASE k \notin broken
      <4>1. serving[k] = NoCall
        BY <2>1, <3>3 DEF Good, ServedIsHolder
      <4>2. \A i \in DOMAIN out[k] : ~IsSend(out[k][i])
        BY <2>1, <3>3 DEF Good, SentIsHolder, IsSend
      <4>3. out'[k] = Append(out[k], c) /\ out[k] \in Seq(Call)
        BY <2>1, <2>2, <3>3 DEF TypeOK
      <4>4. \A i \in DOMAIN out'[k] :
              IsSend(out'[k][i]) => i = Len(out[k]) + 1 /\ out'[k][i] = c
        BY <4>2, <4>3, AppendSent
      <4>5. IsSend(c) => holder'[k] = c
        BY <2>1, <2>2 DEF IsSend, TypeOK
      <4>6. SentIsHolder(k)'
        BY <2>2, <3>1, <4>1, <4>4, <4>5 DEF SentIsHolder, Clear, IsSend
      <4>. QED  BY <2>2, <3>1, <4>1, <4>6 DEF Good, ServedIsHolder
    <3>. QED  BY <3>2, <3>3
  <2>. QED  BY <1>1, <2>3, <2>4, <2>5, StaysGood
<1>5. CASE ReadAnswer(c) \/ ReadFails(c)
  <2>1. PICK k \in Call : k = conn[c] /\ transport = "tcp" /\ pc[c] = "waiting" /\ holder[k] = c
    BY <1>5 DEF ReadAnswer, ReadFails, Waits, Connected, WaitersHold, TypeOK
  <2>2. /\ holder' = [holder EXCEPT ![k] = NoCall]
        /\ UNCHANGED <<out, serving, conn>>
        /\ Goes(c, "ok") \/ Goes(c, "failing")
    BY <1>5, <2>1 DEF ReadAnswer, ReadFails, streamVars
  <2>3. in'[k] = <<>> /\ \A j \in Call : j # k => in'[j] = in[j]
    <3>1. CASE ReadAnswer(c)
      <4>1. in[k] = <<c>> /\ in' = [in EXCEPT ![k] = Tail(@)]
        BY <2>1, <3>1 DEF ReadAnswer, Good
      <4>2. Tail(<<c>>) = <<>>
        OBVIOUS
      <4>. QED  BY <2>1, <4>1, <4>2 DEF TypeOK
    <3>2. CASE ReadFails(c)
      BY <2>1, <3>2 DEF ReadFails, streamVars
    <3>. QED  BY <1>5, <3>1, <3>2
  <2>4. \A j \in Call : j # k => Untouched(j)
    BY <2>1, <2>2, <2>3 DEF Untouched, TypeOK
  <2>5. WaitersHold'
    <3>1. pc'[c] # "waiting" /\ \A d \in Call : d # c => pc'[d] = pc[d]
      BY <2>2 DEF Goes, TypeOK
    <3>2. \A d \in Call : d # c /\ pc[d] = "waiting" => conn[d] # k
      BY <2>1 DEF WaitersHold
    <3>. QED  BY SMTT(40), <1>1, <2>1, <2>2, <3>1, <3>2 DEF WaitersHold, TypeOK
  <2>6. Good(k)'
    <3>1. k \notin broken =>
            serving[k] = NoCall /\ \A i \in DOMAIN out[k] : ~IsSend(out[k][i])
      <4>1. CASE ReadFails(c)
        BY <2>1, <4>1 DEF ReadFails
      <4>2. CASE ReadAnswer(c)
        <5>1. in[k] # <<>>
          BY <2>1, <4>2 DEF ReadAnswer
        <5>. QED  BY <2>1, <5>1 DEF Good, ServedIsHolder, SentIsHolder, Clear
      <4>. QED  BY <1>5, <4>1, <4>2
    <3>. QED
      BY <1>1, <2>2, <2>3, <3>1 DEF Good, ServedIsHolder, SentIsHolder, IsSend
  <2>. QED  BY <1>1, <2>4, <2>5, <2>6, StaysGood
<1>6. CASE LocalCast(c)
  <2>1. PICK k \in Call : k = conn[c] /\ c \in Cast /\ transport # "tcp"
    BY <1>6 DEF LocalCast, HasConnection, Connected, TypeOK
  <2>2. /\ out' = [out EXCEPT ![k] = Append(@, c)]
        /\ UNCHANGED <<in, serving, holder>>
    BY <1>6, <2>1 DEF LocalCast
  <2>3. \A j \in Call : j # k => Untouched(j)
    BY <2>1, <2>2 DEF Untouched, TypeOK
  <2>4. Good(k)'
    <3>1. out'[k] = Append(out[k], c) /\ out[k] \in Seq(Call)
      BY <2>1, <2>2 DEF TypeOK
    <3>2. \A i \in DOMAIN out'[k] :
            IsSend(out'[k][i]) => i \in DOMAIN out[k] /\ out'[k][i] = out[k][i]
      BY <2>1, <3>1, AppendSent DEF IsSend
    <3>3. SentIsHolder(k) => SentIsHolder(k)'
      BY <2>2, <3>2 DEF SentIsHolder, Clear, IsSend
    <3>. QED  BY <1>1, <2>1, <2>2, <3>3 DEF Good, ServedIsHolder
  <2>. QED  BY <1>1, <2>1, <2>3, <2>4, StaysGood DEF WaitersHold
<1>. QED  BY <1>2, <1>3, <1>4, <1>5, <1>6 DEF Proceeds

LEMMA PeerStep ==
  ASSUME TypeOK, TypeOK', WaitersHold, \A k \in Call : Good(k),
         NEW k \in Call, Serves(k) \/ Break(k)
  PROVE  WaitersHold' /\ \A j \in Call : Good(j)'
<1>. USE NoSuchCall
<1>1. WaitersHold' /\ broken \subseteq broken' /\ UNCHANGED <<transport, holder>>
  <2>1. /\ UNCHANGED <<transport, pc, conn, holder>>
        /\ broken \subseteq broken'
    BY DEF Serves, Take, Answer, LocalTask, Break, callVars, socketVars
  <2>. QED  BY <2>1, NobodyWaits
<1>2. \A j \in Call : j # k => Untouched(j)
  BY ZenonT(40) DEF Serves, Take, Answer, LocalTask, Break, Untouched, TypeOK
<1>3. CASE Take(k) \/ LocalTask(k)
  <2>1. out[k] \in Seq(Call) /\ out[k] # <<>> /\ out'[k] = Tail(out[k])
    BY <1>3 DEF Take, LocalTask, TypeOK
  <2>2. in' = in /\ broken' = broken
    BY <1>3 DEF Take, LocalTask, socketVars
  <2>3. Head(out[k]) \in Call
    BY <2>1
  <2>4. ASSUME k \in broken PROVE Good(k)'
    BY <1>1, <2>2, <2>4 DEF Good
  <2>5. ASSUME k \notin broken PROVE Good(k)'
    <3>1. SentIsHolder(k) /\ ServedIsHolder(k)
      BY <2>5 DEF Good
    <3>2. CASE serving' = serving
      <4>1. SentIsHolder(k)'
        BY <1>1, <2>1, <2>2, <3>1, <3>2, TailSent DEF SentIsHolder, Clear, IsSend
      <4>. QED  BY <1>1, <2>2, <3>1, <3>2, <4>1 DEF Good, ServedIsHolder
    <3>3. CASE serving' # serving
      <4>1. serving'[k] = Head(out[k]) /\ IsSend(Head(out[k]))
        BY ZenonT(40), <1>3, <2>3, <3>3 DEF Take, LocalTask, IsSend, TypeOK
      <4>2. out[k][1] = holder[k] /\ in[k] = <<>> /\ Head(out[k]) = out[k][1]
        BY <2>1, <3>1, <4>1, TailSent DEF SentIsHolder, Clear
      <4>3. \A i \in DOMAIN out'[k] : ~IsSend(out'[k][i])
        BY <2>1, <3>1, <4>1, TailSent DEF SentIsHolder
      <4>4. SentIsHolder(k)'
        BY <4>3 DEF SentIsHolder, IsSend
      <4>. QED  BY <1>1, <2>2, <4>1, <4>2, <4>4 DEF Good, ServedIsHolder
    <3>. QED  BY <3>2, <3>3
  <2>. QED  BY <1>1, <1>2, <2>4, <2>5, StaysGood
<1>4. CASE Answer(k)
  <2>1. /\ serving[k] # NoCall /\ serving'[k] = NoCall /\ broken' = broken
        /\ IF k \in broken
           THEN in' = in
           ELSE in'[k] = Append(in[k], serving[k]) /\ out' = out
    BY <1>4 DEF Answer, TypeOK, socketVars
  <2>2. ASSUME k \in broken PROVE Good(k)'
    BY <1>1, <2>1, <2>2 DEF Good
  <2>3. ASSUME k \notin broken PROVE Good(k)'
    <3>1. serving[k] = holder[k] /\ in[k] = <<>>
      BY <2>1, <2>3 DEF Good, ServedIsHolder
    <3>2. in'[k] = <<holder'[k]>>
      BY <1>1, <2>1, <2>3, <3>1
    <3>3. \A i \in DOMAIN out[k] : ~IsSend(out[k][i])
      BY <2>1, <2>3 DEF Good, SentIsHolder, Clear
    <3>. QED
      BY <2>1, <2>3, <3>2, <3>3 DEF Good, ServedIsHolder, SentIsHolder, IsSend
  <2>. QED  BY <1>1, <1>2, <2>2, <2>3, StaysGood
<1>5. CASE Break(k)
  <2>1. k \in broken' /\ \E i \in Prefixes(in[k]) : in'[k] = i
    BY <1>5 DEF Break, TypeOK
  <2>2. holder[k] = NoCall => in[k] = <<>>
    BY OnlyOne DEF Good, TypeOK
  <2>3. CASE in[k] = <<>>
    <3>1. \A p \in Prefixes(<<>>) : p = <<>>
      BY DEF Prefixes
    <3>. QED  BY <1>1, <1>2, <2>1, <2>3, <3>1, StaysGood DEF Good
  <2>4. CASE holder[k] # NoCall
    <3>1. holder[k] \in Call
      BY <2>4 DEF TypeOK, Null
    <3>2. in'[k] \in {<<>>, <<holder[k]>>}
      BY <2>1, <3>1, PrefixOfOne DEF Good
    <3>. QED  BY <1>1, <1>2, <2>1, <3>2, StaysGood DEF Good
  <2>. QED  BY <2>2, <2>3, <2>4
<1>. QED  BY <1>3, <1>4, <1>5 DEF Serves

LEMMA StreamStep ==
  ASSUME TypeOK, TypeOK', Connected, WaitersHold, \A k \in Call : Good(k),
         [Next]_vars
  PROVE  WaitersHold' /\ \A k \in Call : Good(k)'
<1>1. CASE Close \/ CloseEnds \/ PeerStarts \/ UNCHANGED vars
  <2>1. /\ UNCHANGED <<transport, pc, conn, holder, in, out, serving>>
        /\ broken \subseteq broken'
    BY <1>1 DEF Close, CloseEnds, PeerStarts, vars, callVars, streamVars, socketVars
  <2>2. \A k \in Call : Untouched(k)
    BY <2>1 DEF Untouched
  <2>. QED  BY <2>1, <2>2, StaysGood, NobodyWaits
<1>2. CASE PeerEnds
  <2>1. /\ UNCHANGED <<transport, pc, conn, holder>>
        /\ out' = [k \in Call |-> <<>>] /\ serving' = None
        /\ in' = in \/ in' = [k \in Call |-> <<>>]
    BY <1>2 DEF PeerEnds, callVars
  <2>2. WaitersHold'
    BY <2>1, NobodyWaits
  <2>3. ASSUME NEW k \in Call PROVE Good(k)'
    <3>1. out'[k] = <<>> /\ DOMAIN <<>> = {} /\ serving'[k] = NoCall
      BY <2>1 DEF None
    <3>2. in'[k] \in {<<>>, <<holder'[k]>>}
      BY <2>1 DEF Good
    <3>3. ServedIsHolder(k)' /\ SentIsHolder(k)'
      BY <3>1 DEF ServedIsHolder, SentIsHolder
    <3>. QED  BY <3>2, <3>3 DEF Good
  <2>. QED  BY <2>2, <2>3
<1>. QED  BY <1>1, <1>2, CallStep, PeerStep DEF Next

-----------------------------------------------------------------------------
(***************************************************************************)
(* At most once.  A message is on its way on the connection of its call    *)
(* only, once, and not any more when it has been handled.                  *)
(***************************************************************************)
H(c) == Rpc!IsHandled(c)

Sent(c) == pc[c] \in {"waiting", "failing", "ok", "error"}

FramesAreSent ==
  \A k, x \in Call : \A i \in DOMAIN out[k] :
    out[k][i] = x =>
      /\ conn[x] = k /\ Sent(x) /\ ~H(x)
      /\ \A j \in DOMAIN out[k] : out[k][j] = x => j = i

HandledWereSent == \A c \in Call : H(c) => Sent(c)

AnswersAreHandled ==
  /\ \A k, x \in Call : serving[k] = x => H(x)
  /\ \A k, x \in Call : \A i \in DOMAIN in[k] : in[k][i] = x => H(x)
  /\ \A c \in Call : pc[c] = "waiting" /\ transport # "tcp" => H(c)

FrameInv == FramesAreSent /\ HandledWereSent /\ AnswersAreHandled

\* A step after which no more is on its way or handled than before.
LEMMA QuietFrames ==
  ASSUME TypeOK, FrameInv, UNCHANGED handled,
         \A c \in Call : Sent(c) => Sent(c)' /\ conn'[c] = conn[c],
         \A k \in Call : \A i \in DOMAIN out'[k] :
           i \in DOMAIN out[k] /\ out'[k][i] = out[k][i]
  PROVE  FramesAreSent' /\ HandledWereSent'
<1>1. \A c : H(c)' <=> H(c)
  BY DEF H, Rpc!IsHandled
<1>. QED  BY <1>1 DEF FrameInv, FramesAreSent, HandledWereSent

LEMMA MoreHandled ==
  ASSUME handled \in Seq(Call), NEW h \in Call, handled' = Append(handled, h)
  PROVE  \A c \in Call : H(c)' <=> H(c) \/ c = h
BY AppendSent DEF H, Rpc!IsHandled

LEMMA CallFrames ==
  ASSUME TypeOK, TypeOK', Connected, WaitersHold, \A k \in Call : Good(k), FrameInv,
         NEW c \in Call, Proceeds(c)
  PROVE  FrameInv'
<1>. USE NoSuchCall
<1>1. UNCHANGED transport
  BY DEF Proceeds, Reuse, StartConnect, Connects, ConnectFails, WriteRefused,
      Write, WriteFails, ReadAnswer, ReadFails, Invalidate, LocalSend,
      LocalReturns, LocalCast
<1>2. \A d \in Call : d # c => pc'[d] = pc[d] /\ conn'[d] = conn[d]
  <2>1. \A d \in Call : d # c => pc'[d] = pc[d]
    BY DEF Proceeds, Reuse, StartConnect, Connects, ConnectFails, WriteRefused,
        Write, WriteFails, ReadAnswer, ReadFails, Invalidate, LocalSend,
        LocalReturns, LocalCast, Goes, TypeOK
  <2>2. \A d \in Call : d # c => conn'[d] = conn[d]
    BY DEF Proceeds, Reuse, StartConnect, Connects, ConnectFails, WriteRefused,
        Write, WriteFails, ReadAnswer, ReadFails, Invalidate, LocalSend,
        LocalReturns, LocalCast, TypeOK
  <2>. QED  BY <2>1, <2>2
<1>3. Sent(c) => Sent(c)' /\ conn'[c] = conn[c]
  <2>1. CASE Reuse(c) \/ StartConnect(c) \/ Connects(c) \/ ConnectFails(c)
    BY <2>1 DEF Reuse, StartConnect, Connects, ConnectFails, MayBegin, Sent
  <2>2. CASE WriteRefused(c) \/ Write(c) \/ WriteFails(c) \/ LocalSend(c)
               \/ LocalCast(c)
    BY <2>2
    DEF WriteRefused, Write, WriteFails, LocalSend, LocalCast, Locks,
        HasConnection, Sent
  <2>3. CASE ReadAnswer(c) \/ ReadFails(c) \/ Invalidate(c) \/ LocalReturns(c)
    BY <2>3
    DEF ReadAnswer, ReadFails, Invalidate, LocalReturns, Goes, Sent, TypeOK
  <2>. QED  BY <2>1, <2>2, <2>3 DEF Proceeds
<1>4. \A d \in Call : Sent(d) => Sent(d)' /\ conn'[d] = conn[d]
  BY <1>2, <1>3 DEF Sent
<1>5. CASE \/ Reuse(c) \/ StartConnect(c) \/ Connects(c) \/ ConnectFails(c)
           \/ WriteRefused(c) \/ WriteFails(c) \/ Invalidate(c) \/ LocalReturns(c)
           \/ ReadAnswer(c) \/ ReadFails(c)
  <2>1. UNCHANGED <<out, serving, handled>>
    BY <1>5
    DEF Reuse, StartConnect, Connects, ConnectFails, WriteRefused, WriteFails,
        Invalidate, LocalReturns, ReadAnswer, ReadFails, streamVars
  <2>2. FramesAreSent' /\ HandledWereSent'
    BY <1>4, <2>1, QuietFrames
  <2>3. \A d : H(d)' <=> H(d)
    BY <2>1 DEF H, Rpc!IsHandled
  <2>4. pc'[c] # "waiting"
    BY <1>5
    DEF Reuse, StartConnect, Connects, ConnectFails, WriteRefused, WriteFails,
        Invalidate, LocalReturns, ReadAnswer, ReadFails, Goes, TypeOK
  <2>5. \A k, x \in Call : \A i \in DOMAIN in'[k] : in'[k][i] = x => H(x)
    <3>1. CASE ReadAnswer(c)
      <4>1. PICK k \in Call : k = conn[c] /\ in[k] # <<>>
        BY <3>1 DEF ReadAnswer, Waits, Connected, TypeOK
      <4>2. in[k] = <<holder[k]>> /\ in'[k] = Tail(in[k])
        BY <3>1, <4>1 DEF ReadAnswer, Good, TypeOK
      <4>3. in'[k] = <<>> /\ DOMAIN <<>> = {}
        BY <4>2
      <4>4. \A j \in Call : j # k => in'[j] = in[j]
        BY <3>1, <4>1 DEF ReadAnswer, TypeOK
      <4>. QED  BY <4>3, <4>4 DEF FrameInv, AnswersAreHandled
    <3>2. CASE ~ReadAnswer(c)
      <4>1. in' = in
        BY <1>5, <3>2
        DEF Reuse, StartConnect, Connects, ConnectFails, WriteRefused, WriteFails,
            Invalidate, LocalReturns, ReadFails, streamVars
      <4>. QED  BY <4>1 DEF FrameInv, AnswersAreHandled
    <3>. QED  BY <3>1, <3>2
  <2>6. AnswersAreHandled'
    BY <1>1, <1>2, <2>1, <2>3, <2>4, <2>5 DEF FrameInv, AnswersAreHandled
  <2>. QED  BY <2>2, <2>6 DEF FrameInv
<1>6. CASE Write(c) \/ LocalCast(c)
  <2>1. PICK k \in Call : k = conn[c] /\ pc[c] = "using"
    BY <1>6 DEF Write, LocalCast, Locks, HasConnection, Connected, TypeOK
  <2>2. /\ out' = out \/ out' = [out EXCEPT ![k] = Append(@, c)]
        /\ UNCHANGED <<serving, handled, in, conn>>
        /\ Sent(c)' /\ (transport # "tcp" => pc'[c] # "waiting")
    BY ZenonT(40), <1>6, <2>1 DEF Write, LocalCast, Locks, Goes, Sent, TypeOK
  <2>3. \A d : H(d)' <=> H(d)
    BY <2>2 DEF H, Rpc!IsHandled
  <2>4. AnswersAreHandled'
    BY <1>1, <1>2, <2>2, <2>3 DEF FrameInv, AnswersAreHandled
  <2>5. CASE out' = out
    BY <1>4, <2>2, <2>4, <2>5, QuietFrames DEF FrameInv
  <2>6. CASE out' = [out EXCEPT ![k] = Append(@, c)]
    <3>1. /\ out'[k] = Append(out[k], c) /\ out[k] \in Seq(Call)
          /\ \A j \in Call : j # k => out'[j] = out[j]
      BY <2>6 DEF TypeOK
    <3>2. ~H(c) /\ \A i \in DOMAIN out[k] : out[k][i] # c
      BY <2>1 DEF FrameInv, FramesAreSent, HandledWereSent, Sent
    <3>4. \A i \in DOMAIN out'[k] :
            \/ i = Len(out[k]) + 1 /\ out'[k][i] = c
            \/ i \in DOMAIN out[k] /\ out'[k][i] = out[k][i]
      BY <3>1, AppendSent
    <3>5. ASSUME NEW x \in Call, NEW i \in DOMAIN out'[k], out'[k][i] = x
          PROVE  /\ conn'[x] = k /\ Sent(x)' /\ ~H(x)'
                 /\ \A j \in DOMAIN out'[k] : out'[k][j] = x => j = i
      <4>1. CASE i = Len(out[k]) + 1 /\ x = c
        BY <2>1, <2>2, <2>3, <3>2, <3>4, <4>1
      <4>2. CASE i \in DOMAIN out[k] /\ out[k][i] = x
        BY <1>4, <2>3, <3>2, <3>4, <4>2 DEF FrameInv, FramesAreSent
      <4>. QED  BY <3>4, <3>5, <4>1, <4>2
    <3>6. ASSUME NEW l \in Call, l # k, NEW x \in Call, NEW i \in DOMAIN out'[l],
                 out'[l][i] = x
          PROVE  /\ conn'[x] = l /\ Sent(x)' /\ ~H(x)'
                 /\ \A j \in DOMAIN out'[l] : out'[l][j] = x => j = i
      <4>1. out'[l] = out[l]
        BY <3>1, <3>6
      <4>2. /\ conn[x] = l /\ Sent(x) /\ ~H(x)
            /\ \A j \in DOMAIN out[l] : out[l][j] = x => j = i
        BY <3>6, <4>1 DEF FrameInv, FramesAreSent
      <4>. QED  BY <1>4, <2>3, <4>1, <4>2
    <3>8. FramesAreSent'
      BY <3>5, <3>6 DEF FramesAreSent
    <3>7. HandledWereSent'
      BY <1>4, <2>3 DEF FrameInv, HandledWereSent
    <3>. QED  BY <2>4, <3>7, <3>8 DEF FrameInv
  <2>. QED  BY <2>2, <2>5, <2>6
<1>7. CASE LocalSend(c)
  <2>1. /\ handled \in Seq(Call) /\ handled' = Append(handled, c)
        /\ UNCHANGED <<out, in, serving, conn>>
        /\ pc[c] = "using" /\ Sent(c)'
    BY <1>7 DEF LocalSend, HasConnection, Goes, Sent, TypeOK
  <2>2. \A d \in Call : H(d)' <=> H(d) \/ d = c
    BY <2>1, MoreHandled
  <2>3. \A j \in Call : \A i \in DOMAIN out[j] : out[j][i] # c
    BY <2>1 DEF FrameInv, FramesAreSent, Sent
  <2>4. FramesAreSent'
    BY <1>4, <2>1, <2>2, <2>3 DEF FrameInv, FramesAreSent
  <2>5. HandledWereSent'
    BY <1>4, <2>1, <2>2 DEF FrameInv, HandledWereSent
  <2>6. AnswersAreHandled'
    BY <1>1, <1>2, <2>1, <2>2 DEF FrameInv, AnswersAreHandled
  <2>. QED  BY <2>4, <2>5, <2>6 DEF FrameInv
<1>. QED  BY <1>5, <1>6, <1>7 DEF Proceeds

LEMMA TakeFrames ==
  ASSUME TypeOK, TypeOK', FrameInv, NEW k \in Call, Take(k) \/ LocalTask(k)
  PROVE  FrameInv'
<1>. USE NoSuchCall
<1>1. PICK h \in Call :
        /\ out[k] \in Seq(Call) /\ out[k] # <<>> /\ h = out[k][1]
        /\ out' = [out EXCEPT ![k] = Tail(@)] /\ 1 \in DOMAIN out[k]
        /\ handled' = Append(handled, h)
        /\ \A j, x \in Call : serving'[j] = x => serving[j] = x \/ x = h
        /\ UNCHANGED <<pc, conn, in, transport>>
  <2>1. out[k] \in Seq(Call) /\ out[k] # <<>>
    BY DEF Take, LocalTask, TypeOK
  <2>2. Head(out[k]) \in Call /\ Head(out[k]) = out[k][1] /\ 1 \in DOMAIN out[k]
    BY <2>1
  <2>3. \A j, x \in Call : serving'[j] = x => serving[j] = x \/ x = Head(out[k])
    BY ZenonT(40) DEF Take, LocalTask, TypeOK
  <2>4. /\ out' = [out EXCEPT ![k] = Tail(@)]
        /\ handled' = Append(handled, Head(out[k]))
        /\ UNCHANGED <<pc, conn, in, transport>>
    BY DEF Take, LocalTask, callVars
  <2>. QED  BY <2>1, <2>2, <2>3, <2>4
<1>2. /\ conn[h] = k /\ Sent(h) /\ ~H(h)
      /\ \A j \in DOMAIN out[k] : out[k][j] = h => j = 1
  <2>1. \A i \in DOMAIN out[k] : out[k][i] = h =>
          /\ conn[h] = k /\ Sent(h) /\ ~H(h)
          /\ \A j \in DOMAIN out[k] : out[k][j] = h => j = i
    BY DEF FrameInv, FramesAreSent
  <2>2. 1 \in DOMAIN out[k] /\ out[k][1] = h
    BY <1>1
  <2>. QED  BY <2>1, <2>2
<1>3. \A x \in Call : H(x)' <=> H(x) \/ x = h
  <2>1. handled \in Seq(Call) /\ handled' = Append(handled, h)
    BY <1>1 DEF TypeOK
  <2>. QED  BY <2>1, MoreHandled
<1>4. HandledWereSent'
  BY <1>1, <1>2, <1>3 DEF FrameInv, HandledWereSent, Sent
<1>7. AnswersAreHandled'
  <2>1. \A j, x \in Call : serving'[j] = x => H(x)'
    BY <1>1, <1>3 DEF FrameInv, AnswersAreHandled
  <2>2. \A j, x \in Call : \A i \in DOMAIN in'[j] : in'[j][i] = x => H(x)'
    BY <1>1, <1>3 DEF FrameInv, AnswersAreHandled
  <2>3. \A c \in Call : pc'[c] = "waiting" /\ transport' # "tcp" => H(c)'
    BY <1>1, <1>3 DEF FrameInv, AnswersAreHandled
  <2>. QED  BY <2>1, <2>2, <2>3 DEF AnswersAreHandled
<1>5. ASSUME NEW x \in Call, NEW i \in DOMAIN out'[k], out'[k][i] = x
      PROVE  /\ conn'[x] = k /\ Sent(x)' /\ ~H(x)'
             /\ \A j \in DOMAIN out'[k] : out'[k][j] = x => j = i
  <2>1. out'[k] = Tail(out[k])
    BY <1>1 DEF TypeOK
  <2>2. /\ i + 1 \in DOMAIN out[k] /\ i + 1 # 1 /\ out[k][i + 1] = x
        /\ \A j \in DOMAIN out'[k] : out'[k][j] = out[k][j + 1] /\ j + 1 \in DOMAIN out[k]
        /\ \A j \in DOMAIN out'[k] : i + 1 = j + 1 => i = j
    <3>1. /\ \A j \in DOMAIN Tail(out[k]) :
               j + 1 \in DOMAIN out[k] /\ j + 1 # 1 /\ Tail(out[k])[j] = out[k][j + 1]
          /\ \A j, l \in DOMAIN Tail(out[k]) : j + 1 = l + 1 => j = l
      BY <1>1, TailSent
    <3>. QED  BY <1>5, <2>1, <3>1
  <2>3. /\ conn[x] = k /\ Sent(x) /\ ~H(x)
        /\ \A j \in DOMAIN out[k] : out[k][j] = x => j = i + 1
    BY <2>2 DEF FrameInv, FramesAreSent
  <2>4. x # h
    BY <1>2, <2>2
  <2>. QED  BY <1>1, <1>3, <2>2, <2>3, <2>4 DEF Sent
<1>6. ASSUME NEW l \in Call, l # k, NEW x \in Call, NEW i \in DOMAIN out'[l],
             out'[l][i] = x
      PROVE  /\ conn'[x] = l /\ Sent(x)' /\ ~H(x)'
             /\ \A j \in DOMAIN out'[l] : out'[l][j] = x => j = i
  <2>1. out'[l] = out[l]
    BY <1>1, <1>6 DEF TypeOK
  <2>2. /\ conn[x] = l /\ Sent(x) /\ ~H(x)
        /\ \A j \in DOMAIN out[l] : out[l][j] = x => j = i
    BY <1>6, <2>1 DEF FrameInv, FramesAreSent
  <2>3. x # h
    BY <1>2, <1>6, <2>2
  <2>. QED  BY <1>1, <1>3, <2>1, <2>2, <2>3 DEF Sent
<1>. QED  BY <1>4, <1>5, <1>6, <1>7 DEF FramesAreSent, FrameInv

LEMMA PrefixSent ==
  ASSUME NEW s \in Seq(Call), NEW p \in Prefixes(s)
  PROVE  \A i \in DOMAIN p : i \in DOMAIN s /\ p[i] = s[i]
BY DEF Prefixes

LEMMA FrameStep ==
  ASSUME TypeOK, TypeOK', Connected, WaitersHold, \A k \in Call : Good(k), FrameInv,
         [Next]_vars
  PROVE  FrameInv'
<1>. USE NoSuchCall
<1>1. ASSUME UNCHANGED <<transport, pc, conn, handled>>,
             \A k \in Call : \A i \in DOMAIN out'[k] :
               i \in DOMAIN out[k] /\ out'[k][i] = out[k][i],
             \A k, x \in Call : serving'[k] = x => serving[k] = x,
             \A k, x \in Call : \A i \in DOMAIN in'[k] : in'[k][i] = x => H(x)
      PROVE  FrameInv'
  <2>1. FramesAreSent' /\ HandledWereSent'
    BY <1>1, QuietFrames DEF Sent
  <2>2. \A x : H(x)' <=> H(x)
    BY <1>1 DEF H, Rpc!IsHandled
  <2>3. AnswersAreHandled'
    BY <1>1, <2>2 DEF FrameInv, AnswersAreHandled
  <2>. QED  BY <2>1, <2>3 DEF FrameInv
<1>2. CASE Close \/ CloseEnds \/ PeerStarts \/ UNCHANGED vars
  <2>1. UNCHANGED <<transport, pc, conn, handled, out, serving, in>>
    BY <1>2 DEF Close, CloseEnds, PeerStarts, vars, callVars, streamVars
  <2>. QED  BY <1>1, <2>1 DEF FrameInv, AnswersAreHandled
<1>3. CASE PeerEnds
  <2>1. /\ UNCHANGED <<transport, pc, conn, handled>>
        /\ out' = [k \in Call |-> <<>>] /\ serving' = None
        /\ in' = in \/ in' = [k \in Call |-> <<>>]
    BY <1>3 DEF PeerEnds, callVars
  <2>2. \A k \in Call : out'[k] = <<>> /\ DOMAIN <<>> = {} /\ serving'[k] = NoCall
    BY <2>1 DEF None
  <2>3. \A k, x \in Call : \A i \in DOMAIN in'[k] : in'[k][i] = x => H(x)
    BY <2>1, <2>2 DEF FrameInv, AnswersAreHandled
  <2>. QED  BY <1>1, <2>1, <2>2, <2>3
<1>4. ASSUME NEW k \in Call, Answer(k) PROVE FrameInv'
  <2>1. /\ UNCHANGED <<transport, pc, conn, handled>>
        /\ serving[k] # NoCall /\ serving' = [serving EXCEPT ![k] = NoCall]
        /\ out' = out \/ out' = [out EXCEPT ![k] = <<>>]
        /\ in' = in \/ in' = [in EXCEPT ![k] = Append(@, serving[k])]
    BY <1>4 DEF Answer, callVars
  <2>2. ASSUME NEW l \in Call, NEW i \in DOMAIN out'[l]
        PROVE  i \in DOMAIN out[l] /\ out'[l][i] = out[l][i]
    <3>1. out'[l] = out[l] \/ out'[l] = <<>>
      <4>1. out \in [Call -> Seq(Call)]
        BY DEF TypeOK
      <4>. QED  BY <2>1, <4>1
    <3>2. DOMAIN <<>> = {}
      OBVIOUS
    <3>. QED  BY <2>2, <3>1, <3>2
  <2>3. \A l, x \in Call : serving'[l] = x => serving[l] = x
    BY <2>1 DEF TypeOK
  <2>4. ASSUME NEW l \in Call, NEW x \in Call, NEW i \in DOMAIN in'[l], in'[l][i] = x
        PROVE  H(x)
    <3>1. CASE in'[l] = in[l]
      BY <2>4, <3>1 DEF FrameInv, AnswersAreHandled
    <3>2. CASE l = k /\ in'[k] = Append(in[k], serving[k])
      <4>1. serving[k] \in Call /\ in[k] \in Seq(Call)
        BY <2>1 DEF TypeOK, Null
      <4>2. /\ DOMAIN in'[k] = DOMAIN in[k] \cup {Len(in[k]) + 1}
            /\ \A j \in DOMAIN in[k] : in'[k][j] = in[k][j]
            /\ in'[k][Len(in[k]) + 1] = serving[k]
        BY <3>2, <4>1, AppendSent
      <4>3. x = serving[k] \/ (i \in DOMAIN in[k] /\ in[k][i] = x)
        BY <2>4, <3>2, <4>2
      <4>. QED  BY <3>2, <4>3 DEF FrameInv, AnswersAreHandled
    <3>3. in'[l] = in[l] \/ (l = k /\ in'[k] = Append(in[k], serving[k]))
      <4>1. in \in [Call -> Seq(Call)]
        BY DEF TypeOK
      <4>. QED  BY <2>1, <4>1
    <3>. QED  BY <3>1, <3>2, <3>3
  <2>. QED  BY <1>1, <2>1, <2>2, <2>3, <2>4
<1>5. ASSUME NEW k \in Call, Break(k) PROVE FrameInv'
  <2>1. PICK o \in Prefixes(out[k]), i \in Prefixes(in[k]) :
          /\ out' = [out EXCEPT ![k] = o] /\ in' = [in EXCEPT ![k] = i]
          /\ UNCHANGED <<transport, pc, conn, handled, serving>>
    BY <1>5 DEF Break, callVars
  <2>2. \A l \in Call : \A j \in DOMAIN out'[l] :
          j \in DOMAIN out[l] /\ out'[l][j] = out[l][j]
    BY <2>1, PrefixSent DEF TypeOK
  <2>3. \A l \in Call : \A j \in DOMAIN in'[l] :
          j \in DOMAIN in[l] /\ in'[l][j] = in[l][j]
    BY <2>1, PrefixSent DEF TypeOK
  <2>. QED  BY <1>1, <2>1, <2>2, <2>3 DEF FrameInv, AnswersAreHandled
<1>. QED
  BY <1>2, <1>3, <1>4, <1>5, CallFrames, TakeFrames DEF Next, Serves

-----------------------------------------------------------------------------
(***************************************************************************)
(* Order.  While nothing is broken there is one connection, no call whose  *)
(* message has left is forgotten, and a message stands behind the one that *)
(* its task sent before it.                                                *)
(***************************************************************************)
Claims(c) ==
  /\ After[c] # NoCall /\ pc[After[c]] = "ok"
  /\ transport = "tcp" \/ c \in Cast

EarlierEnded ==
  \A c \in Call : pc[c] # "idle" /\ After[c] # NoCall => pc[After[c]] \in {"ok", "error"}

OneStream ==
  /\ \A k \in opened : k = connection
  /\ \A k \in Call : out[k] # <<>> => k \in opened

Somewhere(c) == H(c) \/ \E k \in Call : \E i \in DOMAIN out[k] : out[k][i] = c

NoneLost == \A c \in Call : pc[c] \in {"waiting", "ok"} => Somewhere(c)

HandledInOrder ==
  \A x \in Call : \A j \in DOMAIN handled :
    handled[j] = x /\ Claims(x) => \E i \in 1..(j - 1) : handled[i] = After[x]

FramesInOrder ==
  \A k, x \in Call : \A j \in DOMAIN out[k] :
    out[k][j] = x /\ Claims(x) =>
      H(After[x]) \/ \E i \in 1..(j - 1) : out[k][i] = After[x]

Ordered ==
  /\ closed \subseteq broken
  /\ EarlierEnded
  /\ broken = {} => OneStream /\ NoneLost /\ HandledInOrder /\ FramesInOrder

LEMMA EndedStay ==
  ASSUME TypeOK, [Next]_vars
  PROVE  /\ transport' = transport
         /\ \A c \in Call : pc[c] \in {"ok", "error"} => pc'[c] = pc[c]
<1>1. ASSUME NEW c \in Call, Proceeds(c)
      PROVE  /\ transport' = transport
             /\ \A d \in Call : pc[d] \in {"ok", "error"} => pc'[d] = pc[d]
  <2>1. transport' = transport
    BY <1>1 DEF Proceeds, Reuse, StartConnect, Connects, ConnectFails, WriteRefused,
        Write, WriteFails, ReadAnswer, ReadFails, Invalidate, LocalSend,
        LocalReturns, LocalCast
  <2>2. pc[c] \in {"idle", "connecting", "using", "waiting", "failing"}
    BY <1>1
    DEF Proceeds, Reuse, StartConnect, MayBegin, Connects, ConnectFails, WriteRefused,
        Write, WriteFails, ReadAnswer, ReadFails, Invalidate, LocalSend,
        LocalReturns, LocalCast, Locks, Waits, HasConnection
  <2>3. \A d \in Call : d # c => pc'[d] = pc[d]
    BY <1>1 DEF Proceeds, Reuse, StartConnect, Connects, ConnectFails, WriteRefused,
        Write, WriteFails, ReadAnswer, ReadFails, Invalidate, LocalSend,
        LocalReturns, LocalCast, Goes, TypeOK
  <2>. QED  BY <2>1, <2>2, <2>3
<1>2. ASSUME NEW k \in Call, Serves(k) \/ Break(k) PROVE UNCHANGED <<transport, pc>>
  BY <1>2 DEF Serves, Take, Answer, LocalTask, Break, callVars
<1>3. CASE Close \/ CloseEnds \/ PeerStarts \/ PeerEnds \/ UNCHANGED vars
  BY <1>3 DEF Close, CloseEnds, PeerStarts, PeerEnds, vars, callVars
<1>. QED  BY <1>1, <1>2, <1>3 DEF Next

\* Where a call may have come from.
LEMMA Places ==
  ASSUME TypeOK, [Next]_vars, NEW c \in Call
  PROVE  /\ pc[c] = "idle" => pc'[c] = "idle" \/ MayBegin(c)
         /\ pc'[c] \in {"waiting", "ok"} =>
              \/ pc[c] \in {"waiting", "ok"}
              \/ Write(c) \/ LocalSend(c) \/ LocalCast(c)
<1>1. ASSUME NEW d \in Call, Proceeds(d), d # c PROVE pc'[c] = pc[c]
  BY <1>1 DEF Proceeds, Reuse, StartConnect, Connects, ConnectFails, WriteRefused,
      Write, WriteFails, ReadAnswer, ReadFails, Invalidate, LocalSend,
      LocalReturns, LocalCast, Goes, TypeOK
<1>2. ASSUME \E k \in Call : Serves(k) \/ Break(k) PROVE pc' = pc
  BY <1>2 DEF Serves, Take, Answer, LocalTask, Break, callVars
<1>3. ASSUME Close \/ CloseEnds \/ PeerStarts \/ PeerEnds \/ UNCHANGED vars
      PROVE  pc' = pc
  BY <1>3 DEF Close, CloseEnds, PeerStarts, PeerEnds, vars, callVars
<1>4. CASE pc'[c] = pc[c]
  BY <1>4
<1>5. CASE Proceeds(c)
  <2>1. CASE Reuse(c) \/ StartConnect(c)
    BY <2>1 DEF Reuse, StartConnect, MayBegin, Goes, TypeOK
  <2>2. CASE Connects(c) \/ ConnectFails(c) \/ WriteRefused(c) \/ WriteFails(c)
               \/ ReadFails(c) \/ Invalidate(c)
    BY <2>2 DEF Connects, ConnectFails, WriteRefused, WriteFails, ReadFails,
        Invalidate, Locks, Waits, HasConnection, Goes, TypeOK
  <2>3. CASE ReadAnswer(c) \/ LocalReturns(c)
    BY <2>3 DEF ReadAnswer, LocalReturns, Waits
  <2>4. CASE Write(c) \/ LocalSend(c) \/ LocalCast(c)
    BY <2>4 DEF Write, LocalSend, LocalCast, Locks, HasConnection
  <2>. QED  BY <1>5, <2>1, <2>2, <2>3, <2>4 DEF Proceeds
<1>. QED  BY <1>1, <1>2, <1>3, <1>4, <1>5 DEF Next

LEMMA EarlierStep ==
  ASSUME TypeOK, EarlierEnded, [Next]_vars PROVE EarlierEnded'
<1>1. ASSUME NEW c \in Call, pc'[c] # "idle", After[c] # NoCall
      PROVE  pc'[After[c]] \in {"ok", "error"}
  <2>1. After[c] \in Call
    BY <1>1, ConnectionAssumption
  <2>2. pc[After[c]] \in {"ok", "error"}
    BY <1>1, Places DEF EarlierEnded, MayBegin
  <2>. QED  BY <2>1, <2>2, EndedStay
<1>. QED  BY <1>1 DEF EarlierEnded

\* What a message that has left claims does not change.
LEMMA ClaimsStay ==
  ASSUME TypeOK, EarlierEnded, [Next]_vars, NEW c \in Call, pc[c] # "idle"
  PROVE  Claims(c)' <=> Claims(c)
<1>1. After[c] # NoCall => After[c] \in Call /\ pc'[After[c]] = pc[After[c]]
  BY ConnectionAssumption, EndedStay DEF EarlierEnded
<1>. QED  BY <1>1, EndedStay DEF Claims

LEMMA ClosedStep ==
  ASSUME TypeOK, Connected, OneConnects, closed \subseteq broken, [Next]_vars
  PROVE  closed' \subseteq broken' /\ broken \subseteq broken'
<1>1. ASSUME NEW c \in Call, Proceeds(c)
      PROVE  closed' \subseteq broken' /\ broken' = broken
  <2>1. CASE WriteFails(c) \/ ReadFails(c)
    BY <2>1 DEF WriteFails, ReadFails
  <2>2. CASE ~(WriteFails(c) \/ ReadFails(c))
    <3>1. UNCHANGED <<closed, broken>>
      BY <1>1, <2>2 DEF Proceeds, Reuse, StartConnect, Connects, ConnectFails,
        WriteRefused, Write, ReadAnswer, Invalidate, LocalSend, LocalReturns,
        LocalCast, socketVars
    <3>. QED  BY <3>1
  <2>. QED  BY <2>1, <2>2
<1>2. ASSUME NEW k \in Call, Serves(k) \/ Break(k)
      PROVE  closed' = closed /\ broken \subseteq broken'
  BY <1>2 DEF Serves, Take, Answer, LocalTask, Break, socketVars
<1>3. CASE Close
  BY <1>3 DEF Close
<1>4. CASE CloseEnds \/ PeerStarts \/ UNCHANGED vars
  BY <1>4 DEF CloseEnds, PeerStarts, vars, socketVars
<1>5. CASE PeerEnds
  BY <1>5 DEF PeerEnds, TypeOK
<1>. QED  BY <1>1, <1>2, <1>3, <1>4, <1>5 DEF Next

\* The steps of a system in which nothing is broken.
LEMMA CalmStep ==
  ASSUME TypeOK, Connected, OneConnects, closed \subseteq broken, OneStream,
         broken' = {}, broken = {}, [Next]_vars
  PROVE  \/ \E c \in Call : Write(c) \/ LocalCast(c)
         \/ \E c \in Call : LocalSend(c)
         \/ \E k \in Call : Take(k) \/ LocalTask(k)
         \/ \E c \in Call : Connects(c) /\ UNCHANGED <<out, handled>>
         \/ /\ UNCHANGED <<opened, connection, handled>>
            /\ \A k \in Call : out'[k] = out[k]
<1>0. closed = {}
  OBVIOUS
<1>1. ASSUME NEW c \in Call,
             \/ Reuse(c) \/ StartConnect(c) \/ ConnectFails(c) \/ ReadAnswer(c)
             \/ LocalReturns(c)
      PROVE  UNCHANGED <<opened, connection, handled, out>>
  BY <1>1 DEF Reuse, StartConnect, ConnectFails, ReadAnswer, LocalReturns,
      managerVars, socketVars, streamVars
<1>2. ASSUME NEW c \in Call PROVE ~(WriteRefused(c) \/ WriteFails(c) \/ ReadFails(c))
  BY <1>0 DEF WriteRefused, WriteFails, ReadFails
<1>3. ASSUME NEW c \in Call PROVE ~Invalidate(c)
  BY <1>0 DEF Invalidate, Connected
<1>4. ASSUME NEW c \in Call, Connects(c) PROVE UNCHANGED <<out, handled>>
  BY <1>4 DEF Connects, streamVars
<1>5. ASSUME NEW k \in Call, Answer(k)
      PROVE  UNCHANGED <<opened, connection, handled, out>>
  BY <1>5 DEF Answer, managerVars, socketVars
<1>6. ASSUME NEW k \in Call PROVE ~Break(k)
  BY DEF Break
<1>7. ~Close /\ ~CloseEnds
  BY <1>0 DEF Close, CloseEnds, OneConnects
<1>8. CASE PeerStarts \/ UNCHANGED vars
  BY <1>8 DEF PeerStarts, vars, managerVars, socketVars, streamVars
<1>9. CASE PeerEnds
  <2>1. opened = {} /\ UNCHANGED <<opened, connection, handled>>
    BY <1>9 DEF PeerEnds, managerVars
  <2>2. \A k \in Call : out[k] = <<>> /\ out'[k] = <<>>
    BY <1>9, <2>1 DEF PeerEnds, OneStream
  <2>. QED  BY <2>1, <2>2
<1>. QED
  BY <1>1, <1>2, <1>3, <1>4, <1>5, <1>6, <1>7, <1>8, <1>9 DEF Next, Proceeds, Serves

\* A frame is added to the one stream.
LEMMA WriteAdds ==
  ASSUME TypeOK, Connected, OneStream, broken = {},
         NEW c \in Call, Write(c) \/ LocalCast(c)
  PROVE  /\ connection \in Call /\ connection \in opened /\ pc[c] = "using"
         /\ out[connection] \in Seq(Call)
         /\ out'[connection] = Append(out[connection], c)
         /\ \A k \in Call : k # connection => out'[k] = out[k]
         /\ UNCHANGED <<handled, opened, connection>>
<1>1. pc[c] = "using"
  BY DEF Write, LocalCast, Locks, HasConnection
<1>2. conn[c] = connection /\ connection \in opened /\ connection \in Call
  BY <1>1 DEF Connected, OneStream, TypeOK
<1>3. out' = [out EXCEPT ![connection] = Append(@, c)]
  BY <1>2 DEF Write, LocalCast
<1>4. UNCHANGED <<handled, opened, connection>>
  BY DEF Write, LocalCast, managerVars, socketVars
<1>. QED  BY <1>1, <1>2, <1>3, <1>4 DEF TypeOK

\* The first frame of a stream is handled.
LEMMA TakeMoves ==
  ASSUME TypeOK, NEW k \in Call, Take(k) \/ LocalTask(k)
  PROVE  /\ out[k] \in Seq(Call) /\ out[k] # <<>> /\ out'[k] = Tail(out[k])
         /\ \A l \in Call : l # k => out'[l] = out[l]
         /\ handled \in Seq(Call) /\ out[k][1] \in Call
         /\ handled' = Append(handled, out[k][1])
         /\ UNCHANGED <<opened, connection>>
<1>1. /\ out[k] \in Seq(Call) /\ out[k] # <<>> /\ out' = [out EXCEPT ![k] = Tail(@)]
      /\ handled' = Append(handled, Head(out[k]))
      /\ UNCHANGED <<opened, connection>>
  BY DEF Take, LocalTask, TypeOK, managerVars, socketVars
<1>2. Head(out[k]) = out[k][1] /\ out[k][1] \in Call
  BY <1>1
<1>. QED  BY <1>1, <1>2 DEF TypeOK

LEMMA OneStreamStep ==
  ASSUME TypeOK, Connected, OneConnects, closed \subseteq broken, OneStream,
         broken' = {}, broken = {}, [Next]_vars
  PROVE  OneStream'
<1>1. ASSUME NEW c \in Call, Write(c) \/ LocalCast(c) PROVE OneStream'
  BY <1>1, WriteAdds DEF OneStream
<1>2. ASSUME NEW c \in Call, LocalSend(c) PROVE OneStream'
  BY <1>2 DEF LocalSend, OneStream, managerVars, socketVars
<1>3. ASSUME NEW k \in Call, Take(k) \/ LocalTask(k) PROVE OneStream'
  BY <1>3, TakeMoves DEF OneStream
<1>4. ASSUME NEW c \in Call, Connects(c), UNCHANGED <<out, handled>> PROVE OneStream'
  <2>1. connection = NoCall
    BY <1>4 DEF Connects, OneConnects
  <2>2. opened = {}
    BY <2>1, NoSuchCall DEF OneStream, TypeOK
  <2>. QED  BY <1>4, <2>2 DEF Connects, OneStream
<1>5. ASSUME UNCHANGED <<opened, connection, handled>>,
             \A k \in Call : out'[k] = out[k]
      PROVE  OneStream'
  BY <1>5 DEF OneStream
<1>. QED  BY <1>1, <1>2, <1>3, <1>4, <1>5, CalmStep

\* What is on its way or handled stays so.
LEMMA SomewhereStays ==
  ASSUME TypeOK, Connected, OneConnects, closed \subseteq broken, OneStream,
         broken' = {}, broken = {}, [Next]_vars, NEW x \in Call, Somewhere(x)
  PROVE  Somewhere(x)'
<1>1. ASSUME NEW c \in Call, Write(c) \/ LocalCast(c) PROVE Somewhere(x)'
  <2>1. H(x) => H(x)'
    BY <1>1, WriteAdds DEF H, Rpc!IsHandled
  <2>2. ASSUME NEW k \in Call, NEW i \in DOMAIN out[k], out[k][i] = x
        PROVE  i \in DOMAIN out'[k] /\ out'[k][i] = x
    <3>1. CASE k = connection
      BY <1>1, <2>2, <3>1, WriteAdds, AppendSent
    <3>2. CASE k # connection
      BY <1>1, <2>2, <3>2, WriteAdds
    <3>. QED  BY <3>1, <3>2
  <2>. QED  BY <2>1, <2>2 DEF Somewhere
<1>2. ASSUME NEW c \in Call, LocalSend(c) PROVE Somewhere(x)'
  <2>1. handled \in Seq(Call) /\ handled' = Append(handled, c) /\ out' = out
    BY <1>2 DEF LocalSend, TypeOK
  <2>2. H(x) => H(x)'
    BY <2>1, MoreHandled
  <2>. QED  BY <2>1, <2>2 DEF Somewhere
<1>3. ASSUME NEW k \in Call, Take(k) \/ LocalTask(k) PROVE Somewhere(x)'
  <2>1. H(x)' <=> H(x) \/ x = out[k][1]
    BY <1>3, TakeMoves, MoreHandled
  <2>2. ASSUME NEW l \in Call, NEW i \in DOMAIN out[l], out[l][i] = x, ~H(x)'
        PROVE  \E j \in DOMAIN out'[l] : out'[l][j] = x
    <3>1. CASE l # k
      BY <1>3, <2>2, <3>1, TakeMoves
    <3>2. CASE l = k
      <4>1. i # 1 /\ out[k] \in Seq(Call) /\ out[k] # <<>> /\ out'[k] = Tail(out[k])
        BY <1>3, <2>1, <2>2, <3>2, TakeMoves
      <4>2. i - 1 \in DOMAIN Tail(out[k]) /\ Tail(out[k])[i - 1] = out[k][i]
        BY <2>2, <3>2, <4>1
      <4>. QED  BY <2>2, <3>2, <4>1, <4>2
    <3>. QED  BY <3>1, <3>2
  <2>. QED  BY <2>1, <2>2 DEF Somewhere
<1>4. ASSUME UNCHANGED handled, \A k \in Call : out'[k] = out[k] PROVE Somewhere(x)'
  BY <1>4 DEF Somewhere, H, Rpc!IsHandled
<1>. QED  BY <1>1, <1>2, <1>3, <1>4, CalmStep

LEMMA NoneLostStep ==
  ASSUME TypeOK, Connected, OneConnects, closed \subseteq broken, OneStream, NoneLost,
         broken' = {}, broken = {}, [Next]_vars
  PROVE  NoneLost'
<1>. SUFFICES ASSUME NEW c \in Call, pc'[c] \in {"waiting", "ok"} PROVE Somewhere(c)'
  BY DEF NoneLost
<1>1. CASE pc[c] \in {"waiting", "ok"}
  BY <1>1, SomewhereStays DEF NoneLost
<1>2. CASE Write(c) \/ LocalCast(c)
  <2>1. out'[connection] = Append(out[connection], c) /\ connection \in Call
    BY <1>2, WriteAdds
  <2>2. /\ Len(out[connection]) + 1 \in DOMAIN out'[connection]
        /\ out'[connection][Len(out[connection]) + 1] = c
    BY <1>2, <2>1, WriteAdds, AppendSent
  <2>. QED  BY <2>1, <2>2 DEF Somewhere
<1>3. CASE LocalSend(c)
  BY <1>3, MoreHandled DEF LocalSend, TypeOK, Somewhere
<1>. QED  BY <1>1, <1>2, <1>3, Places

LEMMA HandledDomain ==
  ASSUME TypeOK PROVE DOMAIN handled = 1..Len(handled) /\ Len(handled) \in Nat
BY DEF TypeOK

LEMMA OrderStep ==
  ASSUME TypeOK, TypeOK', Connected, OneConnects, FrameInv, Ordered,
         broken' = {}, broken = {}, [Next]_vars
  PROVE  HandledInOrder' /\ FramesInOrder'
<1>. USE DEF Ordered
<1>1. ASSUME NEW c \in Call, pc[c] # "idle" PROVE Claims(c)' <=> Claims(c)
  BY <1>1, ClaimsStay
<1>2. ASSUME NEW k \in Call, NEW x \in Call, NEW j \in DOMAIN out[k], out[k][j] = x
      PROVE  pc[x] # "idle"
  BY <1>2 DEF FrameInv, FramesAreSent, Sent
<1>3. ASSUME NEW x \in Call, NEW j \in DOMAIN handled, handled[j] = x
      PROVE  pc[x] # "idle"
  BY <1>3 DEF FrameInv, HandledWereSent, H, Rpc!IsHandled, Sent
<1>4. ASSUME handled' = handled PROVE HandledInOrder'
  BY <1>1, <1>3, <1>4 DEF HandledInOrder
<1>5. ASSUME NEW c \in Call, Write(c) \/ LocalCast(c)
      PROVE  HandledInOrder' /\ FramesInOrder'
  <2>1. handled' = handled /\ \A x : H(x)' <=> H(x)
    BY <1>5, WriteAdds DEF H, Rpc!IsHandled
  <2>2. ASSUME NEW k \in Call, NEW x \in Call, NEW j \in DOMAIN out[k], out[k][j] = x,
               Claims(x)'
        PROVE  H(After[x]) \/ \E i \in 1..(j - 1) : out[k][i] = After[x]
    BY <1>1, <1>2, <2>2 DEF FramesInOrder
  <2>3. ASSUME NEW k \in Call, k # connection, NEW x \in Call, NEW j \in DOMAIN out'[k],
               out'[k][j] = x, Claims(x)'
        PROVE  H(After[x])' \/ \E i \in 1..(j - 1) : out'[k][i] = After[x]
    <3>1. out'[k] = out[k]
      BY <1>5, <2>3, WriteAdds
    <3>. QED  BY <2>1, <2>2, <2>3, <3>1
  <2>4. PICK k \in Call : k = connection /\ out[k] \in Seq(Call) /\ out'[k] = Append(out[k], c)
    BY <1>5, WriteAdds
  <2>5. /\ DOMAIN out'[k] = DOMAIN out[k] \cup {Len(out[k]) + 1}
        /\ \A i \in DOMAIN out[k] : out'[k][i] = out[k][i]
        /\ out'[k][Len(out[k]) + 1] = c
        /\ DOMAIN out[k] = 1..Len(out[k]) /\ Len(out[k]) \in Nat
    BY <2>4, AppendSent
  <2>6. ASSUME NEW x \in Call, NEW j \in DOMAIN out'[k], out'[k][j] = x, Claims(x)'
        PROVE  H(After[x])' \/ \E i \in 1..(j - 1) : out'[k][i] = After[x]
    <3>1. CASE j \in DOMAIN out[k]
      BY <2>1, <2>2, <2>5, <2>6, <3>1
    <3>2. CASE j = Len(out[k]) + 1
      <4>1. x = c /\ pc[c] = "using"
        BY <1>5, <2>5, <2>6, <3>2, WriteAdds
      <4>2. Claims(c)
        BY <1>1, <2>6, <4>1
      <4>3. After[c] \in Call /\ pc[After[c]] = "ok"
        BY <4>2, ConnectionAssumption DEF Claims
      <4>4. Somewhere(After[c])
        BY <4>3 DEF NoneLost
      <4>5. ASSUME ~H(After[c]) PROVE \E i \in DOMAIN out[k] : out[k][i] = After[c]
        <5>1. PICK l \in Call : \E i \in DOMAIN out[l] : out[l][i] = After[c]
          BY <4>4, <4>5 DEF Somewhere
        <5>2. out[l] # <<>>
          BY <5>1
        <5>. QED  BY <2>4, <5>1, <5>2 DEF OneStream
      <4>. QED  BY <2>1, <2>5, <3>2, <4>1, <4>5
    <3>. QED  BY <2>5, <2>6, <3>1, <3>2
  <2>7. ASSUME NEW l \in Call, NEW x \in Call, NEW j \in DOMAIN out'[l], out'[l][j] = x,
               Claims(x)'
        PROVE  H(After[x])' \/ \E i \in 1..(j - 1) : out'[l][i] = After[x]
    <3>1. CASE l = k
      BY <2>6, <2>7, <3>1
    <3>2. CASE l # k
      BY <2>3, <2>4, <2>7, <3>2
    <3>. QED  BY <3>1, <3>2
  <2>. QED  BY <1>4, <2>1, <2>7 DEF FramesInOrder
<1>6. ASSUME NEW c \in Call, LocalSend(c) PROVE HandledInOrder' /\ FramesInOrder'
  <2>1. /\ handled \in Seq(Call) /\ handled' = Append(handled, c) /\ out' = out
        /\ ~Claims(c) /\ pc[c] # "idle"
    BY <1>6 DEF LocalSend, HasConnection, Claims, TypeOK
  <2>2. /\ DOMAIN handled' = DOMAIN handled \cup {Len(handled) + 1}
        /\ \A i \in DOMAIN handled : handled'[i] = handled[i]
        /\ handled'[Len(handled) + 1] = c
        /\ \A x \in Call : H(x) => H(x)'
    BY <2>1, AppendSent, MoreHandled
  <2>3. HandledInOrder'
    BY <1>1, <1>3, <2>1, <2>2, HandledDomain DEF HandledInOrder
  <2>4. \A x \in Call : Claims(x) => After[x] \in Call
    BY ConnectionAssumption DEF Claims
  <2>5. FramesInOrder'
    BY <1>1, <1>2, <2>1, <2>2, <2>4 DEF FramesInOrder
  <2>. QED  BY <2>3, <2>5
<1>7. ASSUME NEW k \in Call, Take(k) \/ LocalTask(k)
      PROVE  HandledInOrder' /\ FramesInOrder'
  <2>1. PICK h \in Call : h = out[k][1] /\ handled' = Append(handled, h)
    BY <1>7, TakeMoves
  <2>2. /\ out[k] \in Seq(Call) /\ out[k] # <<>> /\ out'[k] = Tail(out[k])
        /\ handled \in Seq(Call) /\ \A l \in Call : l # k => out'[l] = out[l]
    BY <1>7, TakeMoves
  <2>3. /\ DOMAIN handled' = DOMAIN handled \cup {Len(handled) + 1}
        /\ \A i \in DOMAIN handled : handled'[i] = handled[i]
        /\ handled'[Len(handled) + 1] = h
        /\ \A x \in Call : H(x)' <=> H(x) \/ x = h
    BY <2>1, <2>2, AppendSent, MoreHandled
  <2>4. 1 \in DOMAIN out[k] /\ pc[h] # "idle"
    BY <1>2, <2>1, <2>2
  <2>5. \A x \in Call : Claims(x) => After[x] \in Call
    BY ConnectionAssumption DEF Claims
  <2>6. ASSUME Claims(h) PROVE H(After[h])
    <3>1. 1..(1 - 1) = {}
      OBVIOUS
    <3>. QED  BY <2>1, <2>4, <2>6, <3>1 DEF FramesInOrder
  <2>7. HandledInOrder'
    <3>1. ASSUME NEW x \in Call, NEW j \in DOMAIN handled', handled'[j] = x, Claims(x)'
          PROVE  \E i \in 1..(j - 1) : handled'[i] = After[x]
      <4>1. CASE j \in DOMAIN handled
        <5>1. handled[j] = x /\ Claims(x)
          BY <1>1, <1>3, <2>3, <3>1, <4>1
        <5>2. PICK i \in 1..(j - 1) : handled[i] = After[x]
          BY <4>1, <5>1 DEF HandledInOrder
        <5>3. i \in DOMAIN handled
          BY <4>1, HandledDomain
        <5>. QED  BY <2>3, <5>2, <5>3
      <4>2. CASE j = Len(handled) + 1
        <5>1. x = h /\ Claims(h)
          BY <1>1, <2>3, <2>4, <3>1, <4>2
        <5>2. PICK i \in DOMAIN handled : handled[i] = After[h]
          BY <2>6, <5>1 DEF H, Rpc!IsHandled
        <5>. QED  BY <2>3, <4>2, <5>1, <5>2, HandledDomain
      <4>. QED  BY <2>3, <3>1, <4>1, <4>2
    <3>. QED  BY <3>1 DEF HandledInOrder
  <2>8. ASSUME NEW l \in Call, NEW x \in Call, NEW j \in DOMAIN out'[l], out'[l][j] = x,
               Claims(x)'
        PROVE  H(After[x])' \/ \E i \in 1..(j - 1) : out'[l][i] = After[x]
    <3>1. CASE l # k
      <4>1. out'[l] = out[l]
        BY <2>2, <3>1
      <4>2. Claims(x)
        BY <1>1, <1>2, <2>8, <4>1
      <4>. QED  BY <2>3, <2>5, <2>8, <4>1, <4>2 DEF FramesInOrder
    <3>2. CASE l = k
      <4>0. /\ out[k] \in Seq(Call) /\ Len(out[k]) \in Nat
            /\ j \in DOMAIN Tail(out[k]) /\ Tail(out[k])[j] = x
        <5>1. j \in DOMAIN out'[k] /\ out'[k][j] = x
          BY <2>8, <3>2
        <5>2. out[k] \in Seq(Call) /\ out'[k] = Tail(out[k])
          BY <2>2
        <5>3. Len(out[k]) \in Nat
          BY <5>2
        <5>. QED  BY <5>1, <5>2, <5>3
      <4>1. /\ j + 1 \in DOMAIN out[k] /\ out[k][j + 1] = x /\ j \in Nat
            /\ \A i \in 2..j : i - 1 \in 1..(j - 1) /\ out'[k][i - 1] = out[k][i]
        BY <2>2, <4>0
      <4>2. Claims(x)
        BY <1>1, <1>2, <2>8, <4>1
      <4>3. After[x] \in Call
        BY <2>5, <4>2
      <4>4. H(After[x]) \/ \E i \in 1..((j + 1) - 1) : out[k][i] = After[x]
        BY <4>1, <4>2 DEF FramesInOrder
      <4>5. ASSUME ~H(After[x])'
            PROVE  \E i \in 1..(j - 1) : out'[k][i] = After[x]
        <5>1. ~H(After[x]) /\ After[x] # h
          BY <2>3, <4>3, <4>5
        <5>2. PICK i \in 1..j : out[k][i] = After[x]
          BY <4>1, <4>4, <5>1
        <5>3. i # 1
          BY <2>1, <5>1, <5>2
        <5>4. i \in 2..j
          BY <4>1, <5>2, <5>3
        <5>. QED  BY <4>1, <5>2, <5>4
      <4>. QED  BY <3>2, <4>5
    <3>. QED  BY <3>1, <3>2
  <2>. QED  BY <2>7, <2>8 DEF FramesInOrder
<1>8. ASSUME UNCHANGED handled, \A k \in Call : out'[k] = out[k]
      PROVE  HandledInOrder' /\ FramesInOrder'
  <2>1. \A x : H(x)' <=> H(x)
    BY <1>8 DEF H, Rpc!IsHandled
  <2>2. FramesInOrder'
    BY <1>1, <1>2, <1>8, <2>1 DEF FramesInOrder
  <2>. QED  BY <1>4, <1>8, <2>2
<1>. QED  BY <1>5, <1>6, <1>7, <1>8, CalmStep

LEMMA OrderedStep ==
  ASSUME TypeOK, TypeOK', Connected, OneConnects, FrameInv, Ordered, [Next]_vars
  PROVE  Ordered'
<1>. USE DEF Ordered
<1>1. EarlierEnded' /\ closed' \subseteq broken' /\ broken \subseteq broken'
  BY EarlierStep, ClosedStep
<1>2. ASSUME broken' = {}
      PROVE  OneStream' /\ NoneLost' /\ HandledInOrder' /\ FramesInOrder'
  <2>1. broken = {}
    BY <1>1, <1>2
  <2>. QED  BY <1>2, <2>1, OneStreamStep, NoneLostStep, OrderStep
<1>. QED  BY <1>1, <1>2

LEMMA TasksOrder == ASSUME TypeOK, Ordered PROVE InOrder
<1>. SUFFICES ASSUME broken = {}, NEW j \in DOMAIN handled, After[handled[j]] # NoCall,
                     pc[After[handled[j]]] = "ok",
                     transport = "tcp" \/ handled[j] \in Cast
              PROVE  \E i \in 1..(j - 1) : handled[i] = After[handled[j]]
  BY DEF InOrder
<1>1. handled[j] \in Call
  BY DEF TypeOK
<1>. QED  BY <1>1 DEF Ordered, HandledInOrder, Claims

-----------------------------------------------------------------------------
(***************************************************************************)
(* The inductive invariant.                                                *)
(***************************************************************************)
IInv ==
  /\ TypeOK
  /\ Connected
  /\ OneConnects
  /\ CachedIsUsable
  /\ LostByFailures
  /\ WaitersHold
  /\ \A k \in Call : Good(k)
  /\ FrameInv
  /\ AnswerIsOwn
  /\ Ordered

LEMMA InitIInv == Init => IInv
<1>. SUFFICES ASSUME Init PROVE IInv
  OBVIOUS
<1>. USE NoSuchCall DEF Init, InitManager, None
<1>1. TypeOK
  BY ConnectionAssumption DEF TypeOK, Null
<1>2. Connected /\ OneConnects /\ CachedIsUsable /\ WaitersHold /\ AnswerIsOwn
  BY DEF Connected, OneConnects, CachedIsUsable, WaitersHold, AnswerIsOwn
<1>3. LostByFailures
  <2>1. Lost = {} /\ Gave = {}
    BY DEF Lost, Gave
  <2>. QED  BY <2>1, FS_EmptySet DEF LostByFailures
<1>4. DOMAIN <<>> = {}
  OBVIOUS
<1>5. \A k \in Call : Good(k)
  BY <1>4 DEF Good, ServedIsHolder, SentIsHolder
<1>6. FrameInv
  BY <1>4
  DEF FrameInv, FramesAreSent, HandledWereSent, AnswersAreHandled, H, Rpc!IsHandled
<1>7. Ordered
  BY <1>4 DEF Ordered, EarlierEnded, OneStream, NoneLost, HandledInOrder, FramesInOrder
<1>. QED  BY <1>1, <1>2, <1>3, <1>5, <1>6, <1>7 DEF IInv

LEMMA CachedStep ==
  ASSUME TypeOK, Connected, OneConnects, CachedIsUsable, [Next]_vars
  PROVE  CachedIsUsable'
<1>. USE NoSuchCall
<1>1. ASSUME NEW c \in Call, Reuse(c) \/ StartConnect(c) PROVE CachedIsUsable'
  <2>1. pc[c] = "idle" /\ \A d \in Call : d # c => pc'[d] = pc[d] /\ conn'[d] = conn[d]
    BY <1>1 DEF Reuse, StartConnect, MayBegin, Goes, TypeOK
  <2>. QED
    BY <1>1, <2>1
    DEF Reuse, StartConnect, CachedIsUsable, managerVars, socketVars
<1>2. ASSUME NEW c \in Call, Connects(c) PROVE CachedIsUsable'
  BY <1>2 DEF Connects, Connected, CachedIsUsable, TypeOK
<1>3. ASSUME NEW c \in Call, ConnectFails(c) PROVE CachedIsUsable'
  BY <1>3 DEF ConnectFails, OneConnects, CachedIsUsable, socketVars, TypeOK
<1>4. ASSUME NEW c \in Call, WriteFails(c) \/ ReadFails(c) PROVE CachedIsUsable'
  <2>1. /\ closed' = closed \cup {conn[c]} /\ UNCHANGED <<lock, connection, conn>>
        /\ pc'[c] = "failing" /\ \A d \in Call : d # c => pc'[d] = pc[d]
        /\ pc[c] # "failing"
    BY <1>4
    DEF WriteFails, ReadFails, Locks, Waits, HasConnection, Goes, TypeOK, managerVars
  <2>. QED  BY <2>1 DEF CachedIsUsable
<1>5. ASSUME NEW c \in Call, Invalidate(c) PROVE CachedIsUsable'
  BY <1>5 DEF Invalidate, CachedIsUsable, socketVars, TypeOK
<1>6. ASSUME NEW c \in Call,
             \/ WriteRefused(c) \/ Write(c) \/ ReadAnswer(c)
             \/ LocalSend(c) \/ LocalReturns(c) \/ LocalCast(c)
      PROVE  CachedIsUsable'
  <2>1. UNCHANGED <<lock, connection, conn, closed>> /\ pc[c] # "failing"
    BY <1>6
    DEF WriteRefused, Write, ReadAnswer, LocalSend, LocalReturns, LocalCast, Locks,
        Waits, HasConnection, managerVars, socketVars
  <2>2. \A d \in Call : d # c => pc'[d] = pc[d]
    BY <1>6
    DEF WriteRefused, Write, ReadAnswer, LocalSend, LocalReturns, LocalCast, Goes,
        TypeOK
  <2>. QED  BY <2>1, <2>2 DEF CachedIsUsable
<1>7. ASSUME NEW k \in Call, Serves(k) \/ Break(k) PROVE CachedIsUsable'
  BY <1>7
  DEF Serves, Take, Answer, LocalTask, Break, CachedIsUsable, managerVars, callVars,
      socketVars
<1>8. CASE Close \/ CloseEnds
  BY <1>8 DEF Close, CloseEnds, CachedIsUsable, socketVars, TypeOK
<1>9. CASE PeerStarts \/ PeerEnds \/ UNCHANGED vars
  BY <1>9
  DEF PeerStarts, PeerEnds, vars, CachedIsUsable, managerVars, callVars, socketVars
<1>. QED
  BY <1>1, <1>2, <1>3, <1>4, <1>5, <1>6, <1>7, <1>8, <1>9 DEF Next, Proceeds

LEMMA AnswerStep ==
  ASSUME TypeOK, Connected, WaitersHold, \A k \in Call : Good(k), AnswerIsOwn,
         [Next]_vars
  PROVE  AnswerIsOwn'
<1>. USE NoSuchCall
<1>1. ASSUME NEW c \in Call, ReadAnswer(c) PROVE AnswerIsOwn'
  <2>1. conn[c] \in Call /\ holder[conn[c]] = c /\ in[conn[c]] # <<>>
    BY <1>1 DEF ReadAnswer, Waits, Connected, WaitersHold, TypeOK
  <2>2. in[conn[c]] = <<c>>
    BY <2>1 DEF Good
  <2>3. Head(in[conn[c]]) = c
    BY <2>2
  <2>. QED  BY <1>1, <2>3 DEF ReadAnswer, Goes, AnswerIsOwn, TypeOK
<1>2. ASSUME NEW c \in Call, LocalReturns(c) PROVE AnswerIsOwn'
  BY <1>2 DEF LocalReturns, Goes, AnswerIsOwn, TypeOK
<1>3. ASSUME NEW c \in Call, Write(c) \/ LocalCast(c) PROVE AnswerIsOwn'
  BY <1>3 DEF Write, LocalCast, Goes, AnswerIsOwn, TypeOK
<1>4. ASSUME NEW c \in Call,
             \/ Reuse(c) \/ StartConnect(c) \/ Connects(c) \/ ConnectFails(c)
             \/ WriteRefused(c) \/ WriteFails(c) \/ ReadFails(c) \/ Invalidate(c)
             \/ LocalSend(c)
      PROVE  AnswerIsOwn'
  <2>1. answer' = answer /\ (pc'[c] # "ok" \/ pc' = pc)
    BY <1>4
    DEF Reuse, StartConnect, Connects, ConnectFails, WriteRefused, WriteFails,
        ReadFails, Invalidate, LocalSend, Goes, TypeOK
  <2>2. \A d \in Call : d # c => pc'[d] = pc[d]
    BY <1>4
    DEF Reuse, StartConnect, Connects, ConnectFails, WriteRefused, WriteFails,
        ReadFails, Invalidate, LocalSend, Goes, TypeOK
  <2>. QED  BY <2>1, <2>2 DEF AnswerIsOwn
<1>5. ASSUME NEW k \in Call, Serves(k) \/ Break(k) PROVE AnswerIsOwn'
  BY <1>5 DEF Serves, Take, Answer, LocalTask, Break, AnswerIsOwn, callVars
<1>6. CASE Close \/ CloseEnds \/ PeerStarts \/ PeerEnds \/ UNCHANGED vars
  BY <1>6 DEF Close, CloseEnds, PeerStarts, PeerEnds, vars, AnswerIsOwn, callVars
<1>. QED  BY <1>1, <1>2, <1>3, <1>4, <1>5, <1>6 DEF Next, Proceeds

LEMMA NextIInv == IInv /\ [Next]_vars => IInv'
<1>. SUFFICES ASSUME IInv, [Next]_vars PROVE IInv'
  OBVIOUS
<1>. USE DEF IInv
<1>1. TypeOK'
  BY TypeStep
<1>2. Connected' /\ OneConnects'
  BY ManagerStep
<1>3. LostByFailures'
  BY <1>1, LostStep
<1>4. WaitersHold' /\ \A k \in Call : Good(k)'
  BY <1>1, StreamStep
<1>5. FrameInv'
  BY <1>1, FrameStep
<1>6. CachedIsUsable' /\ AnswerIsOwn'
  BY CachedStep, AnswerStep
<1>7. Ordered'
  BY <1>1, OrderedStep
<1>. QED  BY <1>1, <1>2, <1>3, <1>4, <1>5, <1>6, <1>7

LEMMA Invariance == Spec => []IInv
BY InitIInv, NextIInv, PTL DEF Spec

\* The state of connection.py, and of the streams, has its types.
THEOREM TypeCorrect == Spec => []TypeOK
BY Invariance, PTL DEF IInv

\* However many tasks share a connection, and whenever it breaks, a send
\* returns the answer to its own message: tcp.py:72-107 reads the next answer
\* of the stream, and nothing in it says whose it is.
THEOREM NobodyElsesAnswer == Spec => []AnswerIsOwn
BY Invariance, PTL DEF IInv

\* The cache holds no connection that is known to have failed, but for the
\* time in which somebody is about to drop it (connection.py:118-123).
THEOREM CacheIsUsable == Spec => []CachedIsUsable
BY Invariance, PTL DEF IInv

\* A node makes at most one connection more than those that were closed and
\* those its failed calls have cost (connection.py:64-78).
THEOREM FewConnections == Spec => []ConnectionsBounded
<1>1. IInv => ConnectionsBounded
  BY BoundedConnections DEF IInv
<1>. QED  BY <1>1, Invariance, PTL

\* While nothing fails, the casts of one task are handled in the order in which
\* the task made them, whichever tasks share the connection (connection.py:64-78).
THEOREM TasksInOrder == Spec => []InOrder
<1>1. IInv => InOrder
  BY TasksOrder DEF IInv
<1>. QED  BY <1>1, Invariance, PTL

-----------------------------------------------------------------------------
(***************************************************************************)
(* The refinement.                                                         *)
(***************************************************************************)
StatusOf(p) ==
  IF p = "idle" THEN "new" ELSE IF p \in {"ok", "error"} THEN p ELSE "open"

Status == [c \in Call |-> StatusOf(pc[c])]

RpcNext ==
  \E c \in Call :
    \/ Status[c] = "new" /\ Status' = [Status EXCEPT ![c] = "open"] /\ UNCHANGED handled
    \/ /\ Status[c] # "new" /\ ~H(c)
       /\ handled' = Append(handled, c) /\ UNCHANGED Status
    \/ /\ Status[c] = "open" /\ (c \in Call \ Cast => H(c))
       /\ Status' = [Status EXCEPT ![c] = "ok"] /\ UNCHANGED handled
    \/ Status[c] = "open" /\ Status' = [Status EXCEPT ![c] = "error"] /\ UNCHANGED handled

LEMMA RpcMapping ==
  /\ Rpc!Init <=> Status = [c \in Call |-> "new"] /\ handled = <<>>
  /\ Rpc!Next <=> RpcNext
<1>1. Status = [c \in Call |->
                  IF pc[c] = "idle" THEN "new"
                  ELSE IF pc[c] \in {"ok", "error"} THEN pc[c] ELSE "open"]
  BY DEF Status, StatusOf
<1>2. Rpc!Init <=> Status = [c \in Call |-> "new"] /\ handled = <<>>
  BY <1>1 DEF Rpc!Init
<1>4. Rpc!Next <=> RpcNext
  BY DEF Rpc!Next, Rpc!Begin, Rpc!Handle, Rpc!Return, Rpc!Raise, Rpc!Sets, RpcNext,
      H, Status, StatusOf
<1>. QED  BY <1>2, <1>4

LEMMA StatusMoves ==
  ASSUME TypeOK, NEW c \in Call, NEW p \in Place, Goes(c, p)
  PROVE  Status' = [Status EXCEPT ![c] = StatusOf(p)] /\ Status[c] = StatusOf(pc[c])
BY DEF Status, Goes, TypeOK

LEMMA StatusStays ==
  ASSUME TypeOK, NEW c \in Call, NEW p \in Place, Goes(c, p), StatusOf(p) = StatusOf(pc[c])
  PROVE  UNCHANGED Status
BY DEF Status, Goes, TypeOK

LEMMA RpcStep ==
  ASSUME IInv, [Next]_vars PROVE RpcNext \/ UNCHANGED <<Status, handled>>
<1>. USE NoSuchCall DEF IInv
<1>1. ASSUME NEW c \in Call, Reuse(c) \/ StartConnect(c) PROVE RpcNext
  <2>1. /\ pc[c] = "idle" /\ UNCHANGED handled
        /\ Goes(c, "using") \/ Goes(c, "connecting")
    BY <1>1 DEF Reuse, StartConnect, MayBegin, streamVars
  <2>2. Status[c] = "new" /\ Status' = [Status EXCEPT ![c] = "open"]
    BY <2>1, StatusMoves DEF StatusOf, Place
  <2>. QED  BY <2>1, <2>2 DEF RpcNext
<1>2. ASSUME NEW c \in Call,
             \/ Connects(c) \/ WriteRefused(c) \/ WriteFails(c) \/ ReadFails(c)
             \/ (Write(c) /\ c \notin Cast)
      PROVE  UNCHANGED <<Status, handled>>
  <2>1. /\ UNCHANGED handled /\ pc[c] \in {"connecting", "using", "waiting"}
        /\ Goes(c, "using") \/ Goes(c, "failing") \/ Goes(c, "waiting")
    BY <1>2
    DEF Connects, WriteRefused, WriteFails, ReadFails, Write, Locks, Waits,
        HasConnection, streamVars
  <2>. QED  BY <2>1, StatusStays DEF StatusOf, Place
<1>3. ASSUME NEW c \in Call, ConnectFails(c)
      PROVE  RpcNext \/ UNCHANGED <<Status, handled>>
  <2>1. /\ UNCHANGED handled /\ pc[c] = "connecting"
        /\ Goes(c, "error") \/ pc' = pc
    BY <1>3 DEF ConnectFails, streamVars
  <2>2. CASE pc' = pc
    BY <2>1, <2>2 DEF Status
  <2>3. CASE Goes(c, "error")
    <3>1. Status[c] = "open" /\ Status' = [Status EXCEPT ![c] = "error"]
      BY <2>1, <2>3, StatusMoves DEF StatusOf, Place
    <3>. QED  BY <2>1, <3>1 DEF RpcNext
  <2>. QED  BY <2>1, <2>2, <2>3
<1>4. ASSUME NEW c \in Call, Invalidate(c) PROVE RpcNext
  <2>1. UNCHANGED handled /\ pc[c] = "failing" /\ Goes(c, "error")
    BY <1>4 DEF Invalidate, streamVars
  <2>2. Status[c] = "open" /\ Status' = [Status EXCEPT ![c] = "error"]
    BY <2>1, StatusMoves DEF StatusOf, Place
  <2>. QED  BY <2>1, <2>2 DEF RpcNext
<1>5. ASSUME NEW c \in Call,
             \/ (Write(c) /\ c \in Cast) \/ LocalCast(c)
             \/ ReadAnswer(c) \/ LocalReturns(c)
      PROVE  RpcNext
  <2>1. UNCHANGED handled /\ pc[c] \in {"using", "waiting"} /\ Goes(c, "ok")
    BY <1>5
    DEF Write, LocalCast, ReadAnswer, LocalReturns, Locks, Waits, HasConnection,
        streamVars
  <2>2. c \notin Cast => H(c)
    <3>1. CASE ReadAnswer(c)
      <4>1. conn[c] \in Call /\ holder[conn[c]] = c /\ in[conn[c]] # <<>>
        BY <3>1 DEF ReadAnswer, Waits, Connected, WaitersHold, TypeOK
      <4>2. in[conn[c]] = <<c>>
        BY <4>1 DEF Good
      <4>3. 1 \in DOMAIN <<c>> /\ <<c>>[1] = c
        OBVIOUS
      <4>. QED  BY <4>1, <4>2, <4>3 DEF FrameInv, AnswersAreHandled
    <3>2. CASE LocalReturns(c)
      BY <3>2 DEF LocalReturns, FrameInv, AnswersAreHandled
    <3>. QED  BY <1>5, <3>1, <3>2 DEF LocalCast
  <2>3. Status[c] = "open" /\ Status' = [Status EXCEPT ![c] = "ok"]
    BY <2>1, StatusMoves DEF StatusOf, Place
  <2>. QED  BY <2>1, <2>2, <2>3 DEF RpcNext
<1>6. ASSUME NEW c \in Call, LocalSend(c) PROVE RpcNext
  <2>1. handled' = Append(handled, c) /\ pc[c] = "using" /\ Goes(c, "waiting")
    BY <1>6 DEF LocalSend, HasConnection
  <2>2. UNCHANGED Status /\ Status[c] # "new"
    BY <2>1, StatusMoves, StatusStays DEF StatusOf, Place
  <2>3. ~H(c)
    BY <2>1 DEF FrameInv, HandledWereSent, Sent
  <2>. QED  BY <2>1, <2>2, <2>3 DEF RpcNext
<1>7. ASSUME NEW k \in Call, Take(k) \/ LocalTask(k) PROVE RpcNext
  <2>1. out[k] \in Seq(Call) /\ out[k] # <<>>
    BY <1>7 DEF Take, LocalTask, TypeOK
  <2>2. PICK h \in Call : h = Head(out[k]) /\ h = out[k][1] /\ 1 \in DOMAIN out[k]
    BY <2>1
  <2>3. Sent(h) /\ ~H(h)
    BY <2>2 DEF FrameInv, FramesAreSent
  <2>4. handled' = Append(handled, h) /\ pc' = pc
    BY <1>7, <2>2 DEF Take, LocalTask, callVars
  <2>5. UNCHANGED Status /\ Status[h] # "new"
    BY <2>3, <2>4 DEF Status, StatusOf, Sent
  <2>. QED  BY <2>3, <2>4, <2>5 DEF RpcNext
<1>8. ASSUME NEW k \in Call, Answer(k) \/ Break(k)
      PROVE  UNCHANGED <<Status, handled>>
  BY <1>8 DEF Answer, Break, Status, callVars
<1>9. CASE Close \/ CloseEnds \/ PeerStarts \/ PeerEnds \/ UNCHANGED vars
  BY <1>9
  DEF Close, CloseEnds, PeerStarts, PeerEnds, vars, Status, callVars, streamVars
<1>. QED
  BY <1>1, <1>2, <1>3, <1>4, <1>5, <1>6, <1>7, <1>8, <1>9 DEF Next, Proceeds, Serves

\* What the algorithms rely on, for any number of calls and faults: a message
\* is handled at most once and only after its call has begun, and a send that
\* returns was handled (connection.py:98-147, tcp.py:72-135 and 207-262).
THEOREM AtMostOnce == Spec => Rpc!Safety
<1>1. Init => Rpc!Init
  <2>1. Init => Status = [c \in Call |-> "new"] /\ handled = <<>>
    BY DEF Init, Status, StatusOf
  <2>. QED  BY <2>1, RpcMapping
<1>2. IInv /\ [Next]_vars => [Rpc!Next]_(Rpc!vars)
  <2>1. UNCHANGED <<Status, handled>> => UNCHANGED Rpc!vars
    BY DEF Status, StatusOf, Rpc!vars
  <2>. QED  BY <2>1, RpcStep, RpcMapping
<1>. QED  BY <1>1, <1>2, Invariance, PTL DEF Spec, Rpc!Safety

-----------------------------------------------------------------------------
(***************************************************************************)
(* Nobody waits for ever: of the locks, the answers and the calls before a *)
(* call of the same task, something always gives way.                      *)
(***************************************************************************)
\* The lock of a connection is held by a send that waits on it.
HoldersWait ==
  \A k \in Call :
    holder[k] # NoCall => Waits(holder[k]) /\ conn[holder[k]] = k

\* A connection outlives its peer only as a broken one.
PeerLives == \A k \in opened \ broken : peer = "up"

IsOut(c) == \E i \in DOMAIN out[conn[c]] : out[conn[c]][i] = c

\* A send that waits on a connection that works is somewhere on it.
Awaited ==
  \A c \in Call :
    Waits(c) /\ conn[c] \notin broken =>
      in[conn[c]] # <<>> \/ serving[conn[c]] = c \/ IsOut(c)

SendsWait == \A c \in Call : pc[c] = "waiting" => c \notin Cast

RInv == HoldersWait /\ PeerLives /\ SendsWait /\ Awaited

\* Nothing more can happen unless somebody calls, or something fails: no call,
\* no handler of the peer and no close has a step to take.
Rests ==
  /\ lock # Closer
  /\ \A c \in Call :
       /\ pc[c] # "connecting"
       /\ lock = NoCall => ~MayBegin(c) /\ pc[c] # "failing"
       /\ ~Locks(c)
       /\ Waits(c) => in[conn[c]] = <<>> /\ conn[c] \notin broken
       /\ transport = "local" => pc[c] \notin {"using", "waiting"}
  /\ transport = "tcp" =>
       \A k \in Call : serving[k] = NoCall /\ (peer = "up" => out[k] = <<>>)

\* Every task has a first call.
TasksBegin ==
  \E place \in [Call -> Nat] :
    \A c \in Call : After[c] # NoCall => place[After[c]] < place[c]

\* No call hangs: when everything rests all of them have returned or raised.
NobodyHangs == Rests => \A c \in Call : pc[c] \in {"ok", "error"}

LEMMA LeastOf ==
  ASSUME NEW S \in SUBSET Nat, S # {}
  PROVE  \E i \in S : \A j \in S : i <= j
<1>1. PICK s \in S : TRUE
  OBVIOUS
<1>. DEFINE T == {0..x : x \in {y \in S : y <= s}}
<1>2. T \subseteq SUBSET (0..s) /\ T # {}
  BY <1>1
<1>3. \A U \in SUBSET (0..s) : IsFiniteSet(U)
  <2>1. IsFiniteSet(0..s)
    BY FS_Interval
  <2>. QED  BY <2>1, FS_Subset
<1>4. PICK U \in T : \A V \in T : <<V, U>> \notin StrictSubsetOrdering(0..s)
  <2>. HIDE DEF T
  <2>1. T \subseteq FiniteSubsetsOf(0..s)
    BY <1>2, <1>3 DEF FiniteSubsetsOf
  <2>. QED  BY <1>2, <2>1, FS_StrictSubsetOrderingWellFounded, WFMin
<1>5. PICK i \in S : i <= s /\ U = 0..i
  BY <1>4
<1>6. ASSUME NEW j \in S, ~(i <= j)  PROVE FALSE
  <2>1. 0..j \in T
    BY <1>5, <1>6
  <2>2. 0..j \subseteq 0..i /\ i \in 0..i /\ i \notin 0..j
    BY <1>6
  <2>3. <<0..j, 0..i>> \in StrictSubsetOrdering(0..s)
    BY <2>1, <2>2, <1>2, <1>5 DEF StrictSubsetOrdering
  <2>. QED  BY <2>1, <2>3, <1>4, <1>5
<1>. QED  BY <1>5, <1>6

\* How a call goes on, and what a step leaves of the others.
LEMMA OtherCalls ==
  ASSUME TypeOK, NEW c \in Call, Proceeds(c), NEW x \in Call, x # c
  PROVE  pc'[x] = pc[x] /\ conn'[x] = conn[x] /\ transport' = transport
<1>1. pc'[x] = pc[x]
  BY DEF Proceeds, Reuse, StartConnect, Connects, ConnectFails, WriteRefused,
      Write, WriteFails, ReadAnswer, ReadFails, Invalidate, LocalSend,
      LocalReturns, LocalCast, Goes, TypeOK
<1>2. conn'[x] = conn[x]
  BY DEF Proceeds, Reuse, StartConnect, Connects, ConnectFails, WriteRefused,
      Write, WriteFails, ReadAnswer, ReadFails, Invalidate, LocalSend,
      LocalReturns, LocalCast, TypeOK
<1>. QED  BY <1>1, <1>2, EndedStay DEF Next

LEMMA HoldersStep ==
  ASSUME TypeOK, Connected, WaitersHold, HoldersWait, [Next]_vars PROVE HoldersWait'
<1>. USE NoSuchCall
<1>. SUFFICES ASSUME NEW k \in Call, holder'[k] # NoCall
              PROVE  Waits(holder[k])' /\ conn'[holder'[k]] = k
  BY DEF HoldersWait
<1>1. transport' = transport
  BY EndedStay
<1>2. ASSUME UNCHANGED <<holder, pc, conn>> PROVE Waits(holder[k])' /\ conn'[holder'[k]] = k
  BY <1>1, <1>2 DEF HoldersWait, Waits
<1>3. ASSUME NEW c \in Call, Write(c) PROVE Waits(holder[k])' /\ conn'[holder'[k]] = k
  <2>1. /\ pc[c] = "using" /\ transport = "tcp" /\ conn[c] \in Call
        /\ conn' = conn
        /\ \/ Goes(c, "ok") /\ UNCHANGED holder
           \/ Goes(c, "waiting") /\ holder' = [holder EXCEPT ![conn[c]] = c]
    <3>1. pc[c] = "using" /\ transport = "tcp"
      BY <1>3 DEF Write, Locks, HasConnection
    <3>2. conn[c] \in Call
      BY <3>1 DEF Connected, TypeOK
    <3>. QED  BY <1>3, <3>1, <3>2 DEF Write
  <2>2. CASE holder'[k] = holder[k]
    <3>1. Waits(holder[k]) /\ conn[holder[k]] = k /\ holder[k] \in Call
      BY <2>2 DEF HoldersWait, TypeOK, Null
    <3>2. pc'[holder[k]] = pc[holder[k]]
      BY <2>1, <3>1 DEF Goes, TypeOK, Waits
    <3>. QED  BY <1>1, <2>1, <2>2, <3>1, <3>2 DEF Waits
  <2>3. CASE holder'[k] # holder[k]
    <3>1. k = conn[c] /\ holder'[k] = c /\ Goes(c, "waiting")
      BY <2>1, <2>3 DEF TypeOK
    <3>. QED  BY <1>1, <2>1, <3>1 DEF Waits, Goes, TypeOK
  <2>. QED  BY <2>2, <2>3
<1>4. ASSUME NEW c \in Call, ReadAnswer(c) \/ ReadFails(c)
      PROVE  Waits(holder[k])' /\ conn'[holder'[k]] = k
  <2>1. /\ conn' = conn /\ conn[c] \in Call
        /\ holder' = [holder EXCEPT ![conn[c]] = NoCall]
        /\ \A x \in Call : x # c => pc'[x] = pc[x]
    BY <1>4 DEF ReadAnswer, ReadFails, Waits, Connected, Goes, TypeOK
  <2>2. k # conn[c] /\ holder'[k] = holder[k]
    BY <2>1 DEF TypeOK
  <2>3. Waits(holder[k]) /\ conn[holder[k]] = k /\ holder[k] \in Call
    BY <2>2 DEF HoldersWait, TypeOK, Null
  <2>. QED  BY <1>1, <2>1, <2>2, <2>3 DEF Waits
<1>5. ASSUME NEW c \in Call, Proceeds(c), ~Write(c), ~ReadAnswer(c), ~ReadFails(c)
      PROVE  Waits(holder[k])' /\ conn'[holder'[k]] = k
  <2>1. holder' = holder
    BY <1>5 DEF Proceeds, Reuse, StartConnect, Connects, ConnectFails, WriteRefused,
      WriteFails, Invalidate, LocalSend, LocalReturns, LocalCast
  <2>2. Waits(holder[k]) /\ conn[holder[k]] = k /\ holder[k] \in Call
    BY <2>1 DEF HoldersWait, TypeOK, Null
  <2>3. holder[k] # c
    BY <1>5, <2>2 DEF Proceeds, Reuse, StartConnect, MayBegin, Connects, ConnectFails,
      WriteRefused, WriteFails, Invalidate, LocalSend, LocalReturns, LocalCast, Locks,
      HasConnection, Waits
  <2>. QED  BY <1>1, <1>5, <2>1, <2>2, <2>3, OtherCalls DEF Waits
<1>6. ASSUME NEW j \in Call, Serves(j) \/ Break(j) PROVE UNCHANGED <<holder, pc, conn>>
  BY <1>6 DEF Serves, Take, Answer, LocalTask, Break, callVars
<1>7. CASE Close \/ CloseEnds \/ PeerStarts \/ PeerEnds \/ UNCHANGED vars
  BY <1>2, <1>7 DEF Close, CloseEnds, PeerStarts, PeerEnds, vars, callVars
<1>. QED  BY <1>2, <1>3, <1>4, <1>5, <1>6, <1>7 DEF Next

LEMMA LivesStep == ASSUME TypeOK, PeerLives, [Next]_vars PROVE PeerLives'
<1>1. ASSUME NEW c \in Call, Connects(c) PROVE PeerLives'
  BY <1>1 DEF Connects, Reachable, PeerLives
<1>2. ASSUME NEW c \in Call, Proceeds(c), ~Connects(c)
      PROVE  UNCHANGED <<peer, opened, broken>>
  BY <1>2 DEF Proceeds, Reuse, StartConnect, ConnectFails, WriteRefused, Write,
    WriteFails, ReadAnswer, ReadFails, Invalidate, LocalSend, LocalReturns, LocalCast,
    socketVars
<1>3. ASSUME NEW k \in Call, Serves(k) \/ Break(k)
      PROVE  UNCHANGED <<peer, opened>> /\ broken \subseteq broken'
  BY <1>3 DEF Serves, Take, Answer, LocalTask, Break, socketVars
<1>4. CASE Close \/ CloseEnds \/ UNCHANGED vars
  <2>1. UNCHANGED <<peer, opened>> /\ broken \subseteq broken'
    BY <1>4 DEF Close, CloseEnds, socketVars, vars
  <2>. QED  BY <2>1 DEF PeerLives
<1>5. CASE PeerStarts \/ PeerEnds
  BY <1>5 DEF PeerStarts, PeerEnds, socketVars, PeerLives
<1>. QED  BY <1>1, <1>2, <1>3, <1>4, <1>5 DEF Next, PeerLives

LEMMA SendsStep == ASSUME TypeOK, SendsWait, [Next]_vars PROVE SendsWait'
<1>. SUFFICES ASSUME NEW c \in Call, pc'[c] = "waiting" PROVE c \notin Cast
  BY DEF SendsWait
<1>1. CASE pc[c] \in {"waiting", "ok"}
  BY <1>1, EndedStay DEF SendsWait
<1>2. CASE Write(c) \/ LocalSend(c) \/ LocalCast(c)
  BY <1>2 DEF Write, LocalSend, LocalCast, Goes, TypeOK
<1>. QED  BY <1>1, <1>2, Places

\* The frames of a connection that is not broken change by one step at a time.
LEMMA AwaitedStep ==
  ASSUME TypeOK, TypeOK', Connected, WaitersHold, \A k \in Call : Good(k), SendsWait,
         Awaited, [Next]_vars
  PROVE  Awaited'
<1>. USE NoSuchCall
<1>. SUFFICES ASSUME NEW c \in Call, Waits(c)', conn'[c] \notin broken'
              PROVE  in'[conn'[c]] # <<>> \/ serving'[conn'[c]] = c \/ IsOut(c)'
  BY DEF Awaited
<1>0. /\ transport = "tcp" /\ transport' = transport /\ pc'[c] = "waiting"
  BY EndedStay DEF Waits
<1>1. CASE Write(c)
  <2>. DEFINE k == conn[c]
  <2>1. k \in Call /\ conn'[c] = k /\ broken' = broken
    BY <1>1 DEF Write, Locks, HasConnection, Connected, TypeOK, socketVars
  <2>2. out[k] \in Seq(Call) /\ out'[k] = Append(out[k], c)
    BY <1>1, <2>1 DEF Write, TypeOK
  <2>3. Len(out[k]) + 1 \in DOMAIN out'[k] /\ out'[k][Len(out[k]) + 1] = c
    BY <2>2, AppendSent
  <2>. QED  BY <2>1, <2>3 DEF IsOut
<1>2. CASE ~Write(c)
  <2>1. pc[c] = "waiting"
    <3>1. ~LocalCast(c) /\ ~LocalSend(c)
      BY <1>0 DEF LocalCast, LocalSend
    <3>2. pc[c] \in {"waiting", "ok"}
      BY <1>0, <1>2, <3>1, Places
    <3>. QED  BY <1>0, <3>2, EndedStay
  <2>2. conn[c] \in Call /\ holder[conn[c]] = c /\ Waits(c)
    BY <1>0, <2>1 DEF Connected, WaitersHold, TypeOK, Waits
  <2>3. PICK k \in Call : k = conn[c]
    BY <2>2
  <2>4. ASSUME UNCHANGED <<conn, broken>>,
               in'[k] = in[k], serving'[k] = serving[k], out'[k] = out[k]
        PROVE  in'[conn'[c]] # <<>> \/ serving'[conn'[c]] = c \/ IsOut(c)'
    BY <2>2, <2>3, <2>4 DEF Awaited, IsOut
  <2>5. ASSUME NEW x \in Call, Proceeds(x)
        PROVE  in'[conn'[c]] # <<>> \/ serving'[conn'[c]] = c \/ IsOut(c)'
    <3>1. x # c
      <4>1. ASSUME x = c PROVE FALSE
        <5>1. ReadAnswer(c) \/ ReadFails(c)
          BY <1>0, <1>2, <2>1, <2>5, <4>1 DEF Proceeds, Reuse, StartConnect, MayBegin,
            Connects, ConnectFails, WriteRefused, WriteFails, Invalidate, LocalSend,
            LocalReturns, LocalCast, Locks, HasConnection
        <5>. QED  BY <1>0, <5>1 DEF ReadAnswer, ReadFails, Goes, TypeOK
      <4>. QED  BY <4>1
    <3>2. conn'[c] = k /\ broken' = broken
      <4>1. broken' = broken
        BY <2>5 DEF Proceeds, Reuse, StartConnect, Connects, ConnectFails,
          WriteRefused, Write, WriteFails, ReadAnswer, ReadFails, Invalidate, LocalSend,
          LocalReturns, LocalCast, socketVars
      <4>. QED  BY <2>3, <2>5, <3>1, <4>1, OtherCalls
    <3>3. ~(Locks(x) /\ conn[x] = k) /\ ~(Waits(x) /\ conn[x] = k)
      BY <1>0, <2>2, <2>3, <3>1 DEF Locks, Waits, WaitersHold
    <3>4. in'[k] = in[k]
      <4>1. in' = in \/ (Waits(x) /\ in' = [in EXCEPT ![conn[x]] = Tail(@)])
        BY <2>5 DEF Proceeds, Reuse, StartConnect, Connects, ConnectFails,
          WriteRefused, Write, WriteFails, ReadAnswer, ReadFails, Invalidate, LocalSend,
          LocalReturns, LocalCast, streamVars
      <4>. QED  BY <3>3, <4>1 DEF TypeOK
    <3>5. out'[k] = out[k]
      <4>1. out' = out \/ (Locks(x) /\ out' = [out EXCEPT ![conn[x]] = Append(@, x)])
        BY <1>0, <2>5 DEF Proceeds, Reuse, StartConnect, Connects, ConnectFails,
          WriteRefused, Write, WriteFails, ReadAnswer, ReadFails, Invalidate, LocalSend,
          LocalReturns, LocalCast, streamVars
      <4>. QED  BY <3>3, <4>1 DEF TypeOK
    <3>6. serving' = serving
      BY <2>5 DEF Proceeds, Reuse, StartConnect, Connects, ConnectFails, WriteRefused,
        Write, WriteFails, ReadAnswer, ReadFails, Invalidate, LocalSend, LocalReturns,
        LocalCast, streamVars
    <3>. QED  BY <2>2, <2>3, <3>2, <3>4, <3>5, <3>6 DEF Awaited, IsOut
  <2>6. ASSUME NEW j \in Call, Take(j)
        PROVE  in'[conn'[c]] # <<>> \/ serving'[conn'[c]] = c \/ IsOut(c)'
    <3>1. UNCHANGED <<conn, broken, in>>
      BY <2>6 DEF Take, callVars, socketVars
    <3>2. CASE j # k
      BY <2>4, <2>6, <3>1, <3>2 DEF Take, TypeOK
    <3>3. CASE j = k
      <4>1. /\ out[k] \in Seq(Call) /\ out[k] # <<>> /\ out'[k] = Tail(out[k])
            /\ serving[k] = NoCall /\ Head(out[k]) = out[k][1]
        BY <2>6, <3>3, TailSent DEF Take, TypeOK
      <4>2. CASE in[k] # <<>>
        BY <2>3, <3>1, <4>2
      <4>3. CASE in[k] = <<>>
        <5>1. PICK i \in DOMAIN out[k] : out[k][i] = c
          BY <2>2, <2>3, <3>1, <4>1, <4>3 DEF Awaited, IsOut
        <5>2. CASE i = 1
          <6>1. c \notin Cast
            BY <2>1 DEF SendsWait
          <6>2. serving' = [serving EXCEPT ![k] = c]
            BY <2>6, <3>3, <4>1, <5>1, <5>2, <6>1 DEF Take
          <6>. QED  BY <2>3, <3>1, <6>2 DEF TypeOK
        <5>3. CASE i # 1
          <6>1. i - 1 \in DOMAIN Tail(out[k]) /\ Tail(out[k])[i - 1] = out[k][i]
            BY <4>1, <5>1, <5>3, SMTT(30)
          <6>. QED  BY <2>3, <3>1, <4>1, <5>1, <6>1 DEF IsOut
        <5>. QED  BY <5>2, <5>3
      <4>. QED  BY <4>2, <4>3
    <3>. QED  BY <3>2, <3>3
  <2>7. ASSUME NEW j \in Call, Answer(j)
        PROVE  in'[conn'[c]] # <<>> \/ serving'[conn'[c]] = c \/ IsOut(c)'
    <3>1. UNCHANGED <<conn, broken>>
      BY <2>7 DEF Answer, callVars, socketVars
    <3>2. CASE j # k
      <4>1. /\ serving' = [serving EXCEPT ![j] = NoCall]
            /\ in' \in {in, [in EXCEPT ![j] = Append(in[j], serving[j])]}
            /\ out' \in {out, [out EXCEPT ![j] = <<>>]}
        BY <2>7 DEF Answer
      <4>2. in'[k] = in[k]
        BY <3>2, <4>1 DEF TypeOK
      <4>3. out'[k] = out[k]
        BY <3>2, <4>1 DEF TypeOK
      <4>4. serving'[k] = serving[k]
        BY <3>2, <4>1 DEF TypeOK
      <4>. QED  BY <2>4, <3>1, <4>2, <4>3, <4>4
    <3>3. CASE j = k
      <4>1. k \notin broken /\ in[k] \in Seq(Call) /\ serving[k] \in Call
        BY <2>3, <2>7, <3>1, <3>3 DEF Answer, TypeOK, Null
      <4>2. in'[k] = Append(in[k], serving[k])
        BY <2>7, <3>3, <4>1 DEF Answer, TypeOK
      <4>3. in'[k] # <<>>
        BY <4>1, <4>2
      <4>. QED  BY <2>3, <3>1, <4>3
    <3>. QED  BY <3>2, <3>3
  <2>8. ASSUME NEW j \in Call, Break(j)
        PROVE  in'[conn'[c]] # <<>> \/ serving'[conn'[c]] = c \/ IsOut(c)'
    <3>1. UNCHANGED <<conn, serving>> /\ broken' = broken \cup {j}
      BY <2>8 DEF Break, callVars
    <3>2. j # k /\ k \notin broken
      BY <2>3, <3>1
    <3>3. in'[k] = in[k] /\ out'[k] = out[k]
      BY <2>8, <3>2 DEF Break, TypeOK
    <3>. QED  BY <2>2, <2>3, <3>1, <3>2, <3>3 DEF Awaited, IsOut
  <2>9. CASE Close \/ CloseEnds \/ PeerStarts \/ UNCHANGED vars
    <3>1. UNCHANGED <<conn, in, out, serving>> /\ broken \subseteq broken'
      BY <2>9 DEF Close, CloseEnds, PeerStarts, vars, callVars, streamVars, socketVars
    <3>. QED  BY <2>2, <3>1 DEF Awaited, IsOut
  <2>10. ~PeerEnds
    BY <2>1 DEF PeerEnds, callVars, Connected
  <2>. QED
    BY <1>0, <2>5, <2>6, <2>7, <2>8, <2>9, <2>10 DEF Next, Serves, LocalTask
<1>. QED  BY <1>1, <1>2

\* When everything rests, no call that has begun is still open.
LEMMA RestingCalls ==
  ASSUME IInv, RInv, Rests, NEW c \in Call
  PROVE  \/ pc[c] \in {"ok", "error"}
         \/ /\ pc[c] = "idle" /\ After[c] \in Call
            /\ pc[After[c]] \notin {"ok", "error"}
<1>. USE NoSuchCall
<1>1. TypeOK /\ Connected /\ lock = NoCall
  BY DEF IInv, TypeOK, Null, Rests, OneConnects
<1>2. ASSUME NEW x \in Call PROVE ~Waits(x)
  <2>1. SUFFICES ASSUME Waits(x) PROVE FALSE
    OBVIOUS
  <2>2. PICK k \in Call : k = conn[x] /\ k \in opened
    BY <1>1, <2>1 DEF Waits, Connected, TypeOK
  <2>3. k \notin broken /\ in[k] = <<>> /\ transport = "tcp"
    BY <2>1, <2>2 DEF Rests, Waits
  <2>4. peer = "up"
    BY <2>2, <2>3 DEF RInv, PeerLives
  <2>5. out[k] = <<>> /\ serving[k] = NoCall
    BY <2>3, <2>4 DEF Rests
  <2>6. DOMAIN <<>> = {}
    OBVIOUS
  <2>. QED  BY <2>1, <2>2, <2>3, <2>5, <2>6 DEF RInv, Awaited, IsOut
<1>3. pc[c] # "using"
  <2>1. SUFFICES ASSUME pc[c] = "using" PROVE FALSE
    OBVIOUS
  <2>2. transport = "tcp" /\ conn[c] \in Call
    BY <1>1, <2>1 DEF Rests, Connected, TypeOK
  <2>3. holder[conn[c]] # NoCall
    BY <2>1, <2>2 DEF Rests, Locks, HasConnection
  <2>4. holder[conn[c]] \in Call
    BY <1>1, <2>2, <2>3 DEF TypeOK, Null
  <2>. QED  BY <1>2, <2>2, <2>3, <2>4 DEF RInv, HoldersWait
<1>4. pc[c] # "waiting"
  BY <1>1, <1>2 DEF Rests, Waits, TypeOK
<1>5. pc[c] \in {"idle", "ok", "error"}
  BY <1>1, <1>3, <1>4 DEF Rests, TypeOK
<1>6. ASSUME pc[c] = "idle"
      PROVE  After[c] \in Call /\ pc[After[c]] \notin {"ok", "error"}
  BY <1>1, <1>6, ConnectionAssumption DEF Rests, MayBegin
<1>. QED  BY <1>5, <1>6

LEMMA AllEnded == ASSUME TasksBegin, IInv, RInv PROVE NobodyHangs
<1>. SUFFICES ASSUME Rests PROVE \A c \in Call : pc[c] \in {"ok", "error"}
  BY DEF NobodyHangs
<1>. DEFINE Open == {c \in Call : pc[c] \notin {"ok", "error"}}
<1>1. SUFFICES ASSUME Open # {} PROVE FALSE
  OBVIOUS
<1>2. PICK place \in [Call -> Nat] :
        \A c \in Call : After[c] # NoCall => place[After[c]] < place[c]
  BY DEF TasksBegin
<1>. DEFINE S == {place[x] : x \in Open}
<1>3. S \in SUBSET Nat /\ S # {}
  BY <1>1
<1>4. PICK i \in S : \A j \in S : i <= j
  <2>. HIDE DEF S
  <2>. QED  BY <1>3, LeastOf
<1>5. PICK c \in Open : i = place[c]
  BY <1>4
<1>6. After[c] \in Open
  BY RestingCalls
<1>7. place[After[c]] < place[c] /\ place[After[c]] \in S
  BY <1>2, <1>6, NoSuchCall
<1>8. place[c] \in Nat /\ place[After[c]] \in Nat
  BY <1>6
<1>. QED  BY <1>4, <1>5, <1>7, <1>8

\* The lock of the manager, the locks of the connections and the answers that
\* sends wait for make no knot, wherever connections break and whenever the peer
\* ends or the manager is closed: when nothing can move every call has returned
\* or raised (connection.py:64-147, tcp.py:72-135 and 207-262).  This is what
\* the liveness of RpcChannel asks, without the fairness that brings it about.
THEOREM NoCallHangs == ASSUME TasksBegin PROVE Spec => []NobodyHangs
<1>1. Init => RInv
  BY NoSuchCall DEF Init, None, RInv, HoldersWait, PeerLives, SendsWait, Awaited, Waits
<1>2. IInv /\ IInv' /\ RInv /\ [Next]_vars => RInv'
  BY HoldersStep, LivesStep, SendsStep, AwaitedStep DEF IInv, RInv
<1>3. IInv /\ RInv => NobodyHangs
  BY AllEnded
<1>. QED  BY <1>1, <1>2, <1>3, Invariance, PTL DEF Spec
=============================================================================
