---------------------------- MODULE UdpProxyProofs ----------------------------
(***************************************************************************)
(* Safety of one UDP port, for every number of addresses, tunnels, streams *)
(* and openings of the port.                                               *)
(***************************************************************************)
EXTENDS UdpProxy, TLAPS

(* A loop that starts, waits or ended has no locals.                       *)
LEMMA IdleTyped ==
    ASSUME NEW place \in {"off", "reading", "ended"}
    PROVE  Idle(place) \in LoopState
BY DEF Idle, LoopState, Busy, Stream

(* Closing streams changes their status and nothing else of them.          *)
LEMMA ClosedTyped ==
    ASSUME stream \in [Stream -> StreamState], NEW T
    PROVE  /\ Closed(T) \in [Stream -> StreamState]
           /\ \A t \in Stream : /\ Closed(T)[t].remote = stream[t].remote
                                /\ Closed(T)[t].relay = stream[t].relay
                                /\ Closed(T)[t].status =
                                      IF t \in T THEN "closed"
                                      ELSE stream[t].status
BY DEF Closed, StreamState

(* A loop that handles a datagram moves on, or rests.                      *)
LEMMA LoopTyped ==
    ASSUME TypeOK, NEW g \in Socket,
           \/ \E x \in Remote : Receive(g, x)
           \/ LoopStep(g) /\ ~ InsertIntoNilMap(g)
    PROVE  \E q \in LoopState : loop' = [loop EXCEPT ![g] = q]
<1> USE DEF TypeOK
<1>0. loop[g] \in LoopState OBVIOUS
<1>1. ASSUME NEW x \in Remote, Receive(g, x)
      PROVE  \E q \in LoopState : loop' = [loop EXCEPT ![g] = q]
  <2> DEFINE q == [loop[g] EXCEPT !.at = "looking", !.remote = x]
  <2>1. q \in LoopState BY <1>0 DEF LoopState, Busy
  <2>2. loop' = [loop EXCEPT ![g] = q] BY <1>1 DEF Receive
  <2> QED BY <2>1, <2>2
<1>2. ASSUME NEW place \in {"off", "reading", "ended"}, Rest(g, place)
      PROVE  \E q \in LoopState : loop' = [loop EXCEPT ![g] = q]
  BY <1>2, IdleTyped DEF Rest
<1>3. ASSUME NEW place \in {"opening", "cleaning", "dropping"},
             Goto(g, place), loop[g].at \in Busy
      PROVE  \E q \in LoopState : loop' = [loop EXCEPT ![g] = q]
  <2> DEFINE q == [loop[g] EXCEPT !.at = place]
  <2>1. q \in LoopState BY <1>0, <1>3 DEF LoopState, Busy
  <2>2. loop' = [loop EXCEPT ![g] = q] BY <1>3 DEF Goto
  <2> QED BY <2>1, <2>2
<1>4. ASSUME NEW place \in {"inserting", "writing"}, NEW t \in Stream,
             loop[g].at \in Busy,
             loop' = [loop EXCEPT ![g].at = place, ![g].stream = t]
      PROVE  \E q \in LoopState : loop' = [loop EXCEPT ![g] = q]
  <2> DEFINE q == [loop[g] EXCEPT !.at = place, !.stream = t]
  <2>1. q \in LoopState BY <1>0, <1>4 DEF LoopState, Busy
  <2>2. loop' = [loop EXCEPT ![g] = q] BY <1>4
  <2> QED BY <2>1, <2>2
<1>5. ASSUME loop[g].at \in Busy, Has(loop[g].remote)
      PROVE  table[loop[g].remote] \in Stream
  BY <1>0, <1>5 DEF Has, LoopState, NoStream
<1>6. CASE LoopEnds(g) BY <1>2, <1>6 DEF LoopEnds
<1>7. CASE LookupEntry(g)
  <2>1. CASE entry = NoRelay BY <1>2, <1>7, <2>1 DEF LookupEntry
  <2>2. CASE entry # NoRelay
    <3> DEFINE q == [loop[g] EXCEPT !.at = "finding", !.relay = entry]
    <3>1. q \in LoopState
      BY <1>0, <1>7, <2>2 DEF LookupEntry, At, LoopState, Busy
    <3>2. loop' = [loop EXCEPT ![g] = q] BY <1>7, <2>2 DEF LookupEntry
    <3> QED BY <3>1, <3>2
  <2> QED BY <2>1, <2>2
<1>8. CASE FindSession(g)
  <2>1. loop[g].at \in Busy BY <1>8 DEF FindSession, At, Busy
  <2>2. CASE Has(loop[g].remote)
    BY <1>4, <1>5, <1>8, <2>1, <2>2 DEF FindSession
  <2>3. CASE ~ Has(loop[g].remote) BY <1>3, <1>8, <2>1, <2>3 DEF FindSession
  <2> QED BY <2>2, <2>3
<1>9. CASE OpenStream(g) BY <1>2, <1>4, <1>9 DEF OpenStream, At, Busy
<1>10. CASE UseExisting(g)
  <2>1. loop[g].at \in Busy /\ Has(loop[g].remote)
    BY <1>10 DEF UseExisting, At, Busy
  <2> QED BY <1>4, <1>5, <1>10, <2>1 DEF UseExisting
<1>11. CASE Insert(g)
  <2> DEFINE q == [loop[g] EXCEPT !.at = "writing"]
  <2>1. q \in LoopState BY <1>0, <1>11 DEF Insert, At, LoopState, Busy
  <2>2. loop' = [loop EXCEPT ![g] = q] BY <1>11 DEF Insert, Goto
  <2> QED BY <2>1, <2>2
<1>12. CASE WriteDatagram(g)
  <2>1. loop[g].at \in Busy BY <1>12 DEF WriteDatagram, At, Busy
  <2> QED BY <1>3, <1>12, <2>1 DEF WriteDatagram
<1>13. CASE DropUnwritable(g) BY <1>2, <1>13 DEF DropUnwritable
<1>14. CASE CleanupSessions(g) BY <1>2, <1>14 DEF CleanupSessions
<1> QED BY <1>1, <1>6, <1>7, <1>8, <1>9, <1>10, <1>11, <1>12, <1>13, <1>14
        DEF LoopStep

-----------------------------------------------------------------------------
(* Every step of loops, readers, relay and registry keeps the types. *)
LEMMA TypeInductive == TypeOK /\ [Next]_vars => TypeOK'
<1> SUFFICES ASSUME TypeOK, [Next]_vars PROVE TypeOK'
    OBVIOUS
<1> USE MaxStreamsAssumption, MaxOpensAssumption
        DEF TypeOK, portVars, relayVars, readerVars
<1>1. ASSUME NEW r \in Relay, Register(r) \/ RelayEnds(r) PROVE TypeOK'
  BY <1>1 DEF Register, RelayEnds
<1>2. CASE Unregister BY <1>2 DEF Unregister
<1>3. CASE EnsureListener
  <2>1. opens' \in Socket BY <1>3 DEF EnsureListener, Socket
  <2>2. loop' \in [Socket -> LoopState]
    BY <1>3, <2>1, IdleTyped DEF EnsureListener
  <2>3. opens' \in 0 .. MaxOpens BY <2>1 DEF Socket
  <2> QED BY <1>3, <2>1, <2>2, <2>3 DEF EnsureListener, NoTable
<1>4. CASE RemoveListener
  <2>1. stream' \in [Stream -> StreamState]
    BY <1>4, ClosedTyped DEF RemoveListener
  <2> QED BY <1>4, <2>1 DEF RemoveListener, NoTable
<1>5. ASSUME NEW t \in Stream,
             ReplyWithoutSocket(t) \/ HandlerEnds(t) \/ ReadFails(t)
      PROVE  TypeOK'
  BY <1>5 DEF ReplyWithoutSocket, HandlerEnds, ReadFails
<1>6. ASSUME NEW t \in Stream, CloseStream(t) PROVE TypeOK'
  <2>1. stream' \in [Stream -> StreamState]
    BY <1>6, ClosedTyped DEF CloseStream
  <2> QED BY <1>6, <2>1 DEF CloseStream
<1>7. ASSUME NEW t \in Stream, DropSession(t) PROVE TypeOK'
  BY <1>7 DEF DropSession, Drop
<1>8. ASSUME NEW g \in Socket, InsertIntoNilMap(g) PROVE TypeOK'
  BY <1>8 DEF InsertIntoNilMap
<1>9. ASSUME NEW g \in Socket,
             \/ \E x \in Remote : Receive(g, x)
             \/ LoopStep(g) /\ ~ InsertIntoNilMap(g)
      PROVE  TypeOK'
  <2>1. loop' \in [Socket -> LoopState] BY <1>9, LoopTyped
  <2>2. loop[g] \in LoopState OBVIOUS
  <2>3. CASE OpenStream(g)
    <3>1. stream' \in [Stream -> StreamState]
      BY <2>2, <2>3 DEF OpenStream, LoopState, StreamState
    <3> QED BY <2>1, <2>3, <3>1 DEF OpenStream
  <2>4. CASE UseExisting(g)
    <3>1. stream' \in [Stream -> StreamState]
      BY <2>4, ClosedTyped DEF UseExisting
    <3> QED BY <2>1, <2>4, <3>1 DEF UseExisting
  <2>5. CASE Insert(g)
    <3>1. loop[g].stream \in Stream BY <2>2, <2>5 DEF Insert, At, LoopState
    <3> QED BY <2>1, <2>5, <3>1 DEF Insert
  <2>6. CASE CleanupSessions(g)
    <3>1. stream' \in [Stream -> StreamState]
      BY <2>6, ClosedTyped DEF CleanupSessions
    <3> QED BY <2>1, <2>6, <3>1 DEF CleanupSessions
  <2>7. CASE LoopEnds(g) \/ LookupEntry(g) \/ FindSession(g)
             \/ \E x \in Remote : Receive(g, x)
    BY <2>1, <2>7 DEF LoopEnds, LookupEntry, FindSession, Receive
  <2>8. CASE WriteDatagram(g) BY <2>1, <2>8 DEF WriteDatagram
  <2>9. CASE DropUnwritable(g) BY <2>1, <2>9 DEF DropUnwritable, Drop
  <2> QED BY <1>9, <2>3, <2>4, <2>5, <2>6, <2>7, <2>8, <2>9 DEF LoopStep
<1>10. CASE UNCHANGED vars BY <1>10 DEF vars
<1> QED BY <1>1, <1>2, <1>3, <1>4, <1>5, <1>6, <1>7, <1>8, <1>9, <1>10
        DEF Next, PeerStep, ReaderStep, LoopStep

(* The state always has the shape the code gives it: a loop in the middle  *)
(* of a datagram knows its address, and its stream when it inserts or      *)
(* writes, whatever other loops and readers did to the table (udp.go:130). *)
THEOREM UdpTypeCorrect == Spec => []TypeOK
<1>1. Init => TypeOK
  <2> SUFFICES ASSUME Init PROVE TypeOK
      OBVIOUS
  <2>1. loop \in [Socket -> LoopState] BY IdleTyped DEF Init
  <2>2. stream \in [Stream -> StreamState] BY DEF Init, StreamState
  <2>3. table \in [Remote -> Stream \cup {NoStream}] BY DEF Init, NoTable
  <2>4. opens \in 0 .. MaxOpens BY MaxOpensAssumption DEF Init
  <2> QED BY <2>1, <2>2, <2>3, <2>4 DEF Init, TypeOK
<1> QED BY <1>1, TypeInductive, PTL DEF Spec

-----------------------------------------------------------------------------
(* A socket to come has no loop yet, and a stream that is about to be put  *)
(* into the table belongs to one loop, is its address's, and has no reader.*)
LoopInv ==
    /\ \A g \in Socket : g > opens => loop[g].at = "off"
    /\ \A g \in Socket : loop[g].at = "inserting" =>
          /\ stream[loop[g].stream].status # "unused"
          /\ stream[loop[g].stream].remote = loop[g].remote
          /\ reader[loop[g].stream] = "none"
    /\ \A g, h \in Socket :
          /\ loop[g].at = "inserting" /\ loop[h].at = "inserting"
          /\ loop[g].stream = loop[h].stream
          => g = h
    /\ \A t \in Stream : stream[t].status = "unused" => reader[t] = "none"

(* Steps that open no stream may close some, and keep what they are for.   *)
NoneOpened == UNCHANGED stream \/ \E T : stream' = Closed(T)

(* A stream that is not opened by a step may only be closed by it. *)
LEMMA StreamsKept ==
    ASSUME TypeOK, NoneOpened
    PROVE  \A t \in Stream :
               /\ stream'[t].remote = stream[t].remote
               /\ stream'[t].relay = stream[t].relay
               /\ stream'[t].status \in {stream[t].status, "closed"}
BY ClosedTyped DEF NoneOpened, TypeOK

(* Steps that open no stream and hand none on.                             *)
LEMMA LoopKept ==
    ASSUME TypeOK, TypeOK', LoopInv, NoneOpened,
           opens' = opens \/ opens' = opens + 1,
           \A t \in Stream : reader[t] = "none" => reader'[t] = "none",
           \A g \in Socket :
               \/ loop'[g] = loop[g]
               \/ loop'[g].at # "inserting" /\ g <= opens'
    PROVE  LoopInv'
<1> USE MaxOpensAssumption DEF Socket
<1>1. ASSUME NEW g \in Socket, g > opens' PROVE loop'[g].at = "off"
  BY <1>1 DEF LoopInv, TypeOK
<1>2. ASSUME NEW g \in Socket, loop'[g].at = "inserting"
      PROVE  loop'[g] = loop[g] /\ loop[g].stream \in Stream
  BY <1>2 DEF TypeOK, LoopState
<1>3. ASSUME NEW t \in Stream, stream'[t].status = "unused"
      PROVE  reader'[t] = "none"
  BY <1>3, StreamsKept DEF LoopInv
<1> QED BY <1>1, <1>2, <1>3, StreamsKept DEF LoopInv

(* What a loop holds between its steps stays its own. *)
LEMMA LoopInductive == TypeOK /\ LoopInv /\ [Next]_vars => LoopInv'
<1> SUFFICES ASSUME TypeOK, LoopInv, [Next]_vars PROVE LoopInv'
    OBVIOUS
<1>0. TypeOK' BY TypeInductive
<1> USE DEF portVars, relayVars, readerVars
<1>1. ASSUME NEW r \in Relay, Register(r) \/ RelayEnds(r) PROVE LoopInv'
  BY <1>1 DEF Register, RelayEnds, LoopInv
<1>2. CASE Unregister BY <1>2 DEF Unregister, LoopInv
<1>3. CASE EnsureListener
  <2>1. loop' = [loop EXCEPT ![opens'] = Idle("reading")]
        /\ opens' = opens + 1 /\ UNCHANGED <<stream, reader>>
    BY <1>3 DEF EnsureListener
  <2>2. opens' \in Nat BY <1>0 DEF TypeOK
  <2>3. \A g \in Socket : \/ loop'[g] = loop[g]
                          \/ loop'[g].at # "inserting" /\ g <= opens'
    BY <2>1, <2>2 DEF TypeOK, Idle
  <2> QED BY <1>0, <2>1, <2>3, LoopKept DEF NoneOpened
<1>4. CASE RemoveListener
  <2>1. NoneOpened /\ UNCHANGED <<opens, loop, reader>>
    BY <1>4 DEF RemoveListener, NoneOpened
  <2> QED BY <1>0, <2>1, LoopKept
<1>5. ASSUME NEW t \in Stream,
             \/ ReplyWithoutSocket(t) \/ HandlerEnds(t) \/ ReadFails(t)
             \/ DropSession(t)
      PROVE  LoopInv'
  <2>1. UNCHANGED <<opens, loop, stream>>
    BY <1>5 DEF ReplyWithoutSocket, HandlerEnds, ReadFails, DropSession
  <2>2. \A u \in Stream : reader[u] = "none" => reader'[u] = "none"
    BY <1>5 DEF ReplyWithoutSocket, HandlerEnds, ReadFails, DropSession,
                ReaderAt, TypeOK
  <2> QED BY <1>0, <2>1, <2>2, LoopKept DEF NoneOpened
<1>6. ASSUME NEW t \in Stream, CloseStream(t) PROVE LoopInv'
  <2>1. NoneOpened /\ UNCHANGED <<opens, loop>>
    BY <1>6 DEF CloseStream, NoneOpened
  <2>2. \A u \in Stream : reader[u] = "none" => reader'[u] = "none"
    BY <1>6 DEF CloseStream, ReaderAt, TypeOK
  <2> QED BY <1>0, <2>1, <2>2, LoopKept
<1>7. ASSUME NEW g \in Socket,
             \/ \E x \in Remote : Receive(g, x)
             \/ LoopStep(g)
      PROVE  LoopInv'
  <2>1. loop[g].at # "off" => g <= opens
    BY MaxOpensAssumption DEF LoopInv, TypeOK, Socket
  <2>2. ASSUME UNCHANGED <<opens, reader>>, NoneOpened,
               loop[g].at # "off", loop'[g].at # "inserting",
               NEW q \in LoopState, loop' = [loop EXCEPT ![g] = q]
        PROVE  LoopInv'
    <3>1. \A h \in Socket : h # g => loop'[h] = loop[h]
      BY <2>2 DEF TypeOK
    <3> QED BY <1>0, <2>1, <2>2, <3>1, LoopKept
  <2>3. CASE \/ LoopEnds(g) \/ LookupEntry(g) \/ FindSession(g)
             \/ WriteDatagram(g) \/ DropUnwritable(g)
             \/ \E x \in Remote : Receive(g, x)
    <3>1. UNCHANGED <<opens, reader, stream>> /\ loop[g].at # "off"
      BY <2>3 DEF LoopEnds, LookupEntry, FindSession, WriteDatagram,
                  DropUnwritable, Receive, At
    <3>2. loop'[g].at # "inserting"
      BY <2>3 DEF LoopEnds, LookupEntry, FindSession, WriteDatagram,
                  DropUnwritable, Receive, Rest, Goto, Idle, TypeOK, LoopState
    <3>3. ~ InsertIntoNilMap(g)
      BY <2>3 DEF InsertIntoNilMap, LoopEnds, LookupEntry, FindSession,
                  WriteDatagram, DropUnwritable, Receive, At
    <3>4. PICK q \in LoopState : loop' = [loop EXCEPT ![g] = q]
      BY <1>7, <3>3, LoopTyped
    <3> QED BY <2>2, <3>1, <3>2, <3>4 DEF NoneOpened
  <2>4. CASE CleanupSessions(g)
    <3>1. loop' = [loop EXCEPT ![g] = Idle("reading")] /\ loop[g].at # "off"
      BY <2>4 DEF CleanupSessions, Rest, At
    <3>2. NoneOpened /\ UNCHANGED <<opens, reader>>
      BY <2>4 DEF CleanupSessions, NoneOpened
    <3>3. loop'[g].at # "inserting" BY <3>1 DEF Idle, TypeOK
    <3> QED BY <2>2, <3>1, <3>2, <3>3, IdleTyped
  <2>5. CASE UseExisting(g)
    <3>1. NoneOpened /\ UNCHANGED <<opens, reader>> /\ loop[g].at # "off"
      BY <2>5 DEF UseExisting, At, NoneOpened
    <3>2. loop'[g].at # "inserting" BY <2>5 DEF UseExisting, TypeOK, LoopState
    <3>3. ~ InsertIntoNilMap(g)
      BY <2>5 DEF InsertIntoNilMap, UseExisting, Has
    <3>4. PICK q \in LoopState : loop' = [loop EXCEPT ![g] = q]
      BY <2>5, <3>3, LoopTyped DEF LoopStep
    <3> QED BY <2>2, <3>1, <3>2, <3>4
  <2>6. CASE InsertIntoNilMap(g) BY <2>6 DEF InsertIntoNilMap, LoopInv
  <2>7. CASE Insert(g)
    <3>1. loop'[g].at = "writing"
          /\ \A h \in Socket : h # g => loop'[h] = loop[h]
      BY <2>7 DEF Insert, Goto, TypeOK, LoopState
    <3>2. loop[g].stream \in Stream /\ loop[g].at = "inserting"
      BY <2>7 DEF Insert, At, TypeOK, LoopState
    <3>3. UNCHANGED <<opens, stream>>
          /\ reader' = [reader EXCEPT ![loop[g].stream] = "reading"]
      BY <2>7 DEF Insert
    <3>4. ASSUME NEW h \in Socket, loop'[h].at = "inserting"
          PROVE  /\ loop'[h] = loop[h] /\ loop[h].stream \in Stream
                 /\ loop[h].stream # loop[g].stream
      <4>1. h # g BY <3>1, <3>4
      <4> QED BY <3>1, <3>2, <3>4, <4>1 DEF LoopInv, TypeOK, LoopState
    <3> QED BY <2>1, <3>1, <3>2, <3>3, <3>4 DEF LoopInv, TypeOK, Socket
  <2>8. CASE OpenStream(g)
    <3>1. CASE Rest(g, "reading") /\ UNCHANGED stream
      <4>1. loop' = [loop EXCEPT ![g] = Idle("reading")]
            /\ loop[g].at # "off" /\ UNCHANGED <<opens, reader>>
        BY <2>8, <3>1 DEF OpenStream, Rest, At
      <4>2. loop'[g].at # "inserting" BY <4>1 DEF Idle, TypeOK
      <4> QED BY <2>2, <3>1, <4>1, <4>2, IdleTyped DEF NoneOpened
    <3>2. ASSUME NEW t \in Stream, stream[t].status = "unused",
                 stream' = [stream EXCEPT ![t] =
                     [status |-> "open", remote |-> loop[g].remote,
                      relay |-> loop[g].relay]],
                 loop' = [loop EXCEPT ![g].at = "inserting",
                                      ![g].stream = t]
          PROVE  LoopInv'
      <4>1. UNCHANGED <<opens, reader>> /\ g <= opens
        BY <2>1, <2>8 DEF OpenStream, At
      <4>2. /\ loop'[g].at = "inserting" /\ loop'[g].stream = t
            /\ loop'[g].remote = loop[g].remote
            /\ \A h \in Socket : h # g => loop'[h] = loop[h]
        BY <3>2 DEF TypeOK, LoopState
      <4>3. /\ stream'[t].status = "open"
            /\ stream'[t].remote = loop[g].remote
            /\ \A u \in Stream : u # t => stream'[u] = stream[u]
        BY <3>2 DEF TypeOK, StreamState
      <4>4. ASSUME NEW h \in Socket, h # g, loop[h].at = "inserting"
            PROVE  loop[h].stream \in Stream /\ loop[h].stream # t
        BY <3>2, <4>4 DEF LoopInv, TypeOK, LoopState
      <4>5. reader[t] = "none" BY <3>2 DEF LoopInv
      <4> QED BY <4>1, <4>2, <4>3, <4>4, <4>5 DEF LoopInv, TypeOK, Socket
    <3> QED BY <2>8, <3>1, <3>2 DEF OpenStream
  <2> QED BY <1>7, <2>3, <2>4, <2>5, <2>6, <2>7, <2>8 DEF LoopStep
<1>8. CASE UNCHANGED vars BY <1>8 DEF vars, LoopInv
<1> QED BY <1>1, <1>2, <1>3, <1>4, <1>5, <1>6, <1>7, <1>8
        DEF Next, PeerStep, ReaderStep

-----------------------------------------------------------------------------
(* Only the loop that reads the open socket could leave it unread, and it  *)
(* ends when the socket is closed only (udp.go:79).                        *)
LEMMA OpenPortInductive ==
    TypeOK /\ OpenPortIsRead /\ [Next]_vars => OpenPortIsRead'
<1> SUFFICES ASSUME TypeOK, OpenPortIsRead, [Next]_vars
    PROVE OpenPortIsRead'
    OBVIOUS
<1> USE DEF OpenPortIsRead, portVars, relayVars, readerVars
<1>1. ASSUME UNCHANGED <<conn, mapped, loop>> PROVE OpenPortIsRead'
  BY <1>1
<1>2. CASE \E r \in Relay : Register(r) \/ RelayEnds(r)
  BY <1>1, <1>2 DEF Register, RelayEnds
<1>3. CASE Unregister BY <1>1, <1>3 DEF Unregister
<1>4. CASE EnsureListener
  <2>1. conn' = opens' /\ mapped'
        /\ loop' = [loop EXCEPT ![opens'] = Idle("reading")]
    BY <1>4 DEF EnsureListener
  <2>2. opens' \in Socket
    BY <1>4, MaxOpensAssumption DEF EnsureListener, Socket, TypeOK
  <2>3. loop'[conn'].at = "reading" BY <2>1, <2>2 DEF TypeOK, Idle
  <2> QED BY <2>1, <2>3
<1>5. CASE RemoveListener BY <1>5 DEF RemoveListener
<1>6. CASE \E t \in Stream : ReplyWithoutSocket(t) \/ ReaderStep(t)
  BY <1>1, <1>6 DEF ReplyWithoutSocket, ReaderStep, HandlerEnds, ReadFails,
                    CloseStream, DropSession
<1>7. ASSUME NEW g \in Socket,
             \/ \E x \in Remote : Receive(g, x)
             \/ LoopStep(g)
      PROVE  OpenPortIsRead'
  <2> USE DEF At, TypeOK, LoopState
  <2>1. ASSUME UNCHANGED <<conn, mapped>>, NEW q \in LoopState,
               loop' = [loop EXCEPT ![g] = q],
               conn = g => q.at \notin {"off", "ended"}
        PROVE  OpenPortIsRead'
    BY <2>1
  <2>2. ASSUME UNCHANGED <<conn, mapped>>, Rest(g, "reading")
        PROVE  OpenPortIsRead'
    <3>1. Idle("reading").at = "reading" BY DEF Idle
    <3> QED BY <2>1, <2>2, <3>1, IdleTyped DEF Rest
  <2>3. CASE LoopEnds(g)
    <3>1. conn # g /\ UNCHANGED <<conn, mapped>>
          /\ loop' = [loop EXCEPT ![g] = Idle("ended")]
      BY <2>3 DEF LoopEnds, Rest
    <3> QED BY <2>1, <3>1, IdleTyped
  <2>4. CASE InsertIntoNilMap(g) BY <1>1, <2>4 DEF InsertIntoNilMap
  <2>5. CASE DropUnwritable(g) BY <2>2, <2>5 DEF DropUnwritable
  <2>6. CASE CleanupSessions(g) BY <2>2, <2>6 DEF CleanupSessions
  <2>7. CASE LookupEntry(g)
    <3>1. CASE entry = NoRelay BY <2>2, <2>7, <3>1 DEF LookupEntry
    <3>2. CASE entry # NoRelay BY <2>7, <3>2 DEF LookupEntry
    <3> QED BY <3>1, <3>2
  <2>8. CASE OpenStream(g)
    <3>1. CASE Rest(g, "reading") BY <2>2, <2>8, <3>1 DEF OpenStream
    <3>2. CASE ~ Rest(g, "reading") BY <2>8, <3>2 DEF OpenStream
    <3> QED BY <3>1, <3>2
  <2>9. CASE FindSession(g) BY <2>9 DEF FindSession, Goto
  <2>10. CASE UseExisting(g) \/ Insert(g) \/ WriteDatagram(g)
              \/ \E x \in Remote : Receive(g, x)
    BY <2>10 DEF UseExisting, Insert, WriteDatagram, Receive, Goto
  <2> QED BY <1>7, <2>3, <2>4, <2>5, <2>6, <2>7, <2>8, <2>9, <2>10
          DEF LoopStep
<1>8. CASE UNCHANGED vars BY <1>1, <1>8 DEF vars
<1> QED BY <1>2, <1>3, <1>4, <1>5, <1>6, <1>7, <1>8 DEF Next, PeerStep

-----------------------------------------------------------------------------
(* Steps that put no session into the table keep the sessions in it read.  *)
LEMMA MappedKept ==
    ASSUME TypeOK, TypeOK', MappedSessionHasReader, NoneOpened,
           \A x \in Remote : table'[x] \in {table[x], NoStream},
           mapped' = mapped \/ table' = NoTable,
           NEW d \in Stream \cup {NoStream},
           d \in Stream => table'[stream[d].remote] = NoStream,
           \A t \in Stream \ {d} :
               \/ reader'[t] = reader[t]
               \/ reader'[t] \in {"closing", "dropping"}
    PROVE  MappedSessionHasReader'
<1> SUFFICES ASSUME NEW x \in Remote, table'[x] # NoStream
             PROVE  /\ mapped'
                    /\ stream'[table'[x]].remote = x
                    /\ reader'[table'[x]] \in {"reading", "closing", "dropping"}
    BY DEF MappedSessionHasReader
<1>1. table'[x] = table[x] /\ table[x] \in Stream BY DEF TypeOK
<1>2. mapped /\ stream[table[x]].remote = x
      /\ reader[table[x]] \in {"reading", "closing", "dropping"}
  BY <1>1 DEF MappedSessionHasReader
<1>3. mapped' BY <1>2 DEF NoTable
<1>4. table[x] # d BY <1>1, <1>2
<1> QED BY <1>1, <1>2, <1>3, <1>4, StreamsKept

(* A stream in the table keeps its reader. *)
LEMMA MappedInductive ==
    TypeOK /\ LoopInv /\ MappedSessionHasReader /\ [Next]_vars
        => MappedSessionHasReader'
<1> SUFFICES ASSUME TypeOK, LoopInv, MappedSessionHasReader, [Next]_vars
    PROVE MappedSessionHasReader'
    OBVIOUS
<1>0. TypeOK' BY TypeInductive
<1>a. NoStream \notin Stream BY DEF NoStream, Stream
<1> USE DEF portVars, relayVars, readerVars
<1>1. ASSUME UNCHANGED <<mapped, reader>>, NoneOpened,
             \A x \in Remote : table'[x] \in {table[x], NoStream}
      PROVE  MappedSessionHasReader'
  BY <1>0, <1>1, <1>a, MappedKept
<1>2. ASSUME UNCHANGED <<mapped, reader, stream, table>>
      PROVE  MappedSessionHasReader'
  BY <1>2 DEF MappedSessionHasReader
<1>3. CASE \E r \in Relay : Register(r) \/ RelayEnds(r)
  BY <1>2, <1>3 DEF Register, RelayEnds
<1>4. CASE Unregister BY <1>2, <1>4 DEF Unregister
<1>5. CASE EnsureListener
  BY <1>5 DEF EnsureListener, NoTable, MappedSessionHasReader
<1>6. CASE RemoveListener
  BY <1>6 DEF RemoveListener, NoTable, MappedSessionHasReader
<1>7. ASSUME NEW t \in Stream,
             \/ ReplyWithoutSocket(t) \/ HandlerEnds(t) \/ ReadFails(t)
             \/ CloseStream(t)
      PROVE  MappedSessionHasReader'
  <2>1. NoneOpened /\ UNCHANGED <<mapped, table>>
    BY <1>7 DEF ReplyWithoutSocket, HandlerEnds, ReadFails, CloseStream,
                NoneOpened
  <2>2. \A u \in Stream : \/ reader'[u] = reader[u]
                          \/ reader'[u] \in {"closing", "dropping"}
    BY <1>7 DEF ReplyWithoutSocket, HandlerEnds, ReadFails, CloseStream,
                TypeOK
  <2> QED BY <1>0, <1>a, <2>1, <2>2, MappedKept
<1>8. ASSUME NEW t \in Stream, DropSession(t) PROVE MappedSessionHasReader'
  <2>1. /\ UNCHANGED <<mapped, stream>>
        /\ table' = [table EXCEPT ![stream[t].remote] = NoStream]
        /\ reader' = [reader EXCEPT ![t] = "gone"]
    BY <1>8 DEF DropSession, Drop
  <2>2. ASSUME NEW x \in Remote, table'[x] # NoStream
        PROVE  table'[x] = table[x] /\ table[x] \in Stream /\ table[x] # t
    BY <2>1, <2>2 DEF TypeOK, MappedSessionHasReader
  <2> QED BY <2>1, <2>2 DEF MappedSessionHasReader, TypeOK
<1>9. ASSUME NEW g \in Socket,
             \/ \E x \in Remote : Receive(g, x)
             \/ LoopStep(g)
      PROVE  MappedSessionHasReader'
  <2>1. CASE \/ LoopEnds(g) \/ LookupEntry(g) \/ FindSession(g)
             \/ WriteDatagram(g) \/ InsertIntoNilMap(g)
             \/ \E x \in Remote : Receive(g, x)
    BY <1>2, <2>1 DEF LoopEnds, LookupEntry, FindSession, WriteDatagram,
                      InsertIntoNilMap, Receive
  <2>2. CASE UseExisting(g)
    BY <1>1, <2>2 DEF UseExisting, NoneOpened
  <2>3. CASE DropUnwritable(g)
    BY <1>1, <2>3 DEF DropUnwritable, Drop, NoneOpened, TypeOK
  <2>4. CASE CleanupSessions(g)
    <3>1. NoneOpened /\ UNCHANGED <<mapped, reader>>
      BY <2>4 DEF CleanupSessions, NoneOpened
    <3>2. \A x \in Remote : table'[x] \in {table[x], NoStream}
      BY <2>4 DEF CleanupSessions
    <3> QED BY <1>1, <3>1, <3>2
  <2>5. CASE OpenStream(g)
    <3>1. UNCHANGED <<mapped, reader, table>> BY <2>5 DEF OpenStream
    <3>2. ASSUME NEW t \in Stream, stream[t].status # "unused"
          PROVE  stream'[t] = stream[t]
      BY <2>5, <3>2 DEF OpenStream, TypeOK
    <3>3. ASSUME NEW x \in Remote, table[x] # NoStream
          PROVE  table[x] \in Stream /\ stream[table[x]].status # "unused"
      BY <3>3 DEF TypeOK, LoopInv, MappedSessionHasReader
    <3> QED BY <3>1, <3>2, <3>3 DEF MappedSessionHasReader
  <2>6. CASE Insert(g)
    <3> DEFINE t == loop[g].stream
               y == loop[g].remote
    <3>1. mapped /\ UNCHANGED <<mapped, stream>>
          /\ table' = [table EXCEPT ![y] = t]
          /\ reader' = [reader EXCEPT ![t] = "reading"]
          /\ loop[g].at = "inserting"
      BY <2>6 DEF Insert, At
    <3>2. t \in Stream /\ y \in Remote /\ stream[t].remote = y
      BY <3>1 DEF TypeOK, LoopState, LoopInv, Busy
    <3> HIDE DEF t, y
    <3>3. ASSUME NEW x \in Remote, table'[x] # NoStream
          PROVE  /\ stream[table'[x]].remote = x
                 /\ reader'[table'[x]] \in {"reading", "closing", "dropping"}
      <4>1. CASE x = y BY <3>1, <3>2, <4>1 DEF TypeOK
      <4>2. CASE x # y
        BY <3>1, <3>2, <3>3, <4>2 DEF TypeOK, MappedSessionHasReader
      <4> QED BY <4>1, <4>2
    <3> QED BY <3>1, <3>3 DEF MappedSessionHasReader
  <2> QED BY <1>9, <2>1, <2>2, <2>3, <2>4, <2>5, <2>6 DEF LoopStep
<1>10. CASE UNCHANGED vars BY <1>2, <1>10 DEF vars
<1> QED BY <1>3, <1>4, <1>5, <1>6, <1>7, <1>8, <1>9, <1>10
        DEF Next, PeerStep, ReaderStep

-----------------------------------------------------------------------------
(* Who owns a stream keeps it, but for the one that is closed.             *)
LEMMA OwnerKept ==
    ASSUME TypeOK, TypeOK', OpenStreamHasOwner, NoneOpened,
           \A t \in Stream : stream'[t].status = "open" =>
               (reader[t] \in {"reading", "closing"} =>
                   reader'[t] \in {"reading", "closing"}),
           \A g \in Socket : \/ loop'[g] = loop[g]
                             \/ loop[g].at # "inserting"
    PROVE  OpenStreamHasOwner'
<1> SUFFICES ASSUME NEW t \in Stream, stream'[t].status = "open"
             PROVE  \/ reader'[t] \in {"reading", "closing"}
                    \/ \E g \in Socket : loop'[g].at = "inserting"
                                        /\ loop'[g].stream = t
    BY DEF OpenStreamHasOwner
<1>1. stream[t].status = "open" BY StreamsKept
<1> QED BY <1>1 DEF OpenStreamHasOwner

(* An open stream keeps somebody who will close it. *)
LEMMA OwnerInductive ==
    TypeOK /\ LoopInv /\ OpenStreamHasOwner /\ [Next]_vars
        => OpenStreamHasOwner'
<1> SUFFICES ASSUME TypeOK, LoopInv, OpenStreamHasOwner, [Next]_vars
    PROVE OpenStreamHasOwner'
    OBVIOUS
<1>0. TypeOK' BY TypeInductive
<1> USE DEF portVars, relayVars, readerVars
<1>1. ASSUME UNCHANGED <<stream, reader, loop>> PROVE OpenStreamHasOwner'
  BY <1>1 DEF OpenStreamHasOwner
<1>2. CASE \E r \in Relay : Register(r) \/ RelayEnds(r)
  BY <1>1, <1>2 DEF Register, RelayEnds
<1>3. CASE Unregister BY <1>1, <1>3 DEF Unregister
<1>4. CASE EnsureListener
  <2>1. /\ loop' = [loop EXCEPT ![opens'] = Idle("reading")]
        /\ opens' = opens + 1 /\ UNCHANGED <<stream, reader>>
    BY <1>4 DEF EnsureListener
  <2>2. \A g \in Socket : loop'[g] = loop[g] \/ loop[g].at # "inserting"
    BY <2>1, MaxOpensAssumption DEF TypeOK, LoopInv, Socket
  <2> QED BY <1>0, <2>1, <2>2, OwnerKept DEF NoneOpened
<1>5. CASE RemoveListener
  <2>1. NoneOpened /\ UNCHANGED <<loop, reader>>
    BY <1>5 DEF RemoveListener, NoneOpened
  <2> QED BY <1>0, <2>1, OwnerKept
<1>6. ASSUME NEW t \in Stream,
             \/ ReplyWithoutSocket(t) \/ HandlerEnds(t) \/ ReadFails(t)
             \/ DropSession(t)
      PROVE  OpenStreamHasOwner'
  <2>1. UNCHANGED <<stream, loop>>
    BY <1>6 DEF ReplyWithoutSocket, HandlerEnds, ReadFails, DropSession
  <2>2. \A u \in Stream : reader[u] \in {"reading", "closing"} =>
                           reader'[u] \in {"reading", "closing"}
    BY <1>6 DEF ReplyWithoutSocket, HandlerEnds, ReadFails, DropSession,
                ReaderAt, TypeOK
  <2> QED BY <1>0, <2>1, <2>2, OwnerKept DEF NoneOpened
<1>7. ASSUME NEW t \in Stream, CloseStream(t) PROVE OpenStreamHasOwner'
  <2>1. stream' = Closed({t}) /\ UNCHANGED loop
        /\ reader' = [reader EXCEPT ![t] = "dropping"]
    BY <1>7 DEF CloseStream
  <2>2. stream'[t].status = "closed" BY <2>1, ClosedTyped DEF TypeOK
  <2> QED BY <1>0, <2>1, <2>2, OwnerKept DEF NoneOpened, TypeOK
<1>8. ASSUME NEW g \in Socket,
             \/ \E x \in Remote : Receive(g, x)
             \/ LoopStep(g)
      PROVE  OpenStreamHasOwner'
  <2>1. ASSUME UNCHANGED reader, NoneOpened, loop[g].at # "inserting",
               NEW q \in LoopState, loop' = [loop EXCEPT ![g] = q]
        PROVE  OpenStreamHasOwner'
    BY <1>0, <2>1, OwnerKept DEF TypeOK
  <2>2. CASE \/ LoopEnds(g) \/ LookupEntry(g) \/ FindSession(g)
             \/ WriteDatagram(g) \/ DropUnwritable(g) \/ CleanupSessions(g)
             \/ \E x \in Remote : Receive(g, x)
    <3>1. UNCHANGED reader /\ NoneOpened /\ loop[g].at # "inserting"
      BY <2>2 DEF LoopEnds, LookupEntry, FindSession, WriteDatagram,
                  DropUnwritable, CleanupSessions, Receive, At, NoneOpened
    <3>2. ~ InsertIntoNilMap(g) BY <3>1 DEF InsertIntoNilMap, At
    <3>3. PICK q \in LoopState : loop' = [loop EXCEPT ![g] = q]
      BY <1>8, <3>2, LoopTyped
    <3> QED BY <2>1, <3>1, <3>3
  <2>3. CASE InsertIntoNilMap(g) BY <1>1, <2>3 DEF InsertIntoNilMap
  <2>4. CASE UseExisting(g) \/ Insert(g)
    <3> DEFINE t == loop[g].stream
    <3>1. t \in Stream
      BY <2>4 DEF UseExisting, Insert, At, TypeOK, LoopState
    <3>2. \/ stream' = Closed({t}) /\ UNCHANGED reader
          \/ UNCHANGED stream /\ reader' = [reader EXCEPT ![t] = "reading"]
      BY <2>4 DEF UseExisting, Insert
    <3>3. NoneOpened BY <3>2 DEF NoneOpened
    <3>4. \A h \in Socket : h # g => loop'[h] = loop[h]
      BY <2>4 DEF UseExisting, Insert, Goto, TypeOK
    <3> SUFFICES ASSUME NEW u \in Stream, stream'[u].status = "open"
                 PROVE  \/ reader'[u] \in {"reading", "closing"}
                        \/ \E h \in Socket : loop'[h].at = "inserting"
                                            /\ loop'[h].stream = u
      BY DEF OpenStreamHasOwner
    <3> HIDE DEF t
    <3>5. stream[u].status = "open" BY <3>3, StreamsKept
    <3>6. CASE u = t
      <4>1. stream' # Closed({t}) BY <3>6, ClosedTyped DEF TypeOK
      <4> QED BY <3>1, <3>2, <3>6, <4>1 DEF TypeOK
    <3>7. CASE u # t
      <4>1. reader'[u] = reader[u] BY <3>1, <3>2, <3>7 DEF TypeOK
      <4> QED BY <3>4, <3>5, <3>7, <4>1 DEF OpenStreamHasOwner, t
    <3> QED BY <3>6, <3>7
  <2>5. CASE OpenStream(g)
    <3>1. CASE Rest(g, "reading") /\ UNCHANGED stream
      <4>1. UNCHANGED reader /\ loop[g].at # "inserting"
            /\ loop' = [loop EXCEPT ![g] = Idle("reading")]
        BY <2>5, <3>1 DEF OpenStream, Rest, At
      <4> QED BY <2>1, <3>1, <4>1, IdleTyped DEF NoneOpened
    <3>2. ASSUME NEW t \in Stream, NEW s,
                 stream' = [stream EXCEPT ![t] = s],
                 loop' = [loop EXCEPT ![g].at = "inserting",
                                      ![g].stream = t]
          PROVE  OpenStreamHasOwner'
      <4>1. UNCHANGED reader /\ loop[g].at # "inserting"
        BY <2>5 DEF OpenStream, At
      <4>2. /\ loop'[g].at = "inserting" /\ loop'[g].stream = t
            /\ \A h \in Socket : h # g => loop'[h] = loop[h]
        BY <3>2 DEF TypeOK, LoopState
      <4>3. \A u \in Stream : u # t => stream'[u] = stream[u]
        BY <3>2 DEF TypeOK
      <4> QED BY <4>1, <4>2, <4>3 DEF OpenStreamHasOwner
    <3> QED BY <2>5, <3>1, <3>2 DEF OpenStream
  <2> QED BY <1>8, <2>2, <2>3, <2>4, <2>5 DEF LoopStep
<1>9. CASE UNCHANGED vars BY <1>1, <1>9 DEF vars
<1> QED BY <1>2, <1>3, <1>4, <1>5, <1>6, <1>7, <1>8, <1>9
        DEF Next, PeerStep, ReaderStep

-----------------------------------------------------------------------------
(* Together they hold at the start, and every step keeps them.             *)
UdpInv ==
    /\ TypeOK
    /\ LoopInv
    /\ OpenPortIsRead
    /\ MappedSessionHasReader
    /\ OpenStreamHasOwner

(* The conjunction every theorem below is read off. *)
LEMMA UdpInductive == Spec => []UdpInv
<1>1. Init => LoopInv /\ OpenPortIsRead
  BY DEF Init, LoopInv, OpenPortIsRead, Idle
<1>2. Init => MappedSessionHasReader /\ OpenStreamHasOwner
  BY DEF Init, MappedSessionHasReader, OpenStreamHasOwner, NoTable
<1>3. UdpInv /\ [Next]_vars => UdpInv'
  BY TypeInductive, LoopInductive, OpenPortInductive, MappedInductive,
     OwnerInductive DEF UdpInv
<1>4. []TypeOK /\ Init => UdpInv BY <1>1, <1>2, PTL DEF UdpInv
<1> QED BY <1>3, <1>4, UdpTypeCorrect, PTL DEF Spec

(* However opening and closing the port races with loops in the middle of  *)
(* a datagram, the open socket is read by the loop that EnsureListener     *)
(* started for it, and its table of sessions is there (udp.go:58, 79).     *)
THEOREM UdpPortIsRead == Spec => []OpenPortIsRead
BY UdpInductive, PTL DEF UdpInv

(* Every session in the table is its address's and has a reader that will  *)
(* drop it, whichever of loops, readers, clean-up and port closing came    *)
(* first (udp.go:137-192).                                                 *)
THEOREM UdpSessionIsDropped == Spec => []MappedSessionHasReader
BY UdpInductive, PTL DEF UdpInv

(* No stream leaks: an open one has a reader that will close it, or the    *)
(* loop that opened it and has not handed it on (udp.go:137-150).          *)
THEOREM UdpStreamIsOwned == Spec => []OpenStreamHasOwner
BY UdpInductive, PTL DEF UdpInv

=============================================================================
