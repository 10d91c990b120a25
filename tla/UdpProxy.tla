------------------------------- MODULE UdpProxy -------------------------------
(***************************************************************************)
(* The UDP side of the relay server for one external port                  *)
(* (server/internal/relayserver/udp.go).  Three kinds of goroutines meet   *)
(* here: the handlers that open and close the port, one read loop per      *)
(* socket the port ever had, and one reader of replies per stream.  They   *)
(* share the port's socket and its table of sessions under p.mu, which is  *)
(* held for one action at a time; everything between two actions of a      *)
(* goroutine is a place where the others run.                              *)
(*                                                                         *)
(* The other end of each stream is the CLI's HandleUDPStream               *)
(* (cli/internal/relayclient/udp.go), which answers one datagram.          *)
(*                                                                         *)
(* Ports share nothing but lastClean, the time of the last clean-up; here  *)
(* a clean-up may or may not be due whenever a datagram was forwarded.     *)
(***************************************************************************)
EXTENDS Naturals

CONSTANTS
    Remote,      \* addresses that send datagrams to the port
    NoRemote,
    Relay,       \* relay sessions of tunnels that registered the port
    NoRelay,
    MaxStreams,  \* bound: yamux streams opened for the port
    MaxOpens     \* bound: how often the port is opened

ASSUME NoRemoteAssumption == NoRemote \notin Remote
ASSUME NoRelayAssumption == NoRelay \notin Relay
ASSUME MaxStreamsAssumption == MaxStreams \in Nat
ASSUME MaxOpensAssumption == MaxOpens \in Nat

Socket == 1 .. MaxOpens
Stream == 1 .. MaxStreams
NoStream == 0

VARIABLES
    entry,       \* the registry's entry for the port
    fresh,       \* relay sessions whose handler has not registered yet
    live,        \* relay sessions whose connection works
    conn,        \* p.conns[port]: number of the open socket, or 0
    opens,       \* sockets opened so far
    mapped,      \* whether p.sessions[port] exists
    table,       \* p.sessions[port]: stream of each remote address
    stream,      \* remote address and relay session of each stream, status
    reader,      \* where readResponses of each stream is
    cli,         \* where the CLI's handler of each stream is
    loop,        \* where readLoop of each socket is, and its locals
    panicked     \* the process died

vars == <<entry, fresh, live, conn, opens, mapped, table, stream, reader, cli,
          loop, panicked>>
portVars == <<conn, opens, mapped>>
relayVars == <<entry, fresh, live>>
readerVars == <<reader, cli>>

(* A loop between two datagrams has no locals worth keeping.               *)
Idle(place) ==
    [at |-> place, remote |-> NoRemote, relay |-> NoRelay, stream |-> NoStream]

NoTable == [x \in Remote |-> NoStream]

Init ==
    /\ entry = NoRelay
    /\ fresh = Relay
    /\ live = Relay
    /\ conn = 0
    /\ opens = 0
    /\ mapped = FALSE
    /\ table = NoTable
    /\ stream = [t \in Stream |->
          [status |-> "unused", remote |-> NoRemote, relay |-> NoRelay]]
    /\ reader = [t \in Stream |-> "none"]
    /\ cli = [t \in Stream |-> "waiting"]
    /\ loop = [g \in Socket |-> Idle("off")]
    /\ panicked = FALSE

-----------------------------------------------------------------------------
(* What the rest of the server does: registrations come and go, and a      *)
(* relay session fails whenever its peer does.  EnsureListener and         *)
(* RemoveListener are called by different handlers, in any order.          *)

Register(r) ==
    /\ ~ panicked
    /\ entry = NoRelay
    /\ r \in fresh
    /\ entry' = r
    /\ fresh' = fresh \ {r}
    /\ UNCHANGED <<live, portVars, table, stream, readerVars, loop, panicked>>

Unregister ==
    /\ ~ panicked
    /\ entry # NoRelay
    /\ entry' = NoRelay
    /\ UNCHANGED <<fresh, live, portVars, table, stream, readerVars,
                   loop, panicked>>

RelayEnds(r) ==
    /\ ~ panicked
    /\ r \in live
    /\ live' = live \ {r}
    /\ UNCHANGED <<entry, fresh, portVars, table, stream, readerVars,
                   loop, panicked>>

(* Mutant: the table is made the first time only.                          *)
EnsureListenerOldTable ==
    /\ ~ panicked
    /\ conn = 0
    /\ fresh # Relay
    /\ opens < MaxOpens
    /\ opens' = opens + 1
    /\ conn' = opens'
    /\ mapped' = (mapped \/ opens = 0)
    /\ table' = NoTable
    /\ loop' = [loop EXCEPT ![opens'] = Idle("reading")]
    /\ UNCHANGED <<relayVars, stream, readerVars, panicked>>

(* EnsureListener when the port has no socket (otherwise it does nothing). *)
EnsureListener ==
    /\ ~ panicked
    /\ conn = 0
    /\ fresh # Relay
    /\ opens < MaxOpens
    /\ opens' = opens + 1
    /\ conn' = opens'
    /\ mapped' = TRUE
    /\ table' = NoTable
    /\ loop' = [loop EXCEPT ![opens'] = Idle("reading")]
    /\ UNCHANGED <<relayVars, stream, readerVars, panicked>>

Closed(T) == [t \in Stream |->
    IF t \in T THEN [stream[t] EXCEPT !.status = "closed"] ELSE stream[t]]

(* RemoveListener: close the streams of the table, the socket, forget both.*)
RemoveListener ==
    /\ ~ panicked
    /\ conn # 0
    /\ stream' = Closed({table[x] : x \in Remote})
    /\ conn' = 0
    /\ mapped' = FALSE
    /\ table' = NoTable
    /\ UNCHANGED <<relayVars, opens, readerVars, loop, panicked>>

-----------------------------------------------------------------------------
(* readLoop and handleDatagram of socket g.                                *)

At(g, place) == ~ panicked /\ loop[g].at = place
Goto(g, place) == loop' = [loop EXCEPT ![g].at = place]
Rest(g, place) == loop' = [loop EXCEPT ![g] = Idle(place)]

(* ReadFromUDP returns a datagram.                                         *)
Receive(g, x) ==
    /\ At(g, "reading") /\ conn = g
    /\ loop' = [loop EXCEPT ![g].at = "looking", ![g].remote = x]
    /\ UNCHANGED <<relayVars, portVars, table, stream, readerVars, panicked>>

(* ReadFromUDP fails: the socket was closed.                               *)
LoopEnds(g) ==
    /\ At(g, "reading") /\ conn # g
    /\ Rest(g, "ended")
    /\ UNCHANGED <<relayVars, portVars, table, stream, readerVars, panicked>>

(* LookupUDP: without an entry the datagram is dropped.                    *)
LookupEntry(g) ==
    /\ At(g, "looking")
    /\ IF entry = NoRelay THEN Rest(g, "reading")
       ELSE loop' = [loop EXCEPT ![g].at = "finding", ![g].relay = entry]
    /\ UNCHANGED <<relayVars, portVars, table, stream, readerVars, panicked>>

Has(x) == mapped /\ table[x] # NoStream

(* Mutant: any table will do.                                              *)
FindInTable(g) ==
    /\ At(g, "finding")
    /\ LET x == loop[g].remote
       IN  IF mapped
           THEN loop' = [loop EXCEPT ![g].at = "writing",
                                     ![g].stream = table[x]]
           ELSE Goto(g, "opening")
    /\ UNCHANGED <<relayVars, portVars, table, stream, readerVars, panicked>>

(* getOrCreateSession, first critical section.                             *)
FindSession(g) ==
    /\ At(g, "finding")
    /\ LET x == loop[g].remote
       IN  IF Has(x)
           THEN loop' = [loop EXCEPT ![g].at = "writing",
                                     ![g].stream = table[x]]
           ELSE Goto(g, "opening")
    /\ UNCHANGED <<relayVars, portVars, table, stream, readerVars, panicked>>

(* OpenStream, with p.mu not held; it fails on a relay session that ended. *)
OpenStream(g) ==
    /\ At(g, "opening")
    /\ \/ /\ loop[g].relay \in live
          /\ \E t \in Stream :
                /\ stream[t].status = "unused"
                /\ \A u \in 1 .. t - 1 : stream[u].status # "unused"
                /\ stream' = [stream EXCEPT ![t] =
                       [status |-> "open", remote |-> loop[g].remote,
                        relay |-> loop[g].relay]]
                /\ loop' = [loop EXCEPT ![g].at = "inserting",
                                        ![g].stream = t]
       \/ /\ loop[g].relay \notin live
          /\ Rest(g, "reading")
          /\ UNCHANGED stream
    /\ UNCHANGED <<relayVars, portVars, table, readerVars, panicked>>

(* Mutant: the stream that is not needed stays open.                       *)
UseExistingOnly(g) ==
    LET x == loop[g].remote
    IN  /\ At(g, "inserting")
        /\ Has(x)
        /\ loop' = [loop EXCEPT ![g].at = "writing", ![g].stream = table[x]]
        /\ UNCHANGED <<relayVars, portVars, table, stream, readerVars,
                       panicked>>

(* The second critical section: another stream for this address is already *)
(* there and ours is closed; ...                                           *)
UseExisting(g) ==
    LET x == loop[g].remote
    IN  /\ At(g, "inserting")
        /\ Has(x)
        /\ stream' = Closed({loop[g].stream})
        /\ loop' = [loop EXCEPT ![g].at = "writing", ![g].stream = table[x]]
        /\ UNCHANGED <<relayVars, portVars, table, readerVars, panicked>>

(* Mutant: nobody reads the replies.                                       *)
InsertUnread(g) ==
    LET x == loop[g].remote
    IN  /\ At(g, "inserting")
        /\ mapped /\ table[x] = NoStream
        /\ table' = [table EXCEPT ![x] = loop[g].stream]
        /\ Goto(g, "writing")
        /\ UNCHANGED <<relayVars, portVars, stream, readerVars, panicked>>

(* ... or ours goes into the table and gets its reader; ...                *)
Insert(g) ==
    LET x == loop[g].remote
    IN  /\ At(g, "inserting")
        /\ mapped /\ table[x] = NoStream
        /\ table' = [table EXCEPT ![x] = loop[g].stream]
        /\ reader' = [reader EXCEPT ![loop[g].stream] = "reading"]
        /\ Goto(g, "writing")
        /\ UNCHANGED <<relayVars, portVars, stream, cli, panicked>>

(* ... or RemoveListener deleted the table in between: assignment to an    *)
(* entry of a nil map, which ends the process.                             *)
InsertIntoNilMap(g) ==
    /\ At(g, "inserting")
    /\ ~ mapped
    /\ panicked' = TRUE
    /\ UNCHANGED <<relayVars, portVars, table, stream, readerVars, loop>>

Writable(t) == stream[t].status = "open" /\ stream[t].relay \in live

(* The datagram is written to the session's stream; the CLI reads one from *)
(* each stream, and what is written later nobody reads.                    *)
WriteDatagram(g) ==
    LET t == loop[g].stream
    IN  /\ At(g, "writing")
        /\ Goto(g, IF Writable(t) THEN "cleaning" ELSE "dropping")
        /\ cli' = [cli EXCEPT ![t] =
                      IF Writable(t) /\ @ = "waiting" THEN "asked" ELSE @]
        /\ UNCHANGED <<relayVars, portVars, table, stream, reader, panicked>>

(* dropSession: by address, whatever stream is there now.                  *)
Drop(x) == table' = [table EXCEPT ![x] = NoStream]

(* The write failed: the session is dropped, its stream not closed.        *)
DropUnwritable(g) ==
    /\ At(g, "dropping")
    /\ Drop(loop[g].remote)
    /\ Rest(g, "reading")
    /\ UNCHANGED <<relayVars, portVars, stream, readerVars, panicked>>

(* cleanupSessions: at most every 30 s, sessions idle for 2 minutes go;    *)
(* the one just written to is not idle.                                    *)
CleanupSessions(g) ==
    /\ At(g, "cleaning")
    /\ \E idle \in SUBSET (Remote \ {loop[g].remote}) :
          /\ stream' = Closed({table[x] : x \in idle})
          /\ table' = [x \in Remote |->
                          IF x \in idle THEN NoStream ELSE table[x]]
    /\ Rest(g, "reading")
    /\ UNCHANGED <<relayVars, portVars, readerVars, panicked>>

-----------------------------------------------------------------------------
(* readResponses of stream t.                                              *)

ReaderAt(t, place) == ~ panicked /\ reader[t] = place

(* Mutant: the handler waits for another datagram instead of closing.      *)
HandlerReadsOn(t) ==
    /\ ~ panicked
    /\ cli[t] = "asked"
    /\ cli' = [cli EXCEPT ![t] = "waiting"]
    /\ UNCHANGED <<relayVars, portVars, table, stream, reader, loop, panicked>>

(* HandleUDPStream has sent the datagram to the service: it returns the    *)
(* answer, which the reader sends on and reads on, or none comes in 5 s;   *)
(* either way it closes the stream.                                        *)
HandlerEnds(t) ==
    /\ ~ panicked
    /\ cli[t] = "asked"
    /\ cli' = [cli EXCEPT ![t] = "closed"]
    /\ UNCHANGED <<relayVars, portVars, table, stream, reader, loop, panicked>>

(* It answers when the port has no socket.                                 *)
ReplyWithoutSocket(t) ==
    /\ ReaderAt(t, "reading")
    /\ conn = 0
    /\ cli[t] = "asked"
    /\ cli' = [cli EXCEPT ![t] = "closed"]
    /\ reader' = [reader EXCEPT ![t] = "closing"]
    /\ UNCHANGED <<relayVars, portVars, table, stream, loop, panicked>>

(* ReadJSON fails: the CLI closed the stream, the relay session ended, or  *)
(* our side closed the stream, which ends the read when the client closes  *)
(* too or after yamux's StreamCloseTimeout.  Nothing is written on it any  *)
(* more that the CLI would read.                                           *)
ReadFails(t) ==
    /\ ReaderAt(t, "reading")
    /\ ~ Writable(t) \/ cli[t] = "closed"
    /\ reader' = [reader EXCEPT ![t] = "closing"]
    /\ cli' = [cli EXCEPT ![t] = "closed"]
    /\ UNCHANGED <<relayVars, portVars, table, stream, loop, panicked>>

(* Mutant: the session is dropped, the stream stays.                       *)
SkipClose(t) ==
    /\ ReaderAt(t, "closing")
    /\ reader' = [reader EXCEPT ![t] = "dropping"]
    /\ UNCHANGED <<relayVars, portVars, table, stream, cli, loop, panicked>>

(* The deferred stream.Close, then dropSession.                            *)
CloseStream(t) ==
    /\ ReaderAt(t, "closing")
    /\ stream' = Closed({t})
    /\ reader' = [reader EXCEPT ![t] = "dropping"]
    /\ UNCHANGED <<relayVars, portVars, table, cli, loop, panicked>>

DropSession(t) ==
    /\ ReaderAt(t, "dropping")
    /\ Drop(stream[t].remote)
    /\ reader' = [reader EXCEPT ![t] = "gone"]
    /\ UNCHANGED <<relayVars, portVars, stream, cli, loop, panicked>>

-----------------------------------------------------------------------------
(* Specification.                                                          *)

LoopStep(g) ==
    \/ LoopEnds(g) \/ LookupEntry(g) \/ FindSession(g)
    \/ OpenStream(g) \/ UseExisting(g) \/ Insert(g) \/ InsertIntoNilMap(g)
    \/ WriteDatagram(g) \/ DropUnwritable(g) \/ CleanupSessions(g)

ReaderStep(t) ==
    HandlerEnds(t) \/ ReadFails(t) \/ CloseStream(t) \/ DropSession(t)

PeerStep ==
    \/ \E r \in Relay : Register(r) \/ RelayEnds(r)
    \/ Unregister
    \/ EnsureListener \/ RemoveListener
    \/ \E g \in Socket, x \in Remote : Receive(g, x)
    \/ \E t \in Stream : ReplyWithoutSocket(t)

Next ==
    \/ PeerStep
    \/ \E g \in Socket : LoopStep(g)
    \/ \E t \in Stream : ReaderStep(t)

(* A goroutine that need not wait for a datagram goes on; the CLI's        *)
(* handler waits for the service 5 s at most.                              *)
Fairness ==
    /\ \A g \in Socket : WF_vars(LoopStep(g))
    /\ \A t \in Stream : WF_vars(ReaderStep(t))

Spec == Init /\ [][Next]_vars /\ Fairness

-----------------------------------------------------------------------------
(* Properties.                                                             *)

(* Places of a loop that handles a datagram, of an address it knows; at    *)
(* some of them it has a stream.                                           *)
Busy == {"looking", "finding", "opening", "inserting", "writing", "dropping",
         "cleaning"}

LoopState ==
    {q \in [at : {"off", "reading", "ended"} \cup Busy,
            remote : Remote \cup {NoRemote}, relay : Relay \cup {NoRelay},
            stream : Stream \cup {NoStream}] :
        /\ q.at \in Busy => q.remote \in Remote
        /\ q.at \in {"inserting", "writing"} => q.stream \in Stream}

StreamState ==
    [status : {"unused", "open", "closed"},
     remote : Remote \cup {NoRemote}, relay : Relay \cup {NoRelay}]

TypeOK ==
    /\ entry \in Relay \cup {NoRelay}
    /\ fresh \subseteq Relay /\ live \subseteq Relay
    /\ conn \in Socket \cup {0} /\ opens \in 0 .. MaxOpens
    /\ mapped \in BOOLEAN /\ panicked \in BOOLEAN
    /\ table \in [Remote -> Stream \cup {NoStream}]
    /\ stream \in [Stream -> StreamState]
    /\ reader \in [Stream ->
                      {"none", "reading", "closing", "dropping", "gone"}]
    /\ cli \in [Stream -> {"waiting", "asked", "closed"}]
    /\ loop \in [Socket -> LoopState]

(* The open socket is read by its own loop and by no earlier one, though   *)
(* closing and opening the port race with loops in the middle of a         *)
(* datagram (udp.go:58, 79): datagrams do not pile up unread.              *)
OpenPortIsRead ==
    conn # 0 => /\ loop[conn].at \notin {"off", "ended"}
                /\ mapped

(* A session in the table is its address's, and its reader has yet to run  *)
(* the dropSession that will take it out: entries cannot stay for good,    *)
(* whichever of loop, reader, clean-up and port closing came first.        *)
MappedSessionHasReader ==
    \A x \in Remote : table[x] # NoStream =>
        /\ mapped
        /\ stream[table[x]].remote = x
        /\ reader[table[x]] \in {"reading", "closing", "dropping"}

(* An open stream has a goroutine that will close it: its reader, or the   *)
(* loop that opened it and has not handed it on (udp.go:137-150).          *)
OpenStreamHasOwner ==
    \A t \in Stream : stream[t].status = "open" =>
        \/ reader[t] \in {"reading", "closing"}
        \/ \E g \in Socket : loop[g].at = "inserting" /\ loop[g].stream = t

(* No stream outlives its relay session, even one opened while the session *)
(* ended or while another loop took its place.                             *)
StreamsEndWithRelay ==
    \A t \in Stream :
        (stream[t].status = "open" /\ stream[t].relay \notin live)
            ~> (stream[t].status = "closed" \/ panicked)

(* A session that was written to ends: the CLI closes the stream within    *)
(* 5 s, and the reader takes the session out of the table, whichever of    *)
(* loop, clean-up and port closing comes in between (relayclient/          *)
(* udp.go:84, udp.go:154).  The idle timeout never gets to see one.        *)
WrittenSessionEnds ==
    \A t \in Stream :
        cli[t] = "asked" ~> (reader[t] = "gone" /\ stream[t].status = "closed")
                            \/ panicked

(* A datagram never ends the server (planning-package.md: a UDP port       *)
(* forwards reliably).                                                     *)
NoPanic == ~ panicked

(* relay-protocol.md: sessions are per tunnel and remote address, so a     *)
(* datagram goes to the tunnel that holds the port when it is handled.     *)
DatagramFollowsRegistry ==
    \A g \in Socket :
        loop[g].at = "writing" => stream[loop[g].stream].relay = loop[g].relay

(* relay-protocol.md: sessions are subject to idle timeouts, so one whose  *)
(* stream works is in the table the clean-up walks, whichever earlier      *)
(* session of the address was dropped meanwhile (udp.go:188).              *)
ReadingSessionIsMapped ==
    \A t \in Stream :
        (reader[t] = "reading" /\ Writable(t) /\ conn # 0)
            => table[stream[t].remote] = t

=============================================================================
