----------------------------- MODULE RelayServer -----------------------------
(***************************************************************************)
(* The relay server: one goroutine per relay connection running            *)
(* Server.Handler (server/internal/relayserver/server.go), the registry    *)
(* and the port listeners they share, the SQLite store that outlives the   *)
(* process (server/internal/storage/store.go), and the admin requests that *)
(* rotate the token and kill tunnels (server/internal/admin/http.go).      *)
(*                                                                         *)
(* A session is a slot for one connection; a client that reconnects takes  *)
(* another slot.  A handler's program counter is phase[s], in the order of *)
(* the code:                                                               *)
(*   idle -> accepted -> greeted -> authenticated -> reserving ->          *)
(*   recording -> listening -> serving -> releasing -> unlistening ->      *)
(*   closing -> done                                                       *)
(* Every return after the hello is read goes through releasing, the        *)
(* deferred clean-up of server.go:79-95.                                   *)
(***************************************************************************)
EXTENDS Registry, Naturals

CONSTANTS
    RawName,      \* names as clients write them (a subdomain's case is kept)
    NoName,       \* a hello that registers nothing (Client.Run)
    Key,          \* [RawName -> Name]: ToLower and TrimSpace, or the port
    Token,        \* relay tokens
    NoToken,      \* a blank token
    EnvToken,     \* tokens the operator may start the server with
    Offer,        \* [Session -> hellos that connection may send]
    Request,      \* admin requests in flight
    MayFail,      \* whether a database write or a bind may fail
    MaxCrashes    \* bound: how often the server process stops

Hello == [tid : TunnelId \cup {NoTunnel}, name : RawName \cup {NoName}]

ASSUME NoNameAssumption == NoName \notin RawName
ASSUME NoTokenAssumption == NoToken \notin Token
ASSUME KeyAssumption == Key \in [RawName -> Name]
ASSUME OfferAssumption == Offer \in [Session -> SUBSET Hello]
ASSUME EnvAssumption == EnvToken \subseteq Token
ASSUME MayFailAssumption == MayFail \in BOOLEAN

VARIABLES
    up,           \* whether the server process runs
    crashes,      \* how often it stopped
    env,          \* Config.Token of this process
    phase,        \* program counter of each session's handler
    alive,        \* whether each session's connection still works
    hello,        \* tunnel id and name of the hello each handler read
    cred,         \* the token in that hello
    storedAuth,   \* the handler's local of that name
    late,         \* history: the token was not active when the hello was read
    rival,        \* history: another live handler's hello had the same name
    reg,          \* the registry
    listeners,    \* ports of TCPProxy.listeners and UDPProxy.conns
    active,       \* tokens rows with revoked_at NULL
    used,         \* all tokens rows
    tunnels,      \* status of the tunnels row of each id, "none" without row
    reserved,     \* rows of subdomains and port_reservations
    req           \* admin requests: next step and tunnel id

processVars == <<up, crashes, env>>
helloVars == <<hello, cred, late, rival>>
handlerVars == <<phase, alive, helloVars, storedAuth>>
tokenVars == <<active, used>>
storeVars == <<active, used, tunnels, reserved>>
vars == <<up, crashes, env, phase, alive, hello, cred, storedAuth, late, rival,
          reg, listeners, active, used, tunnels, reserved, req>>

Phase == {"idle", "accepted", "greeted", "authenticated", "reserving",
          "recording", "listening", "serving", "releasing", "unlistening",
          "closing", "done"}

(* Phases in which the handler's own registration has been made and its    *)
(* clean-up of the registry is still to come.                              *)
Registered == {"reserving", "recording", "listening", "serving", "releasing"}

KeyOf(s) == Key[hello[s].name]
Named(s) == hello[s].name \in RawName
KindOf(s) == Kind[KeyOf(s)]

Step(s, from, to) == phase[s] = from /\ phase' = [phase EXCEPT ![s] = to]

(* A step of one handler that changes nothing but where it stands.         *)
Moves(s, from, to) ==
    /\ Step(s, from, to)
    /\ UNCHANGED <<processVars, alive, helloVars, storedAuth, reg, listeners,
                   storeVars, req>>

Init ==
    /\ up = FALSE
    /\ crashes = 0
    /\ env = NoToken
    /\ phase = [s \in Session |-> "idle"]
    /\ alive = [s \in Session |-> FALSE]
    /\ hello = [s \in Session |-> [tid |-> NoTunnel, name |-> NoName]]
    /\ cred = [s \in Session |-> NoToken]
    /\ storedAuth = [s \in Session |-> FALSE]
    /\ late = [s \in Session |-> FALSE]
    /\ rival = [s \in Session |-> FALSE]
    /\ reg = EmptyRegistry
    /\ listeners = {}
    /\ active = {}
    /\ used = {}
    /\ tunnels = [t \in TunnelId |-> "none"]
    /\ reserved = [n \in RawName |-> NoTunnel]
    /\ req = [r \in Request |-> [step |-> "idle", tid |-> NoTunnel]]

-----------------------------------------------------------------------------
(* The server process.                                                     *)

(* HasActiveToken *)
HasActiveToken == active # {}

(* Mutant: revoked rows count.                                             *)
ValidateAnyRow(t) == t \in used

(* ValidateToken: a row with this hash that is not revoked.                *)
ValidateToken(t) == t \in active

(* EnsureToken: the configured token is used only when no row is active,   *)
(* and token_hash is UNIQUE, so a token that was revoked is not taken back.*)
(* Its errors end main.                                                    *)
EnsureToken(t) ==
    IF HasActiveToken THEN UNCHANGED tokenVars
    ELSE /\ t # NoToken /\ t \notin used
         /\ active' = {t}
         /\ used' = used \cup {t}

(* main: open the store, make sure there is a token, serve.                *)
Boot ==
    /\ ~ up
    /\ \E t \in EnvToken \cup {NoToken} :
          /\ EnsureToken(t)
          /\ env' = t
    /\ up' = TRUE
    /\ UNCHANGED <<handlerVars, crashes, reg, listeners, tunnels, reserved,
                   req>>

(* The process stops at any point: connections, the registry, listeners    *)
(* and admin requests are gone; the committed rows remain.                 *)
Crash ==
    /\ up
    /\ crashes < MaxCrashes
    /\ up' = FALSE
    /\ crashes' = crashes + 1
    /\ phase' = [s \in Session |->
                    IF phase[s] = "idle" THEN "idle" ELSE "done"]
    /\ alive' = [s \in Session |-> FALSE]
    /\ reg' = EmptyRegistry
    /\ listeners' = {}
    /\ req' = [r \in Request |-> [step |-> "idle", tid |-> NoTunnel]]
    /\ UNCHANGED <<helloVars, storedAuth, env, storeVars>>

-----------------------------------------------------------------------------
(* One handler, up to registration.                                        *)

(* A client connects; without any token the server answers 503 instead.    *)
Accept(s) ==
    /\ up
    /\ HasActiveToken \/ env # NoToken
    /\ Step(s, "idle", "accepted")
    /\ alive' = [alive EXCEPT ![s] = TRUE]
    /\ storedAuth' = [storedAuth EXCEPT ![s] = HasActiveToken]
    /\ UNCHANGED <<processVars, helloVars, reg, listeners, storeVars, req>>

(* The peer, or the network between, goes away.                            *)
PeerDrops(s) ==
    /\ alive[s]
    /\ alive' = [alive EXCEPT ![s] = FALSE]
    /\ UNCHANGED <<processVars, phase, helloVars, storedAuth, reg, listeners,
                   storeVars, req>>

(* Handlers not yet finished whose hello names what h names.               *)
Rivals(s, h) ==
    {o \in Session \ {s} :
        /\ phase[o] \notin {"idle", "accepted", "done"}
        /\ Named(o) /\ h.name \in RawName
        /\ KeyOf(o) = Key[h.name]}

(* AcceptStream and ReadJSON: the hello arrives.  A hello of another type  *)
(* is one with no token: both are answered with the same error.            *)
ReadHello(s) ==
    /\ alive[s]
    /\ Step(s, "accepted", "greeted")
    /\ \E h \in Offer[s], t \in used \cup {NoToken} :
          /\ hello' = [hello EXCEPT ![s] = h]
          /\ cred' = [cred EXCEPT ![s] = t]
          /\ late' = [late EXCEPT ![s] = t \notin active]
          /\ rival' = [o \in Session |->
                IF o = s THEN Rivals(s, h) # {}
                ELSE rival[o] \/ o \in Rivals(s, h)]
    /\ UNCHANGED <<processVars, alive, storedAuth, reg, listeners, storeVars,
                   req>>

(* The connection ends before the hello: the clean-up is not yet deferred. *)
HelloFails(s) ==
    /\ ~ alive[s]
    /\ Moves(s, "accepted", "closing")

(* What the handler checks the hello's token against.                      *)
Authorized(s) ==
    /\ cred[s] # NoToken
    /\ IF storedAuth[s] THEN ValidateToken(cred[s]) ELSE cred[s] = env

(* Token accepted; hello_ok is written, or the handler returns.            *)
Authenticate(s) ==
    /\ Authorized(s)
    /\ Moves(s, "greeted", IF alive[s] THEN "authenticated" ELSE "releasing")

(* The token is refused, or looking it up failed.                          *)
Refuse(s) ==
    /\ ~ Authorized(s) \/ (MayFail /\ storedAuth[s])
    /\ Moves(s, "greeted", "releasing")

(* A hello that names nothing: the handler goes on to read heartbeats.     *)
RegisterNothing(s) ==
    /\ ~ Named(s)
    /\ Moves(s, "authenticated", "serving")

-----------------------------------------------------------------------------
(* Registration.  hello_ok has been sent; a refusal is a second message.   *)

Register(s, available) ==
    /\ Named(s)
    /\ IF available
       THEN /\ Step(s, "authenticated", "reserving")
            /\ reg' = Put(reg, KeyOf(s), hello[s].tid, s)
       ELSE /\ Step(s, "authenticated", "releasing")
            /\ UNCHANGED reg
    /\ UNCHANGED <<processVars, alive, helloVars, storedAuth, listeners,
                   storeVars, req>>

RegisterHTTP(s) ==
    Named(s) /\ KindOf(s) = "http" /\ Register(s, HTTPAvailable(reg, KeyOf(s)))

RegisterTCP(s) ==
    /\ Named(s) /\ KindOf(s) = "tcp"
    /\ Register(s, TCPAvailable(reg, KeyOf(s), hello[s].tid))

RegisterUDP(s) ==
    /\ Named(s) /\ KindOf(s) = "udp"
    /\ Register(s, UDPAvailable(reg, KeyOf(s), hello[s].tid))

(* Foreign key: tunnel_id references a row of tunnels.                     *)
TunnelRecorded(t) == t \in TunnelId /\ tunnels[t] # "none"

(* UpsertHTTPReservation, UpsertPortReservation: an error is only logged.  *)
PersistReservation(s) ==
    /\ Step(s, "reserving", "recording")
    /\ LET row == [reserved EXCEPT ![hello[s].name] = hello[s].tid]
       IN  \/ TunnelRecorded(hello[s].tid) /\ reserved' = row
           \/ ~ TunnelRecorded(hello[s].tid) /\ UNCHANGED reserved
           \/ MayFail /\ UNCHANGED reserved
    /\ UNCHANGED <<processVars, alive, helloVars, storedAuth, reg, listeners,
                   tokenVars, tunnels, req>>

(* UpsertTunnel: the row's status becomes active, whatever it was.         *)
UpsertTunnel(t) ==
    \/ t \in TunnelId /\ tunnels' = [tunnels EXCEPT ![t] = "active"]
    \/ (t = NoTunnel \/ MayFail) /\ UNCHANGED tunnels

PersistTunnel(s) ==
    /\ Step(s, "recording", IF KindOf(s) = "http" THEN "serving"
                                                  ELSE "listening")
    /\ UpsertTunnel(hello[s].tid)
    /\ UNCHANGED <<processVars, alive, helloVars, storedAuth, reg, listeners,
                   tokenVars, reserved, req>>

(* EnsureListener keeps a listener it finds; a failing bind is only logged.*)
EnsureListener(s) ==
    /\ Step(s, "listening", "serving")
    /\ \/ listeners' = listeners \cup {KeyOf(s)}
       \/ MayFail /\ UNCHANGED listeners
    /\ UNCHANGED <<processVars, alive, helloVars, storedAuth, reg, storeVars,
                   req>>

EnsureTCPListener(s) == Named(s) /\ KindOf(s) = "tcp" /\ EnsureListener(s)
EnsureUDPListener(s) == Named(s) /\ KindOf(s) = "udp" /\ EnsureListener(s)

-----------------------------------------------------------------------------
(* The end of a handler.                                                   *)

(* Mutant: a failed read does not end the loop.                            *)
ControlReadIgnored(s) ==
    /\ ~ alive[s]
    /\ Moves(s, "serving", "serving")

(* The control stream fails: the read loop returns.                        *)
ControlReadFails(s) ==
    /\ ~ alive[s]
    /\ Moves(s, "serving", "releasing")

(* A message that is no heartbeat arrives more than 30 s after the last.   *)
HeartbeatTimeout(s) ==
    /\ alive[s]
    /\ Moves(s, "serving", "releasing")

(* Mutant: the clean-up does not lower-case the subdomain.                 *)
ReleaseAsWritten(s, next) ==
    /\ Step(s, "releasing", next)
    /\ reg' = Remove(reg, hello[s].name)
    /\ UNCHANGED <<processVars, alive, helloVars, storedAuth, listeners,
                   storeVars, req>>

(* The deferred RemoveHTTP, RemoveTCP and RemoveUDP: by the hello's name,  *)
(* whether or not this handler's registration succeeded.                   *)
Release(s, next) ==
    /\ Step(s, "releasing", next)
    /\ reg' = Remove(reg, KeyOf(s))
    /\ UNCHANGED <<processVars, alive, helloVars, storedAuth, listeners,
                   storeVars, req>>

ReleaseHTTP(s) == Named(s) /\ KindOf(s) = "http" /\ Release(s, "closing")

(* Mutant: the port's listener is forgotten.                               *)
ReleaseTCPOnly(s) == Named(s) /\ KindOf(s) = "tcp" /\ Release(s, "closing")

ReleaseTCP(s) == Named(s) /\ KindOf(s) = "tcp" /\ Release(s, "unlistening")
ReleaseUDP(s) == Named(s) /\ KindOf(s) = "udp" /\ Release(s, "unlistening")

ReleaseNothing(s) ==
    /\ ~ Named(s)
    /\ Moves(s, "releasing", "closing")

(* RemoveListener, of either proxy.                                        *)
RemoveListener(s) ==
    /\ Step(s, "unlistening", "closing")
    /\ listeners' = listeners \ {KeyOf(s)}
    /\ UNCHANGED <<processVars, alive, helloVars, storedAuth, reg, storeVars,
                   req>>

RemoveTCPListener(s) == Named(s) /\ KindOf(s) = "tcp" /\ RemoveListener(s)
RemoveUDPListener(s) == Named(s) /\ KindOf(s) = "udp" /\ RemoveListener(s)

(* The deferred control.Close, session.Close and cancel.                   *)
Close(s) ==
    /\ Step(s, "closing", "done")
    /\ alive' = [alive EXCEPT ![s] = FALSE]
    /\ UNCHANGED <<processVars, helloVars, storedAuth, reg, listeners,
                   storeVars, req>>

-----------------------------------------------------------------------------
(* Admin requests.  withAuth checks the caller's token, then the handler   *)
(* runs; between two of its calls anything may happen.                     *)

At(r, step) == req[r].step = step
Goto(r, step, t) == req' = [req EXCEPT ![r] = [step |-> step, tid |-> t]]

BeginRotate(r) ==
    /\ up /\ HasActiveToken
    /\ At(r, "idle")
    /\ Goto(r, "rotate", NoTunnel)
    /\ UNCHANGED <<processVars, handlerVars, reg, listeners, storeVars>>

(* Mutant: the old token stays valid.                                      *)
RotateTokenKeepOld(t) ==
    /\ t \notin used
    /\ active' = active \cup {t}
    /\ used' = used \cup {t}

(* RotateToken: one transaction revokes every row and inserts a random one.*)
RotateToken(t) ==
    /\ t \notin used
    /\ active' = {t}
    /\ used' = used \cup {t}

HandleRotateToken(r) ==
    /\ At(r, "rotate")
    /\ \/ \E t \in Token \ EnvToken : RotateToken(t)
       \/ MayFail /\ UNCHANGED tokenVars
    /\ Goto(r, "idle", NoTunnel)
    /\ UNCHANGED <<processVars, handlerVars, reg, listeners, tunnels,
                   reserved>>

(* The admin page offers a kill for each row of tunnels.                   *)
BeginKill(r, t) ==
    /\ up /\ HasActiveToken
    /\ At(r, "idle")
    /\ TunnelRecorded(t)
    /\ Goto(r, "http", t)
    /\ UNCHANGED <<processVars, handlerVars, reg, listeners, storeVars>>

KillHTTP(r) ==
    /\ At(r, "http")
    /\ reg' = RemoveHTTPByTunnelID(reg, req[r].tid)
    /\ Goto(r, "tcp", req[r].tid)
    /\ UNCHANGED <<processVars, handlerVars, listeners, storeVars>>

KillTCP(r) ==
    /\ At(r, "tcp")
    /\ reg' = RemoveTCPByTunnelID(reg, req[r].tid)
    /\ Goto(r, "udp", req[r].tid)
    /\ UNCHANGED <<processVars, handlerVars, listeners, storeVars>>

KillUDP(r) ==
    /\ At(r, "udp")
    /\ reg' = RemoveUDPByTunnelID(reg, req[r].tid)
    /\ Goto(r, "mark", req[r].tid)
    /\ UNCHANGED <<processVars, handlerVars, listeners, storeVars>>

(* Mutant: the empty status, which MarkTunnelStatus writes as inactive.    *)
MarkTunnelInactive(t) ==
    /\ TunnelRecorded(t)
    /\ tunnels' = [tunnels EXCEPT ![t] = "inactive"]

(* MarkTunnelStatus(id, "terminated"): an UPDATE, no row is created.       *)
MarkTunnelStatus(t) ==
    \/ /\ TunnelRecorded(t)
       /\ tunnels' = [tunnels EXCEPT ![t] = "terminated"]
    \/ (~ TunnelRecorded(t) \/ MayFail) /\ UNCHANGED tunnels

MarkTerminated(r) ==
    /\ At(r, "mark")
    /\ MarkTunnelStatus(req[r].tid)
    /\ Goto(r, "idle", NoTunnel)
    /\ UNCHANGED <<processVars, handlerVars, reg, listeners, tokenVars,
                   reserved>>

-----------------------------------------------------------------------------
(* Specification.                                                          *)

(* Steps a handler's goroutine takes by itself, none of them waiting for   *)
(* anyone: fair because the Go scheduler runs every ready goroutine.       *)
HandlerStep(s) ==
    \/ HelloFails(s) \/ Authenticate(s) \/ Refuse(s) \/ RegisterNothing(s)
    \/ RegisterHTTP(s) \/ RegisterTCP(s) \/ RegisterUDP(s)
    \/ PersistReservation(s) \/ PersistTunnel(s)
    \/ EnsureTCPListener(s) \/ EnsureUDPListener(s)
    \/ ControlReadFails(s)
    \/ ReleaseHTTP(s) \/ ReleaseTCP(s) \/ ReleaseUDP(s) \/ ReleaseNothing(s)
    \/ RemoveTCPListener(s) \/ RemoveUDPListener(s)
    \/ Close(s)

(* Steps that wait for the peer.                                           *)
PeerStep(s) ==
    \/ Accept(s) \/ PeerDrops(s) \/ ReadHello(s) \/ HeartbeatTimeout(s)

AdminStep(r) ==
    \/ BeginRotate(r) \/ HandleRotateToken(r)
    \/ \E t \in TunnelId : BeginKill(r, t)
    \/ KillHTTP(r) \/ KillTCP(r) \/ KillUDP(r) \/ MarkTerminated(r)

Next ==
    \/ Boot \/ Crash
    \/ \E s \in Session : HandlerStep(s) \/ PeerStep(s)
    \/ \E r \in Request : AdminStep(r)

Fairness == \A s \in Session : WF_vars(HandlerStep(s))

Spec == Init /\ [][Next]_vars /\ Fairness

-----------------------------------------------------------------------------
(* Properties.                                                             *)

TypeOK ==
    /\ up \in BOOLEAN
    /\ crashes \in Nat
    /\ env \in EnvToken \cup {NoToken}
    /\ phase \in [Session -> Phase]
    /\ alive \in [Session -> BOOLEAN]
    /\ hello \in [Session -> Hello]
    /\ cred \in [Session -> Token \cup {NoToken}]
    /\ storedAuth \in [Session -> BOOLEAN]
    /\ late \in [Session -> BOOLEAN]
    /\ rival \in [Session -> BOOLEAN]
    /\ reg \in SUBSET Binding
    /\ listeners \in SUBSET Name
    /\ active \in SUBSET Token
    /\ used \in SUBSET Token
    /\ tunnels \in [TunnelId -> {"none", "active", "terminated"}]
    /\ reserved \in [RawName -> TunnelId \cup {NoTunnel}]
    /\ req \in [Request ->
                 [step : {"idle", "rotate", "http", "tcp", "udp", "mark"},
                  tid : TunnelId \cup {NoTunnel}]]

(* Clients choose a new tunnel id for every connection, as the CLI does.   *)
FreshIds ==
    \A s, o \in Session : s # o =>
        \A h \in Offer[s], g \in Offer[o] : h.tid = g.tid => h.tid = NoTunnel

(* relay-protocol.md, "Tunnel entries are cleaned up on session drop":     *)
(* an entry of the registry belongs to a handler that registered exactly   *)
(* this name and tunnel and whose deferred clean-up is still to come, so   *)
(* no order of registrations, take-overs, kills and clean-ups strands one. *)
NoDanglingEntry ==
    \A b \in reg :
        LET s == b.session
        IN  /\ phase[s] \in Registered
            /\ Named(s) /\ KeyOf(s) = b.name /\ hello[s].tid = b.tid

(* A port is open only while some handler for that port will still run     *)
(* RemoveListener: EnsureListener by one handler and RemoveListener by     *)
(* another, in any order, leave no port open for good (server.go:79-95).   *)
NoOrphanListener ==
    \A n \in listeners :
        \E s \in Session :
            /\ phase[s] \in {"serving", "releasing", "unlistening"}
            /\ Named(s) /\ KeyOf(s) = n

(* A hello read after its token was revoked never gets a tunnel, although  *)
(* whether to ask the store was decided when the connection was accepted   *)
(* (server.go:37), before any rotation that came between.                  *)
RevokedTokenNeverRegistered ==
    \A s \in Session : late[s] =>
        /\ phase[s] \notin {"authenticated", "reserving", "recording",
                            "listening", "serving"}
        /\ \A b \in reg : b.session # s

(* EnsureToken at every start and RotateToken in between keep exactly one  *)
(* token valid while the server runs: neither none nor the old one beside  *)
(* the new.                                                                *)
OneActiveToken == up => \E t \in Token : active = {t}

(* A tunnel the operator sees as terminated is not routed (http.go:117):   *)
(* no registration slips between the steps of the kill.  Under FreshIds.   *)
TerminatedNotRouted ==
    \A b \in reg : b.tid \in TunnelId => tunnels[b.tid] # "terminated"

Killed(t) ==
    \/ t \in TunnelId /\ tunnels[t] = "terminated"
    \/ \E r \in Request :
          req[r].tid = t /\ req[r].step \in {"http", "tcp", "udp", "mark"}

Routed(s) ==
    /\ \E b \in reg : b.name = KeyOf(s) /\ b.session = s
    /\ KindOf(s) # "http" => KeyOf(s) \in listeners

(* A serving tunnel that no other handler contended for and nobody killed  *)
(* can be reached; in particular one that reconnects after the old         *)
(* handler finished.  Under FreshIds and without failing writes and binds. *)
UncontestedTunnelReachable ==
    \A s \in Session :
        (phase[s] = "serving" /\ Named(s) /\ ~ rival[s]
            /\ ~ Killed(hello[s].tid)) => Routed(s)

(* The same of every live tunnel, as plans/roadmap.md says of network      *)
(* interruptions.                                                          *)
LiveTunnelReachable ==
    \A s \in Session :
        (phase[s] = "serving" /\ alive[s] /\ Named(s)
            /\ ~ Killed(hello[s].tid)) => Routed(s)

(* Every step is one of the abstract directory's, or leaves it alone.      *)
Directory == INSTANCE TunnelDirectory
             WITH TunnelId <- TunnelId \cup {NoTunnel},
                  bound <- reg,
                  ended <- {s \in Session : phase[s] = "done"}

ImplementsDirectory == Directory!Spec

(* When its connection is gone, a handler comes to its end and everything  *)
(* it registered goes with it.                                             *)
DroppedSessionReleased ==
    \A s \in Session :
        (phase[s] # "idle" /\ ~ alive[s]) ~>
            (phase[s] = "done" /\ \A b \in reg : b.session # s)

=============================================================================
