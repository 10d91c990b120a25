-------------------------- MODULE RelayServerProofs --------------------------
(***************************************************************************)
(* Safety of the relay server for every set of sessions, names, tunnels,   *)
(* tokens and admin requests.                                              *)
(***************************************************************************)
EXTENDS RelayServer, TLAPS

(* The state's type is kept by every step of the server.                   *)
LEMMA TypeInductive == TypeOK /\ [Next]_vars => TypeOK'
<1> SUFFICES ASSUME TypeOK, [Next]_vars PROVE TypeOK'
    OBVIOUS
<1> USE KindAssumption, NoTunnelAssumption, NoNameAssumption,
        NoTokenAssumption, KeyAssumption, OfferAssumption, EnvAssumption,
        MayFailAssumption
<1>1. CASE Boot
  BY <1>1 DEF Boot, EnsureToken, TypeOK, handlerVars, helloVars, tokenVars
<1>2. CASE Crash
  <2>1. phase' \in [Session -> Phase] BY <1>2 DEF Crash, TypeOK, Phase
  <2>2. alive' \in [Session -> BOOLEAN] BY <1>2 DEF Crash
  <2>3. crashes' \in Nat BY <1>2 DEF Crash, TypeOK
  <2>4. reg' \in SUBSET Binding /\ listeners' \in SUBSET Name
    BY <1>2 DEF Crash, EmptyRegistry
  <2>5. req' \in [Request ->
                  [step : {"idle", "rotate", "http", "tcp", "udp", "mark"},
                   tid : TunnelId \cup {NoTunnel}]]
    BY <1>2 DEF Crash
  <2> QED BY <1>2, <2>1, <2>2, <2>3, <2>4, <2>5
          DEF Crash, TypeOK, helloVars, storeVars
<1>3. ASSUME NEW s \in Session, HandlerStep(s) PROVE TypeOK'
  <2> USE DEF TypeOK, Moves, Step, Phase, processVars, helloVars, storeVars,
              tokenVars
  <2>1. CASE HelloFails(s) BY <2>1 DEF HelloFails
  <2>2. CASE Authenticate(s) BY <2>2 DEF Authenticate
  <2>3. CASE Refuse(s) BY <2>3 DEF Refuse
  <2>4. CASE RegisterNothing(s) BY <2>4 DEF RegisterNothing
  <2>5. ASSUME NEW a, Register(s, a) PROVE TypeOK'
    <3>1. KeyOf(s) \in Name /\ hello[s].tid \in TunnelId \cup {NoTunnel}
      BY <2>5 DEF Register, KeyOf, Named, Hello
    <3>2. reg' \in SUBSET Binding
      BY <2>5, <3>1 DEF Register, Put, Binding
    <3> QED BY <2>5, <3>2 DEF Register
  <2>6. CASE RegisterHTTP(s) BY <2>5, <2>6 DEF RegisterHTTP
  <2>7. CASE RegisterTCP(s) BY <2>5, <2>7 DEF RegisterTCP
  <2>8. CASE RegisterUDP(s) BY <2>5, <2>8 DEF RegisterUDP
  <2>9. CASE PersistReservation(s)
    BY <2>9 DEF PersistReservation, TunnelRecorded
  <2>10. CASE PersistTunnel(s) BY <2>10 DEF PersistTunnel, UpsertTunnel
  <2>11. ASSUME Named(s), EnsureListener(s) PROVE TypeOK'
    BY <2>11 DEF EnsureListener, Named, KeyOf, Hello
  <2>12. CASE EnsureTCPListener(s) BY <2>11, <2>12 DEF EnsureTCPListener
  <2>13. CASE EnsureUDPListener(s) BY <2>11, <2>13 DEF EnsureUDPListener
  <2>14. CASE ControlReadFails(s) BY <2>14 DEF ControlReadFails
  <2>15. ASSUME NEW p \in Phase, Release(s, p) PROVE TypeOK'
    BY <2>15 DEF Release, Remove
  <2>16. CASE ReleaseHTTP(s) BY <2>15, <2>16 DEF ReleaseHTTP
  <2>17. CASE ReleaseTCP(s) BY <2>15, <2>17 DEF ReleaseTCP
  <2>18. CASE ReleaseUDP(s) BY <2>15, <2>18 DEF ReleaseUDP
  <2>19. CASE ReleaseNothing(s) BY <2>19 DEF ReleaseNothing
  <2>20. ASSUME RemoveListener(s) PROVE TypeOK' BY <2>20 DEF RemoveListener
  <2>21. CASE RemoveTCPListener(s) BY <2>20, <2>21 DEF RemoveTCPListener
  <2>22. CASE RemoveUDPListener(s) BY <2>20, <2>22 DEF RemoveUDPListener
  <2>23. CASE Close(s) BY <2>23 DEF Close
  <2> QED BY <1>3, <2>1, <2>2, <2>3, <2>4, <2>6, <2>7, <2>8, <2>9, <2>10,
             <2>12, <2>13, <2>14, <2>16, <2>17, <2>18, <2>19, <2>21, <2>22,
             <2>23 DEF HandlerStep
<1>4. ASSUME NEW s \in Session, PeerStep(s) PROVE TypeOK'
  <2> USE DEF TypeOK, Moves, Step, Phase, processVars, helloVars, storeVars,
              tokenVars
  <2>1. CASE Accept(s) BY <2>1 DEF Accept, HasActiveToken
  <2>2. CASE PeerDrops(s) BY <2>2 DEF PeerDrops
  <2>3. CASE ReadHello(s)
    <3>1. PICK h \in Offer[s], t \in used \cup {NoToken} :
            /\ hello' = [hello EXCEPT ![s] = h]
            /\ cred' = [cred EXCEPT ![s] = t]
            /\ late' = [late EXCEPT ![s] = t \notin active]
            /\ rival' = [o \in Session |->
                  IF o = s THEN Rivals(s, h) # {}
                  ELSE rival[o] \/ o \in Rivals(s, h)]
      BY <2>3 DEF ReadHello
    <3>2. hello' \in [Session -> Hello] BY <3>1
    <3>3. cred' \in [Session -> Token \cup {NoToken}] BY <3>1
    <3>4. late' \in [Session -> BOOLEAN] BY <3>1, Zenon
    <3>5. rival' \in [Session -> BOOLEAN] BY <3>1, Zenon
    <3> QED BY <2>3, <3>2, <3>3, <3>4, <3>5 DEF ReadHello
  <2>4. CASE HeartbeatTimeout(s) BY <2>4 DEF HeartbeatTimeout
  <2> QED BY <1>4, <2>1, <2>2, <2>3, <2>4 DEF PeerStep
<1>5. ASSUME NEW r \in Request, AdminStep(r) PROVE TypeOK'
  <2> USE DEF TypeOK, Goto, processVars, handlerVars, helloVars, storeVars,
              tokenVars
  <2>1. CASE BeginRotate(r) BY <2>1 DEF BeginRotate
  <2>2. CASE HandleRotateToken(r)
    BY <2>2 DEF HandleRotateToken, RotateToken
  <2>3. ASSUME NEW t \in TunnelId, BeginKill(r, t) PROVE TypeOK'
    BY <2>3 DEF BeginKill
  <2>4. CASE KillHTTP(r) BY <2>4 DEF KillHTTP, RemoveHTTPByTunnelID
  <2>5. CASE KillTCP(r) BY <2>5 DEF KillTCP, RemoveTCPByTunnelID
  <2>6. CASE KillUDP(r) BY <2>6 DEF KillUDP, RemoveUDPByTunnelID
  <2>7. CASE MarkTerminated(r)
    BY <2>7 DEF MarkTerminated, MarkTunnelStatus, TunnelRecorded
  <2> QED BY <1>5, <2>1, <2>2, <2>3, <2>4, <2>5, <2>6, <2>7 DEF AdminStep
<1>6. CASE UNCHANGED vars BY <1>6 DEF vars, TypeOK
<1> QED BY <1>1, <1>2, <1>3, <1>4, <1>5, <1>6 DEF Next

(* The type invariant, of every state the server can be in.                *)
THEOREM TypeCorrect == Spec => []TypeOK
<1>1. Init => TypeOK
  <2> SUFFICES ASSUME Init PROVE TypeOK
      OBVIOUS
  <2>1. hello \in [Session -> Hello] BY DEF Init, Hello
  <2>2. req \in [Request ->
                 [step : {"idle", "rotate", "http", "tcp", "udp", "mark"},
                  tid : TunnelId \cup {NoTunnel}]]
    BY DEF Init
  <2>3. /\ phase \in [Session -> Phase]
        /\ alive \in [Session -> BOOLEAN]
        /\ storedAuth \in [Session -> BOOLEAN]
        /\ late \in [Session -> BOOLEAN]
        /\ rival \in [Session -> BOOLEAN]
    BY DEF Init, Phase
  <2>4. /\ tunnels \in [TunnelId -> {"none", "active", "terminated"}]
        /\ reserved \in [RawName -> TunnelId \cup {NoTunnel}]
        /\ cred \in [Session -> Token \cup {NoToken}]
    BY DEF Init
  <2> QED BY <2>1, <2>2, <2>3, <2>4 DEF Init, TypeOK, EmptyRegistry
<1> QED BY <1>1, TypeInductive, PTL DEF Spec

-----------------------------------------------------------------------------
(* Registry entries and their handlers.                                    *)

(* A step that leaves reg and hello alone, and takes no handler out of the *)
(* phases in which it owns its entry, keeps NoDanglingEntry.               *)
LEMMA EntriesKept ==
    ASSUME NoDanglingEntry, reg' \subseteq reg, hello' = hello,
           \A s \in Session : phase[s] \in Registered => phase'[s] \in Registered,
           reg \subseteq Binding
    PROVE  NoDanglingEntry'
BY DEF NoDanglingEntry, KeyOf, Named, Binding

(* A registration makes an entry its handler owns, or none.                *)
LEMMA RegisterKeepsEntries ==
    ASSUME TypeOK, NoDanglingEntry, NEW s \in Session, NEW a, Register(s, a)
    PROVE  NoDanglingEntry'
<1>1. /\ phase[s] = "authenticated" /\ hello' = hello
      /\ phase' = [phase EXCEPT ![s] = phase'[s]]
  BY DEF Register, Step, helloVars, TypeOK
<1>2. CASE reg' = reg /\ phase'[s] = "releasing"
  BY <1>1, <1>2 DEF NoDanglingEntry, Registered, TypeOK, Binding, KeyOf, Named
<1>3. CASE /\ reg' = Put(reg, KeyOf(s), hello[s].tid, s)
           /\ phase'[s] = "reserving"
  <2>1. Named(s) BY DEF Register
  <2>2. \A b \in reg : b.session # s
    BY <1>1 DEF NoDanglingEntry, Registered
  <2>3. ASSUME NEW b \in reg'
        PROVE  /\ phase'[b.session] \in Registered
               /\ hello[b.session].name \in RawName
               /\ Key[hello[b.session].name] = b.name
               /\ hello[b.session].tid = b.tid
    <3>1. CASE b \in reg
      BY <1>1, <2>2, <3>1 DEF NoDanglingEntry, TypeOK, Binding, KeyOf, Named
    <3>2. CASE b = [name |-> KeyOf(s), tid |-> hello[s].tid, session |-> s]
      BY <1>1, <1>3, <2>1, <3>2 DEF Registered, KeyOf, Named, TypeOK
    <3> QED BY <1>3, <3>1, <3>2 DEF Put
  <2> QED BY <1>1, <2>3 DEF NoDanglingEntry, KeyOf, Named
<1> QED BY <1>1, <1>2, <1>3 DEF Register, Step, TypeOK

(* A handler leaves the phases of an owner only with its entry gone.       *)
LEMMA ReleaseKeepsEntries ==
    ASSUME TypeOK, NoDanglingEntry, NEW s \in Session, NEW p, Release(s, p)
    PROVE  NoDanglingEntry'
<1>1. /\ hello' = hello /\ reg' = {b \in reg : b.name # KeyOf(s)}
      /\ \A o \in Session \ {s} : phase'[o] = phase[o]
  BY DEF Release, Remove, Step, helloVars, TypeOK
<1>2. \A b \in reg' : b \in reg /\ b.session \in Session \ {s}
  BY <1>1 DEF NoDanglingEntry, TypeOK, Binding
<1> QED BY <1>1, <1>2 DEF NoDanglingEntry, KeyOf, Named

(* NoDanglingEntry is inductive beside the type invariant.                 *)
LEMMA EntriesInductive ==
    TypeOK /\ NoDanglingEntry /\ [Next]_vars => NoDanglingEntry'
<1> SUFFICES ASSUME TypeOK, NoDanglingEntry, [Next]_vars
             PROVE  NoDanglingEntry'
    OBVIOUS
<1>0. reg \subseteq Binding BY DEF TypeOK
<1>1. CASE Boot
  BY <1>0, <1>1, EntriesKept DEF Boot, handlerVars, helloVars
<1>2. CASE Crash BY <1>2 DEF Crash, NoDanglingEntry, EmptyRegistry
<1>3. ASSUME NEW s \in Session, HandlerStep(s) PROVE NoDanglingEntry'
  <2>1. ASSUME NEW p, NEW q, Moves(s, p, q),
               p \in Registered => q \in Registered
        PROVE  NoDanglingEntry'
    BY <1>0, <2>1, EntriesKept DEF Moves, Step, helloVars, TypeOK
  <2>2. CASE HelloFails(s) BY <2>1, <2>2 DEF HelloFails, Registered
  <2>3. CASE Authenticate(s) BY <2>1, <2>3 DEF Authenticate, Registered
  <2>4. CASE Refuse(s) BY <2>1, <2>4 DEF Refuse, Registered
  <2>5. CASE RegisterNothing(s)
    BY <2>1, <2>5 DEF RegisterNothing, Registered
  <2>6. CASE RegisterHTTP(s) \/ RegisterTCP(s) \/ RegisterUDP(s)
    BY <2>6, RegisterKeepsEntries DEF RegisterHTTP, RegisterTCP, RegisterUDP
  <2>7. CASE PersistReservation(s)
    BY <1>0, <2>7, EntriesKept
       DEF PersistReservation, Step, helloVars, Registered, TypeOK
  <2>8. CASE PersistTunnel(s)
    BY <1>0, <2>8, EntriesKept
       DEF PersistTunnel, Step, helloVars, Registered, TypeOK
  <2>9. CASE EnsureTCPListener(s) \/ EnsureUDPListener(s)
    BY <1>0, <2>9, EntriesKept
       DEF EnsureTCPListener, EnsureUDPListener, EnsureListener, Step,
           helloVars, Registered, TypeOK
  <2>10. CASE ControlReadFails(s)
    BY <2>1, <2>10 DEF ControlReadFails, Registered
  <2>11. CASE ReleaseHTTP(s) \/ ReleaseTCP(s) \/ ReleaseUDP(s)
    BY <2>11, ReleaseKeepsEntries DEF ReleaseHTTP, ReleaseTCP, ReleaseUDP
  <2>12. CASE ReleaseNothing(s)
    BY <2>12 DEF ReleaseNothing, NoDanglingEntry, Moves, Step, helloVars,
                 KeyOf, Named, TypeOK, Binding
  <2>13. CASE RemoveTCPListener(s) \/ RemoveUDPListener(s)
    BY <1>0, <2>13, EntriesKept
       DEF RemoveTCPListener, RemoveUDPListener, RemoveListener, Step,
           helloVars, Registered, TypeOK
  <2>14. CASE Close(s)
    BY <1>0, <2>14, EntriesKept DEF Close, Step, helloVars, Registered, TypeOK
  <2> QED BY <1>3, <2>2, <2>3, <2>4, <2>5, <2>6, <2>7, <2>8, <2>9, <2>10,
             <2>11, <2>12, <2>13, <2>14 DEF HandlerStep
<1>4. ASSUME NEW s \in Session, PeerStep(s) PROVE NoDanglingEntry'
  <2>1. CASE Accept(s)
    BY <1>0, <2>1, EntriesKept
       DEF Accept, Step, helloVars, Registered, TypeOK
  <2>2. CASE PeerDrops(s)
    BY <1>0, <2>2, EntriesKept DEF PeerDrops, helloVars
  <2>3. CASE ReadHello(s)
    BY <2>3 DEF ReadHello, Step, NoDanglingEntry, Registered, KeyOf, Named,
                TypeOK, Binding
  <2>4. CASE HeartbeatTimeout(s)
    BY <1>0, <2>4, EntriesKept
       DEF HeartbeatTimeout, Moves, Step, helloVars, Registered, TypeOK
  <2> QED BY <1>4, <2>1, <2>2, <2>3, <2>4 DEF PeerStep
<1>5. ASSUME NEW r \in Request, AdminStep(r) PROVE NoDanglingEntry'
  <2>1. reg' \subseteq reg /\ hello' = hello /\ phase' = phase
    BY <1>5 DEF AdminStep, BeginRotate, HandleRotateToken, BeginKill, KillHTTP,
                KillTCP, KillUDP, MarkTerminated, RemoveHTTPByTunnelID,
                RemoveTCPByTunnelID, RemoveUDPByTunnelID, handlerVars,
                helloVars
  <2> QED BY <1>0, <2>1, EntriesKept
<1>6. CASE UNCHANGED vars BY <1>0, <1>6, EntriesKept DEF vars
<1> QED BY <1>1, <1>2, <1>3, <1>4, <1>5, <1>6 DEF Next

(* Every registry entry belongs to a handler that registered it and will   *)
(* still clean it up: no session's end strands a route.                    *)
THEOREM NoEntryIsStranded == Spec => []NoDanglingEntry
<1>1. Init => NoDanglingEntry BY DEF Init, NoDanglingEntry, EmptyRegistry
<1> QED BY <1>1, TypeCorrect, EntriesInductive, PTL DEF Spec

-----------------------------------------------------------------------------
(* Listeners and the handlers that will close them.                        *)

(* NoOrphanListener is not inductive alone: a handler of a subdomain ends  *)
(* without RemoveListener, so no listener may be under such a name.        *)
ListenerInv ==
    /\ NoOrphanListener
    /\ \A n \in listeners : Kind[n] # "http"

ListenerPhase == {"serving", "releasing", "unlistening"}

(* Steps that open nothing and in which no handler goes back.              *)
LEMMA ListenersKept ==
    ASSUME ListenerInv, listeners' \subseteq listeners, hello' = hello,
           \A s \in Session : phase[s] \in ListenerPhase
                                => phase'[s] \in ListenerPhase
    PROVE  ListenerInv'
BY DEF ListenerInv, NoOrphanListener, ListenerPhase, KeyOf, Named

(* A handler may stop being a port's closer if it is not that port's.      *)
LEMMA HandlerLeaves ==
    ASSUME ListenerInv, NEW s \in Session, listeners' \subseteq listeners,
           hello' = hello,
           \A o \in Session \ {s} : phase'[o] = phase[o],
           Named(s) => KeyOf(s) \notin listeners'
    PROVE  ListenerInv'
BY DEF ListenerInv, NoOrphanListener, KeyOf, Named

(* ListenerInv is inductive beside the type invariant.                     *)
LEMMA ListenersInductive ==
    TypeOK /\ ListenerInv /\ [Next]_vars => ListenerInv'
<1> SUFFICES ASSUME TypeOK, ListenerInv, [Next]_vars
             PROVE  ListenerInv'
    OBVIOUS
<1>1. CASE Boot
  BY <1>1, ListenersKept DEF Boot, handlerVars, helloVars
<1>2. CASE Crash BY <1>2 DEF Crash, ListenerInv, NoOrphanListener
<1>3. ASSUME NEW s \in Session, HandlerStep(s) PROVE ListenerInv'
  <2>1. ASSUME NEW p, NEW q, Moves(s, p, q),
               p \in ListenerPhase => q \in ListenerPhase
        PROVE  ListenerInv'
    BY <2>1, ListenersKept DEF Moves, Step, helloVars, TypeOK
  <2>2. CASE HelloFails(s) BY <2>1, <2>2 DEF HelloFails, ListenerPhase
  <2>3. CASE Authenticate(s) BY <2>1, <2>3 DEF Authenticate, ListenerPhase
  <2>4. CASE Refuse(s) BY <2>1, <2>4 DEF Refuse, ListenerPhase
  <2>5. CASE RegisterNothing(s)
    BY <2>1, <2>5 DEF RegisterNothing, ListenerPhase
  <2>6. CASE RegisterHTTP(s) \/ RegisterTCP(s) \/ RegisterUDP(s)
    BY <2>6, ListenersKept
       DEF RegisterHTTP, RegisterTCP, RegisterUDP, Register, Step, helloVars,
           ListenerPhase, TypeOK
  <2>7. CASE PersistReservation(s)
    BY <2>7, ListenersKept
       DEF PersistReservation, Step, helloVars, ListenerPhase, TypeOK
  <2>8. CASE PersistTunnel(s)
    BY <2>8, ListenersKept
       DEF PersistTunnel, Step, helloVars, ListenerPhase, TypeOK
  <2>9. ASSUME Named(s), KindOf(s) # "http", EnsureListener(s)
        PROVE  ListenerInv'
    BY <2>9 DEF EnsureListener, ListenerInv, NoOrphanListener, Step, helloVars,
                KeyOf, KindOf, Named, TypeOK
  <2>10. CASE EnsureTCPListener(s) \/ EnsureUDPListener(s)
    BY <2>9, <2>10 DEF EnsureTCPListener, EnsureUDPListener
  <2>11. CASE ControlReadFails(s)
    BY <2>1, <2>11 DEF ControlReadFails, ListenerPhase
  <2>12. CASE ReleaseHTTP(s)
    <3>1. Named(s) /\ KeyOf(s) \notin listeners
      BY <2>12 DEF ReleaseHTTP, KindOf, ListenerInv
    <3> QED BY <2>12, <3>1, HandlerLeaves
            DEF ReleaseHTTP, Release, Step, helloVars, TypeOK
  <2>13. CASE ReleaseTCP(s) \/ ReleaseUDP(s)
    BY <2>13, ListenersKept
       DEF ReleaseTCP, ReleaseUDP, Release, Step, helloVars, ListenerPhase,
           TypeOK
  <2>14. CASE ReleaseNothing(s)
    BY <2>14, HandlerLeaves DEF ReleaseNothing, Moves, Step, helloVars, TypeOK
  <2>15. CASE RemoveTCPListener(s) \/ RemoveUDPListener(s)
    BY <2>15, HandlerLeaves
       DEF RemoveTCPListener, RemoveUDPListener, RemoveListener, Step,
           helloVars, TypeOK
  <2>16. CASE Close(s)
    BY <2>16, ListenersKept DEF Close, Step, helloVars, ListenerPhase, TypeOK
  <2> QED BY <1>3, <2>2, <2>3, <2>4, <2>5, <2>6, <2>7, <2>8, <2>10, <2>11,
             <2>12, <2>13, <2>14, <2>15, <2>16 DEF HandlerStep
<1>4. ASSUME NEW s \in Session, PeerStep(s) PROVE ListenerInv'
  <2>1. CASE Accept(s)
    BY <2>1, ListenersKept DEF Accept, Step, helloVars, ListenerPhase, TypeOK
  <2>2. CASE PeerDrops(s) BY <2>2, ListenersKept DEF PeerDrops, helloVars
  <2>3. CASE ReadHello(s)
    <3>1. /\ listeners' = listeners /\ phase[s] = "accepted"
          /\ \A o \in Session \ {s} : phase'[o] = phase[o] /\ hello'[o] = hello[o]
      BY <2>3 DEF ReadHello, Step, TypeOK
    <3> QED BY <3>1 DEF ListenerInv, NoOrphanListener, KeyOf, Named
  <2>4. CASE HeartbeatTimeout(s)
    BY <2>4, ListenersKept
       DEF HeartbeatTimeout, Moves, Step, helloVars, ListenerPhase, TypeOK
  <2> QED BY <1>4, <2>1, <2>2, <2>3, <2>4 DEF PeerStep
<1>5. ASSUME NEW r \in Request, AdminStep(r) PROVE ListenerInv'
  <2>1. listeners' = listeners /\ hello' = hello /\ phase' = phase
    BY <1>5 DEF AdminStep, BeginRotate, HandleRotateToken, BeginKill, KillHTTP,
                KillTCP, KillUDP, MarkTerminated, handlerVars, helloVars
  <2> QED BY <2>1, ListenersKept
<1>6. CASE UNCHANGED vars BY <1>6, ListenersKept DEF vars
<1> QED BY <1>1, <1>2, <1>3, <1>4, <1>5, <1>6 DEF Next

(* No port stays open once the last handler that would close it is gone,   *)
(* however openings and closings by different handlers interleave.         *)
THEOREM NoListenerIsOrphaned == Spec => []NoOrphanListener
<1>1. Init => ListenerInv BY DEF Init, ListenerInv, NoOrphanListener
<1>2. ListenerInv => NoOrphanListener BY DEF ListenerInv
<1> QED BY <1>1, <1>2, TypeCorrect, ListenersInductive, PTL DEF Spec

-----------------------------------------------------------------------------
(* Tokens.                                                                 *)

Admitted == {"authenticated", "reserving", "recording", "listening",
             "serving"}

(* What makes revocation final: a running server always has an active row, *)
(* so every handler at work has decided to ask the store, and a token that *)
(* was not active when a hello was read is blank or revoked for good.      *)
TokenInv ==
    /\ active \subseteq used
    /\ active = {} \/ \E t \in Token : active = {t}
    /\ up => active # {}
    /\ \A s \in Session :
          /\ phase[s] \notin {"idle", "done"} => up /\ storedAuth[s]
          /\ phase[s] \in {"idle", "accepted"} => ~ late[s]
          /\ late[s] => cred[s] \in (used \cup {NoToken}) \ active
    /\ RevokedTokenNeverRegistered

(* A step of a handler whose late hello, if it is one, gains nothing.      *)
LEMMA HandlerKeepsTokens ==
    ASSUME TypeOK, TokenInv, NEW s \in Session,
           UNCHANGED <<up, active, used, cred, late, storedAuth>>,
           phase[s] \notin {"idle", "done"},
           phase' = [phase EXCEPT ![s] = phase'[s]],
           phase'[s] \notin {"idle", "accepted"},
           late[s] => phase'[s] \notin Admitted,
           \A b \in reg' : b \in reg \/ (b.session = s /\ ~ late[s])
    PROVE  TokenInv'
BY DEF TokenInv, RevokedTokenNeverRegistered, Admitted, TypeOK

(* A step that moves no handler and issues at most new tokens.             *)
LEMMA RotationKeepsTokens ==
    ASSUME TypeOK, TokenInv, UNCHANGED <<phase, cred, late, storedAuth>>,
           reg' \subseteq reg, up => up',
           \/ UNCHANGED <<active, used>> /\ (up' => active # {})
           \/ \E t \in Token : /\ t \notin used
                               /\ active' = {t} /\ used' = used \cup {t}
    PROVE  TokenInv'
<1>1. CASE UNCHANGED <<active, used>> /\ (up' => active # {})
  BY <1>1 DEF TokenInv, RevokedTokenNeverRegistered
<1>2. ASSUME NEW t \in Token, t \notin used,
             active' = {t}, used' = used \cup {t}
      PROVE  TokenInv'
  <2>1. \A s \in Session :
           late[s] => cred[s] \in (used' \cup {NoToken}) \ active'
    BY <1>2, NoTokenAssumption DEF TokenInv
  <2> QED BY <1>2, <2>1 DEF TokenInv, RevokedTokenNeverRegistered
<1> QED BY <1>1, <1>2

(* TokenInv is inductive; that late handlers own no entry needs            *)
(* NoDanglingEntry, which says whose an entry is.                          *)
LEMMA TokensInductive ==
    TypeOK /\ NoDanglingEntry /\ TokenInv /\ [Next]_vars => TokenInv'
<1> SUFFICES ASSUME TypeOK, NoDanglingEntry, TokenInv, [Next]_vars
             PROVE  TokenInv'
    OBVIOUS
<1>1. CASE Boot
  <2>1. PICK t \in EnvToken \cup {NoToken} : EnsureToken(t)
    BY <1>1 DEF Boot
  <2> QED BY <1>1, <2>1, RotationKeepsTokens, EnvAssumption
          DEF Boot, EnsureToken, HasActiveToken, tokenVars, handlerVars,
              helloVars
<1>2. CASE Crash
  <2>1. /\ up' = FALSE /\ reg' = {}
        /\ UNCHANGED <<active, used, cred, late, storedAuth>>
        /\ \A s \in Session :
              phase'[s] = IF phase[s] = "idle" THEN "idle" ELSE "done"
    BY <1>2 DEF Crash, helloVars, storeVars, EmptyRegistry
  <2> QED BY <2>1 DEF TokenInv, RevokedTokenNeverRegistered
<1>3. ASSUME NEW s \in Session, HandlerStep(s) PROVE TokenInv'
  <2> DEFINE Same == UNCHANGED <<up, active, used, cred, late, storedAuth>>
  <2> USE DEF Same, Step, Moves, processVars, helloVars, storeVars, tokenVars,
              Admitted, TypeOK, TokenInv, RevokedTokenNeverRegistered
  <2>1. late[s] => phase[s] \notin Admitted OBVIOUS
  <2>2. CASE HelloFails(s) BY <2>2, HandlerKeepsTokens DEF HelloFails
  <2>3. CASE Authenticate(s)
    <3>1. ~ late[s]
      BY <2>3, NoTokenAssumption DEF Authenticate, Authorized, ValidateToken
    <3> QED BY <2>3, <3>1, HandlerKeepsTokens DEF Authenticate
  <2>4. CASE Refuse(s) BY <2>4, HandlerKeepsTokens DEF Refuse
  <2>5. CASE RegisterNothing(s)
    BY <2>5, HandlerKeepsTokens DEF RegisterNothing
  <2>6. ASSUME NEW a, Register(s, a) PROVE TokenInv'
    BY <2>6, HandlerKeepsTokens DEF Register, Put
  <2>7. CASE RegisterHTTP(s) \/ RegisterTCP(s) \/ RegisterUDP(s)
    BY <2>6, <2>7 DEF RegisterHTTP, RegisterTCP, RegisterUDP
  <2>8. CASE PersistReservation(s)
    BY <2>8, HandlerKeepsTokens DEF PersistReservation
  <2>9. CASE PersistTunnel(s) BY <2>9, HandlerKeepsTokens DEF PersistTunnel
  <2>10. CASE EnsureTCPListener(s) \/ EnsureUDPListener(s)
    BY <2>10, HandlerKeepsTokens
       DEF EnsureTCPListener, EnsureUDPListener, EnsureListener
  <2>11. CASE ControlReadFails(s)
    BY <2>11, HandlerKeepsTokens DEF ControlReadFails
  <2>12. CASE ReleaseHTTP(s) \/ ReleaseTCP(s) \/ ReleaseUDP(s)
    BY <2>12, HandlerKeepsTokens
       DEF ReleaseHTTP, ReleaseTCP, ReleaseUDP, Release, Remove
  <2>13. CASE ReleaseNothing(s)
    BY <2>13, HandlerKeepsTokens DEF ReleaseNothing
  <2>14. CASE RemoveTCPListener(s) \/ RemoveUDPListener(s)
    BY <2>14, HandlerKeepsTokens
       DEF RemoveTCPListener, RemoveUDPListener, RemoveListener
  <2>15. CASE Close(s) BY <2>15, HandlerKeepsTokens DEF Close
  <2> QED BY <1>3, <2>2, <2>3, <2>4, <2>5, <2>7, <2>8, <2>9, <2>10, <2>11,
             <2>12, <2>13, <2>14, <2>15 DEF HandlerStep
<1>4. ASSUME NEW s \in Session, PeerStep(s) PROVE TokenInv'
  <2> USE DEF Step, Moves, processVars, helloVars, storeVars, TypeOK
  <2>1. CASE Accept(s)
    BY <2>1 DEF Accept, HasActiveToken, TokenInv, RevokedTokenNeverRegistered
  <2>2. CASE PeerDrops(s)
    BY <2>2 DEF PeerDrops, TokenInv, RevokedTokenNeverRegistered
  <2>3. CASE ReadHello(s)
    <3>1. PICK t \in used \cup {NoToken} :
            /\ cred' = [cred EXCEPT ![s] = t]
            /\ late' = [late EXCEPT ![s] = t \notin active]
      BY <2>3 DEF ReadHello
    <3>2. /\ UNCHANGED <<up, active, used, storedAuth, reg>>
          /\ phase[s] = "accepted" /\ phase' = [phase EXCEPT ![s] = "greeted"]
      BY <2>3 DEF ReadHello
    <3>3. \A o \in Session \ {s} :
             cred'[o] = cred[o] /\ late'[o] = late[o] /\ phase'[o] = phase[o]
      BY <3>1, <3>2
    <3>4. late'[s] => cred'[s] \in (used \cup {NoToken}) \ active
      BY <3>1
    <3>5. \A b \in reg : b.session # s
      BY <3>2 DEF NoDanglingEntry, Registered
    <3> QED BY <3>2, <3>3, <3>4, <3>5
            DEF TokenInv, RevokedTokenNeverRegistered
  <2>4. CASE HeartbeatTimeout(s)
    BY <2>4, HandlerKeepsTokens
       DEF HeartbeatTimeout, Admitted, TokenInv, RevokedTokenNeverRegistered
  <2> QED BY <1>4, <2>1, <2>2, <2>3, <2>4 DEF PeerStep
<1>5. ASSUME NEW r \in Request, AdminStep(r) PROVE TokenInv'
  <2> USE DEF handlerVars, helloVars, storeVars, processVars, tokenVars
  <2>1. CASE HandleRotateToken(r)
    BY <2>1, RotationKeepsTokens
       DEF HandleRotateToken, RotateToken, TokenInv
  <2>2. CASE ~ HandleRotateToken(r)
    BY <1>5, <2>2, RotationKeepsTokens
       DEF AdminStep, BeginRotate, BeginKill, KillHTTP, KillTCP, KillUDP,
           MarkTerminated, RemoveHTTPByTunnelID, RemoveTCPByTunnelID,
           RemoveUDPByTunnelID, TokenInv
  <2> QED BY <2>1, <2>2
<1>6. CASE UNCHANGED vars
  BY <1>6, RotationKeepsTokens DEF vars, TokenInv
<1> QED BY <1>1, <1>2, <1>3, <1>4, <1>5, <1>6 DEF Next

(* The strengthened token invariant, from which both theorems follow.      *)
LEMMA TokenInvariant == Spec => []TokenInv
<1>1. Init => TokenInv
  BY DEF Init, TokenInv, RevokedTokenNeverRegistered, EmptyRegistry
<1> QED BY <1>1, TypeCorrect, NoEntryIsStranded, TokensInductive, PTL DEF Spec

(* A token that was revoked when the hello was read never gets a tunnel,   *)
(* whatever was decided when the connection was accepted.                  *)
THEOREM RevocationIsFinal == Spec => []RevokedTokenNeverRegistered
<1>1. TokenInv => RevokedTokenNeverRegistered BY DEF TokenInv
<1> QED BY <1>1, TokenInvariant, PTL

(* A running server has exactly one valid token.                           *)
THEOREM TokenIsUnique == Spec => []OneActiveToken
<1>1. TokenInv => OneActiveToken BY DEF TokenInv, OneActiveToken
<1> QED BY <1>1, TokenInvariant, PTL

-----------------------------------------------------------------------------
(* Refinement: the server is a tunnel directory.                           *)

Ended == {s \in Session : phase[s] = "done"}

(* What a step of the directory is, in the server's variables.             *)
DirectoryStep ==
    \/ \E e \in Binding :
          /\ e.session \notin Ended
          /\ \A b \in reg : b.name = e.name => b.tid = e.tid
          /\ reg' = {b \in reg : b.name # e.name} \cup {e}
          /\ Ended' = Ended
    \/ reg' \subseteq reg /\ Ended' = Ended
    \/ \E s \in Session : /\ \A b \in reg : b.session # s
                          /\ Ended' = Ended \cup {s} /\ reg' = reg
    \/ reg' = {} /\ Ended \subseteq Ended' /\ Ended' \subseteq Session

(* A step of this form is one of the directory's four actions.             *)
LEMMA DirectoryStepIsStep == DirectoryStep => [Directory!Next]_(Directory!vars)
<1> SUFFICES ASSUME DirectoryStep PROVE Directory!Next
    OBVIOUS
<1> USE DEF DirectoryStep, Ended, Binding
<1>1. ASSUME NEW e \in Binding, e.session \notin Ended,
             \A b \in reg : b.name = e.name => b.tid = e.tid,
             reg' = {b \in reg : b.name # e.name} \cup {e}, Ended' = Ended
      PROVE  Directory!Next
  BY <1>1 DEF Directory!Next, Directory!Bind, Directory!Entry
<1>2. CASE reg' \subseteq reg /\ Ended' = Ended
  BY <1>2 DEF Directory!Next, Directory!Unbind
<1>3. ASSUME NEW s \in Session, \A b \in reg : b.session # s,
             Ended' = Ended \cup {s}, reg' = reg
      PROVE  Directory!Next
  BY <1>3 DEF Directory!Next, Directory!End
<1>4. CASE reg' = {} /\ Ended \subseteq Ended' /\ Ended' \subseteq Session
  BY <1>4 DEF Directory!Next, Directory!Stop
<1> QED BY <1>1, <1>2, <1>3, <1>4

(* Every step of the server has this form: a registration binds, clean-ups *)
(* and kills unbind, Close ends a session nothing leads to, Crash stops.   *)
LEMMA StepRefines ==
    TypeOK /\ NoDanglingEntry /\ [Next]_vars => DirectoryStep
<1> SUFFICES ASSUME TypeOK, NoDanglingEntry, [Next]_vars
             PROVE  DirectoryStep
    OBVIOUS
<1>0. ASSUME reg' \subseteq reg, Ended' = Ended PROVE DirectoryStep
  BY <1>0 DEF DirectoryStep
<1>1. CASE Boot BY <1>0, <1>1 DEF Boot, handlerVars, Ended
<1>2. CASE Crash
  BY <1>2 DEF Crash, DirectoryStep, Ended, EmptyRegistry
<1>3. ASSUME NEW s \in Session, HandlerStep(s) PROVE DirectoryStep
  <2>1. ASSUME NEW p, NEW q, Step(s, p, q), p # "done", q # "done",
               reg' \subseteq reg
        PROVE  DirectoryStep
    BY <1>0, <2>1 DEF Step, Ended, TypeOK
  <2>2. ASSUME NEW a, Register(s, a),
               a => \A b \in reg : b.name = KeyOf(s) => b.tid = hello[s].tid
        PROVE  DirectoryStep
    <3>1. CASE ~ a BY <2>1, <2>2, <3>1 DEF Register
    <3>2. CASE a
      <4> DEFINE e == [name |-> KeyOf(s), tid |-> hello[s].tid, session |-> s]
      <4>1. e \in Binding
        BY <2>2, KeyAssumption
           DEF Register, Binding, KeyOf, Named, TypeOK, Hello
      <4>2. reg' = {b \in reg : b.name # e.name} \cup {e}
        BY <2>2, <3>2 DEF Register, Put
      <4>3. e.session \notin Ended /\ Ended' = Ended
        BY <2>2, <3>2 DEF Register, Step, Ended, TypeOK
      <4>4. \A b \in reg : b.name = e.name => b.tid = e.tid
        BY <2>2, <3>2
      <4> HIDE DEF e
      <4> QED BY <4>1, <4>2, <4>3, <4>4 DEF DirectoryStep
    <3> QED BY <3>1, <3>2
  <2>3. CASE RegisterHTTP(s)
    BY <2>2, <2>3 DEF RegisterHTTP, HTTPAvailable, Bound
  <2>4. CASE RegisterTCP(s) BY <2>2, <2>4 DEF RegisterTCP, TCPAvailable
  <2>5. CASE RegisterUDP(s) BY <2>2, <2>5 DEF RegisterUDP, UDPAvailable
  <2>6. CASE Close(s)
    <3>1. phase[s] = "closing" /\ phase' = [phase EXCEPT ![s] = "done"]
      BY <2>6 DEF Close, Step
    <3>2. \A b \in reg : b.session # s
      BY <3>1 DEF NoDanglingEntry, Registered
    <3>3. Ended' = Ended \cup {s} BY <3>1 DEF Ended, TypeOK
    <3> QED BY <2>6, <3>2, <3>3 DEF Close, DirectoryStep
  <2>7. CASE \/ HelloFails(s) \/ Authenticate(s) \/ Refuse(s)
             \/ RegisterNothing(s) \/ ControlReadFails(s) \/ ReleaseNothing(s)
    BY <2>1, <2>7
       DEF HelloFails, Authenticate, Refuse, RegisterNothing,
           ControlReadFails, ReleaseNothing, Moves
  <2>8. CASE PersistReservation(s) \/ PersistTunnel(s)
    BY <2>1, <2>8 DEF PersistReservation, PersistTunnel
  <2>9. CASE \/ EnsureTCPListener(s) \/ EnsureUDPListener(s)
             \/ RemoveTCPListener(s) \/ RemoveUDPListener(s)
    BY <2>1, <2>9
       DEF EnsureTCPListener, EnsureUDPListener, EnsureListener,
           RemoveTCPListener, RemoveUDPListener, RemoveListener
  <2>10. CASE ReleaseHTTP(s) \/ ReleaseTCP(s) \/ ReleaseUDP(s)
    BY <2>1, <2>10
       DEF ReleaseHTTP, ReleaseTCP, ReleaseUDP, Release, Remove
  <2> QED BY <1>3, <2>3, <2>4, <2>5, <2>6, <2>7, <2>8, <2>9, <2>10
          DEF HandlerStep
<1>4. ASSUME NEW s \in Session, PeerStep(s) PROVE DirectoryStep
  BY <1>0, <1>4 DEF PeerStep, Accept, PeerDrops, ReadHello, HeartbeatTimeout,
                    Moves, Step, Ended, TypeOK
<1>5. ASSUME NEW r \in Request, AdminStep(r) PROVE DirectoryStep
  BY <1>0, <1>5 DEF AdminStep, BeginRotate, HandleRotateToken, BeginKill,
                    KillHTTP, KillTCP, KillUDP, MarkTerminated,
                    RemoveHTTPByTunnelID, RemoveTCPByTunnelID,
                    RemoveUDPByTunnelID, handlerVars, Ended
<1>6. CASE UNCHANGED vars BY <1>0, <1>6 DEF vars, Ended
<1> QED BY <1>1, <1>2, <1>3, <1>4, <1>5, <1>6 DEF Next

(* Every behaviour of the server is one of the abstract directory: a name  *)
(* goes only to a live session, when free or its own tunnel's, and no name *)
(* leads to a session that ended.                                          *)
THEOREM ServerIsDirectory == Spec => ImplementsDirectory
<1>1. Init => Directory!Init BY DEF Init, Directory!Init, EmptyRegistry
<1>2. TypeOK /\ NoDanglingEntry /\ [Next]_vars
        => [Directory!Next]_(Directory!vars)
  BY StepRefines, DirectoryStepIsStep
<1> QED BY <1>1, <1>2, TypeCorrect, NoEntryIsStranded, PTL
        DEF Spec, ImplementsDirectory, Directory!Spec

-----------------------------------------------------------------------------
(* Kills, of clients that choose a new tunnel id for every connection.     *)

Written == {"listening", "serving", "releasing", "unlistening", "closing",
            "done"}

(* The removals a kill has made before its next step.                      *)
Cleared(step, kind) ==
    \/ step = "mark"
    \/ step = "udp" /\ kind # "udp"
    \/ step = "tcp" /\ kind = "http"

(* A kill names a recorded tunnel; a recorded tunnel belongs to a          *)
(* connection already past its registration, and no other connection has   *)
(* the id: so nothing registers behind a kill's back.                      *)
KillInv ==
    /\ \A r \in Request :
          req[r].step \in {"http", "tcp", "udp", "mark"}
            => TunnelRecorded(req[r].tid)
    /\ \A r \in Request, b \in reg :
          Cleared(req[r].step, Kind[b.name]) => b.tid # req[r].tid
    /\ \A t \in TunnelId : tunnels[t] # "none" =>
          \E s \in Session : hello[s].tid = t /\ phase[s] \in Written
    /\ \A s \in Session : hello[s].tid # NoTunnel => hello[s] \in Offer[s]
    /\ TerminatedNotRouted

(* A step that registers nothing and writes no row.                        *)
LEMMA KillsKept ==
    ASSUME KillInv, UNCHANGED <<tunnels, hello, req>>, reg' \subseteq reg,
           \A s \in Session : phase[s] \in Written => phase'[s] \in Written
    PROVE  KillInv'
BY DEF KillInv, TunnelRecorded, TerminatedNotRouted

(* A step of the admin API alone keeps KillInv when the kills it leaves    *)
(* under way name recorded tunnels and have removed what they must have.   *)
LEMMA RequestsKeepKills ==
    ASSUME KillInv, UNCHANGED <<tunnels, hello, reg, phase>>,
           \A q \in Request :
              req'[q].step \in {"http", "tcp", "udp", "mark"}
                => TunnelRecorded(req'[q].tid),
           \A q \in Request, b \in reg :
              Cleared(req'[q].step, Kind[b.name]) => b.tid # req'[q].tid
    PROVE  KillInv'
<1>1. \A q \in Request :
         req'[q].step \in {"http", "tcp", "udp", "mark"}
           => req'[q].tid \in TunnelId /\ tunnels'[req'[q].tid] # "none"
  BY DEF TunnelRecorded
<1>2. /\ \A t \in TunnelId : tunnels'[t] # "none" =>
            \E s \in Session : hello'[s].tid = t /\ phase'[s] \in Written
      /\ \A s \in Session : hello'[s].tid # NoTunnel => hello'[s] \in Offer[s]
  BY DEF KillInv
<1>3. TerminatedNotRouted' BY DEF KillInv, TerminatedNotRouted
<1>4. \A q \in Request, b \in reg' :
         Cleared(req'[q].step, Kind[b.name]) => b.tid # req'[q].tid
  OBVIOUS
<1> QED BY <1>1, <1>2, <1>3, <1>4 DEF KillInv, TunnelRecorded

(* A tunnel that is not recorded is of no kill's concern: a connection not *)
(* past its registration has an id no recorded tunnel has.                 *)
LEMMA RegisteringIsUnrecorded ==
    ASSUME FreshIds, TypeOK, KillInv, NEW s \in Session,
           phase[s] \notin Written
    PROVE  ~ TunnelRecorded(hello[s].tid)
<1> SUFFICES ASSUME hello[s].tid \in TunnelId, tunnels[hello[s].tid] # "none"
             PROVE  FALSE
  BY DEF TunnelRecorded
<1>1. PICK o \in Session : hello[o].tid = hello[s].tid /\ phase[o] \in Written
  BY DEF KillInv
<1>2. hello[s].tid # NoTunnel BY NoTunnelAssumption
<1>3. hello[s] \in Offer[s] /\ hello[o] \in Offer[o]
  BY <1>1, <1>2 DEF KillInv
<1> QED BY <1>1, <1>2, <1>3 DEF FreshIds

(* A registration is of an id no kill can have named yet.                  *)
LEMMA RegisterKeepsKills ==
    ASSUME FreshIds, TypeOK, KillInv, NEW s \in Session, NEW a,
           Register(s, a)
    PROVE  KillInv'
<1>1. /\ UNCHANGED <<tunnels, hello, req>> /\ phase[s] = "authenticated"
      /\ \A o \in Session \ {s} : phase'[o] = phase[o]
  BY DEF Register, Step, helloVars, storeVars, TypeOK
<1>2. \A b \in reg' : b \in reg \/ b.tid = hello[s].tid
  BY DEF Register, Put
<1>3. ~ TunnelRecorded(hello[s].tid)
  BY <1>1, RegisteringIsUnrecorded DEF Written
<1>4. \A r \in Request :
         Cleared(req[r].step, "http") \/ Cleared(req[r].step, "tcp")
           \/ Cleared(req[r].step, "udp")
         => req[r].tid # hello[s].tid
  BY <1>3 DEF KillInv, Cleared
<1>5. \A r \in Request, b \in reg' :
         Cleared(req[r].step, Kind[b.name]) => b.tid # req[r].tid
  BY <1>2, <1>4 DEF KillInv, Cleared
<1>6. TerminatedNotRouted'
  BY <1>1, <1>2, <1>3 DEF KillInv, TerminatedNotRouted, TunnelRecorded
<1> QED BY <1>1, <1>5, <1>6 DEF KillInv, TunnelRecorded, Written

(* KillInv is inductive under FreshIds.                                    *)
LEMMA KillsInductive ==
    FreshIds /\ TypeOK /\ KillInv /\ [Next]_vars => KillInv'
<1> SUFFICES ASSUME FreshIds, TypeOK, KillInv, [Next]_vars
             PROVE  KillInv'
    OBVIOUS
<1>1. CASE Boot
  BY <1>1, KillsKept DEF Boot, handlerVars, helloVars
<1>2. CASE Crash
  <2>1. /\ UNCHANGED <<tunnels, hello>> /\ reg' = {}
        /\ \A s \in Session : phase[s] \in Written => phase'[s] = "done"
        /\ \A r \in Request : req'[r].step = "idle"
    BY <1>2 DEF Crash, Written, storeVars, helloVars, EmptyRegistry
  <2> QED BY <2>1 DEF KillInv, TerminatedNotRouted, Written
<1>3. ASSUME NEW s \in Session, HandlerStep(s) PROVE KillInv'
  <2> USE DEF Step, helloVars, storeVars, TypeOK
  <2>1. ASSUME NEW p, NEW q, Moves(s, p, q), p \in Written => q \in Written
        PROVE  KillInv'
    BY <2>1, KillsKept DEF Moves
  <2>2. CASE \/ HelloFails(s) \/ Authenticate(s) \/ Refuse(s)
             \/ RegisterNothing(s) \/ ControlReadFails(s) \/ ReleaseNothing(s)
    BY <2>1, <2>2
       DEF HelloFails, Authenticate, Refuse, RegisterNothing,
           ControlReadFails, ReleaseNothing, Written
  <2>3. CASE RegisterHTTP(s) \/ RegisterTCP(s) \/ RegisterUDP(s)
    BY <2>3, RegisterKeepsKills DEF RegisterHTTP, RegisterTCP, RegisterUDP
  <2>4. CASE PersistReservation(s)
    BY <2>4, KillsKept DEF PersistReservation, Written
  <2>5. CASE PersistTunnel(s)
    <3>1. /\ UNCHANGED <<hello, reg, req>> /\ phase[s] = "recording"
          /\ phase' = [phase EXCEPT ![s] = phase'[s]] /\ phase'[s] \in Written
      BY <2>5 DEF PersistTunnel, Written
    <3>2. CASE UNCHANGED tunnels
      BY <3>1, <3>2, KillsKept DEF Written
    <3>3. CASE /\ hello[s].tid \in TunnelId
               /\ tunnels' = [tunnels EXCEPT ![hello[s].tid] = "active"]
      <4>1. \A t \in TunnelId : tunnels'[t] # "none" =>
               \E o \in Session : hello[o].tid = t /\ phase'[o] \in Written
        BY <3>1, <3>3 DEF KillInv
      <4>2. TerminatedNotRouted'
        BY <3>1, <3>3 DEF KillInv, TerminatedNotRouted
      <4>3. \A r \in Request :
               req'[r].step \in {"http", "tcp", "udp", "mark"}
                 => req'[r].tid \in TunnelId /\ tunnels'[req'[r].tid] # "none"
        BY <3>1, <3>3 DEF KillInv, TunnelRecorded
      <4> QED BY <3>1, <4>1, <4>2, <4>3 DEF KillInv, TunnelRecorded
    <3> QED BY <2>5, <3>2, <3>3 DEF PersistTunnel, UpsertTunnel
  <2>6. CASE \/ EnsureTCPListener(s) \/ EnsureUDPListener(s)
             \/ RemoveTCPListener(s) \/ RemoveUDPListener(s)
    BY <2>6, KillsKept
       DEF EnsureTCPListener, EnsureUDPListener, EnsureListener,
           RemoveTCPListener, RemoveUDPListener, RemoveListener, Written
  <2>7. CASE ReleaseHTTP(s) \/ ReleaseTCP(s) \/ ReleaseUDP(s)
    BY <2>7, KillsKept
       DEF ReleaseHTTP, ReleaseTCP, ReleaseUDP, Release, Remove, Written
  <2>8. CASE Close(s) BY <2>8, KillsKept DEF Close, Written
  <2> QED BY <1>3, <2>2, <2>3, <2>4, <2>5, <2>6, <2>7, <2>8
          DEF HandlerStep
<1>4. ASSUME NEW s \in Session, PeerStep(s) PROVE KillInv'
  <2> USE DEF Step, helloVars, storeVars, TypeOK
  <2>1. CASE Accept(s) BY <2>1, KillsKept DEF Accept, Written
  <2>2. CASE PeerDrops(s) BY <2>2, KillsKept DEF PeerDrops
  <2>3. CASE ReadHello(s)
    <3>1. /\ UNCHANGED <<tunnels, reg, req>> /\ phase[s] = "accepted"
          /\ \A o \in Session \ {s} : phase'[o] = phase[o] /\ hello'[o] = hello[o]
          /\ hello'[s] \in Offer[s]
      BY <2>3 DEF ReadHello
    <3>2. \A t \in TunnelId : tunnels'[t] # "none" =>
             \E o \in Session : hello'[o].tid = t /\ phase'[o] \in Written
      <4> SUFFICES ASSUME NEW t \in TunnelId, tunnels[t] # "none"
                   PROVE  \E o \in Session :
                             hello'[o].tid = t /\ phase'[o] \in Written
        BY <3>1
      <4>1. PICK o \in Session : hello[o].tid = t /\ phase[o] \in Written
        BY DEF KillInv
      <4>2. o # s BY <3>1, <4>1 DEF Written
      <4> QED BY <3>1, <4>1, <4>2
    <3>3. \A o \in Session : hello'[o].tid # NoTunnel => hello'[o] \in Offer[o]
      BY <3>1 DEF KillInv
    <3> QED BY <3>1, <3>2, <3>3 DEF KillInv, TerminatedNotRouted, TunnelRecorded
  <2>4. CASE HeartbeatTimeout(s)
    BY <2>4, KillsKept DEF HeartbeatTimeout, Moves, Written
  <2> QED BY <1>4, <2>1, <2>2, <2>3, <2>4 DEF PeerStep
<1>5. ASSUME NEW r \in Request, AdminStep(r) PROVE KillInv'
  <2> USE DEF handlerVars, helloVars, storeVars, Goto, At, TypeOK
  <2>1. CASE BeginRotate(r) \/ HandleRotateToken(r)
    <3>1. UNCHANGED <<tunnels, hello, reg, phase>>
      BY <2>1 DEF BeginRotate, HandleRotateToken
    <3>2. \A q \in Request : \/ req'[q] = req[q]
                             \/ req'[q].step \in {"idle", "rotate"}
      BY <2>1 DEF BeginRotate, HandleRotateToken
    <3>3. \A q \in Request :
             req'[q].step \in {"http", "tcp", "udp", "mark"}
               => TunnelRecorded(req'[q].tid)
      BY <3>2 DEF KillInv
    <3>4. \A q \in Request, b \in reg :
             Cleared(req'[q].step, Kind[b.name]) => b.tid # req'[q].tid
      <4> SUFFICES ASSUME NEW q \in Request, NEW b \in reg,
                          Cleared(req'[q].step, Kind[b.name])
                   PROVE  b.tid # req'[q].tid
        OBVIOUS
      <4>1. req'[q] = req[q] BY <3>2 DEF Cleared
      <4> QED BY <4>1 DEF KillInv
    <3> QED BY <3>1, <3>3, <3>4, RequestsKeepKills
  <2>2. ASSUME NEW t \in TunnelId, BeginKill(r, t) PROVE KillInv'
    <3>1. /\ UNCHANGED <<tunnels, hello, reg, phase>> /\ TunnelRecorded(t)
          /\ \A q \in Request : \/ req'[q] = req[q]
                                \/ req'[q] = [step |-> "http", tid |-> t]
      BY <2>2 DEF BeginKill
    <3>2. \A q \in Request :
             req'[q].step \in {"http", "tcp", "udp", "mark"}
               => TunnelRecorded(req'[q].tid)
      BY <3>1 DEF KillInv
    <3>3. \A q \in Request, b \in reg :
             Cleared(req'[q].step, Kind[b.name]) => b.tid # req'[q].tid
      <4> SUFFICES ASSUME NEW q \in Request, NEW b \in reg,
                          Cleared(req'[q].step, Kind[b.name])
                   PROVE  b.tid # req'[q].tid
        OBVIOUS
      <4>1. req'[q] = req[q] BY <3>1 DEF Cleared
      <4> QED BY <4>1 DEF KillInv
    <3> QED BY <3>1, <3>2, <3>3, RequestsKeepKills
  <2>3. ASSUME KillHTTP(r) \/ KillTCP(r) \/ KillUDP(r) PROVE KillInv'
    <3>1. /\ UNCHANGED <<tunnels, hello, phase>> /\ reg' \subseteq reg
          /\ \A q \in Request \ {r} : req'[q] = req[q]
          /\ req[r].step \in {"http", "tcp", "udp"}
          /\ req'[r].step \in {"tcp", "udp", "mark"}
          /\ req'[r].tid = req[r].tid
      BY <2>3 DEF KillHTTP, KillTCP, KillUDP, RemoveHTTPByTunnelID,
                  RemoveTCPByTunnelID, RemoveUDPByTunnelID
    <3>2. req[r].tid # NoTunnel
      BY <3>1, NoTunnelAssumption DEF KillInv, TunnelRecorded
    <3>3. \A b \in reg' :
             Cleared(req'[r].step, Kind[b.name]) => b.tid # req'[r].tid
      <4>1. CASE KillHTTP(r)
        BY <3>2, <4>1 DEF KillHTTP, RemoveHTTPByTunnelID, Cleared
      <4>2. CASE KillTCP(r)
        <5>1. \A b \in reg : Kind[b.name] \in {"http", "tcp", "udp"}
          BY KindAssumption DEF Binding, Protocol
        <5>2. \A b \in reg : Kind[b.name] = "http" => b.tid # req[r].tid
          BY <4>2 DEF KillTCP, Cleared, KillInv
        <5>3. \A b \in reg' :
                 b \in reg /\ (b.tid # req[r].tid \/ Kind[b.name] # "tcp")
          BY <3>2, <4>2 DEF KillTCP, RemoveTCPByTunnelID
        <5>4. req'[r].step = "udp" BY <4>2 DEF KillTCP
        <5> QED BY <3>1, <5>1, <5>2, <5>3, <5>4 DEF Cleared
      <4>3. CASE KillUDP(r)
        BY <3>2, <4>3 DEF KillUDP, RemoveUDPByTunnelID, Cleared, KillInv
      <4> QED BY <2>3, <4>1, <4>2, <4>3
    <3>4. \A q \in Request, b \in reg' :
             Cleared(req'[q].step, Kind[b.name]) => b.tid # req'[q].tid
      BY <3>1, <3>3 DEF KillInv
    <3> QED BY <3>1, <3>4 DEF KillInv, TunnelRecorded, TerminatedNotRouted
  <2>4. CASE MarkTerminated(r)
    <3>1. /\ UNCHANGED <<hello, phase, reg>> /\ req[r].step = "mark"
          /\ \A q \in Request \ {r} : req'[q] = req[q]
          /\ req'[r].step = "idle"
          /\ TunnelRecorded(req[r].tid)
          /\ \/ UNCHANGED tunnels
             \/ tunnels' = [tunnels EXCEPT ![req[r].tid] = "terminated"]
      BY <2>4 DEF MarkTerminated, MarkTunnelStatus, KillInv
    <3>2. \A b \in reg : b.tid # req[r].tid
      BY <3>1 DEF KillInv, Cleared
    <3>3. \A t \in TunnelId :
             /\ tunnels[t] # "none" <=> tunnels'[t] # "none"
             /\ t # req[r].tid => tunnels'[t] = tunnels[t]
      BY <3>1 DEF TunnelRecorded
    <3>4. TerminatedNotRouted'
      BY <3>1, <3>2, <3>3 DEF KillInv, TerminatedNotRouted
    <3>5. \A q \in Request :
             req'[q].step \in {"http", "tcp", "udp", "mark"}
               => req'[q].tid \in TunnelId /\ tunnels'[req'[q].tid] # "none"
      BY <3>1, <3>3 DEF KillInv, TunnelRecorded
    <3>6. \A q \in Request, b \in reg' :
             Cleared(req'[q].step, Kind[b.name]) => b.tid # req'[q].tid
      <4>1. \A q \in Request \ {r}, b \in reg :
               Cleared(req[q].step, Kind[b.name]) => b.tid # req[q].tid
        BY DEF KillInv
      <4>2. \A b \in reg : ~ Cleared(req'[r].step, Kind[b.name])
        BY <3>1 DEF Cleared
      <4> QED BY <3>1, <4>1, <4>2
    <3>7. \A t \in TunnelId : tunnels'[t] # "none" =>
             \E s \in Session : hello'[s].tid = t /\ phase'[s] \in Written
      BY <3>1, <3>3 DEF KillInv
    <3>8. \A s \in Session : hello'[s].tid # NoTunnel => hello'[s] \in Offer[s]
      BY <3>1 DEF KillInv
    <3> QED BY <3>4, <3>5, <3>6, <3>7, <3>8 DEF KillInv, TunnelRecorded
  <2> QED BY <1>5, <2>1, <2>2, <2>3, <2>4 DEF AdminStep
<1>6. CASE UNCHANGED vars BY <1>6, KillsKept DEF vars
<1> QED BY <1>1, <1>2, <1>3, <1>4, <1>5, <1>6 DEF Next

(* If clients choose a new tunnel id per connection, a tunnel marked       *)
(* terminated is not in the registry: the four steps of a kill leave no    *)
(* gap for a registration.                                                 *)
THEOREM TerminatedStaysDown == ASSUME FreshIds PROVE Spec => []TerminatedNotRouted
<1>1. Init => KillInv
  BY DEF Init, KillInv, TerminatedNotRouted, EmptyRegistry
<1>2. TypeOK /\ KillInv /\ [Next]_vars => KillInv'
  BY KillsInductive
<1>3. KillInv => TerminatedNotRouted BY DEF KillInv
<1> QED BY <1>1, <1>2, <1>3, TypeCorrect, PTL DEF Spec

-----------------------------------------------------------------------------
(* Reachability of the tunnels nobody contends for and nobody kills, where *)
(* writes and binds succeed.                                               *)

(* Handlers whose hello takes part in contention for a name.               *)
Live == Phase \ {"idle", "accepted", "done"}

(* Handlers that go on as if their registration had succeeded.             *)
Routable == {"reserving", "recording", "listening", "serving"}

Gone == {t \in TunnelId \cup {NoTunnel} : Killed(t)}

EntryOf(s) == [name |-> KeyOf(s), tid |-> hello[s].tid, session |-> s]

Uncontested ==
    {s \in Session : /\ phase[s] \in Routable
                     /\ Named(s)
                     /\ ~ rival[s]
                     /\ hello[s].tid \notin Gone}

Reached ==
    {s \in Session :
        /\ EntryOf(s) \in reg
        /\ phase[s] = "serving" /\ KindOf(s) # "http" => KeyOf(s) \in listeners}

(* Two live handlers of one name know of each other, and a handler has no  *)
(* name before its hello is read.                                          *)
RivalInv ==
    /\ \A s \in Session : phase[s] \in {"idle", "accepted"} => ~ Named(s)
    /\ \A s, o \in Session :
          (/\ s # o /\ phase[s] \in Live /\ phase[o] \in Live
           /\ Named(s) /\ Named(o) /\ KeyOf(s) = KeyOf(o)) => rival[s]

(* A tunnel must be in the registry from its registration on, for what     *)
(* UncontestedTunnelReachable says of serving handlers to be inductive.    *)
RouteInv == Uncontested \subseteq Reached

(* RivalInv is inductive: only ReadHello gives a handler a name.           *)
LEMMA RivalsInductive == TypeOK /\ RivalInv /\ [Next]_vars => RivalInv'
<1> SUFFICES ASSUME TypeOK, RivalInv, [Next]_vars PROVE RivalInv'
    OBVIOUS
<1>1. ASSUME hello' = hello, rival' = rival,
             \A s \in Session :
                /\ phase'[s] \in {"idle", "accepted"}
                     => phase[s] \in {"idle", "accepted"}
                /\ phase'[s] \in Live => phase[s] \in Live \/ ~ Named(s)
      PROVE  RivalInv'
  BY <1>1 DEF RivalInv, KeyOf, Named
<1>2. CASE Boot BY <1>1, <1>2 DEF Boot, handlerVars, helloVars
<1>3. CASE Crash BY <1>1, <1>3 DEF Crash, helloVars, Live, TypeOK
<1>4. ASSUME NEW s \in Session, HandlerStep(s) PROVE RivalInv'
  <2>1. /\ hello' = hello /\ rival' = rival
        /\ \A o \in Session \ {s} : phase'[o] = phase[o]
        /\ phase[s] \in Live \/ phase[s] = "accepted"
        /\ phase'[s] \notin {"idle", "accepted"}
    <3> USE DEF Moves, Step, helloVars, Live, Phase, TypeOK
    <3>1. CASE \/ HelloFails(s) \/ Authenticate(s) \/ Refuse(s)
               \/ RegisterNothing(s) \/ ControlReadFails(s)
               \/ ReleaseNothing(s) \/ Close(s)
      BY <3>1 DEF HelloFails, Authenticate, Refuse, RegisterNothing,
                  ControlReadFails, ReleaseNothing, Close
    <3>2. CASE RegisterHTTP(s) \/ RegisterTCP(s) \/ RegisterUDP(s)
      BY <3>2 DEF RegisterHTTP, RegisterTCP, RegisterUDP, Register
    <3>3. CASE PersistReservation(s) \/ PersistTunnel(s)
      BY <3>3 DEF PersistReservation, PersistTunnel
    <3>4. CASE \/ EnsureTCPListener(s) \/ EnsureUDPListener(s)
               \/ RemoveTCPListener(s) \/ RemoveUDPListener(s)
      BY <3>4 DEF EnsureTCPListener, EnsureUDPListener, EnsureListener,
                  RemoveTCPListener, RemoveUDPListener, RemoveListener
    <3>5. CASE ReleaseHTTP(s) \/ ReleaseTCP(s) \/ ReleaseUDP(s)
      BY <3>5 DEF ReleaseHTTP, ReleaseTCP, ReleaseUDP, Release
    <3> QED BY <1>4, <3>1, <3>2, <3>3, <3>4, <3>5 DEF HandlerStep
  <2> QED BY <1>1, <2>1 DEF RivalInv
<1>5. ASSUME NEW s \in Session, PeerStep(s) PROVE RivalInv'
  <2>1. CASE Accept(s)
    BY <1>1, <2>1 DEF Accept, Step, helloVars, Live, TypeOK
  <2>2. CASE PeerDrops(s) BY <1>1, <2>2 DEF PeerDrops, helloVars
  <2>3. CASE ReadHello(s)
    <3>1. PICK h \in Offer[s] :
            /\ hello' = [hello EXCEPT ![s] = h]
            /\ rival' = [o \in Session |->
                  IF o = s THEN Rivals(s, h) # {}
                  ELSE rival[o] \/ o \in Rivals(s, h)]
      BY <2>3 DEF ReadHello
    <3>2. /\ phase' = [phase EXCEPT ![s] = "greeted"]
          /\ hello'[s] = h
          /\ \A o \in Session \ {s} : hello'[o] = hello[o] /\ phase'[o] = phase[o]
          /\ phase'[s] = "greeted"
      BY <2>3, <3>1 DEF ReadHello, Step, TypeOK
    <3>3. ASSUME NEW o \in Session \ {s}, phase[o] \in Live, Named(o),
                 h.name \in RawName, KeyOf(o) = Key[h.name]
          PROVE  rival'[o] /\ rival'[s]
      <4>1. o \in Rivals(s, h) BY <3>3 DEF Rivals, Live
      <4> QED BY <3>1, <4>1
    <3>4. ASSUME NEW p \in Session, NEW o \in Session, p # o,
                 phase'[p] \in Live, phase'[o] \in Live,
                 hello'[p].name \in RawName, hello'[o].name \in RawName,
                 Key[hello'[p].name] = Key[hello'[o].name]
          PROVE  rival'[p]
      <4>1. CASE p = s BY <3>2, <3>3, <3>4, <4>1 DEF KeyOf, Named
      <4>2. CASE o = s BY <3>2, <3>3, <3>4, <4>2 DEF KeyOf, Named
      <4>3. CASE p # s /\ o # s
        <5>1. rival[p] BY <3>2, <3>4, <4>3 DEF RivalInv, KeyOf, Named
        <5> QED BY <3>1, <4>3, <5>1
      <4> QED BY <4>1, <4>2, <4>3
    <3>5. \A o \in Session : phase'[o] \in {"idle", "accepted"} =>
                                hello'[o].name \notin RawName
      BY <3>2 DEF RivalInv, Named
    <3> QED BY <3>4, <3>5 DEF RivalInv, KeyOf, Named
  <2>4. CASE HeartbeatTimeout(s)
    BY <1>1, <2>4
       DEF HeartbeatTimeout, Moves, Step, helloVars, Live, Phase, TypeOK
  <2> QED BY <1>5, <2>1, <2>2, <2>3, <2>4 DEF PeerStep
<1>6. ASSUME NEW r \in Request, AdminStep(r) PROVE RivalInv'
  <2>1. hello' = hello /\ rival' = rival /\ phase' = phase
    BY <1>6 DEF AdminStep, BeginRotate, HandleRotateToken, BeginKill, KillHTTP,
                KillTCP, KillUDP, MarkTerminated, handlerVars, helloVars
  <2> QED BY <1>1, <2>1
<1>7. CASE UNCHANGED vars BY <1>1, <1>7 DEF vars
<1> QED BY <1>2, <1>3, <1>4, <1>5, <1>6, <1>7 DEF Next

(* What is killed stays killed while the server runs: the only handler     *)
(* that could write the tunnel's row again has not been killed before.     *)
LEMMA KilledStays ==
    ASSUME FreshIds, MayFail = FALSE, TypeOK, KillInv, [Next]_vars, ~ Crash
    PROVE  Gone \subseteq Gone'
<1> SUFFICES ASSUME NEW t \in TunnelId \cup {NoTunnel}, Killed(t)
             PROVE  Killed(t)'
  BY DEF Gone
<1>1. ASSUME UNCHANGED <<tunnels, req>> PROVE Killed(t)'
  BY <1>1 DEF Killed
<1>2. CASE Boot BY <1>1, <1>2 DEF Boot
<1>3. ASSUME NEW s \in Session, HandlerStep(s) PROVE Killed(t)'
  <2>1. CASE PersistTunnel(s)
    <3>1. /\ ~ TunnelRecorded(hello[s].tid) /\ req' = req
          /\ \/ UNCHANGED tunnels
             \/ tunnels' = [tunnels EXCEPT ![hello[s].tid] = "active"]
      BY <2>1, RegisteringIsUnrecorded
         DEF PersistTunnel, UpsertTunnel, Step, Written
    <3> QED BY <3>1, <1>1 DEF Killed, TunnelRecorded, TypeOK
  <2>2. CASE UNCHANGED <<tunnels, req>> BY <1>1, <2>2
  <2>3. PersistTunnel(s) \/ UNCHANGED <<tunnels, req>>
    BY <1>3 DEF HandlerStep, HelloFails, Authenticate, Refuse, RegisterNothing,
                RegisterHTTP, RegisterTCP, RegisterUDP, Register,
                PersistReservation, EnsureTCPListener, EnsureUDPListener,
                EnsureListener, ControlReadFails, ReleaseHTTP, ReleaseTCP,
                ReleaseUDP, Release, ReleaseNothing, RemoveTCPListener,
                RemoveUDPListener, RemoveListener, Close, Moves, storeVars
  <2> QED BY <2>1, <2>2, <2>3
<1>4. ASSUME NEW s \in Session, PeerStep(s) PROVE Killed(t)'
  BY <1>1, <1>4 DEF PeerStep, Accept, PeerDrops, ReadHello, HeartbeatTimeout,
                    Moves, storeVars
<1>5. ASSUME NEW r \in Request, AdminStep(r) PROVE Killed(t)'
  <2> USE DEF Killed, Goto, At, TypeOK
  <2>1. CASE BeginRotate(r) \/ HandleRotateToken(r)
    BY <2>1 DEF BeginRotate, HandleRotateToken, storeVars
  <2>2. ASSUME NEW u \in TunnelId, BeginKill(r, u) PROVE Killed(t)'
    BY <2>2 DEF BeginKill, storeVars
  <2>3. CASE KillHTTP(r) \/ KillTCP(r) \/ KillUDP(r)
    <3>1. /\ tunnels' = tunnels
          /\ req'[r].tid = req[r].tid /\ req'[r].step \in {"tcp", "udp", "mark"}
          /\ \A q \in Request \ {r} : req'[q] = req[q]
      BY <2>3 DEF KillHTTP, KillTCP, KillUDP, storeVars
    <3>2. CASE \E q \in Request :
                  req[q].tid = t /\ req[q].step \in {"http", "tcp", "udp", "mark"}
      BY <3>1, <3>2
    <3> QED BY <3>1, <3>2
  <2>4. CASE MarkTerminated(r)
    <3>1. /\ TunnelRecorded(req[r].tid)
          /\ tunnels' = [tunnels EXCEPT ![req[r].tid] = "terminated"]
          /\ \A q \in Request \ {r} : req'[q] = req[q]
      BY <2>4 DEF MarkTerminated, MarkTunnelStatus, KillInv
    <3> QED BY <3>1 DEF TunnelRecorded
  <2> QED BY <1>5, <2>1, <2>2, <2>3, <2>4 DEF AdminStep
<1>6. CASE UNCHANGED vars BY <1>1, <1>6 DEF vars
<1> QED BY <1>2, <1>3, <1>4, <1>5, <1>6 DEF Next

(* One handler's step takes no route from another, whose name it may not   *)
(* share.                                                                  *)
LEMMA OneHandlerMoves ==
    ASSUME RivalInv, RouteInv, NEW s \in Session, Gone \subseteq Gone',
           hello' = hello, rival' = rival,
           \A o \in Session \ {s} : phase'[o] = phase[o],
           \A n : (Named(s) /\ phase[s] \in Live /\ KeyOf(s) = n)
                  \/ /\ \A b \in reg : b.name = n => b \in reg'
                     /\ n \in listeners => n \in listeners',
           s \in Uncontested' => s \in Reached'
    PROVE  RouteInv'
<1> SUFFICES ASSUME NEW o \in Session, o # s, o \in Uncontested'
             PROVE  o \in Reached'
  BY DEF RouteInv, Uncontested
<1>1. /\ phase[o] \in Routable /\ Named(o) /\ ~ rival[o] /\ o \in Uncontested
      /\ phase'[o] = phase[o]
  BY DEF Uncontested, Named
<1>2. o \in Reached BY <1>1 DEF RouteInv
<1>3. ~ (Named(s) /\ phase[s] \in Live /\ KeyOf(s) = KeyOf(o))
  BY <1>1 DEF RivalInv, Routable, Live, Phase
<1>4. EntryOf(o) \in reg' /\ (KeyOf(o) \in listeners => KeyOf(o) \in listeners')
  BY <1>2, <1>3 DEF Reached, EntryOf
<1> QED BY <1>1, <1>2, <1>4 DEF Reached, EntryOf, KindOf, KeyOf

(* A registration makes the handler's entry, or the handler gives up.      *)
LEMMA RegisterKeepsRoutes ==
    ASSUME TypeOK, RivalInv, RouteInv, Gone \subseteq Gone',
           NEW s \in Session, NEW a, Register(s, a)
    PROVE  RouteInv'
<1>1. /\ hello' = hello /\ rival' = rival /\ listeners' = listeners
      /\ \A o \in Session \ {s} : phase'[o] = phase[o]
      /\ Named(s) /\ phase[s] \in Live
  BY DEF Register, Step, helloVars, Live, Phase, TypeOK
<1>2. \A b \in reg : b.name # KeyOf(s) => b \in reg'
  BY DEF Register, Put
<1>3. ASSUME s \in Uncontested' PROVE s \in Reached'
  <2>1. phase'[s] = "reserving" /\ reg' = Put(reg, KeyOf(s), hello[s].tid, s)
    BY <1>3 DEF Register, Step, Uncontested, Routable, TypeOK
  <2> QED BY <1>1, <2>1 DEF Put, Reached, EntryOf, KeyOf
<1> QED BY <1>1, <1>2, <1>3, OneHandlerMoves

(* RouteInv is inductive under FreshIds, where nothing fails.              *)
LEMMA RoutesInductive ==
    ASSUME FreshIds, MayFail = FALSE, TypeOK, KillInv, RivalInv, RouteInv,
           [Next]_vars
    PROVE  RouteInv'
<1>1. CASE Crash
  <2>1. \A s \in Session : phase'[s] \in {"idle", "done"}
    BY <1>1 DEF Crash
  <2> QED BY <2>1 DEF RouteInv, Uncontested, Routable
<1>2. CASE ~ Crash
  <2>1. Gone \subseteq Gone' BY <1>2, KilledStays
  <2>2. ASSUME UNCHANGED <<hello, rival, phase, listeners>>,
               \A b \in reg : b \in reg' \/ b.tid \in Gone'
        PROVE  RouteInv'
    <3> SUFFICES ASSUME NEW o \in Session, o \in Uncontested'
                 PROVE  o \in Reached'
      BY DEF RouteInv, Uncontested
    <3>1. o \in Uncontested /\ hello[o].tid \notin Gone'
      BY <2>1, <2>2 DEF Uncontested, Named
    <3>2. o \in Reached BY <3>1 DEF RouteInv
    <3>3. EntryOf(o) \in reg' BY <2>2, <3>1, <3>2 DEF Reached, EntryOf
    <3> QED BY <2>2, <3>2, <3>3 DEF Reached, EntryOf, KindOf, KeyOf
  <2>3. CASE Boot BY <2>2, <2>3 DEF Boot, handlerVars, helloVars
  <2>4. ASSUME NEW s \in Session, HandlerStep(s) PROVE RouteInv'
    <3> USE DEF Step, helloVars, TypeOK
    <3>1. ASSUME UNCHANGED <<hello, rival, reg, listeners>>,
                 \A o \in Session \ {s} : phase'[o] = phase[o],
                 \/ phase'[s] \notin Routable
                 \/ phase[s] \in Routable /\ phase'[s] # "serving"
                 \/ phase[s] \in Routable /\ KindOf(s) = "http"
                 \/ ~ Named(s)
          PROVE  RouteInv'
      <4>1. ASSUME s \in Uncontested' PROVE s \in Reached'
        <5>1. s \in Uncontested
          BY <2>1, <3>1, <4>1 DEF Uncontested, Named
        <5>2. s \in Reached BY <5>1 DEF RouteInv
        <5> QED BY <3>1, <4>1, <5>2
                DEF Uncontested, Reached, EntryOf, KindOf, KeyOf, Named
      <4> QED BY <2>1, <3>1, <4>1, OneHandlerMoves
    <3>2. CASE \/ HelloFails(s) \/ Authenticate(s) \/ Refuse(s)
               \/ RegisterNothing(s) \/ ControlReadFails(s)
               \/ ReleaseNothing(s)
      BY <3>1, <3>2 DEF HelloFails, Authenticate, Refuse, RegisterNothing,
                        ControlReadFails, ReleaseNothing, Moves, Routable
    <3>3. CASE RegisterHTTP(s) \/ RegisterTCP(s) \/ RegisterUDP(s)
      BY <2>1, <3>3, RegisterKeepsRoutes
         DEF RegisterHTTP, RegisterTCP, RegisterUDP
    <3>4. CASE PersistReservation(s)
      BY <3>1, <3>4 DEF PersistReservation, Routable
    <3>5. CASE PersistTunnel(s)
      BY <3>1, <3>5 DEF PersistTunnel, Routable
    <3>6. CASE EnsureTCPListener(s) \/ EnsureUDPListener(s)
      <4>1. /\ hello' = hello /\ rival' = rival /\ reg' = reg
            /\ \A o \in Session \ {s} : phase'[o] = phase[o]
            /\ phase[s] = "listening" /\ phase'[s] = "serving"
            /\ listeners' = listeners \cup {KeyOf(s)}
        BY <3>6 DEF EnsureTCPListener, EnsureUDPListener, EnsureListener
      <4>2. ASSUME s \in Uncontested' PROVE s \in Reached'
        <5>1. s \in Uncontested
          BY <2>1, <4>1, <4>2 DEF Uncontested, Named, Routable
        <5>2. s \in Reached BY <5>1 DEF RouteInv
        <5> QED BY <4>1, <5>2 DEF Reached, EntryOf, KeyOf
      <4> QED BY <2>1, <4>1, <4>2, OneHandlerMoves
    <3>7. CASE ReleaseHTTP(s) \/ ReleaseTCP(s) \/ ReleaseUDP(s)
      <4>1. /\ hello' = hello /\ rival' = rival /\ listeners' = listeners
            /\ \A o \in Session \ {s} : phase'[o] = phase[o]
            /\ Named(s) /\ phase[s] \in Live /\ phase'[s] \notin Routable
            /\ reg' = Remove(reg, KeyOf(s))
        BY <3>7 DEF ReleaseHTTP, ReleaseTCP, ReleaseUDP, Release, Live, Phase,
                    Routable
      <4>2. s \notin Uncontested' BY <4>1 DEF Uncontested
      <4> QED BY <2>1, <4>1, <4>2, OneHandlerMoves DEF Remove
    <3>8. CASE RemoveTCPListener(s) \/ RemoveUDPListener(s)
      <4>1. /\ hello' = hello /\ rival' = rival /\ reg' = reg
            /\ \A o \in Session \ {s} : phase'[o] = phase[o]
            /\ Named(s) /\ phase[s] \in Live /\ phase'[s] \notin Routable
            /\ listeners' = listeners \ {KeyOf(s)}
        BY <3>8 DEF RemoveTCPListener, RemoveUDPListener, RemoveListener, Live,
                    Phase, Routable
      <4>2. s \notin Uncontested' BY <4>1 DEF Uncontested
      <4> QED BY <2>1, <4>1, <4>2, OneHandlerMoves
    <3>9. CASE Close(s) BY <3>1, <3>9 DEF Close, Routable
    <3> QED BY <2>4, <3>2, <3>3, <3>4, <3>5, <3>6, <3>7, <3>8, <3>9
            DEF HandlerStep
  <2>5. ASSUME NEW s \in Session, PeerStep(s) PROVE RouteInv'
    <3> USE DEF Step, helloVars, TypeOK
    <3>1. CASE PeerDrops(s) BY <2>2, <3>1 DEF PeerDrops
    <3>2. CASE ReadHello(s)
      <4>1. /\ reg' = reg /\ listeners' = listeners
            /\ \A o \in Session \ {s} : /\ hello'[o] = hello[o]
                                        /\ phase'[o] = phase[o]
            /\ phase'[s] = "greeted"
        BY <3>2 DEF ReadHello
      <4>2. \A o \in Session \ {s} : rival[o] => rival'[o]
        BY <3>2 DEF ReadHello
      <4> SUFFICES ASSUME NEW o \in Session, o \in Uncontested'
                   PROVE  o \in Reached'
        BY DEF RouteInv, Uncontested
      <4>3. o # s BY <4>1 DEF Uncontested, Routable
      <4>4. o \in Uncontested
        BY <2>1, <4>1, <4>2, <4>3 DEF Uncontested, Named
      <4>5. o \in Reached BY <4>4 DEF RouteInv
      <4> QED BY <4>1, <4>3, <4>5 DEF Reached, EntryOf, KindOf, KeyOf
    <3>3. CASE Accept(s) \/ HeartbeatTimeout(s)
      <4>1. /\ UNCHANGED <<hello, rival, reg, listeners>>
            /\ \A o \in Session \ {s} : phase'[o] = phase[o]
            /\ phase'[s] \notin Routable
        BY <3>3 DEF Accept, HeartbeatTimeout, Moves, Routable
      <4>2. s \notin Uncontested' BY <4>1 DEF Uncontested
      <4> QED BY <2>1, <4>1, <4>2, OneHandlerMoves
    <3> QED BY <2>5, <3>1, <3>2, <3>3 DEF PeerStep
  <2>6. ASSUME NEW r \in Request, AdminStep(r) PROVE RouteInv'
    <3>1. UNCHANGED <<hello, rival, phase, listeners>>
      BY <2>6 DEF AdminStep, BeginRotate, HandleRotateToken, BeginKill,
                  KillHTTP, KillTCP, KillUDP, MarkTerminated, handlerVars,
                  helloVars
    <3>2. CASE reg' = reg BY <2>2, <3>1, <3>2
    <3>3. CASE KillHTTP(r) \/ KillTCP(r) \/ KillUDP(r)
      <4>1. \A b \in reg : b \in reg' \/ b.tid = req[r].tid
        BY <3>3 DEF KillHTTP, KillTCP, KillUDP, RemoveHTTPByTunnelID,
                    RemoveTCPByTunnelID, RemoveUDPByTunnelID
      <4>2. req[r].tid \in Gone
        BY <3>3 DEF KillHTTP, KillTCP, KillUDP, At, Gone, Killed, TypeOK
      <4> QED BY <2>1, <2>2, <3>1, <4>1, <4>2
    <3>4. \/ reg' = reg
          \/ KillHTTP(r) \/ KillTCP(r) \/ KillUDP(r)
      BY <2>6 DEF AdminStep, BeginRotate, HandleRotateToken, BeginKill,
                  MarkTerminated
    <3> QED BY <3>2, <3>3, <3>4
  <2>7. CASE UNCHANGED vars BY <2>2, <2>7 DEF vars
  <2> QED BY <1>2, <2>3, <2>4, <2>5, <2>6, <2>7 DEF Next
<1> QED BY <1>1, <1>2

(* A serving tunnel that no other live handler ever contended for and      *)
(* nobody killed is in the registry under its own session, and its port is *)
(* open: for every number of connections, kills, rotations and restarts.   *)
THEOREM UncontestedIsReachable ==
    ASSUME FreshIds, MayFail = FALSE
    PROVE  Spec => []UncontestedTunnelReachable
<1>1. Init => KillInv
  BY DEF Init, KillInv, TerminatedNotRouted, EmptyRegistry
<1>2. TypeOK /\ KillInv /\ [Next]_vars => KillInv'
  BY KillsInductive
<1>3. Init => RivalInv /\ RouteInv
  <2> SUFFICES ASSUME Init PROVE RivalInv /\ RouteInv
      OBVIOUS
  <2>1. \A s \in Session : phase[s] = "idle" /\ ~ Named(s)
    BY NoNameAssumption DEF Init, Named
  <2> QED BY <2>1 DEF RivalInv, RouteInv, Uncontested, Live, Routable
<1>4. TypeOK /\ RivalInv /\ [Next]_vars => RivalInv'
  BY RivalsInductive
<1>5. TypeOK /\ KillInv /\ RivalInv /\ RouteInv /\ [Next]_vars => RouteInv'
  BY RoutesInductive
<1>6. TypeOK /\ RouteInv => UncontestedTunnelReachable
  <2> SUFFICES ASSUME TypeOK, RouteInv, NEW s \in Session,
                      phase[s] = "serving", Named(s), ~ rival[s],
                      ~ Killed(hello[s].tid)
               PROVE  Routed(s)
    BY DEF UncontestedTunnelReachable
  <2>1. s \in Reached BY DEF RouteInv, Uncontested, Routable, Gone
  <2>2. /\ EntryOf(s) \in reg
        /\ EntryOf(s).name = KeyOf(s) /\ EntryOf(s).session = s
    BY <2>1 DEF Reached, EntryOf
  <2> QED BY <2>1, <2>2 DEF Reached, Routed
<1> QED BY <1>1, <1>2, <1>3, <1>4, <1>5, <1>6, TypeCorrect, PTL DEF Spec

=============================================================================
