----------------------------- MODULE RoutingProofs -----------------------------
(***************************************************************************)
(* Safety of the start-up and of the routing of public requests, for every *)
(* set of migrations, hosts, callers, requests, tunnels and connections.   *)
(***************************************************************************)
EXTENDS Routing, TLAPS

(* How far the start has come: files before the one it is at are recorded, *)
(* and of that one the statements before the next one have had their       *)
(* effect.                                                                 *)
SchemaInv ==
    /\ \A f \in recorded, k \in 1 .. Statements : <<f, k>> \in executed
    /\ \A k \in 1 .. next - 1 : <<file, k>> \in executed
    /\ next # 0 => file \in File
    /\ 1 .. file - 1 \subseteq recorded
    /\ boot = "serving" => file = Files + 1

BootStutters == BootStep \/ Stop \/ UNCHANGED bootVars

(* What a step of the start, or a stop, keeps.                             *)
LEMMA BootInductive ==
    BootTypeOK /\ SchemaInv /\ BootStutters => BootTypeOK' /\ SchemaInv'
<1> SUFFICES ASSUME BootTypeOK, SchemaInv, BootStutters
             PROVE  BootTypeOK' /\ SchemaInv'
    OBVIOUS
<1> USE FilesAssumption, MaxStopsAssumption DEF BootTypeOK, SchemaInv, File
<1>1. CASE OpenStore BY <1>1 DEF OpenStore
<1>2. CASE SelectMigration BY <1>2 DEF SelectMigration
<1>3. CASE ExecuteStatement BY <1>3 DEF ExecuteStatement
<1>4. CASE RecordMigration
  <2>1. \A k \in 1 .. Statements : <<file, k>> \in executed
    BY <1>4 DEF RecordMigration
  <2> QED BY <1>4, <2>1 DEF RecordMigration
<1>5. CASE Serve BY <1>5 DEF Serve
<1>6. CASE Stop BY <1>6 DEF Stop
<1>7. CASE UNCHANGED bootVars BY <1>7 DEF bootVars
<1> QED BY <1>1, <1>2, <1>3, <1>4, <1>5, <1>6, <1>7 DEF BootStutters, BootStep

(* Whatever the rest of the server does leaves the start alone.            *)
LEMMA EveryStepBoots == [Next]_vars => BootStutters
<1> SUFFICES ASSUME [Next]_vars PROVE BootStutters
    OBVIOUS
<1> USE DEF BootStutters
<1>1. CASE Boots BY <1>1 DEF Boots
<1>2. CASE Crash BY <1>2 DEF Crash
<1>3. CASE TunnelStep
  BY <1>3 DEF TunnelStep, Connect, RecordTunnel, ConnectionLost, Notice,
              Release, Handles
<1>4. CASE AdminStep
  BY <1>4 DEF AdminStep, HandleDomains, BeginKill, KillRemoves, KillMarks
<1>5. ASSUME NEW r \in Request, RequestStep(r) PROVE BootStutters
  BY <1>5 DEF RequestStep, LookupHTTP, GetCustomDomain, LookupHTTPByTunnelID,
              CheckAllowlist, OpenStream, FinishRequest, Serving
<1>6. ASSUME NEW r \in Request, NEW h \in Host, NEW c \in Caller,
             BeginRequest(r, h, c)
      PROVE  BootStutters
  BY <1>6 DEF BeginRequest, Serving
<1>7. CASE UNCHANGED vars BY <1>7 DEF vars
<1> QED BY <1>1, <1>2, <1>3, <1>4, <1>5, <1>6, <1>7 DEF Next

(* A server that serves has the whole schema, and nothing is recorded that *)
(* did not take effect: however often, and wherever, starts were           *)
(* interrupted (store.go:612-631).                                         *)
THEOREM SchemaIsComplete == Spec => []ServedSchemaComplete
<1>1. Init => BootTypeOK /\ SchemaInv
  BY FilesAssumption, MaxStopsAssumption
     DEF Init, BootInit, BootTypeOK, SchemaInv, File
<1>2. BootTypeOK /\ SchemaInv => ServedSchemaComplete
  <2> SUFFICES ASSUME BootTypeOK, SchemaInv PROVE ServedSchemaComplete
      OBVIOUS
  <2>1. \A f \in recorded : {f} \X (1 .. Statements) \subseteq executed
    BY DEF SchemaInv
  <2>2. boot = "serving" => recorded = File
    <3> SUFFICES ASSUME boot = "serving" PROVE recorded = File
        OBVIOUS
    <3>1. file - 1 = Files BY FilesAssumption DEF SchemaInv
    <3>2. File \subseteq recorded BY <3>1 DEF SchemaInv, File
    <3> QED BY <3>2 DEF BootTypeOK
  <2> QED BY <2>1, <2>2 DEF ServedSchemaComplete
<1> QED BY <1>1, <1>2, BootInductive, EveryStepBoots, PTL DEF Spec

-----------------------------------------------------------------------------
(* The state's type is kept by every step.                                 *)
LEMMA TypeInductive == TypeOK /\ SchemaInv /\ [Next]_vars => TypeOK'
<1> SUFFICES ASSUME TypeOK, SchemaInv, [Next]_vars PROVE TypeOK'
    OBVIOUS
<1> USE NoTunnelAssumption, LabelAssumption, SessionAssumption
<1>0. BootTypeOK' BY BootInductive, EveryStepBoots DEF TypeOK
<1>a. NoEntry \notin Binding BY DEF NoEntry, Binding
<1>b. Resting \in RequestState BY <1>a DEF Resting, RequestState, HasEntry
<1>c. {} \in Allowlist BY DEF Allowlist
<1>1. CASE Boots BY <1>0, <1>1 DEF Boots, routeVars, TypeOK
<1>2. CASE Crash
  <2>1. handler' \in [Session -> HandlerState]
    BY <1>2, <1>c DEF Crash, TypeOK, NewHandler, HandlerState
  <2>2. req' \in [Request -> RequestState] BY <1>2, <1>b DEF Crash
  <2> QED BY <1>0, <1>2, <2>1, <2>2 DEF Crash, TypeOK, EmptyRegistry, rows
<1>3. ASSUME NEW s \in Session, Connect(s) PROVE TypeOK'
  <2>1. PICK n \in Wants[s], items \in ListsOf[s] :
          /\ handler' = [handler EXCEPT ![s] =
                [at |-> IF HTTPAvailable(reg, n) THEN "registered"
                        ELSE "releasing",
                 name |-> n, list |-> items]]
          /\ reg' = IF HTTPAvailable(reg, n) THEN Put(reg, n, IdOf[s], s)
                    ELSE reg
    BY <1>3 DEF Connect
  <2>2. n \in Name /\ IdOf[s] \in TunnelId OBVIOUS
  <2>3. reg' \in SUBSET Binding BY <2>1, <2>2 DEF TypeOK, Put, Binding
  <2>4. items \in Allowlist BY DEF Allowlist
  <2>5. handler' \in [Session -> HandlerState]
    BY <2>1, <2>2, <2>4 DEF TypeOK, HandlerState
  <2> QED BY <1>0, <1>3, <2>3, <2>5 DEF Connect, TypeOK, rows
<1>4. ASSUME NEW s \in Session,
             \/ RecordTunnel(s) \/ ConnectionLost(s) \/ Notice(s)
             \/ Release(s)
      PROVE  TypeOK'
  <2>1. ASSUME NEW from,
               NEW to \in {"registered", "serving", "releasing", "ended"},
               Handles(s, from, to)
        PROVE  handler' \in [Session -> HandlerState]
    <3> DEFINE name_ == IF to = "ended" THEN NoLabel ELSE handler[s].name
               next_ == [handler[s] EXCEPT !.at = to, !.name = name_]
    <3>1. handler[s] \in HandlerState BY DEF TypeOK
    <3>2. name_ \in Name \cup {NoLabel} BY <3>1 DEF HandlerState
    <3>3. handler' = [handler EXCEPT ![s] = next_] BY <2>1 DEF Handles, TypeOK
    <3> HIDE DEF name_
    <3>4. next_ \in HandlerState BY <3>1, <3>2 DEF HandlerState
    <3> HIDE DEF next_
    <3> QED BY <3>3, <3>4 DEF TypeOK
  <2> USE DEF TypeOK
  <2>2. CASE RecordTunnel(s)
    <3>1. handler' \in [Session -> HandlerState]
      BY <2>1, <2>2 DEF RecordTunnel
    <3> QED BY <1>0, <2>2, <3>1 DEF RecordTunnel, Handles
  <2>3. CASE ConnectionLost(s) BY <1>0, <2>3 DEF ConnectionLost, rows
  <2>4. CASE Notice(s)
    <3>1. handler' \in [Session -> HandlerState] BY <2>1, <2>4 DEF Notice
    <3> QED BY <1>0, <2>4, <3>1 DEF Notice, Handles
  <2>5. CASE Release(s)
    <3>1. handler' \in [Session -> HandlerState] BY <2>1, <2>5 DEF Release
    <3> QED BY <1>0, <2>5, <3>1 DEF Release, Handles, Remove
  <2> QED BY <1>4, <2>2, <2>3, <2>4, <2>5
<1>5. ASSUME NEW h \in Host, HandleDomains(h) PROVE TypeOK'
  <2>1. PICK t \in TunnelId, e \in BOOLEAN :
          /\ domains' = [domains EXCEPT ![h] = [tid |-> t, enabled |-> e]]
          /\ wanted' = [wanted EXCEPT ![h] = [tid |-> t, enabled |-> e]]
    BY <1>5 DEF HandleDomains, UpsertCustomDomain
  <2>2. domains' \in [Host -> Mapping] /\ wanted' \in [Host -> Mapping]
    BY <2>1 DEF TypeOK, Mapping
  <2>3. ASSUME NEW r \in Request, NEW w \in Mapping
        PROVE  [req[r] EXCEPT !.meant = @ \cup {w.tid}] \in RequestState
    <3> DEFINE m == req[r].meant \cup {w.tid}
    <3>1. req[r] \in RequestState BY DEF TypeOK
    <3>2. m \in SUBSET (TunnelId \cup {NoTunnel})
      BY <3>1 DEF RequestState, Mapping
    <3> HIDE DEF m
    <3>3. [req[r] EXCEPT !.meant = m] \in RequestState
      BY <3>1, <3>2 DEF RequestState
    <3> QED BY <3>3 DEF m
  <2>4. req' \in [Request -> RequestState]
    <3> SUFFICES ASSUME NEW r \in Request PROVE req'[r] \in RequestState
        BY <1>5 DEF HandleDomains, MeantBy
    <3>1. CASE req[r].host \in Host /\ wanted'[req[r].host].enabled
      <4>1. wanted'[req[r].host] \in Mapping BY <2>2, <3>1
      <4> QED BY <1>5, <2>3, <3>1, <4>1 DEF HandleDomains, MeantBy
    <3>2. CASE ~ (req[r].host \in Host /\ wanted'[req[r].host].enabled)
      BY <1>5, <3>2 DEF HandleDomains, MeantBy, TypeOK
    <3> QED BY <3>1, <3>2
  <2> QED BY <1>0, <1>5, <2>2, <2>4 DEF HandleDomains, TypeOK
<1>6. ASSUME NEW t \in TunnelId, BeginKill(t) PROVE TypeOK'
  BY <1>0, <1>6 DEF BeginKill, TypeOK, rows
<1>7. CASE KillRemoves
  BY <1>0, <1>7 DEF KillRemoves, RemoveHTTPByTunnelID, TypeOK, rows
<1>8. CASE KillMarks BY <1>0, <1>8 DEF KillMarks, TypeOK
<1>9. ASSUME NEW r \in Request,
             \/ RequestStep(r)
             \/ \E h \in Host, c \in Caller : BeginRequest(r, h, c)
      PROVE  TypeOK'
  <2>0. ASSUME Serving, NEW q \in RequestState, req' = [req EXCEPT ![r] = q]
        PROVE  TypeOK'
    BY <1>0, <2>0 DEF Serving, TypeOK, rows
  <2>1. req[r] \in RequestState BY DEF TypeOK
  <2>2. ASSUME Serving, Refused(r) PROVE TypeOK'
    BY <1>b, <2>0, <2>2 DEF Refused
  <2>3. ASSUME Serving, ~ At(r, "idle"), NEW b \in reg, Found(r, b)
        PROVE  TypeOK'
    <3> DEFINE q == [req[r] EXCEPT !.at = "checking", !.entry = b]
    <3>1. q \in RequestState BY <2>1, <2>3 DEF RequestState, HasEntry, TypeOK, At
    <3>2. req' = [req EXCEPT ![r] = q] BY <2>3 DEF Found, TypeOK
    <3> QED BY <2>0, <2>3, <3>1, <3>2
  <2>4. ASSUME Serving,
               NEW p \in {"mapping", "opening", "forwarded"},
               req' = [req EXCEPT ![r].at = p],
               p = "mapping" => At(r, "label"),
               p = "opening" => At(r, "checking"),
               p = "forwarded" => At(r, "opening")
        PROVE  TypeOK'
    <3> DEFINE q == [req[r] EXCEPT !.at = p]
    <3>1. q \in RequestState BY <2>1, <2>4 DEF RequestState, HasEntry, At
    <3>2. req' = [req EXCEPT ![r] = q] BY <2>4 DEF TypeOK
    <3> QED BY <2>0, <2>4, <3>1, <3>2
  <2>5. CASE LookupHTTP(r) BY <2>3, <2>4, <2>5 DEF LookupHTTP, At
  <2>6. CASE GetCustomDomain(r)
    <3>1. CASE Refused(r) BY <2>2, <2>6, <3>1 DEF GetCustomDomain
    <3>2. CASE req' = [req EXCEPT ![r].at = "tunnel",
                          ![r].mapped = domains[req[r].host].tid]
               /\ domains[req[r].host].enabled
      <4> DEFINE q == [req[r] EXCEPT !.at = "tunnel",
                                     !.mapped = domains[req[r].host].tid]
      <4>1. req[r].at = "mapping" BY <2>6 DEF GetCustomDomain, At
      <4>2. domains[req[r].host] \in Mapping
        BY <2>1, <4>1 DEF TypeOK, RequestState
      <4>3. q \in RequestState
        BY <2>1, <4>1, <4>2 DEF RequestState, HasEntry, Mapping
      <4>4. req' = [req EXCEPT ![r] = q] BY <3>2 DEF TypeOK
      <4> QED BY <2>0, <2>6, <4>3, <4>4 DEF GetCustomDomain
    <3> QED BY <2>6, <3>1, <3>2 DEF GetCustomDomain
  <2>7. CASE LookupHTTPByTunnelID(r)
    BY <2>2, <2>3, <2>7 DEF LookupHTTPByTunnelID, At
  <2>8. CASE CheckAllowlist(r) BY <2>2, <2>4, <2>8 DEF CheckAllowlist
  <2>9. CASE OpenStream(r) BY <2>2, <2>4, <2>9 DEF OpenStream
  <2>10. CASE FinishRequest(r)
    BY <2>2, <2>10 DEF FinishRequest, Refused
  <2>11. ASSUME NEW h \in Host, NEW c \in Caller, BeginRequest(r, h, c)
         PROVE  TypeOK'
    <3> DEFINE m == IF wanted[h].enabled THEN {wanted[h].tid} ELSE {}
               q == [Resting EXCEPT
                        !.at = "label", !.host = h, !.from = c,
                        !.dead = {t \in TunnelId : tunnels[t] = "terminated"},
                        !.meant = m]
    <3>1. m \in SUBSET (TunnelId \cup {NoTunnel}) BY DEF TypeOK, Mapping
    <3>2. q \in RequestState
      BY <1>a, <1>b, <3>1 DEF RequestState, Resting, HasEntry
    <3>3. req' = [req EXCEPT ![r] = q] /\ Serving
      BY <2>11 DEF BeginRequest
    <3> QED BY <2>0, <3>2, <3>3
  <2> QED BY <1>9, <2>5, <2>6, <2>7, <2>8, <2>9, <2>10, <2>11
          DEF RequestStep
<1>10. CASE UNCHANGED vars
  BY <1>0, <1>10 DEF vars, routeVars, TypeOK
<1> QED BY <1>1, <1>2, <1>3, <1>4, <1>5, <1>6, <1>7, <1>8, <1>9, <1>10
        DEF Next, TunnelStep, AdminStep

(* A first start finds an empty schema and nothing half applied. *)
LEMMA InitTyped == Init => TypeOK /\ SchemaInv
<1> SUFFICES ASSUME Init PROVE TypeOK /\ SchemaInv
    OBVIOUS
<1>1. BootTypeOK /\ SchemaInv
  BY FilesAssumption, MaxStopsAssumption
     DEF Init, BootInit, BootTypeOK, SchemaInv, File
<1>2. NoEntry \notin Binding BY LabelAssumption DEF NoEntry, Binding
<1>3. Resting \in RequestState BY <1>2 DEF Resting, RequestState, HasEntry
<1>4. NewHandler \in HandlerState BY DEF NewHandler, HandlerState, Allowlist
<1> QED BY <1>1, <1>3, <1>4 DEF Init, TypeOK, EmptyRegistry, Unmapped, Mapping

(* The state always has the shape the code gives it: a request has an      *)
(* entry of the registry from the moment it found one, and a host while it *)
(* is under way, so that nothing absent is looked into (httpproxy.go:51).  *)
THEOREM RoutingTypeCorrect == Spec => []TypeOK
<1>1. TypeOK /\ SchemaInv /\ [Next]_vars => TypeOK' /\ SchemaInv'
  BY TypeInductive, BootInductive, EveryStepBoots DEF TypeOK
<1> QED BY <1>1, InitTyped, PTL DEF Spec

-----------------------------------------------------------------------------
(* A binding names the tunnel of its connection, which has said hello, and *)
(* so has the connection of every recorded tunnel: the id of an entry that *)
(* is put later is one no row has yet.                                     *)
ConnectedInv ==
    /\ \A b \in reg :
          b.tid = IdOf[b.session] /\ handler[b.session].at # "new"
    /\ \A t \in TunnelId : Recorded(t) =>
          \E s \in Session : IdOf[s] = t /\ handler[s].at # "new"
    /\ kill.at # "idle" => kill.tid \in TunnelId /\ Recorded(kill.tid)

(* What a step can do to the rows, the connections and the registry.       *)
LEMMA TunnelsMove ==
    ASSUME TypeOK, ConnectedInv, [Next]_vars
    PROVE  /\ \A t \in TunnelId : Recorded(t) => Recorded(t)'
           /\ \A t \in TunnelId : Recorded(t)' => Recorded(t) \/
                 \E s \in Session : IdOf[s] = t /\ handler[s].at # "new"
           /\ \A s \in Session :
                 handler[s].at # "new" => handler'[s].at # "new"
           /\ \A b \in reg' : b \in reg \/
                 /\ b.session \in Session
                 /\ b.tid = IdOf[b.session] /\ ~ Recorded(b.tid)
                 /\ handler'[b.session].at # "new"
<1> DEFINE Goal ==
           /\ \A t \in TunnelId : Recorded(t) => Recorded(t)'
           /\ \A t \in TunnelId : Recorded(t)' => Recorded(t) \/
                 \E s \in Session : IdOf[s] = t /\ handler[s].at # "new"
           /\ \A s \in Session :
                 handler[s].at # "new" => handler'[s].at # "new"
           /\ \A b \in reg' : b \in reg \/
                 /\ b.session \in Session
                 /\ b.tid = IdOf[b.session] /\ ~ Recorded(b.tid)
                 /\ handler'[b.session].at # "new"
<1>0. ASSUME UNCHANGED <<reg, handler, tunnels>> PROVE Goal
  BY <1>0 DEF Recorded
<1>1. CASE Boots BY <1>0, <1>1 DEF Boots, routeVars
<1>2. CASE Crash
  <2>1. \A s \in Session : handler[s].at # "new" => handler'[s].at # "new"
    BY <1>2 DEF Crash, NewHandler
  <2> QED BY <1>2, <2>1 DEF Crash, rows, Recorded, EmptyRegistry
<1>3. ASSUME NEW s \in Session, Connect(s) PROVE Goal
  <2>1. PICK n \in Wants[s], items \in ListsOf[s] :
          /\ handler' = [handler EXCEPT ![s] =
                [at |-> IF HTTPAvailable(reg, n) THEN "registered"
                        ELSE "releasing",
                 name |-> n, list |-> items]]
          /\ reg' = IF HTTPAvailable(reg, n) THEN Put(reg, n, IdOf[s], s)
                    ELSE reg
    BY <1>3 DEF Connect
  <2>2. handler'[s].at # "new" BY <2>1 DEF TypeOK
  <2>3. \A o \in Session : o # s => handler'[o] = handler[o]
    BY <2>1 DEF TypeOK
  <2>4. ASSUME NEW b \in reg', b \notin reg
        PROVE  b.session = s /\ b.tid = IdOf[s]
    <3>1. b \in Put(reg, n, IdOf[s], s) BY <2>1, <2>4
    <3>2. b = [name |-> n, tid |-> IdOf[s], session |-> s]
      BY <2>4, <3>1 DEF Put
    <3> QED BY <3>2
  <2>5. ~ Recorded(IdOf[s])
    <3>1. handler[s].at = "new" BY <1>3 DEF Connect
    <3> QED BY <3>1, SessionAssumption DEF ConnectedInv
  <2>6. UNCHANGED tunnels BY <1>3 DEF Connect, rows
  <2> QED BY <2>2, <2>3, <2>4, <2>5, <2>6 DEF Recorded
<1>4. ASSUME NEW s \in Session,
             \/ RecordTunnel(s) \/ ConnectionLost(s) \/ Notice(s)
             \/ Release(s)
      PROVE  Goal
  <2>1. reg' \subseteq reg
    BY <1>4 DEF RecordTunnel, ConnectionLost, Notice, Release, Handles, Remove
  <2>2. ASSUME NEW o \in Session, handler[o].at # "new"
        PROVE  handler'[o].at # "new"
    BY <1>4, <2>2
       DEF RecordTunnel, ConnectionLost, Notice, Release, Handles, TypeOK,
           HandlerState
  <2>3. UNCHANGED tunnels \/ RecordTunnel(s)
    BY <1>4 DEF ConnectionLost, Notice, Release, rows
  <2>4. CASE RecordTunnel(s)
    <3>1. tunnels' = [tunnels EXCEPT ![IdOf[s]] = "active"]
          /\ handler[s].at # "new"
      BY <2>4 DEF RecordTunnel, Handles
    <3> QED BY <2>1, <2>2, <3>1 DEF Recorded, TypeOK
  <2>5. CASE UNCHANGED tunnels BY <2>1, <2>2, <2>5 DEF Recorded
  <2> QED BY <2>3, <2>4, <2>5
<1>5. CASE AdminStep
  <2>1. ASSUME NEW h \in Host, HandleDomains(h) PROVE Goal
    BY <1>0, <2>1 DEF HandleDomains
  <2>2. ASSUME NEW t \in TunnelId, BeginKill(t) PROVE Goal
    BY <1>0, <2>2 DEF BeginKill, rows
  <2>3. CASE KillRemoves
    BY <2>3 DEF KillRemoves, RemoveHTTPByTunnelID, Recorded, rows
  <2>4. CASE KillMarks
    BY <2>4 DEF KillMarks, Recorded, TypeOK, ConnectedInv
  <2> QED BY <1>5, <2>1, <2>2, <2>3, <2>4 DEF AdminStep
<1>6. ASSUME NEW r \in Request,
             \/ RequestStep(r)
             \/ \E h \in Host, c \in Caller : BeginRequest(r, h, c)
      PROVE  Goal
  <2>1. Serving
    BY <1>6 DEF RequestStep, LookupHTTP, GetCustomDomain,
                LookupHTTPByTunnelID, CheckAllowlist, OpenStream,
                FinishRequest, BeginRequest
  <2> QED BY <1>0, <2>1 DEF Serving, rows
<1>7. CASE UNCHANGED vars BY <1>0, <1>7 DEF vars, routeVars
<1> QED BY <1>1, <1>2, <1>3, <1>4, <1>5, <1>6, <1>7 DEF Next, TunnelStep

(* An entry's tunnel is that of its session, which said hello. *)
LEMMA ConnectedInductive ==
    TypeOK /\ ConnectedInv /\ [Next]_vars => ConnectedInv'
<1> SUFFICES ASSUME TypeOK, ConnectedInv, [Next]_vars PROVE ConnectedInv'
    OBVIOUS
<1>1. ASSUME NEW b \in reg'
      PROVE  b.tid = IdOf[b.session] /\ handler'[b.session].at # "new"
  BY TunnelsMove DEF ConnectedInv, TypeOK, Binding
<1>2. ASSUME NEW t \in TunnelId, Recorded(t)'
      PROVE  \E s \in Session : IdOf[s] = t /\ handler'[s].at # "new"
  BY <1>2, TunnelsMove DEF ConnectedInv
<1>3. kill'.at # "idle" => kill'.tid \in TunnelId /\ Recorded(kill.tid)'
  <2>1. ASSUME kill'.at # "idle"
        PROVE  kill'.tid \in TunnelId /\ Recorded(kill'.tid)
    <3>1. CASE UNCHANGED kill BY <2>1, <3>1 DEF ConnectedInv
    <3>2. ASSUME NEW t \in TunnelId, BeginKill(t)
          PROVE  kill'.tid \in TunnelId /\ Recorded(kill'.tid)
      BY <3>2 DEF BeginKill
    <3>3. CASE KillRemoves
      BY <3>3 DEF KillRemoves, ConnectedInv, TypeOK
    <3>4. ~ KillMarks /\ ~ Crash BY <2>1 DEF KillMarks, Crash
    <3>5. UNCHANGED kill \/ KillRemoves \/ \E t \in TunnelId : BeginKill(t)
      <4>1. CASE UNCHANGED vars BY <4>1 DEF vars, routeVars
      <4>2. CASE Boots BY <4>2 DEF Boots, routeVars
      <4>3. CASE TunnelStep
        BY <4>3 DEF TunnelStep, Connect, RecordTunnel, ConnectionLost, Notice,
                    Release, Handles
      <4>4. CASE AdminStep BY <3>4, <4>4 DEF AdminStep, HandleDomains
      <4>5. ASSUME NEW r \in Request,
                   \/ RequestStep(r)
                   \/ \E h \in Host, c \in Caller : BeginRequest(r, h, c)
            PROVE  UNCHANGED kill
        BY <4>5 DEF RequestStep, LookupHTTP, GetCustomDomain,
                    LookupHTTPByTunnelID, CheckAllowlist, OpenStream,
                    FinishRequest, BeginRequest, Serving
      <4> QED BY <3>4, <4>1, <4>2, <4>3, <4>4, <4>5 DEF Next
    <3> QED BY <3>1, <3>2, <3>3, <3>5
  <2> QED BY <2>1, TunnelsMove
<1> QED BY <1>1, <1>2, <1>3 DEF ConnectedInv

-----------------------------------------------------------------------------
(* How one step takes a request from p to q, when it moves it.             *)
Keeps(p, q) ==
    q.host = p.host /\ q.from = p.from /\ q.dead = p.dead /\ q.meant = p.meant

Advances(p, q) ==
    \/ /\ p.at = "label" /\ q.at = "mapping" /\ q.mapped = p.mapped
    \/ /\ p.at = "label" /\ q.at = "checking" /\ q.mapped = p.mapped
       /\ q.entry \in reg
    \/ /\ p.at = "mapping" /\ q.at = "tunnel" /\ domains[p.host].enabled
       /\ q.mapped = domains[p.host].tid
    \/ /\ p.at = "tunnel" /\ q.at = "checking" /\ q.mapped = p.mapped
       /\ q.entry \in reg /\ q.entry.tid = p.mapped
    \/ /\ q.entry = p.entry /\ q.mapped = p.mapped
       /\ \/ /\ p.at = "checking" /\ q.at = "opening"
             /\ Allows(ParseAllowlist(handler[p.entry.session].list), p.from)
          \/ p.at = "opening" /\ q.at = "forwarded"

Begun(q) ==
    /\ q.at = "label" /\ q.host \in Host /\ q.mapped = NoTunnel
    /\ q.dead = {t \in TunnelId : tunnels[t] = "terminated"}
    /\ q.meant = IF wanted[q.host].enabled THEN {wanted[q.host].tid} ELSE {}

Move(p, q) ==
    q = p \/ q = Resting \/ Begun(q) \/ (Keeps(p, q) /\ Advances(p, q))

(* A step of a request moves that request alone, and one place on. *)
LEMMA RequestMoves ==
    ASSUME TypeOK, NEW r \in Request,
           \/ RequestStep(r)
           \/ \E h \in Host, c \in Caller : BeginRequest(r, h, c)
    PROVE  Serving /\ \A o \in Request : Move(req[o], req'[o])
<1> USE DEF TypeOK
<1>0. req[r] \in RequestState OBVIOUS
<1>1. CASE LookupHTTP(r)
  BY <1>0, <1>1 DEF LookupHTTP, Found, At, Move, Keeps, Advances, RequestState
<1>2. CASE GetCustomDomain(r)
  BY <1>0, <1>2
     DEF GetCustomDomain, Refused, At, Move, Keeps, Advances, RequestState
<1>3. CASE LookupHTTPByTunnelID(r)
  BY <1>0, <1>3 DEF LookupHTTPByTunnelID, Refused, Found, At, Move, Keeps,
                    Advances, RequestState
<1>4. CASE CheckAllowlist(r)
  BY <1>0, <1>4
     DEF CheckAllowlist, Refused, At, Move, Keeps, Advances, RequestState
<1>5. CASE OpenStream(r)
  BY <1>0, <1>5
     DEF OpenStream, Refused, At, Move, Keeps, Advances, RequestState
<1>6. CASE FinishRequest(r) BY <1>6 DEF FinishRequest, Move
<1>7. ASSUME NEW h \in Host, NEW c \in Caller, BeginRequest(r, h, c)
      PROVE  Serving /\ \A o \in Request : Move(req[o], req'[o])
  BY <1>7 DEF BeginRequest, Resting, Move, Begun
<1> QED BY <1>1, <1>2, <1>3, <1>4, <1>5, <1>6, <1>7 DEF RequestStep

(* What the steps of others do to requests, and what requests leave alone. *)
Stays(p, q) ==
    /\ q.at = p.at /\ q.host = p.host /\ q.from = p.from
    /\ q.mapped = p.mapped /\ q.entry = p.entry /\ q.dead = p.dead
    /\ p.meant \subseteq q.meant

ListsStay ==
    \A s \in Session : handler[s].at # "new" =>
        handler'[s].at # "new" /\ handler'[s].list = handler[s].list

(* A step ends the process, leaves requests alone, or moves only those. *)
LEMMA StepCases ==
    ASSUME TypeOK, [Next]_vars
    PROVE  \/ Crash
           \/ ListsStay /\ \A r \in Request : Stays(req[r], req'[r])
           \/ Serving /\ \A r \in Request : Move(req[r], req'[r])
<1> DEFINE Others ==
        ListsStay /\ \A r \in Request : Stays(req[r], req'[r])
<1>0. ASSUME UNCHANGED <<handler, req>> PROVE Others
  BY <1>0 DEF ListsStay, Stays
<1>1. CASE Boots BY <1>0, <1>1 DEF Boots, routeVars
<1>2. CASE UNCHANGED vars BY <1>0, <1>2 DEF vars, routeVars
<1>3. ASSUME NEW s \in Session, Connect(s) PROVE Others
  <2>1. UNCHANGED req /\ handler[s].at = "new" BY <1>3 DEF Connect
  <2>2. \A o \in Session : o # s => handler'[o] = handler[o]
    BY <1>3 DEF Connect, TypeOK
  <2> QED BY <2>1, <2>2 DEF ListsStay, Stays
<1>4. ASSUME NEW s \in Session,
             \/ RecordTunnel(s) \/ ConnectionLost(s) \/ Notice(s)
             \/ Release(s)
      PROVE  Others
  <2>1. UNCHANGED req
    BY <1>4 DEF RecordTunnel, ConnectionLost, Notice, Release, Handles
  <2>2. ListsStay
    BY <1>4 DEF RecordTunnel, ConnectionLost, Notice, Release, Handles,
                ListsStay, TypeOK, HandlerState
  <2> QED BY <2>1, <2>2 DEF Stays
<1>5. ASSUME NEW h \in Host, HandleDomains(h) PROVE Others
  <2>1. ListsStay BY <1>5 DEF HandleDomains, ListsStay
  <2>2. ASSUME NEW r \in Request PROVE Stays(req[r], req'[r])
    BY <1>5 DEF HandleDomains, MeantBy, Stays, TypeOK, RequestState
  <2> QED BY <2>1, <2>2
<1>6. ASSUME NEW t \in TunnelId, BeginKill(t) \/ KillRemoves \/ KillMarks
      PROVE  Others
  BY <1>0, <1>6 DEF BeginKill, KillRemoves, KillMarks
<1>7. ASSUME KillRemoves \/ KillMarks PROVE Others
  BY <1>0, <1>7 DEF KillRemoves, KillMarks
<1> QED BY <1>1, <1>2, <1>3, <1>4, <1>5, <1>6, <1>7, RequestMoves
        DEF Next, TunnelStep, AdminStep

-----------------------------------------------------------------------------
Routed(r) == req[r].at \in HasEntry

(* The list was checked for the connection the request goes on with.       *)
AllowInv ==
    \A r \in Request : Routed(r) =>
        LET h == handler[req[r].entry.session]
        IN  /\ h.at # "new"
            /\ ~ At(r, "checking") =>
                   Allows(ParseAllowlist(h.list), req[r].from)

(* A routed request's caller is allowed by the handler it goes to. *)
LEMMA AllowInductive ==
    TypeOK /\ ConnectedInv /\ AllowInv /\ [Next]_vars => AllowInv'
<1> SUFFICES ASSUME TypeOK, ConnectedInv, AllowInv, [Next]_vars,
                    NEW r \in Request, Routed(r)'
             PROVE  LET h == handler'[req'[r].entry.session]
                    IN  /\ h.at # "new"
                        /\ req'[r].at # "checking" =>
                              Allows(ParseAllowlist(h.list), req'[r].from)
    BY DEF AllowInv, At
<1> USE DEF AllowInv, Routed, At, HasEntry
<1>0. req[r] \in RequestState BY DEF TypeOK
<1>1. CASE Crash BY <1>1 DEF Crash, Resting
<1>2. CASE ListsStay /\ Stays(req[r], req'[r])
  <2>1. req[r].entry.session \in Session
    BY <1>0, <1>2 DEF Stays, RequestState, Binding
  <2> QED BY <1>2, <2>1 DEF ListsStay, Stays
<1>3. CASE Serving /\ Move(req[r], req'[r])
  <2>1. UNCHANGED <<reg, handler>> BY <1>3 DEF Serving
  <2>2. CASE req'[r] = req[r] BY <2>1, <2>2
  <2>3. ~ (req'[r] = Resting \/ Begun(req'[r])) BY DEF Resting, Begun
  <2>4. CASE Keeps(req[r], req'[r]) /\ Advances(req[r], req'[r])
    BY <2>1, <2>4 DEF Keeps, Advances, ConnectedInv
  <2> QED BY <1>3, <2>2, <2>3, <2>4 DEF Move
<1> QED BY <1>1, <1>2, <1>3, StepCases

(* No tunnel that was terminated has an entry, nor gets one again.         *)
Gone(t) == Recorded(t) /\ \A b \in reg : b.tid # t

KilledInv ==
    /\ kill.at = "mark" => Gone(kill.tid)
    /\ \A t \in TunnelId : tunnels[t] = "terminated" => Gone(t)
    /\ \A r \in Request :
          /\ \A t \in req[r].dead : Gone(t)
          /\ Routed(r) => Target(r) \notin req[r].dead

(* A terminated tunnel stays without an entry. *)
LEMMA KilledInductive ==
    TypeOK /\ ConnectedInv /\ KilledInv /\ [Next]_vars => KilledInv'
<1> SUFFICES ASSUME TypeOK, ConnectedInv, KilledInv, [Next]_vars
             PROVE  KilledInv'
    OBVIOUS
<1>1. \A t \in TunnelId : Gone(t) => Gone(t)'
  BY TunnelsMove DEF Gone
<1>2. kill'.at = "mark" => Gone(kill.tid)'
  <2> SUFFICES ASSUME kill'.at = "mark" PROVE Gone(kill.tid)'
      OBVIOUS
  <2>1. kill.at = "mark" => kill.tid \in TunnelId BY DEF ConnectedInv
  <2>2. CASE UNCHANGED kill
    BY <1>1, <2>1, <2>2 DEF KilledInv, Gone, Recorded
  <2>3. CASE KillRemoves
    <3>1. kill.tid \in TunnelId /\ Recorded(kill.tid)
      BY <2>3 DEF KillRemoves, ConnectedInv
    <3>2. \A b \in reg' : b.tid # kill.tid
      BY <2>3, <3>1, NoTunnelAssumption, SubdomainAssumption
         DEF KillRemoves, RemoveHTTPByTunnelID, TypeOK, Binding
    <3> QED BY <2>3, <3>1, <3>2 DEF KillRemoves, rows, Gone, Recorded, TypeOK
  <2>4. ~ KillMarks /\ ~ Crash /\ \A t \in TunnelId : ~ BeginKill(t)
    BY DEF KillMarks, Crash, BeginKill
  <2>5. UNCHANGED kill \/ KillRemoves
    <3>1. CASE Serving BY <3>1 DEF Serving
    <3>2. CASE UNCHANGED vars BY <3>2 DEF vars, routeVars
    <3>3. CASE Boots BY <3>3 DEF Boots, routeVars
    <3>4. CASE TunnelStep
      BY <3>4 DEF TunnelStep, Connect, RecordTunnel, ConnectionLost, Notice,
                  Release, Handles
    <3>5. CASE AdminStep BY <2>4, <3>5 DEF AdminStep, HandleDomains
    <3> QED BY <2>4, <3>1, <3>2, <3>3, <3>4, <3>5, RequestMoves DEF Next
  <2> QED BY <2>2, <2>3, <2>5
<1>3. ASSUME NEW t \in TunnelId, tunnels'[t] = "terminated" PROVE Gone(t)'
  <2>1. CASE tunnels[t] = "terminated" BY <1>1, <2>1 DEF KilledInv
  <2>2. CASE tunnels[t] # "terminated"
    <3>1. CASE KillMarks
      BY <1>1, <1>3, <2>2, <3>1 DEF KillMarks, KilledInv, TypeOK
    <3>2. ~ KillMarks => tunnels'[t] # "terminated"
      <4> SUFFICES ASSUME ~ KillMarks PROVE tunnels'[t] # "terminated"
          OBVIOUS
      <4> USE <2>2
      <4>1. CASE Serving BY <4>1 DEF Serving, rows
      <4>2. CASE UNCHANGED vars BY <4>2 DEF vars, routeVars
      <4>3. CASE Boots BY <4>3 DEF Boots, routeVars
      <4>4. CASE Crash BY <4>4 DEF Crash, rows
      <4>5. CASE TunnelStep
        <5>1. ASSUME NEW s \in Session, RecordTunnel(s)
              PROVE  tunnels'[t] # "terminated"
          BY <5>1 DEF RecordTunnel, TypeOK
        <5> QED BY <4>5, <5>1 DEF TunnelStep, Connect, ConnectionLost, Notice,
                                  Release, rows
      <4>6. CASE AdminStep
        BY <4>6 DEF AdminStep, HandleDomains, BeginKill, KillRemoves, rows
      <4> QED BY <4>1, <4>2, <4>3, <4>4, <4>5, <4>6, RequestMoves DEF Next
    <3> QED BY <1>3, <3>1, <3>2
  <2> QED BY <2>1, <2>2
<1>4. ASSUME NEW r \in Request
      PROVE  /\ \A t \in req'[r].dead : Gone(t)'
             /\ Routed(r)' => req'[r].entry.tid \notin req'[r].dead
  <2> USE DEF Routed, HasEntry, Target
  <2>0. req[r] \in RequestState /\ req[r].dead \subseteq TunnelId
    BY DEF TypeOK, RequestState
  <2>1. \A t \in req[r].dead : Gone(t) /\ Gone(t)'
    BY <1>1, <2>0 DEF KilledInv
  <2>2. CASE req'[r] = Resting BY <2>2 DEF Resting
  <2>3. CASE Stays(req[r], req'[r]) \/ req'[r] = req[r]
    BY <2>1, <2>3 DEF Stays, KilledInv
  <2>4. CASE Begun(req'[r]) BY <1>1, <2>4 DEF Begun, KilledInv
  <2>5. CASE Keeps(req[r], req'[r]) /\ Advances(req[r], req'[r])
    BY <2>1, <2>5 DEF Keeps, Advances, KilledInv, Gone
  <2>6. Crash => req'[r] = Resting BY DEF Crash
  <2> QED BY <2>2, <2>3, <2>4, <2>5, <2>6, StepCases DEF Move
<1> QED BY <1>2, <1>3, <1>4 DEF KilledInv, Target

-----------------------------------------------------------------------------
(* What a request knows of a mapping was so since it began.                *)
DomainInv ==
    /\ domains = wanted
    /\ \A h \in Host : domains[h].enabled =>
          domains[h].tid \in TunnelId /\ Recorded(domains[h].tid)
    /\ \A r \in Request :
          /\ ~ At(r, "idle") /\ wanted[req[r].host].enabled =>
                wanted[req[r].host].tid \in req[r].meant
          /\ ByDomain(r) => req[r].mapped \in req[r].meant
          /\ req[r].at \in {"idle", "label", "mapping"} => ~ ByDomain(r)
          /\ Routed(r) /\ ByDomain(r) => Target(r) = req[r].mapped

(* A request routed by a domain stays with a tunnel the domain meant. *)
LEMMA DomainInductive ==
    TypeOK /\ ConnectedInv /\ DomainInv /\ [Next]_vars => DomainInv'
<1> SUFFICES ASSUME TypeOK, ConnectedInv, DomainInv, [Next]_vars
             PROVE  DomainInv'
    OBVIOUS
<1> USE DEF Routed, HasEntry, Target, ByDomain, At
<1>1. \A t \in TunnelId : Recorded(t) => Recorded(t)' BY TunnelsMove
<1>2. ASSUME NEW h \in Host, HandleDomains(h) PROVE DomainInv'
  <2>1. PICK t \in TunnelId, e \in BOOLEAN :
          /\ Recorded(t)
          /\ domains' = [domains EXCEPT ![h] = [tid |-> t, enabled |-> e]]
          /\ wanted' = [wanted EXCEPT ![h] = [tid |-> t, enabled |-> e]]
    BY <1>2 DEF HandleDomains, UpsertCustomDomain, ReferencesTunnel
  <2>2. domains' = wanted' BY <2>1 DEF DomainInv
  <2>3. ASSUME NEW g \in Host, domains'[g].enabled
        PROVE  domains'[g].tid \in TunnelId /\ Recorded(domains[g].tid)'
    <3>1. CASE g = h
      <4>1. domains'[g].tid = t BY <2>1, <3>1 DEF TypeOK
      <4> QED BY <1>1, <2>1, <4>1 DEF Recorded
    <3>2. CASE g # h
      <4>1. domains'[g] = domains[g] BY <2>1, <3>2 DEF TypeOK
      <4> QED BY <1>1, <2>3, <4>1 DEF DomainInv, Recorded
    <3> QED BY <3>1, <3>2
  <2>4. ASSUME NEW r \in Request
        PROVE  /\ Stays(req[r], req'[r])
               /\ req[r].at # "idle" /\ wanted'[req[r].host].enabled =>
                     wanted'[req[r].host].tid \in req'[r].meant
    BY <1>2 DEF HandleDomains, MeantBy, Stays, TypeOK, RequestState
  <2> QED BY <2>2, <2>3, <2>4 DEF DomainInv, Stays
<1>3. ASSUME UNCHANGED <<domains, wanted>>,
             NEW r \in Request,
             Stays(req[r], req'[r]) \/ Move(req[r], req'[r])
      PROVE  /\ req'[r].at # "idle" /\ wanted[req'[r].host].enabled =>
                   wanted[req'[r].host].tid \in req'[r].meant
             /\ req'[r].mapped # NoTunnel => req'[r].mapped \in req'[r].meant
             /\ req'[r].at \in {"idle", "label", "mapping"} =>
                   req'[r].mapped = NoTunnel
             /\ req'[r].at \in HasEntry /\ req'[r].mapped # NoTunnel =>
                   req'[r].entry.tid = req'[r].mapped
  <2>0. req[r] \in RequestState BY DEF TypeOK
  <2>1. CASE Stays(req[r], req'[r]) BY <2>1 DEF Stays, DomainInv
  <2>2. CASE req'[r] = req[r] BY <2>2 DEF DomainInv
  <2>3. CASE req'[r] = Resting BY <2>3 DEF Resting
  <2>4. CASE Begun(req'[r]) BY <2>4 DEF Begun
  <2>5. CASE Keeps(req[r], req'[r]) /\ Advances(req[r], req'[r])
    BY <2>0, <2>5 DEF Keeps, Advances, DomainInv, RequestState
  <2> QED BY <1>3, <2>1, <2>2, <2>3, <2>4, <2>5 DEF Move
<1>4. ASSUME UNCHANGED <<domains, wanted>>,
             \A r \in Request :
                 Stays(req[r], req'[r]) \/ Move(req[r], req'[r])
      PROVE  DomainInv'
  <2>1. ASSUME NEW h \in Host, domains'[h].enabled
        PROVE  domains'[h].tid \in TunnelId /\ Recorded(domains[h].tid)'
    BY <1>1, <1>4, <2>1 DEF DomainInv, Recorded
  <2> QED BY <1>3, <1>4, <2>1 DEF DomainInv
<1>5. CASE Crash
  BY <1>4, <1>5 DEF Crash, rows, Move
<1>6. CASE Serving /\ \A r \in Request : Move(req[r], req'[r])
  BY <1>4, <1>6 DEF Serving, rows
<1>7. UNCHANGED <<domains, wanted>> \/ \E h \in Host : HandleDomains(h)
  <2>1. CASE Serving BY <2>1 DEF Serving, rows
  <2>2. CASE UNCHANGED vars BY <2>2 DEF vars, routeVars
  <2>3. CASE Boots BY <2>3 DEF Boots, routeVars
  <2>4. CASE Crash BY <2>4 DEF Crash, rows
  <2>5. CASE TunnelStep
    BY <2>5 DEF TunnelStep, Connect, RecordTunnel, ConnectionLost, Notice,
                Release, Handles, rows
  <2>6. CASE AdminStep
    BY <2>6 DEF AdminStep, BeginKill, KillRemoves, KillMarks, rows
  <2> QED BY <2>1, <2>2, <2>3, <2>4, <2>5, <2>6, RequestMoves DEF Next
<1> QED BY <1>2, <1>4, <1>5, <1>6, <1>7, StepCases

-----------------------------------------------------------------------------
RoutingInv == TypeOK /\ SchemaInv /\ ConnectedInv
AllInv == RoutingInv /\ AllowInv /\ KilledInv /\ DomainInv

(* Together the parts are inductive.                                       *)
LEMMA RoutingInvariant == Spec => []AllInv
<1>1. Init => ConnectedInv /\ AllowInv /\ KilledInv /\ DomainInv
  BY NoTunnelAssumption
     DEF Init, ConnectedInv, AllowInv, KilledInv, DomainInv, EmptyRegistry,
         Recorded, Resting, Unmapped, Routed, HasEntry, ByDomain, At, Gone
<1>2. AllInv /\ [Next]_vars => AllInv'
  BY TypeInductive, BootInductive, EveryStepBoots, ConnectedInductive,
     AllowInductive, KilledInductive, DomainInductive
     DEF AllInv, RoutingInv, TypeOK
<1>3. Init => RoutingInv
  BY <1>1, InitTyped DEF RoutingInv
<1> QED BY <1>1, <1>2, <1>3, PTL DEF Spec, AllInv

(* The caller of a forwarded request is on the list of the connection it   *)
(* is forwarded to, whoever took the name meanwhile (httpproxy.go:74).     *)
THEOREM CallersAreAllowed == Spec => []AllowlistEnforced
<1>1. AllInv => AllowlistEnforced
  BY DEF AllInv, AllowInv, AllowlistEnforced, Routed, Forwarded, HasEntry, At,
         Allows, ParseAllowlist
<1> QED BY <1>1, RoutingInvariant, PTL

(* No request that begins after a kill was done reaches the killed tunnel, *)
(* because its id never comes back to the registry (http.go:131).          *)
THEOREM KilledIsNotForwarded == Spec => []KilledTunnelNotForwarded
<1>1. AllInv => KilledTunnelNotForwarded
  BY DEF AllInv, KilledInv, KilledTunnelNotForwarded, Routed, Forwarded,
         HasEntry, At
<1> QED BY <1>1, RoutingInvariant, PTL

(* A request by custom domain goes where the operator meant it to go at    *)
(* some time since it began (httpproxy.go:57-67).                          *)
THEOREM DomainIsFollowed == Spec => []DomainFollowsOperator
<1>1. AllInv => DomainFollowsOperator
  BY DEF AllInv, DomainInv, DomainFollowsOperator, Routed, Forwarded, HasEntry,
         At
<1> QED BY <1>1, RoutingInvariant, PTL

(* A certificate is granted only for a domain of a recorded tunnel         *)
(* (http.go:196, store.go:390).                                            *)
THEOREM CertificateIsForTunnel == Spec => []CertificateNeedsTunnel
<1>1. AllInv => CertificateNeedsTunnel
  BY DEF AllInv, DomainInv, CertificateNeedsTunnel, TLSAsk
<1> QED BY <1>1, RoutingInvariant, PTL

=============================================================================
