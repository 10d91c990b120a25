------------------------------- MODULE Routing -------------------------------
(***************************************************************************)
(* How a public HTTP request finds its tunnel: HTTPProxy.Handler           *)
(* (relayserver/httpproxy.go) up to the stream it opens, from the registry *)
(* and from the custom domains in the store, while tunnels come and go,    *)
(* the operator maps domains and kills tunnels (admin/http.go), and the    *)
(* process stops and starts (Migrations).  What is sent over the stream is *)
(* HttpExchange.tla.                                                       *)
(*                                                                         *)
(* A session is one connection of a client that, like the CLI, names a new *)
(* tunnel id; its handler is reduced to what a request can tell.           *)
(***************************************************************************)
EXTENDS Registry, Migrations

CONSTANTS
    Host,        \* host names public requests are for
    LabelOf,     \* [Host -> Name \cup {NoLabel}]: its first label
    NoLabel,     \* a label no tunnel asks for
    Caller,      \* addresses requests come from
    Request,     \* requests in flight
    IdOf,        \* [Session -> TunnelId]
    Wants,       \* [Session -> subdomains it may ask for]
    ListsOf,     \* [Session -> allowlists it may ask for, sets of items]
    Malformed,   \* an item that is no CIDR; the others are sets of callers
    AdminList,   \* PORTOPENER_ADMIN_ALLOWLIST, a set of items
    Operator     \* the address of the operator

ASSUME LabelAssumption ==
    LabelOf \in [Host -> Name \cup {NoLabel}] /\ NoLabel \notin Name
ASSUME SessionAssumption ==
    /\ IdOf \in [Session -> TunnelId]
    /\ Wants \in [Session -> SUBSET Name]
    /\ DOMAIN ListsOf = Session
    /\ \A s, o \in Session : s # o => IdOf[s] # IdOf[o]

ASSUME SubdomainAssumption == \A n \in Name : Kind[n] = "http"

VARIABLES
    reg,         \* the registry's httpMap
    handler,     \* state, subdomain and allowlist of each connection
    open,        \* sessions whose connection works
    tunnels,     \* status of the tunnels rows
    domains,     \* custom_domains rows: tunnel id and whether enabled
    kill,        \* the operator's kill under way
    req,         \* requests: where they are, their locals, and of history
                 \* dead, the tunnels terminated before the request began,
                 \* and meant, those the operator meant by its host since
    wanted       \* history: what the operator last asked of each domain

routeVars == <<reg, handler, open, tunnels, domains, kill, req, wanted>>
vars == <<bootVars, routeVars>>
rows == <<tunnels, domains, wanted>>

Up == boot = "serving"
NoEntry == [name |-> NoLabel, tid |-> NoTunnel, session |-> NoLabel]
Resting == [at |-> "idle", host |-> NoLabel, from |-> NoLabel,
            mapped |-> NoTunnel, entry |-> NoEntry, dead |-> {}, meant |-> {}]
NewHandler == [at |-> "new", name |-> NoLabel, list |-> {}]
Unmapped == [tid |-> NoTunnel, enabled |-> FALSE]

Init ==
    /\ BootInit
    /\ reg = EmptyRegistry
    /\ handler = [s \in Session |-> NewHandler]
    /\ open = {}
    /\ tunnels = [t \in TunnelId |-> "none"]
    /\ domains = [h \in Host |-> Unmapped]
    /\ kill = [at |-> "idle", tid |-> NoTunnel]
    /\ req = [r \in Request |-> Resting]
    /\ wanted = [h \in Host |-> Unmapped]

-----------------------------------------------------------------------------
(* Allowlists (tunnels/allowlist.go); a blank item is left out.            *)

ParseAllowlist(items) ==
    [valid |-> Malformed \notin items, nets |-> items \ {Malformed}]

(* An empty list allows everyone; an address that is no IP is in no net.   *)
Allows(list, c) ==
    list.valid /\ (list.nets = {} \/ \E net \in list.nets : c \in net)

(* allowAdminIP: ParseAllowlistCSV, Any when nothing is listed.            *)
AllowAdminIP(c) == Allows(ParseAllowlist(AdminList), c)

-----------------------------------------------------------------------------
(* Tunnels: the relay handler, its registry entry and its tunnels row.     *)

Handles(s, from, to) ==
    /\ Up
    /\ handler[s].at = from
    /\ handler' = [handler EXCEPT
          ![s].at = to, ![s].name = IF to = "ended" THEN NoLabel ELSE @]
    /\ UNCHANGED <<bootVars, domains, kill, req, wanted>>

(* The hello, and RegisterHTTP.                                            *)
Connect(s) ==
    /\ Up /\ handler[s].at = "new"
    /\ \E n \in Wants[s], items \in ListsOf[s] :
          /\ handler' = [handler EXCEPT ![s] =
                [at |-> IF HTTPAvailable(reg, n) THEN "registered"
                        ELSE "releasing",
                 name |-> n, list |-> items]]
          /\ reg' = IF HTTPAvailable(reg, n) THEN Put(reg, n, IdOf[s], s)
                    ELSE reg
    /\ open' = open \cup {s}
    /\ UNCHANGED <<bootVars, rows, kill, req>>

(* UpsertTunnel                                                            *)
RecordTunnel(s) ==
    /\ Handles(s, "registered", "serving")
    /\ tunnels' = [tunnels EXCEPT ![IdOf[s]] = "active"]
    /\ UNCHANGED <<reg, open>>

ConnectionLost(s) ==
    /\ s \in open
    /\ open' = open \ {s}
    /\ UNCHANGED <<bootVars, reg, handler, rows, kill, req>>

Notice(s) ==
    /\ s \notin open
    /\ Handles(s, "serving", "releasing")
    /\ UNCHANGED <<reg, open, tunnels>>

(* The deferred clean-up by name, and session.Close.                       *)
Release(s) ==
    /\ Handles(s, "releasing", "ended")
    /\ reg' = Remove(reg, handler[s].name)
    /\ open' = open \ {s}
    /\ UNCHANGED tunnels

-----------------------------------------------------------------------------
(* The operator.                                                           *)

Recorded(t) == tunnels[t] # "none"

MeantBy(w) ==
    [r \in Request |->
        LET h == req[r].host
        IN  IF h \in Host /\ w[h].enabled
            THEN [req[r] EXCEPT !.meant = @ \cup {w[h].tid}]
            ELSE req[r]]

(* Mutant: ON CONFLICT leaves the status as it is.                         *)
UpsertKeepingStatus(h, row) ==
    domains' = [domains EXCEPT ![h] =
                   IF @ = Unmapped THEN row
                   ELSE [row EXCEPT !.enabled = domains[h].enabled]]

(* UpsertCustomDomain: INSERT ... ON CONFLICT DO UPDATE of every column.   *)
UpsertCustomDomain(h, row) == domains' = [domains EXCEPT ![h] = row]

(* Mutant: no foreign key.                                                 *)
ReferencesAnything(t) == TRUE

(* custom_domains.tunnel_id REFERENCES tunnels(id); "" references nothing. *)
ReferencesTunnel(t) == t \in TunnelId /\ Recorded(t)

(* POST /api/domains; without the row it references the upsert fails.      *)
HandleDomains(h) ==
    /\ Up /\ AllowAdminIP(Operator)
    /\ \E t \in TunnelId, e \in BOOLEAN :
          /\ ReferencesTunnel(t)
          /\ UpsertCustomDomain(h, [tid |-> t, enabled |-> e])
          /\ wanted' = [wanted EXCEPT ![h] = [tid |-> t, enabled |-> e]]
    /\ req' = MeantBy(wanted')
    /\ UNCHANGED <<bootVars, reg, handler, open, tunnels, kill>>

(* Mutant: the row is marked before the entry is removed.                  *)
BeginKillMarking(t) ==
    /\ Up /\ AllowAdminIP(Operator)
    /\ kill.at = "idle" /\ Recorded(t)
    /\ kill' = [at |-> "remove", tid |-> t]
    /\ tunnels' = [tunnels EXCEPT ![t] = "terminated"]
    /\ UNCHANGED <<bootVars, reg, handler, open, domains, wanted, req>>

(* DELETE /api/tunnels/{id}, of a tunnel GET /api/tunnels has shown.       *)
BeginKill(t) ==
    /\ Up /\ AllowAdminIP(Operator)
    /\ kill.at = "idle" /\ Recorded(t)
    /\ kill' = [at |-> "remove", tid |-> t]
    /\ UNCHANGED <<bootVars, reg, handler, open, rows, req>>

KillRemoves ==
    /\ kill.at = "remove"
    /\ reg' = RemoveHTTPByTunnelID(reg, kill.tid)
    /\ kill' = [kill EXCEPT !.at = "mark"]
    /\ UNCHANGED <<bootVars, handler, open, rows, req>>

KillMarks ==
    /\ kill.at = "mark"
    /\ tunnels' = [tunnels EXCEPT ![kill.tid] = "terminated"]
    /\ kill' = [at |-> "idle", tid |-> NoTunnel]
    /\ UNCHANGED <<bootVars, reg, handler, open, domains, wanted, req>>

(* handleTLSAsk: whether a certificate may be issued for the domain.       *)
TLSAsk(h) == domains[h].enabled /\ domains[h].tid # NoTunnel

-----------------------------------------------------------------------------
(* HTTPProxy.Handler, for request r.                                       *)

At(r, place) == req[r].at = place
Serving == UNCHANGED <<bootVars, reg, handler, open, rows, kill>>

BeginRequest(r, h, c) ==
    /\ Up /\ At(r, "idle")
    /\ req' = [req EXCEPT ![r] =
          [Resting EXCEPT
              !.at = "label", !.host = h, !.from = c,
              !.dead = {t \in TunnelId : tunnels[t] = "terminated"},
              !.meant = IF wanted[h].enabled THEN {wanted[h].tid} ELSE {}]]
    /\ Serving

(* http.NotFound, "forbidden", "relay unavailable": the request is over.    *)
Refused(r) == req' = [req EXCEPT ![r] = Resting]
Found(r, b) == req' = [req EXCEPT ![r].at = "checking", ![r].entry = b]

(* Mutant: the result of the lookup is used though nothing was found.      *)
LookupIgnoringMiss(r) ==
    /\ At(r, "label")
    /\ LET bs == {b \in reg : b.name = LabelOf[req[r].host]}
       IN  IF bs = {} THEN Found(r, NoEntry) ELSE \E b \in bs : Found(r, b)
    /\ Serving

(* LookupHTTP of the host's first label.                                   *)
LookupHTTP(r) ==
    /\ At(r, "label")
    /\ LET bs == {b \in reg : b.name = LabelOf[req[r].host]}
       IN  IF bs = {} THEN req' = [req EXCEPT ![r].at = "mapping"]
           ELSE \E b \in bs : Found(r, b)
    /\ Serving

(* GetCustomDomain, and the status of the row.                             *)
GetCustomDomain(r) ==
    /\ At(r, "mapping")
    /\ LET row == domains[req[r].host]
       IN  IF row.enabled
           THEN req' = [req EXCEPT ![r].at = "tunnel", ![r].mapped = row.tid]
           ELSE Refused(r)
    /\ Serving

(* Mutant: without the tunnel, any that is there.                          *)
LookupAnyTunnel(r) ==
    /\ At(r, "tunnel")
    /\ IF reg = {} THEN Refused(r) ELSE \E b \in reg : Found(r, b)
    /\ Serving

LookupHTTPByTunnelID(r) ==
    /\ At(r, "tunnel")
    /\ LET bs == {b \in reg : b.tid = req[r].mapped}
       IN  IF bs = {} THEN Refused(r) ELSE \E b \in bs : Found(r, b)
    /\ Serving

(* Mutant: the list of whoever has the name by now.                        *)
CheckCurrentHolder(r) ==
    /\ At(r, "checking")
    /\ \E s \in Session :
          /\ \/ \E b \in reg : b.name = req[r].entry.name /\ b.session = s
             \/ ~ Bound(reg, req[r].entry.name) /\ s = req[r].entry.session
          /\ IF Allows(ParseAllowlist(handler[s].list), req[r].from)
             THEN req' = [req EXCEPT ![r].at = "opening"]
             ELSE Refused(r)
    /\ Serving

(* The allowlist that came with the entry.                                 *)
CheckAllowlist(r) ==
    /\ At(r, "checking")
    /\ LET items == handler[req[r].entry.session].list
       IN  IF Allows(ParseAllowlist(items), req[r].from)
           THEN req' = [req EXCEPT ![r].at = "opening"]
           ELSE Refused(r)
    /\ Serving

OpenStream(r) ==
    /\ At(r, "opening")
    /\ IF req[r].entry.session \in open
       THEN req' = [req EXCEPT ![r].at = "forwarded"]
       ELSE Refused(r)
    /\ Serving

(* The exchange is over.                                                   *)
FinishRequest(r) ==
    /\ At(r, "forwarded")
    /\ req' = [req EXCEPT ![r] = Resting]
    /\ Serving

-----------------------------------------------------------------------------
(* The process stops: everything but the rows is gone.                     *)
Crash ==
    /\ Stop
    /\ reg' = EmptyRegistry
    /\ handler' = [s \in Session |->
          IF handler[s].at = "new" THEN handler[s]
          ELSE [NewHandler EXCEPT !.at = "ended"]]
    /\ open' = {}
    /\ kill' = [at |-> "idle", tid |-> NoTunnel]
    /\ req' = [r \in Request |-> Resting]
    /\ UNCHANGED rows

Boots == BootStep /\ UNCHANGED routeVars

TunnelStep ==
    \E s \in Session :
        \/ Connect(s) \/ RecordTunnel(s) \/ ConnectionLost(s) \/ Notice(s)
        \/ Release(s)

AdminStep ==
    \/ \E h \in Host : HandleDomains(h)
    \/ \E t \in TunnelId : BeginKill(t)
    \/ KillRemoves \/ KillMarks

RequestStep(r) ==
    \/ LookupHTTP(r) \/ GetCustomDomain(r) \/ LookupHTTPByTunnelID(r)
    \/ CheckAllowlist(r) \/ OpenStream(r) \/ FinishRequest(r)

Next ==
    \/ Boots \/ Crash \/ TunnelStep \/ AdminStep
    \/ \E r \in Request :
          RequestStep(r) \/ \E h \in Host, c \in Caller : BeginRequest(r, h, c)

(* The supervisor starts the process again, and the process goes on.       *)
Spec == Init /\ [][Next]_vars /\ WF_vars(Boots)

-----------------------------------------------------------------------------
Allowlist == {{}} \cup UNION {ListsOf[s] : s \in Session}

HandlerState ==
    [at : {"new", "registered", "serving", "releasing", "ended"},
     name : Name \cup {NoLabel}, list : Allowlist]

HasEntry == {"checking", "opening", "forwarded"}

Mapping == [tid : TunnelId \cup {NoTunnel}, enabled : BOOLEAN]

(* A request has a host while it is under way, and an entry from the       *)
(* moment it found one.                                                    *)
RequestState ==
    {q \in [at : {"idle", "label", "mapping", "tunnel"} \cup HasEntry,
            host : Host \cup {NoLabel}, from : Caller \cup {NoLabel},
            mapped : TunnelId \cup {NoTunnel}, entry : Binding \cup {NoEntry},
            dead : SUBSET TunnelId, meant : SUBSET (TunnelId \cup {NoTunnel})] :
        /\ q.at # "idle" => q.host \in Host
        /\ q.at \in HasEntry <=> q.entry \in Binding}

TypeOK ==
    /\ BootTypeOK
    /\ reg \in SUBSET Binding
    /\ handler \in [Session -> HandlerState]
    /\ open \in SUBSET Session
    /\ tunnels \in [TunnelId -> {"none", "active", "terminated"}]
    /\ domains \in [Host -> Mapping]
    /\ wanted \in [Host -> Mapping]
    /\ kill \in [at : {"idle", "remove", "mark"},
                 tid : TunnelId \cup {NoTunnel}]
    /\ req \in [Request -> RequestState]

Forwarded(r) == At(r, "forwarded")
Target(r) == req[r].entry.tid
ByDomain(r) == req[r].mapped # NoTunnel

(* A request that begins when the operator has been told that a tunnel is  *)
(* terminated is not forwarded to it, by its subdomain or by a domain      *)
(* still mapped to it, though registry and rows are changed in several     *)
(* steps and a request looks at them in several (http.go:131,              *)
(* httpproxy.go:51, :67).                                                  *)
KilledTunnelNotForwarded ==
    \A r \in Request : Forwarded(r) => Target(r) \notin req[r].dead

(* A request by custom domain goes to a tunnel the operator meant by that  *)
(* domain, enabled, at some time since the request began: not to one       *)
(* mapped or enabled only earlier, and not to another tunnel               *)
(* (httpproxy.go:57-67, store.go:390).                                     *)
DomainFollowsOperator ==
    \A r \in Request :
        Forwarded(r) /\ ByDomain(r) => Target(r) \in req[r].meant

(* The caller is on the allowlist of the very connection the request is    *)
(* forwarded to, also when the name changed hands after it was looked up   *)
(* (httpproxy.go:74).                                                      *)
AllowlistEnforced ==
    \A r \in Request : Forwarded(r) =>
        LET items == handler[req[r].entry.session].list
        IN  /\ Malformed \notin items
            /\ items = {} \/ \E net \in items : req[r].from \in net

(* A certificate is granted only for a domain of a tunnel the server knows *)
(* (http.go:196), also after a restart.                                    *)
CertificateNeedsTunnel ==
    \A h \in Host : TLSAsk(h) =>
        domains[h].tid \in TunnelId /\ Recorded(domains[h].tid)

=============================================================================
