------------------------------ MODULE Registry ------------------------------
(***************************************************************************)
(* The relay server's registry of live tunnels                             *)
(* (server/internal/tunnels/registry.go): three maps, HTTP by subdomain,   *)
(* TCP and UDP by external port, each method under one RWMutex.  A method  *)
(* is therefore one atomic operator here.  The three maps are one set of   *)
(* bindings [name, tid, session]; a name stands for a subdomain after      *)
(* ToLower/TrimSpace, a TCP port or a UDP port, and Kind says which, so    *)
(* that two kinds never share a name just as they never share a map.       *)
(***************************************************************************)

CONSTANTS
    Name,        \* the keys of httpMap, tcpMap and udpMap
    Kind,        \* [Name -> Protocol]: the map a name is a key of
    TunnelId,    \* tunnel ids chosen by clients
    NoTunnel,    \* the empty tunnel id
    Session      \* relay (yamux) sessions

Protocol == {"http", "tcp", "udp"}

ASSUME KindAssumption == Kind \in [Name -> Protocol]
ASSUME NoTunnelAssumption == NoTunnel \notin TunnelId

(* HTTPEntry, TCPEntry and UDPEntry; the allowlist is left out.            *)
Binding == [name : Name, tid : TunnelId \cup {NoTunnel}, session : Session]

(* NewRegistry *)
EmptyRegistry == {}

Bound(reg, n) == \E b \in reg : b.name = n

(* RegisterHTTP refuses a subdomain that has an entry, whoever holds it.   *)
HTTPAvailable(reg, n) == ~ Bound(reg, n)

(* RegisterTCP refuses an empty id and a port some other tunnel holds; the *)
(* same tunnel id takes its entry over, from whatever session it was on.   *)
TCPAvailable(reg, n, t) ==
    /\ t # NoTunnel
    /\ \A b \in reg : b.name = n => b.tid = t

(* Mutant: any client may take a port over.                               *)
UDPAvailableToAll(reg, n, t) == TRUE

(* RegisterUDP *)
UDPAvailable(reg, n, t) ==
    /\ t # NoTunnel
    /\ \A b \in reg : b.name = n => b.tid = t

(* The map assignment that ends every Register method.                     *)
Put(reg, n, t, s) ==
    {b \in reg : b.name # n} \cup {[name |-> n, tid |-> t, session |-> s]}

(* RemoveHTTP, RemoveTCP, RemoveUDP: by key, whoever the entry belongs to. *)
Remove(reg, n) == {b \in reg : b.name # n}

(* Mutant: every subdomain goes, whatever tunnel it belongs to.            *)
RemoveEveryHTTP(reg, t) == {b \in reg : Kind[b.name] # "http"}

(* RemoveHTTPByTunnelID *)
RemoveHTTPByTunnelID(reg, t) ==
    {b \in reg : t = NoTunnel \/ b.tid # t \/ Kind[b.name] # "http"}

(* Mutant: the TCP removal walks another map.                              *)
RemoveTCPFromUDP(reg, t) ==
    {b \in reg : t = NoTunnel \/ b.tid # t \/ Kind[b.name] # "udp"}

(* RemoveTCPByTunnelID *)
RemoveTCPByTunnelID(reg, t) ==
    {b \in reg : t = NoTunnel \/ b.tid # t \/ Kind[b.name] # "tcp"}

(* RemoveUDPByTunnelID *)
RemoveUDPByTunnelID(reg, t) ==
    {b \in reg : t = NoTunnel \/ b.tid # t \/ Kind[b.name] # "udp"}

=============================================================================
