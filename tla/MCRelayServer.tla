---------------------------- MODULE MCRelayServer ----------------------------
(***************************************************************************)
(* Small instances of RelayServer.  Subdomain "Web" and "web" are one key. *)
(***************************************************************************)
EXTENDS RelayServer

CONSTANTS s1, s2, t1, t2, a1, k1, k2

MCKind == [n \in Name |-> CASE n = "k-web" -> "http"
                            [] n = "k-tcp" -> "tcp"
                            [] n = "k-udp" -> "udp"]

MCKey == [n \in RawName |-> CASE n \in {"web", "Web"} -> "k-web"
                              [] n = "tcp7000" -> "k-tcp"
                              [] n = "udp7000" -> "k-udp"]

Says(t, n) == [tid |-> t, name |-> n]

(* Hellos of the CLI: a new tunnel id for each connection.                 *)
CLIOffer ==
    [s \in Session |->
        IF s = s1
        THEN {Says(t1, "web"), Says(t1, "tcp7000")}
        ELSE {Says(t2, "Web"), Says(t2, "tcp7000"),
              Says(NoTunnel, NoName)}]

(* Hellos the protocol allows: an id shared by connections, or none.       *)
AnyOffer ==
    [s \in Session |->
        IF s = s1
        THEN {Says(t1, "web"), Says(t1, "udp7000")}
        ELSE {Says(t1, "udp7000"), Says(NoTunnel, "web"),
              Says(NoTunnel, "udp7000")}]

=============================================================================
