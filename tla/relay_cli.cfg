\* Connections as the CLI makes them, no failing write or bind.
SPECIFICATION Spec
CONSTANTS
    s1 = s1
    s2 = s2
    t1 = t1
    t2 = t2
    a1 = a1
    k1 = k1
    k2 = k2
    Session = {s1, s2}
    TunnelId = {t1, t2}
    NoTunnel = NoTunnel
    Name = {"k-web", "k-tcp", "k-udp"}
    RawName = {"web", "Web", "tcp7000"}
    NoName = "none"
    Kind <- MCKind
    Key <- MCKey
    Offer <- CLIOffer
    Token = {k1, k2}
    NoToken = NoToken
    EnvToken = {k1}
    Request = {a1}
    MayFail = FALSE
    MaxCrashes = 1
INVARIANTS
    TypeOK
    NoDanglingEntry
    NoOrphanListener
    RevokedTokenNeverRegistered
    OneActiveToken
    TerminatedNotRouted
    UncontestedTunnelReachable
CHECK_DEADLOCK FALSE
