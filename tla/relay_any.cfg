\* Any hello the protocol allows; writes and binds may fail.
SPECIFICATION Spec
CONSTANTS
    s1 = s1
    s2 = s2
    t1 = t1
    t2 = t2
    a1 = a1
    k1 = k1
    k2 = k2
    Session = {s1, s2}
    TunnelId = {t1}
    NoTunnel = NoTunnel
    Name = {"k-web", "k-udp"}
    RawName = {"web", "Web", "udp7000"}
    NoName = "none"
    Kind <- MCKind
    Key <- MCKey
    Offer <- AnyOffer
    Token = {k1}
    NoToken = NoToken
    EnvToken = {k1}
    Request = {a1}
    MayFail = TRUE
    MaxCrashes = 1
PROPERTIES
    ImplementsDirectory
    DroppedSessionReleased
CHECK_DEADLOCK FALSE
