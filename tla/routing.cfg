\* Requests for a host that is a subdomain and a custom domain, two tunnels, one restart.
SPECIFICATION Spec
CONSTANTS
    s1 = s1
    s2 = s2
    t1 = t1
    t2 = t2
    c1 = c1
    c2 = c2
    Session = {s1, s2}
    TunnelId = {t1, t2}
    NoTunnel = NoTunnel
    Name = {"web", "app"}
    Kind <- MCKind
    Host = {"app.example.org"}
    LabelOf <- MCLabelOf
    NoLabel = NoLabel
    Caller = {c1, c2}
    Request = {r1}
    IdOf <- MCIdOf
    Wants <- MCWants
    ListsOf <- MCListsOf
    Malformed = Malformed
    AdminList = {}
    Operator = c1
    Files = 2
    Statements = 2
    MaxStops = 1
INVARIANTS
    TypeOK
    ServedSchemaComplete
    KilledTunnelNotForwarded
    
    AllowlistEnforced
    
PROPERTIES
    BootsEventually
CHECK_DEADLOCK FALSE
