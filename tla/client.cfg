\* Two processes, daemons or commands in the foreground, want one subdomain.
SPECIFICATION Spec
CONSTANTS
    Proc = {1, 2}
    Tunnel = {"web"}
    Name = {"web"}
    Kind <- MCKind
    NameOf <- MCNameOf
    Session = {1, 2, 3}
    TunnelId = {1, 2, 3}
    NoTunnel = NoTunnel
    None = None
    Absent = Absent
    Blank = Blank
    FirstBackoff = 2
    MaxBackoff = 3
    MaxFaults = 1
INVARIANTS
    TypeOK
    
    
PROPERTIES
    SignalEndsProcess
    NamesReleased
    EventuallyServes
CHECK_DEADLOCK FALSE
