\* One UDP port, two addresses, one tunnel, the port opened twice.
SPECIFICATION Spec
CONSTANTS
    x1 = x1
    x2 = x2
    r1 = r1
    r2 = r2
    Remote = {x1, x2}
    NoRemote = NoRemote
    Relay = {r1}
    NoRelay = NoRelay
    MaxStreams = 2
    MaxOpens = 2
INVARIANTS
    TypeOK
    
    MappedSessionHasReader
    OpenStreamHasOwner
PROPERTIES
    StreamsEndWithRelay
    WrittenSessionEnds
CHECK_DEADLOCK FALSE
