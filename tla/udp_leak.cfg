\* The late end of one session of an address against its next session.
SPECIFICATION Spec
CONSTANTS
    x1 = x1
    x2 = x2
    r1 = r1
    r2 = r2
    Remote = {x1}
    NoRemote = NoRemote
    Relay = {r1}
    NoRelay = NoRelay
    MaxStreams = 2
    MaxOpens = 1
INVARIANT
    ReadingSessionIsMapped
CHECK_DEADLOCK FALSE
