\* A datagram of one tunnel against a session left by another.
SPECIFICATION Spec
CONSTANTS
    x1 = x1
    x2 = x2
    r1 = r1
    r2 = r2
    Remote = {x1}
    NoRemote = NoRemote
    Relay = {r1, r2}
    NoRelay = NoRelay
    MaxStreams = 2
    MaxOpens = 2
INVARIANT
    DatagramFollowsRegistry
CHECK_DEADLOCK FALSE
