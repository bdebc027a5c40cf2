CONSTANTS
    Daemons = {p1, p2}
    NoDaemon = NoDaemon
    Overlaps = {{"serving", "stopping"}}
SPECIFICATION Spec
INVARIANTS
    SocketKept
