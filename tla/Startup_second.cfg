CONSTANTS
    Daemons = {p1, p2}
    NoDaemon = NoDaemon
    Overlaps = {{"serving"}}
SPECIFICATION Spec
INVARIANTS
    TextKept
