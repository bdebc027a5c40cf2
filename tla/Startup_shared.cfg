CONSTANTS
    Daemons = {p1, p2, p3}
    NoDaemon = NoDaemon
    Overlaps = {{"serving"}, {"starting", "serving", "stopping"}}
SPECIFICATION FairSpec
INVARIANTS
    TypeOK
    OneServer
    NoSocketLeft
PROPERTIES
    AloneStarts
