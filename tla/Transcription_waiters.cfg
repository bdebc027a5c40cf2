CONSTANTS
    Locals = {c1, c2}
    Submissions = {h1, h2, h3}
SPECIFICATION FairSpec
INVARIANTS
    TypeOK
    CountersExact
    NoLostWakeup
PROPERTIES
    HTTPWaitsForLocal
    WaitersProceed
