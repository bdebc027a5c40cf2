CONSTANTS
    Origins = {o1, o2}
    NoOrigin = none
    MaxDuration = 2
    StopDelays = {1}
    WarmRetentions = {0, 1}
    HTTPInput = TRUE
    PCMErrors = TRUE
    MaxClips = 3
    MaxBuffered = 1
    MaxExpired = 2
SPECIFICATION Spec
SYMMETRY OriginSymmetry
INVARIANTS
    TypeOK
    SessionsConsistent
    StreamSettled
    ClipFates
PROPERTIES
    OwnershipRespected
