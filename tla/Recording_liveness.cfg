CONSTANTS
    Origins = {o1, o2}
    NoOrigin = none
    MaxDuration = 0
    StopDelays = {0, 1}
    WarmRetentions = {0, 1}
    HTTPInput = FALSE
    PCMErrors = FALSE
    MaxClips = 2
    MaxBuffered = 1
    MaxExpired = 2
SPECIFICATION FairSpec
PROPERTIES
    StopEventuallyEnds
    MicrophoneReleased
    ShutdownCompletes
    ImplementsLifecycle
