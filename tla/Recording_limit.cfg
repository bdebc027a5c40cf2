CONSTANTS
    Origins = {o1}
    NoOrigin = none
    MaxDuration = 1
    StopDelays = {1}
    WarmRetentions = {1}
    HTTPInput = FALSE
    PCMErrors = FALSE
    MaxClips = 1
    MaxBuffered = 1
    MaxExpired = 1
SPECIFICATION FairSpec
PROPERTIES
    MicrophoneReleased
