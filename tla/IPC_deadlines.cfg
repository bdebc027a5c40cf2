CONSTANTS
    MaxClients = 2
    RequestTimeout = 1
    ResponseTimeout = 2
    HTTPListen = TRUE
SPECIFICATION FairSpec
INVARIANTS
    TypeOK
    InConnectionOrder
    AnswersAgree
    PatienceSuffices
    FailureReported
PROPERTIES
    NobodyIsHeldUp
