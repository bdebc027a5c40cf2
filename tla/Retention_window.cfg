CONSTANTS
    MaxClip = 4
    Window = 1
    HasOutCmd = TRUE
    MaxErrors = 1
    Leftovers = {1}
SPECIFICATION Spec
INVARIANTS
    TypeOK
    FilesKept
    OutdatedLeave
