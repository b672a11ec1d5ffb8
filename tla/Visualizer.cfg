SPECIFICATION Spec
CONSTANTS
    NPresets = 2
    Levels = {1, 2}
    DefaultLevel = 1
    Watched = 2
    MaxCmds = 2
    MaxEvents = 4
    MaxWaiting = 2
INVARIANTS
    TypeOK
    FavoritesSurvive
    MirrorsAgree
