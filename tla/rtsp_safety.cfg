SPECIFICATION FairSpec
CONSTANTS
    Configs <- DeviceConfigs
    MaxAttempts = 2
    Mishaps <- AllMishaps
    MaxMishaps = 3
    MaxCommands = 2
INVARIANTS
    TypeOK
    
    
    
    SealedOnceSecured
    PlayingWasAnnounced
PROPERTIES
    ReadyRepeatsOnlyOnFlush
    ClosedIsInert
    ImplementsSession
    AlwaysSettles
CHECK_DEADLOCK FALSE
