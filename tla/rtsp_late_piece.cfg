SPECIFICATION Spec
CONSTANTS
    Configs <- FacadeConfigs
    MaxAttempts = 0
    Mishaps <- Splits
    MaxMishaps = 1
    MaxCommands = 0
INVARIANTS
    SilenceIsNoticed
CHECK_DEADLOCK FALSE
