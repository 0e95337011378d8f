SPECIFICATION Spec
CONSTANTS
    Configs <- FacadeConfigs
    MaxAttempts = 2
    Mishaps <- Resets
    MaxMishaps = 1
    MaxCommands = 0
INVARIANTS
    EndedHasNoSocket
CHECK_DEADLOCK FALSE
