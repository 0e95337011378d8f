SPECIFICATION Spec
CONSTANTS
    MaxFragment = 2
    Bodies <- SomeBodies
    Break = 13
    BlockSize = 4
INVARIANTS
    TypeOK
    EveryHeadIsFound
    ItemsAreRead
    TimerIsArmed
CHECK_DEADLOCK FALSE
