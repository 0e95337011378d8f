SPECIFICATION Spec
CONSTANTS
    FramesPerPacket = 2
    Lead = 5
    SyncPeriod = 3
    StreamLatency = 4
    SeqWrap = 4
    TimeWrap = 23
    Starts <- SomeStarts
    NoStart = NoStart
    Latencies <- SomeLatencies
    MaxLate = 1
    MaxNow = 15
    Steps <- SomeSteps
    MaxSteps = 1
    MaxRelays = 3
    Nothing = Nothing
INVARIANTS
    TypeOK
    StreamIsSeamless
    PacketsAreOnTime
PROPERTIES
    ReceiverClockIsSteady
    FlushNamesNextPacket
    ReferenceHolds
CHECK_DEADLOCK FALSE
