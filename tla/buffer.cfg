SPECIFICATION FairSpec
CONSTANTS
    PacketSize = 2
    PacketsInBuffer = 3
    ChunkSizes <- SomeChunks
    MaxWritten = 10
    MaxIdle = 3
INVARIANTS
    TypeOK
    SizeIsExact
    StatusIsTold
PROPERTIES
    DrainIsKept
    EndComesLast
    ImplementsPlayout
    PatientWriterResumes
CHECK_DEADLOCK FALSE
