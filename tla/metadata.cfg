SPECIFICATION FairSpec
CONSTANTS
    t1 = t1
    t2 = t2
    c1 = c1
    c2 = c2
    u1 = u1
    u2 = u2
    None = None
    Payloads <- SomePayloads
    Digest <- DigestOf
    DirectTracks <- OneTrack
    DirectTimes <- OneTime
    Thousand = 2
    MaxCalls = 3
    MaxSessions = 2
INVARIANTS
    TypeOK
    SingleFlight
    DedupIsSound
    UnhurriedIsLatest
    ShowsOwnSession
    ProgressIsExact
PROPERTIES
    CallsReturn
CHECK_DEADLOCK FALSE
