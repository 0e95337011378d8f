SPECIFICATION Spec
CONSTANTS
    t1 = t1
    t2 = t2
    c1 = c1
    c2 = c2
    u1 = u1
    u2 = u2
    None = None
    Payloads <- FirstCall
    Digest <- DigestOf
    DirectTracks <- Nobody
    DirectTimes <- Nobody
    Thousand = 2
    MaxCalls = 1
    MaxSessions = 1
INVARIANTS
    GivenIsShown
CHECK_DEADLOCK FALSE
