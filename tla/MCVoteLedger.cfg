SPECIFICATION VLSpec
CONSTANTS
    t1 = t1
    t2 = t2
    s1 = s1
    s2 = s2
    th1 = th1
    th2 = th2
    TrackIds = {t1, t2}
    SessionIds = {s1, s2}
    Threads = {th1, th2}
    NoTrack = NoTrack
    Nick = Nick
    Profiles <- OneProfile
    cSessionTimeoutAfterSeconds = 1
    MaxTime = 1
SYMMETRY Symmetry
INVARIANTS
    DSTypeOK
    NoTrackQueuedTwice
    SortedUnlessDownvoted
    LedgerExact
    DebtBounded
PROPERTY
    ImplementsPlaylist
