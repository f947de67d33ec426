SPECIFICATION VLSpec
CONSTANTS
    t1 = t1
    s1 = s1
    th1 = th1
    th2 = th2
    TrackIds = {t1}
    SessionIds = {s1}
    Threads = {th1, th2}
    NoTrack = NoTrack
    Nick = Nick
    Profiles <- OneProfile
    cSessionTimeoutAfterSeconds = 1
    MaxTime = 0
INVARIANT
    NobodyCountsTwice
