SPECIFICATION JHSpec
CONSTANTS
    t1 = t1
    s1 = s1
    r1 = r1
    ann = ann
    bob = bob
    scheduler = scheduler
    TrackIds = {t1}
    SessionIds = {s1}
    Threads = {scheduler, r1}
    Scheduler = scheduler
    NoTrack = NoTrack
    Profiles <- TwoProfiles
    Ops = {"generateSession", "voteTrack"}
    cSessionTimeoutAfterSeconds = 2
    MaxTime = 2
PROPERTY
    ActiveSessionSurvives
