SPECIFICATION JBSpec
CONSTANTS
    t1 = t1
    s1 = s1
    r1 = r1
    r2 = r2
    ann = ann
    bob = bob
    scheduler = scheduler
    TrackIds = {t1}
    SessionIds = {s1}
    Threads = {scheduler, r1, r2}
    Scheduler = scheduler
    NoTrack = NoTrack
    Profiles <- TwoProfiles
    Ops = {"generateSession", "queryTracks", "getCurrentQueues", "addTrackToQueue", "voteTrack", "removeTrack", "moveTrack", "controlPlayer"}
    cSessionTimeoutAfterSeconds = 1
    MaxTime = 1
SYMMETRY Symmetry
INVARIANTS
    JBTypeOK
    UserStillThere
PROPERTIES
    ImplementsDataStore
    OnlyAdminsCurate
    NoTrackLost
