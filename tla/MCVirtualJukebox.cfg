SPECIFICATION VJSpec
CONSTANTS
    t1 = t1
    s1 = s1
    r1 = r1
    ann = ann
    bob = bob
    scheduler = scheduler
    TrackIds = {t1}
    SessionIds = {s1}
    Threads = {scheduler, r1}
    Scheduler = scheduler
    NoTrack = NoTrack
    Profiles <- TwoProfiles
    Ops = {"generateSession", "addTrackToQueue", "removeTrack", "moveTrack", "controlPlayer"}
    cSessionTimeoutAfterSeconds = 1
    MaxTime = 1
    NoPlayback = NoPlayback
    PlaybackError = PlaybackError
    Foreign = Foreign
    Interference = {"fail", "pause", "skip", "withdraw"}
    LongTracks = FALSE
    MaxSkips = 1
VIEW WithoutUnread
PROPERTIES
    ImplementsScheduler
    NoTrackForgotten
    OnlyAdminsControl
