SPECIFICATION SSSpec
CONSTANTS
    t1 = t1
    t2 = t2
    TrackIds = {t1, t2}
    NoTrack = NoTrack
    NoPlayback = NoPlayback
    PlaybackError = PlaybackError
    Foreign = Foreign
    Interference = {"pause"}
    LongTracks = FALSE
    MaxSkips = 0
PROPERTY
    AdminPauseHolds
