SPECIFICATION QSSpec
CONSTANTS
    t1 = t1
    t2 = t2
    TrackIds = {t1, t2}
    NoTrack = NoTrack
    NoPlayback = NoPlayback
    PlaybackError = PlaybackError
    Foreign = Foreign
    Interference = {}
    LongTracks = TRUE
    MaxSkips = 0
INVARIANT
    RightNickname
