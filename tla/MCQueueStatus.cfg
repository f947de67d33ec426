SPECIFICATION QSSpec
CONSTANTS
    t1 = t1
    t2 = t2
    TrackIds = {t1, t2}
    NoTrack = NoTrack
    NoPlayback = NoPlayback
    PlaybackError = PlaybackError
    Foreign = Foreign
    Interference = {"fail", "skip"}
    LongTracks = TRUE
    MaxSkips = 1
INVARIANT
    QSTypeOK
PROPERTIES
    InconsistencyExplained
    WrongNicknameExplained
    PlaylistAdvances
