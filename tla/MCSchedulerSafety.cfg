SPECIFICATION SSSpec
CONSTANTS
    t1 = t1
    t2 = t2
    TrackIds = {t1, t2}
    NoTrack = NoTrack
    NoPlayback = NoPlayback
    PlaybackError = PlaybackError
    Foreign = Foreign
    Interference = {"fail", "late", "pause", "skip", "withdraw", "foreign", "close"}
    LongTracks = FALSE
    MaxSkips = 2
SYMMETRY Symmetry
VIEW WithoutHeardAndPaused
INVARIANTS
    SSTypeOK
    WatchesHandedTrack
    ReportConsistent
    NothingPoppedInVain
PROPERTY
    NeverCutOff
