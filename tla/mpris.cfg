SPECIFICATION FairMpris
CONSTANTS
    Nothing = Nothing
    Nobody = Nobody
    s1 = s1
    s2 = s2
    Text <- MCText
    Track <- MCTrack
    Cached = {"MPRIS"}
    Service = {s1, s2}
    NoGetStatus = {s2}
    Code = {0, 2}
    TracksOf <- MCTracksOf
    MaxSignals = 2
    MaxMessages = 3
    MaxPauses = 2
INVARIANT TypeOK
INVARIANT StatusIsHeard
PROPERTY ImplementsSelection
PROPERTY MprisConverges
