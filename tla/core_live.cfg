SPECIFICATION FairSpec
CONSTANTS
    Account = {a}
    TuneAccount = {a}
    XmppAccount = {}
    a = a
    Report <- MCReportOdd
    SavedStatus <- MCSavedStatus
    StartPrefs <- MCDefaultPrefs
    StartCustom <- MCDefaultCustom
    Option = {"custom disable", "custom format", "broken", "filter", "misc", "toggle", "select"}
    clean = clean
    dirty = dirty
    masked = masked
    busy = busy
    lunch = lunch
    NoTrack = NoTrack
    NoTune = NoTune
    Track = {clean, dirty, masked}
    Mask <- MCMask
    UserMessage = {busy, lunch}
PROPERTY MessageConverges
PROPERTY NowPlayingFollows
