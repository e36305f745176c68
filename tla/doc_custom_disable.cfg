SPECIFICATION Spec
CONSTANTS
    Account = {a}
    TuneAccount = {a}
    XmppAccount = {}
    a = a
    Report <- MCReport
    SavedStatus <- MCSavedStatus
    StartPrefs <- MCDefaultPrefs
    StartCustom <- MCDefaultCustom
    Option = {"custom disable"}
    clean = clean
    dirty = dirty
    masked = masked
    busy = busy
    lunch = lunch
    NoTrack = NoTrack
    NoTune = NoTune
    Track = {clean, dirty, masked}
    Mask <- MCMask
    UserMessage = {busy, lunch}
PROPERTY CustomDisableClears
