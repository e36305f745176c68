SPECIFICATION Spec
CONSTANTS
    Account = {a}
    TuneAccount = {a}
    XmppAccount = {a}
    a = a
    Report <- MCReportSmall
    SavedStatus <- MCSavedStatusBare
    StartPrefs <- MCDefaultPrefs
    StartCustom <- MCDefaultCustom
    Option = {"account", "custom disable", "format", "broken", "misc", "toggle", "select"}
    clean = clean
    dirty = dirty
    masked = masked
    busy = busy
    lunch = lunch
    NoTrack = NoTrack
    NoTune = NoTune
    Track = {clean, dirty, masked}
    Mask <- MCMask
    UserMessage = {busy, lunch}
PROPERTY ClearingRestores
