SPECIFICATION Spec
CONSTANTS
    Account = {a, b}
    TuneAccount = {a, b}
    XmppAccount = {}
    a = a
    b = b
    Report <- MCReport
    SavedStatus <- MCSavedStatusBare
    StartPrefs <- MCStartPrefs
    StartCustom <- MCStartCustom
    Option = {"toggle", "select", "custom format"}
    clean = clean
    dirty = dirty
    masked = masked
    busy = busy
    lunch = lunch
    NoTrack = NoTrack
    NoTune = NoTune
    Track = {clean, dirty, masked}
    Mask <- MCMask
    UserMessage = {busy, lunch}
INVARIANT TypeOK
INVARIANT TuneMatchesStash
INVARIANT OffLeavesNothing
INVARIANT ExemptKeepOwn
INVARIANT FilteredOnly
PROPERTY TuneFollowsChange
