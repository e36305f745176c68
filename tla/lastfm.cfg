CONSTANTS
    Tick = 10
    Interval <- MCInterval
    User = {ann, bob}
    NoUser = NoUser
    Scrobble = {s1, s2}
    NoLine = NoLine
    Slot = {d1, d2}
SPECIFICATION FairSpec
INVARIANT TypeOK
INVARIANT CreditIsBounded
PROPERTY FetchesArePaced
PROPERTY AnswerFollowsFeed
