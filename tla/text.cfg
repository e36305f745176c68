SPECIFICATION FairSpec
CONSTANTS
    Nul = Nul
    Letter <- MCLetter
    Unprintable <- MCUnprintable
    Invalid = {"#"}
    Convertible <- MCConvertible
    Char <- MCChar
    Lower <- MCLower
    Titles <- MCTitles
    Artists <- MCArtists
    Formats <- MCFormats
    Filters <- MCFilters
CHECK_DEADLOCK FALSE
INVARIANT TextsArriveAsMeant
INVARIANT NothingListedIsShown
INVARIANT OnlyListedIsMasked
INVARIANT WritesWhatWasCounted
INVARIANT StatusIsExpansion
INVARIANT BarHasItsMark
PROPERTY CallbackEnds
