CONSTANTS
    Order <- MCUnix
    Installed <- MCBoth
    Nobody = Nobody
SPECIFICATION Spec
INVARIANT TypeOK
INVARIANT PlayingIsFound
INVARIANT StatusIsOwn
INVARIANT LeftByLeavers
