CONSTANTS
    Order <- MCWindows
    Installed <- MCNoLibrary
    Nobody = Nobody
SPECIFICATION Spec
INVARIANT StatusIsOwn
