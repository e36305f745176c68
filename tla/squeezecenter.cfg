SPECIFICATION FairSpec
CONSTANTS
    Nothing = Nothing
    Nobody = Nobody
    A = A
    B = B
    d1 = d1
    d2 = d2
    d3 = d3
    Server = {A, B}
    Device = {d1, d2, d3}
    Text = {d1, d2, d3}
    Track = {}
    Hosts <- MCHosts
    ServerLists <- MCServerLists
    PlayerOrders <- MCPlayerOrders
    Shown <- MCShown
    Misread <- MCMisread
    MaxLate = 1
INVARIANT TypeOK
INVARIANT ArrayIsOurs
PROPERTY ImplementsSelection
PROPERTY ServerIsReached
