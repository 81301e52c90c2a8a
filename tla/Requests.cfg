SPECIFICATION FairSpec
CONSTANTS
    Members = {1, 2}
    Points <- RingPoints
    Configs <- Pools
    First <- Started
    None = None
    MaxDeliveries = 1
    MaxVerdicts = 1
    Wrap = 2
    Clients = {c1, c2}
    Streams = {s1}
    Key <- Keys
INVARIANTS Accounted
PROPERTIES NeverToTheDown WaitEnds
