SPECIFICATION FairSpec
CONSTANTS
    Members = {1, 2, 3}
    Points <- RingPoints
    Configs <- Frontends
    First <- Started
    None = None
    MaxDeliveries = 1
    MaxVerdicts = 1
    Wrap = 2
    Clients = {"k1", "k2", "k3"}
    Key <- Keys
    DefaultLimit = 2
    DefaultIdle = 1
    Watched = {"k1"}
    Alone = TRUE
INVARIANTS Bounded
PROPERTIES EvictsLeastUsed  Drains
CHECK_DEADLOCK FALSE
