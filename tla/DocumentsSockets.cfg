CONSTANTS
    None = None
    Fold <- LowerCase
    Decode <- Once
    VRIDS = 3
    Calls <- Applications
    Spares <- TwoNodes
    Patterns <- Written
    SniPatterns <- SniWritten
    Hosts <- AskedFor
    Paths <- Requested
    MaxSteps = 3
    Lifetimes = {90, 270}
    Outages <- Hours
    LastHour = 280
SPECIFICATION Spec
INVARIANTS SocketsAreDistinct
CHECK_DEADLOCK FALSE
