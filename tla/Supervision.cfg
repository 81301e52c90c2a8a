SPECIFICATION FairSpec
CONSTANTS
    p1 = p1
    p2 = p2
    Pids <- MCPids
    NoChild = NoChild
    None = None
    Patience = 2
    Asking = 2
    AlarmAfter = 2
    FirstWait = 1
    LongestWait = 2
    CounterMax = 3
    MaxUnread = 1
    MaxClaims = 1
INVARIANTS Supervised
PROPERTIES RestoredByReportOnly ImplementsSource Recovers
