SPECIFICATION FairSpec
CONSTANTS
    Levels = 4
    Interval = 2
    Never = Never
    Configured = 2
    Preempt = TRUE
    Address = 1
    Demoted = 1
    Adverts <- OnePeer
    Carried = 2
    CheckEvery = 2
    Threshold = 3
    Announcements = 2
    Gap = 1
    MaxClaims = 1
    MaxInbox = 2
    MaxRefusals = 1
INVARIANTS HoldsItsRole 
PROPERTIES ClaimsWithAddresses DownIsObeyed
