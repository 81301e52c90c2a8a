SPECIFICATION FairSpec
CONSTANTS
    Levels = 5
    Interval = 4
    Never = Never
    Setups <- Networks
    Demoted = 1
INVARIANTS RoleIsHeld
PROPERTIES TakenOnlyByStronger Ends
