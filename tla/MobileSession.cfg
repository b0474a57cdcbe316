CONSTANTS
    Platforms <- MCPlatforms
    MaxConnects = 2
    MaxEnds = 1
    MaxChanges = 2
SPECIFICATION FairSpec
CHECK_DEADLOCK FALSE
INVARIANTS TypeOK ScreenIsTrue
PROPERTIES WaitingEnds
