CONSTANTS
    Deltas <- ReplyDeltas
    Ends <- ReplyEnds
    Capacity = 2
SPECIFICATION FairSpec
CHECK_DEADLOCK FALSE
PROPERTIES TurnEnds
