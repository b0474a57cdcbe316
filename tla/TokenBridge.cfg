CONSTANTS
    Deltas <- ReplyDeltas
    Ends <- ReplyEnds
    Capacity = 2
SPECIFICATION FairSpec
CHECK_DEADLOCK FALSE
INVARIANTS TypeOK NothingLostOnTheWay WholeReplySpoken
PROPERTIES UninterruptedTurnEnds
