SPECIFICATION FairSpec
CONSTANT NumChunks = 3
INVARIANTS TypeOK CompletionIsEarned
PROPERTIES WholeTextOrFailure SendingEnds
CHECK_DEADLOCK FALSE
