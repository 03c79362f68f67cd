SPECIFICATION FairSpec
CONSTANTS
    MaxSends = 2
    Watched = {1}
    MaxPieces = 2
    MaxSteps = 1
    QueueSize = 2
    MaxMessages = 2
    MaxTries = 1
CHECK_DEADLOCK FALSE
INVARIANTS
    StoredHasAnswer
    BrowserShowsReply

    
