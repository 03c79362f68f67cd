SPECIFICATION FairSpec
CONSTANTS
    Streams = {s1, s2}
    Convs = {c1}
    Watched = {s1}
    NoStream = NoStream
    NoConv = NoConv
    MaxEvents = 4
    PageSize = 3
CHECK_DEADLOCK FALSE
INVARIANTS
    ReplyIsOwn
    TablesNameStreams
    EventsBelong
PROPERTY
    StreamEnds
