SPECIFICATION FairSpec

CONSTANTS
    Conns = {c1}
    Loops = {l1}
    None = None
    ErrCap = 2
    MaxAsked = 1

PROPERTIES
    HalfOpenIsDropped
    ConnectionsReclaimed
    StopEndsGoroutines
    FailedStreamIsAskedAgain

\* A stopped client whose goroutines have ended does nothing more.
CHECK_DEADLOCK FALSE
