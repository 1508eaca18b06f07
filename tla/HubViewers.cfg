SPECIFICATION FairSpec

CONSTANTS
    Viewers = {v1}
    Broadcasters = {b1, b2}
    Capacity = 2
    RingSize = 2
    MaxVersion = 2
    MaxLines = 3

INVARIANTS
    HubNeverPanics
    CurrentStateIsSent
    LogHasNoGap

PROPERTIES
    ClientsAreForgotten

\* The changes and the lines of an instance are bounded.
CHECK_DEADLOCK FALSE
