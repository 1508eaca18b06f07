SPECIFICATION Spec

CONSTANTS
    Keys = {cam1}
    Publishers = {p1}
    Subscribers = {s1}
    None = None
    Capacity = 3
    Kinds = {"h264Config", "key", "delta"}
    MaxPackets = 7

SYMMETRY Symmetry

INVARIANTS
    PublisherNeverWaits

PROPERTIES
    VideoContinuity
    ConfigBeforeKeyframe

\* Every connection of an instance is used once; all of them may have gone.
CHECK_DEADLOCK FALSE
