SPECIFICATION Spec

CONSTANTS
    Keys = {cam1}
    Publishers = {p1}
    Subscribers = {s1}
    None = None
    Capacity = 3
    Kinds = {"h264Config", "key", "delta"}
    MaxPackets = 6

SYMMETRY Symmetry

INVARIANTS
    DrainNeverBlocks

\* Every connection of an instance is used once; all of them may have gone.
CHECK_DEADLOCK FALSE
