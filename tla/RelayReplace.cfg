SPECIFICATION FairSpec

CONSTANTS
    Keys = {cam1}
    Publishers = {p1, p2}
    Subscribers = {s1}
    None = None
    Capacity = 3
    Kinds = {"key"}
    MaxPackets = 2

INVARIANTS
    NoPanic

PROPERTIES
    RelayIsRegistry
    LivePublisherKeepsItsKey
    SubscribersReleased

\* Every connection of an instance is used once; all of them may have gone.
CHECK_DEADLOCK FALSE
