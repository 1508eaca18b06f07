SPECIFICATION FairSpec

CONSTANTS
    Devices = {d1, d2}
    Loops = {l1, l2}
    None = None

INVARIANTS
    TokenIsKnown
    OneListener

PROPERTIES
    ReceiverIsService
    FallsSilent
