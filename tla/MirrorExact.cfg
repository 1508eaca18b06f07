SPECIFICATION FairSpec

CONSTANTS
    Topics <- AlertThenVolume
    Goroutines = {g1}
    Timers = {m1}
    None = None
    Values = {v1, v2}
    Nothing = Nothing
    TTL = 1
    Ages = {0, 2}

INVARIANTS
    MirrorIsExact
    AlertWillEnd

PROPERTIES
    AlertsDisappear
