SPECIFICATION Spec

CONSTANTS
    Callers = {c1, c2}
    Main = main
    Accounts = {a1, a2}
    Configured = None
    MaxGrants = 2
    MaxChallenges = 1
    MaxCrashes = 1
    MaxActive = 2
    None = None

SYMMETRY Symmetry

INVARIANTS
    RefreshIsNeeded
    SessionIsRenewable
    FileIsCurrent
    PendingCanBeSolved
