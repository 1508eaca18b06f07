SPECIFICATION FairSpec

CONSTANTS
    Pubs = {p1, p2}
    Loops = {l1}
    None = None
    MaxAsked = 1
    MaxEntries = 2

INVARIANTS
    MarksAreCorrected

PROPERTIES
    StreamComesBack
    ReportIsShown
    StreamIsLeftAlone
