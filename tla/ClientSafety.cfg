SPECIFICATION Spec

CONSTANTS
    Conns = {c1, c2}
    Loops = {l1, l2}
    None = None
    ErrCap = 2
    MaxAsked = 1

SYMMETRY Symmetry

INVARIANTS
    RetryFlagHasLoop
    ReportsFit
    NoSocketLeaks

\* A stopped client whose goroutines have ended does nothing more.
CHECK_DEADLOCK FALSE
