SPECIFICATION Spec

CONSTANTS
    Callers = {h1, h2}
    Babies = {b1}
    Clients = {k1, k2}
    Loops = {l1, l2}
    Chans = {s1, s2, s3}
    Tokens = {t1}
    None = None

SYMMETRY Symmetry

INVARIANTS
    ClientsStopOnce
    LoopsCanEnd

\* A panic leaves the manager locked or ends the process.
CHECK_DEADLOCK FALSE
