SPECIFICATION Spec

CONSTANTS
    Callers = {h1}
    Babies = {b1, b2}
    Clients = {k1, k2, k3}
    Loops = {l1, l2}
    Chans = {s1, s2, s3}
    Tokens = {t1, t2}
    None = None

SYMMETRY Symmetry

INVARIANTS
    NoPanic
    RunningIsOwned
    StartedIsSupervised
    StoppedIsQuiet
    TokensAgree
