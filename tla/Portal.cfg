CONSTANTS
    t1 = t1
    t2 = t2
    s1 = s1
    k1 = k1
    Threads = {t1, t2}
    Sessions = {s1}
    Tokens = {k1}
    Confirmed = {"user"}
    LOCKOUT_FAILURES = 2
    MaxRevision = 1
    MaxEvents = 1
    MaxCopies = 2
    Nothing = Nothing
SYMMETRY Symmetric
SPECIFICATION Spec
INVARIANT ConfirmedOnce
INVARIANT DenialsAreBounded
INVARIANT AuthIsCurrent
PROPERTY FormsSawTheState
