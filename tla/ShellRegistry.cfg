CONSTANTS
    t1 = t1
    t2 = t2
    s1 = s1
    s2 = s2
    s3 = s3
    o1 = o1
    o2 = o2
    Threads = {t1, t2}
    Shells = {s1, s2, s3}
    Owners = {o1, o2}
    MaxSessions = 2
    None = None
SPECIFICATION Spec
CHECK_DEADLOCK FALSE
SYMMETRY Symmetry
INVARIANT TypeOK
INVARIANT NoShellIsLost
INVARIANT OneShellPerOwner
INVARIANT SomebodyProceeds
