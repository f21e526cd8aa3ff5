CONSTANTS
    l1 = l1
    l2 = l2
    l3 = l3
    p1 = p1
    p2 = p2
    p3 = p3
    Links = {l1, l2, l3}
    PeerSets = {p1, p2, p3}
    None = None
SPECIFICATION SyncSpec
INVARIANT Synchronised
INVARIANT SyncTypeOK
PROPERTY SessionsSurvivePeerChanges
