CONSTANTS
    Order <- MCOrder
    Base <- MCBase
    Invalidated = {"containers", "health_summary"}
    Refreshers = {1, 2}
    MaxVersion = 2
SPECIFICATION FairSpec
INVARIANT CollectedAfterInvalidation
PROPERTY SnapshotNeverGoesBack
PROPERTY InvalidationIsServed
