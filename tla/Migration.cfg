CONSTANTS
    t1 = t1
    r1 = r1
    Tabs = {t1}
    Requests = {r1}
    Persons <- People
    Archives <- Uploads
    Sites = {"here", "there"}
    Network <- Net
    Start <- OneUser
    Capacity = 1
    MaxStaged = 1
    MaxPreviews = 2
    MaxFiles = 2
    MaxEdits = 2
    Nobody = Nobody
SPECIFICATION FairSpec
INVARIANT UsersStayApart
INVARIANT ReplacedIsBackedUp
INVARIANT StagedIsBounded
PROPERTY CommitIsWhatWasShown
PROPERTY NothingIsKept
