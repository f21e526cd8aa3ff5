CONSTANTS
    upload = upload
    github = github
    r1 = r1
    r2 = r2
    Archives = {upload, github}
    Uploads = {upload}
    Releases = {github}
    Original = Original
    Down = Down
    Nobody = Nobody
    Archiver = Archiver
    Requests = {r1, r2}
    MaxRuns = 2
    MaxFaults = 1
    ByHand <- BySource
    Unchanged <- LeftAlone
    FromPortal = {"full"}
    MaxFiles = 1
    MaxRows = 2
SYMMETRY Symmetric
SPECIFICATION Spec
INVARIANT SourcesAreWhole
INVARIANT RunningArchiveIsKept
INVARIANT StartsAreSingle
PROPERTY OkIsEverywhere
CHECK_DEADLOCK FALSE
