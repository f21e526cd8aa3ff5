CONSTANTS
    t1 = t1
    t2 = t2
    k = k
    agent = agent
    cli = cli
    Tasks <- TwoTasks
    Processes <- MCProcesses
    ProcessOf <- TwoProcessOf
    Contents <- FullContents
    InitialContent <- Empty
    Mutators <- FullMutators
    Mutate <- FullMutate
    Unguarded <- KvnctlOnly
    NoTask = NoTask
    NoContent = NoContent
    NoRequest = NoRequest
    NoRevision = NoRevision
    Rejected = Rejected
SPECIFICATION FairSpec
PROPERTY ImplementsSerialStore
PROPERTY CallReturns
PROPERTY GuardedReplaceIsSerial
INVARIANT TypeOK
