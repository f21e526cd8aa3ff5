CONSTANTS
    t1 = t1
    t2 = t2
    k = k
    agent = agent
    cli = cli
    Tasks <- ThreeTasks
    Processes <- MCProcesses
    ProcessOf <- ThreeProcessOf
    Contents <- SmallContents
    InitialContent <- Empty
    Mutators <- SmallMutators
    Mutate <- SmallMutate
    Unguarded <- KvnctlOnly
    NoTask = NoTask
    NoContent = NoContent
    NoRequest = NoRequest
    NoRevision = NoRevision
    Rejected = Rejected
SPECIFICATION Spec
INVARIANT MutualExclusion
PROPERTY AcknowledgedIsDurable
