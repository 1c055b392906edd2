SPECIFICATION RLFairSpec
CONSTANTS
    t1 = t1  t2 = t2  t3 = t3
    j1 = j1  j2 = j2  j3 = j3
    c1 = c1
    Slots = {t1, t2, t3}
    Jobs = {j1, j2, j3}
    Collections = {c1}
    Targets <- SharedTarget
    RunModes <- MCModes
    LossyJobs = {j1}
    NoTask = NoTask
    NoRun = NoRun
    StuckRun = StuckRun
INVARIANTS
    RLTypeOK
    JobRunsSerialised
    FullRunsExclusive
    LocksMatchHolders
PROPERTIES
    ImplementsCollectionAccess
    EveryRunEnds
