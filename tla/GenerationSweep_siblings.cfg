SPECIFICATION GSSpec
CONSTANTS
    t1 = t1  t2 = t2
    j1 = j1  j2 = j2
    c1 = c1  c2 = c2
    Slots = {t1, t2}
    Jobs = {j1, j2}
    Collections = {c1}
    Targets <- OneCollection
    RunModes <- MCModes
    LossyJobs = {}
    NoTask = NoTask
    NoRun = NoRun
    StuckRun = StuckRun
    Docs = {d1}
    Past = Past
    NoPoint = NoPoint
    Off = Off
    MaxReloads = 1
PROPERTY UnforcedRecreateDropsNoSibling
