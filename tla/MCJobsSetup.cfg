SPECIFICATION Spec
CONSTANTS
    t1 = t1
    t2 = t2
    t3 = t3
    Tasks = {t1, t2}
    Nodes = {n1}
    Alone = {}
    AloneCount = 1
    Prereq <- Chain
    Bucket <- Buckets
    Count <- Counts
    KeepOnFailure = {}
    KeepOnCompletion = {}
    MaxTasksPerSet = 2
    MaxUpdates = 2
    MaxFaults = 0
PROPERTY SetupPreservesStop
