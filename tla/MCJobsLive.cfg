SPECIFICATION FairSpec
CONSTANTS
    t1 = t1
    t2 = t2
    t3 = t3
    Tasks = {t1}
    Nodes = {n1}
    Alone = {t1}
    AloneCount = 2
    Prereq <- Chain
    Bucket <- Buckets
    Count <- Counts
    KeepOnFailure = {}
    KeepOnCompletion = {t1}
    MaxTasksPerSet = 2
    MaxUpdates = 2
    MaxFaults = 1
INVARIANT Provided
PROPERTY StoppingEnds
