SPECIFICATION FairSpec
CONSTANTS
    t1 = t1
    t2 = t2
    pair = pair
    single = single
    None = None
    Tasks <- MCTasks
    WorkSets <- MCWorkSets
    TasksOf <- MCTasksOf
    RebootSets <- MCRebootSets
    Managed = TRUE
    MaxDeaths = 2
INVARIANTS
    TypeOK
    WorkTracked
    SetupBeforeRun
    SilentOnlyIfCut
    DoneIsTrue
PROPERTIES
    ImplementsContract
    ImageEnds
CHECK_DEADLOCK FALSE
