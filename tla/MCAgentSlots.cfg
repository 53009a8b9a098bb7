SPECIFICATION Spec
CONSTANTS
    t1 = t1
    t2 = t2
    pair = pair
    single = single
    None = None
    Tasks <- MCTasks
    WorkSets <- MCWorkSets
    TasksOf <- MCTasksOf
    RebootSets <- MCRebootSets
    Managed = TRUE
    MaxDeaths = 0
INVARIANT
    SlotsFull
CHECK_DEADLOCK FALSE
