SPECIFICATION Spec
CONSTANTS
    None = None
    MonitorTasks <- MonitorConfigs
    SupervisorTasks <- SupervisorConfigs
    StatWorkers = {1, 2}
    StatRuns = 2
    StatIters = 2
    StatQueue = 3
    GeneratorTasks <- GeneratorConfigs
    LocalTasks <- LocalConfigs
    TerminalTasks <- TerminalConfigs
INVARIANTS
    NothingMissed
    ToldIsTrue
PROPERTIES
    BegunEnds
CHECK_DEADLOCK FALSE
