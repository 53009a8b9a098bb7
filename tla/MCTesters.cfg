SPECIFICATION Spec
CONSTANTS
    None = None
    Thread = {"t1", "t2", "t3"}
    Addr = {"a", "b"}
    Kind <- OneOfEach
    MaxCount = 3
    InputTests <- InputConfigs
    TargetTests <- TargetConfigs
INVARIANTS
    BreakpointsKept
    CrashFound
PROPERTIES
    TestsEnd
CHECK_DEADLOCK FALSE
