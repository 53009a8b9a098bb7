SPECIFICATION Spec
CONSTANTS
    w1 = w1
    w2 = w2
    None = None
    BadUrl = BadUrl
    ReportTasks <- ReportConfigs
    MergeTasks <- MergeConfigs
    AnalysisTasks <- AnalysisConfigs
    CoverageTasks <- CoverageConfigs
    DotnetTasks <- DotnetConfigs
    RegressionTasks <- RegressionConfigs
    FuzzTasks <- FuzzConfigs
SYMMETRY Symmetry
INVARIANTS
    AcknowledgedIsStored
    ExistingHandled
    ResultsArrive
    UnmanagedSafe
PROPERTIES
    StoredStays
CHECK_DEADLOCK FALSE
