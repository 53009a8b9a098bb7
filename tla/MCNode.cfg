SPECIFICATION Spec
CONSTANTS
    None = None
    MAX_RETRY_ATTEMPTS = 2
    MaxFaults = 4
    MaxExpiries = 2
    Nodes = {"n1", "n2"}
    Messages = {"w1", "w2"}
    UnitsOf <- TwoWorkSets
    MaxSlow = 1
    MaxLostRequests = 1
    MaxOutdated = 1
    Streams = {"stderr", "stdout"}
    MaxOut = 2
    MaxTail = 1
    MaxOomErrors = 1
    MinMemory = 1
    Uploaders = {"n1"}
    MaxLog = 4
    MaxBlock = 2
    MaxFails = 2
    Ports = {28000, 28001}
    Machines = {"m1", "m2"}
    MaxProxyRetries = 1
    MaxChanges = 3
    MaxCrashes = 1
    Workers = {"w1", "w2"}
    MAX_TRIES = 3
    MaxDequeue = 2
    MaxDeaths = 2
    MaxLost = 1
    MaxFailedWrites = 1
INVARIANTS
    ScheduledOnce
    ProcessAccounted
    LogComplete
    ServesWhatItReports
    NeverForgotten
    RepeatedOnlyByFault
PROPERTIES
    FaultsTolerated
    NodeRecovers
    DeliveryEnds
CHECK_DEADLOCK FALSE
