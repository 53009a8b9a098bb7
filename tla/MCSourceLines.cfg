SPECIFICATION Spec
CONSTANTS
    None = None
    LinuxTargets <- LinuxConfigs
    WindowsTargets <- WindowsConfigs
    Base = 10
    Size = 1
    Outside = 7
    Instructions <- AllInstructions
    NoReturn = {3}
    LabelSets = {{}}
    Files <- SourceFiles
    Dir <- Directories
    Interceptors = {"crt"}
    Texts <- AllowLists
    Blocks <- BlockCode
    Lines <- LinesOf
    Counts = {0, 1, 2}
    Paths = {"<target_exe>"}
    Scalars = {"<machine_id>"}
    Lists = {"<target_options>"}
    Words = {"a", "b", "gone", "up/..", "@@", "-runs", "-ignore_remaining_args=1"}
    OptionTexts <- AllOptions
    Ids <- ScalarTexts
    Missing = {"gone"}
    Nameless = {"up/.."}
    MaxList = 2
    Segments = {"inputs", "crash"}
    MaxPath = 3
    MaxName = 2
INVARIANT SplitLineMissed
CHECK_DEADLOCK FALSE
