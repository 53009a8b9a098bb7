------------------------------ MODULE MCCoverage ------------------------------
(***************************************************************************)
(* From the code of a target to a coverage report, and what the tasks are   *)
(* told of their command lines and containers, as one instance for TLC.     *)
(* part says which component runs; the others stay as they are.             *)
(***************************************************************************)
EXTENDS BlobUrl, TLC

\* Targets are functions from names to records, one field for each constant of the module.
CONSTANTS
    None,
    LinuxTargets,      \* what is recorded on Linux (LinuxRecorder)
    WindowsTargets,    \* what is recorded on Windows (WindowsRecorder)
    Base, Size, Outside, Instructions, NoReturn, LabelSets,  \* Sweep
    Files, Dir, Interceptors, Texts, Blocks, Lines, Counts,  \* SourceCoverage
    Paths, Scalars, Lists, Words, OptionTexts, Ids, Missing, Nameless,  \* Expand
    MaxList,           \* bound on the length of a list
    Segments,          \* segments of paths that are not empty
    MaxPath, MaxName   \* bounds on the segments of a URL and of a blob's name

VARIABLES
    part,
    mapped, ready, used, maps, int3, thread, ip, images, saved, coverage, entries,
    handling, pidSaved, outcome, executed, lost, event, pc, calls, saw_initial_bp, loaded,
    bps, unresolved, count, modules, deferred, index, stop_error, exited, unloaded,
    returned, text, allowlist, binary, todo, source, code, labels, pending, visited,
    blocks, values, options, result, url, file

vars == <<part, mapped, ready, used, maps, int3, thread, ip, images, saved, coverage,
          entries, handling, pidSaved, outcome, executed, lost, event, pc, calls,
          saw_initial_bp, loaded, bps, unresolved, count, modules, deferred, index,
          stop_error, exited, unloaded, returned, text, allowlist, binary, todo,
          source, code, labels, pending, visited, blocks, values, options, result,
          url, file>>

\* What TLC uses: two threads and two modules, three threads and a module that is mapped
\* twice, and every function of four bytes over instructions of one or two bytes.
LinuxConfigs ==
    [two |-> [Thread |-> {"t1", "t2"}, Module |-> {"exe", "lib"}, Base |-> {"p", "q"},
              Off |-> {1, 2}, Blocks |-> [exe |-> {1, 2}, lib |-> {1}],
              Allowed |-> {"exe", "lib"}, Reload |-> FALSE, MaxMaps |-> 3],
     three |-> [Thread |-> {"t1", "t2", "t3"}, Module |-> {"exe"}, Base |-> {"p", "q"},
                Off |-> {1}, Blocks |-> [exe |-> {1}], Allowed |-> {"exe"},
                Reload |-> FALSE, MaxMaps |-> 3]]

WindowsConfigs ==
    [two |-> [Thread |-> {"t1", "t2"}, Module |-> {"exe", "dll"}, Off |-> {1, 2},
              Exe |-> "exe", Trigger |-> [exe |-> 1, dll |-> 1],
              RetOf |-> [exe |-> <<"ret", 1>>, dll |-> <<"ret", 2>>],
              Allowed |-> {"exe", "dll"}, OthersReturn |-> FALSE, SymFails |-> FALSE,
              MaxDepth |-> 2, MaxId |-> 7]]

Insn(k, n, t) == [kind |-> k, len |-> n, target |-> t]
Abort == 3   \* in a function that does not return
AllInstructions ==
    {Insn("ConditionalBranch", 2, t) : t \in Base..(Base + Size - 1)}
        \cup {Insn("UnconditionalBranch", 1, t) : t \in (Base + 1)..(Base + Size - 1)}
        \cup {Insn("Next", 2, Outside), Insn("Call", 1, Outside), Insn("Call", 1, Abort)}
        \cup {Insn("Return", 1, Outside), Insn("Exception", 1, Outside)}

\* Three blocks of up to three instructions.  A line is split over two blocks, another is
\* only in the last instruction of a block, a function of another file is inlined.
SourceFiles == {"main", "util", "crt"}
Directories == [main |-> "src", util |-> "src", crt |-> "sys"]
BlockCode == 1 :> <<11, 12, 13>> @@ 2 :> <<21, 22>> @@ 3 :> <<31>>
LinesOf ==
    11 :> {<<"main", 1>>} @@ 12 :> {<<"main", 2>>, <<"util", 1>>} @@ 13 :> {<<"main", 3>>}
        @@ 21 :> {<<"main", 2>>} @@ 22 :> {<<"main", 0>>, <<"util", 2>>}
        @@ 31 :> {<<"crt", 1>>, <<"main", 4>>}
Line(kind, files) == [kind |-> kind, matches |-> files]
AllowLists ==
    {<<>>, <<Line("Allow", SourceFiles)>>, <<Line("Comment", {}), Line("Allow", {"main"})>>,
     <<Line("Deny", {"util"}), Line("Allow", SourceFiles)>>,
     <<Line("Allow", SourceFiles), Line("Invalid", {"main"}), Line("Deny", {"crt", "util"})>>}

\* A task with a path, a list and an identifier.
ScalarTexts == {<<"-runs">>, <<"@@">>}
AllOptions ==
    {<<"a">>, <<"gone">>, <<"up/..">>, <<"-ignore_remaining_args=1">>, <<"<target_exe>">>,
     <<"<target_options>", "<target_options>">>, <<"<machine_id>">>,
     <<"<input>">>, <<"<input_file_name>", "b">>, <<"<typo>">>}

\* Every URL of at most MaxPath segments, and the blobs of those that are containers.
UrlInit ==
    /\ url \in [scheme : Schemes, host : Hosts,
                path : UNION {[1..n -> Segments \cup {EmptySegment}] : n \in 1..MaxPath}]
    /\ Wellformed(url)
    /\ file \in UNION {[1..n -> Segments] : n \in 1..MaxName}
UrlNext ==
    /\ IsContainerUrl(url) /\ Len(url.path) <= MaxPath /\ url' = blob(url, file)
    /\ UNCHANGED file

Linux(cfg) == INSTANCE LinuxRecorder WITH
    Thread <- cfg.Thread, Module <- cfg.Module, Base <- cfg.Base, Off <- cfg.Off,
    Blocks <- cfg.Blocks, Allowed <- cfg.Allowed, Reload <- cfg.Reload,
    MaxMaps <- cfg.MaxMaps

Windows(cfg) == INSTANCE WindowsRecorder WITH
    Thread <- cfg.Thread, Module <- cfg.Module, Off <- cfg.Off, Exe <- cfg.Exe,
    Trigger <- cfg.Trigger, RetOf <- cfg.RetOf, Allowed <- cfg.Allowed,
    OthersReturn <- cfg.OthersReturn, SymFails <- cfg.SymFails,
    MaxDepth <- cfg.MaxDepth, MaxId <- cfg.MaxId

Sweeping == INSTANCE Sweep

Source == INSTANCE SourceCoverage

Expanding == INSTANCE Expand WITH Texts <- OptionTexts

\* What the components assume of their constants.
ASSUME CoverageAssumption ==
    /\ \A k \in DOMAIN LinuxTargets :
         Linux(LinuxTargets[k])!RecorderAssumption /\ ~LinuxTargets[k].Reload
    /\ \A k \in DOMAIN WindowsTargets :
         /\ Windows(WindowsTargets[k])!RecorderAssumption
         /\ ~WindowsTargets[k].OthersReturn /\ ~WindowsTargets[k].SymFails
    /\ Sweeping!SweepAssumption
    /\ Source!SourceCoverageAssumption
    /\ Expanding!ExpandAssumption
    /\ EmptySegment \notin Segments /\ MaxPath \in Nat /\ MaxName \in Nat

LinuxIdle ==
    /\ event = None /\ pc = None /\ calls = None /\ saw_initial_bp = None
    /\ loaded = None /\ bps = None /\ unresolved = None /\ count = None
    /\ modules = None /\ deferred = None /\ index = None /\ stop_error = None
    /\ exited = None /\ unloaded = None /\ returned = None /\ text = None
    /\ allowlist = None /\ binary = None /\ todo = None /\ source = None
    /\ code = None /\ labels = None /\ pending = None /\ visited = None
    /\ blocks = None /\ values = None /\ options = None /\ result = None /\ url = None
    /\ file = None
LinuxOthers == <<part, event, pc, calls, saw_initial_bp, loaded, bps, unresolved,
    count, modules, deferred, index, stop_error, exited, unloaded, returned, text,
    allowlist, binary, todo, source, code, labels, pending, visited, blocks, values,
    options, result, url, file>>

WindowsIdle ==
    /\ mapped = None /\ ready = None /\ used = None /\ maps = None /\ int3 = None
    /\ thread = None /\ ip = None /\ images = None /\ saved = None /\ handling = None
    /\ pidSaved = None /\ outcome = None /\ lost = None /\ text = None /\ allowlist = None
    /\ binary = None /\ todo = None /\ source = None /\ code = None /\ labels = None
    /\ pending = None /\ visited = None /\ blocks = None /\ values = None
    /\ options = None /\ result = None /\ url = None /\ file = None
WindowsOthers == <<part, mapped, ready, used, maps, int3, thread, ip, images, saved,
    handling, pidSaved, outcome, lost, text, allowlist, binary, todo, source, code, labels,
    pending, visited, blocks, values, options, result, url, file>>

SourceIdle ==
    /\ mapped = None /\ ready = None /\ used = None /\ maps = None /\ int3 = None
    /\ thread = None /\ ip = None /\ images = None /\ saved = None /\ coverage = None
    /\ entries = None /\ handling = None /\ pidSaved = None /\ outcome = None
    /\ executed = None /\ lost = None /\ event = None /\ calls = None /\ saw_initial_bp = None
    /\ loaded = None /\ bps = None /\ unresolved = None /\ count = None
    /\ modules = None /\ deferred = None /\ index = None /\ stop_error = None
    /\ exited = None /\ unloaded = None /\ returned = None /\ code = None
    /\ labels = None /\ pending = None /\ visited = None /\ blocks = None
    /\ values = None /\ options = None /\ result = None /\ url = None /\ file = None
SourceOthers == <<part, mapped, ready, used, maps, int3, thread, ip, images, saved,
    coverage, entries, handling, pidSaved, outcome, executed, lost, event, calls,
    saw_initial_bp, loaded, bps, unresolved, count, modules, deferred, index,
    stop_error, exited, unloaded, returned, code, labels, pending, visited, blocks,
    values, options, result, url, file>>

SweepIdle ==
    /\ mapped = None /\ ready = None /\ used = None /\ maps = None /\ int3 = None
    /\ thread = None /\ ip = None /\ images = None /\ saved = None /\ coverage = None
    /\ entries = None /\ handling = None /\ pidSaved = None /\ outcome = None
    /\ executed = None /\ lost = None /\ event = None /\ calls = None /\ saw_initial_bp = None
    /\ loaded = None /\ bps = None /\ unresolved = None /\ count = None
    /\ modules = None /\ deferred = None /\ index = None /\ stop_error = None
    /\ exited = None /\ unloaded = None /\ returned = None /\ text = None
    /\ allowlist = None /\ binary = None /\ todo = None /\ source = None
    /\ values = None /\ options = None /\ result = None /\ url = None /\ file = None
SweepOthers == <<part, mapped, ready, used, maps, int3, thread, ip, images, saved,
    coverage, entries, handling, pidSaved, outcome, executed, lost, event, calls,
    saw_initial_bp, loaded, bps, unresolved, count, modules, deferred, index,
    stop_error, exited, unloaded, returned, text, allowlist, binary, todo, source,
    values, options, result, url, file>>

ExpandIdle ==
    /\ mapped = None /\ ready = None /\ used = None /\ maps = None /\ int3 = None
    /\ thread = None /\ ip = None /\ images = None /\ saved = None /\ coverage = None
    /\ entries = None /\ handling = None /\ pidSaved = None /\ outcome = None
    /\ executed = None /\ lost = None /\ event = None /\ pc = None /\ calls = None
    /\ saw_initial_bp = None /\ loaded = None /\ bps = None /\ unresolved = None
    /\ count = None /\ modules = None /\ deferred = None /\ index = None
    /\ stop_error = None /\ exited = None /\ unloaded = None /\ returned = None
    /\ text = None /\ allowlist = None /\ binary = None /\ todo = None
    /\ source = None /\ code = None /\ labels = None /\ pending = None
    /\ visited = None /\ blocks = None /\ url = None /\ file = None
ExpandOthers == <<part, mapped, ready, used, maps, int3, thread, ip, images, saved,
    coverage, entries, handling, pidSaved, outcome, executed, lost, event, pc, calls,
    saw_initial_bp, loaded, bps, unresolved, count, modules, deferred, index,
    stop_error, exited, unloaded, returned, text, allowlist, binary, todo, source,
    code, labels, pending, visited, blocks, url, file>>

UrlIdle ==
    /\ mapped = None /\ ready = None /\ used = None /\ maps = None /\ int3 = None
    /\ thread = None /\ ip = None /\ images = None /\ saved = None /\ coverage = None
    /\ entries = None /\ handling = None /\ pidSaved = None /\ outcome = None
    /\ executed = None /\ lost = None /\ event = None /\ pc = None /\ calls = None
    /\ saw_initial_bp = None /\ loaded = None /\ bps = None /\ unresolved = None
    /\ count = None /\ modules = None /\ deferred = None /\ index = None
    /\ stop_error = None /\ exited = None /\ unloaded = None /\ returned = None
    /\ text = None /\ allowlist = None /\ binary = None /\ todo = None
    /\ source = None /\ code = None /\ labels = None /\ pending = None
    /\ visited = None /\ blocks = None /\ values = None /\ options = None
    /\ result = None
UrlOthers == <<part, mapped, ready, used, maps, int3, thread, ip, images, saved,
    coverage, entries, handling, pidSaved, outcome, executed, lost, event, pc, calls,
    saw_initial_bp, loaded, bps, unresolved, count, modules, deferred, index,
    stop_error, exited, unloaded, returned, text, allowlist, binary, todo, source,
    code, labels, pending, visited, blocks, values, options, result>>

Init ==
    \/ \E k \in DOMAIN LinuxTargets :
         part = <<"linux", k>> /\ Linux(LinuxTargets[k])!Init /\ LinuxIdle
    \/ \E k \in DOMAIN WindowsTargets :
         part = <<"windows", k>> /\ Windows(WindowsTargets[k])!Init /\ WindowsIdle
    \/ part = <<"sweep">> /\ Sweeping!Init /\ SweepIdle
    \/ part = <<"source">> /\ Source!Init /\ SourceIdle
    \/ part = <<"expand">> /\ Expanding!Init /\ ExpandIdle
    \/ part = <<"url">> /\ UrlInit /\ UrlIdle

RunLinux(k) ==
    part = <<"linux", k>> /\ Linux(LinuxTargets[k])!Next /\ UNCHANGED LinuxOthers
RunWindows(k) ==
    part = <<"windows", k>> /\ Windows(WindowsTargets[k])!Next /\ UNCHANGED WindowsOthers
RunSweeping == part = <<"sweep">> /\ Sweeping!Next /\ UNCHANGED SweepOthers
RunSource == part = <<"source">> /\ Source!Next /\ UNCHANGED SourceOthers
RunExpanding == part = <<"expand">> /\ Expanding!Next /\ UNCHANGED ExpandOthers
RunUrl == part = <<"url">> /\ UrlNext /\ UNCHANGED UrlOthers

Next ==
    \/ part[1] = "linux" /\ \E k \in DOMAIN LinuxTargets : RunLinux(k)
    \/ part[1] = "windows" /\ \E k \in DOMAIN WindowsTargets : RunWindows(k)
    \/ RunSweeping
    \/ RunSource
    \/ RunExpanding
    \/ RunUrl

Spec == Init /\ [][Next]_vars

\* Recorders: a block of an instrumented module that has been executed is counted,
\* whichever threads reach it, before or after the debugger has restored its code, and
\* on Linux nothing else is (on_breakpoint); the breakpoints in memory are those the
\* recorder knows of, and none but the trigger's is in a Windows module that is still
\* being initialised.  Two things are excepted, since the code does not count them: what
\* ran before a module was mapped again on Linux, whose entry is replaced
\* (do_on_module_load), and what runs after a module was loaded again on Windows, which
\* gets no breakpoints (insert_module).
CountedIsExecuted ==
    /\ part[1] = "linux" => \A k \in DOMAIN LinuxTargets :
         part = <<"linux", k>> =>
           /\ Linux(LinuxTargets[k])!TypeOK /\ Linux(LinuxTargets[k])!ExecutedIsCounted
           /\ Linux(LinuxTargets[k])!CountedIsExecuted /\ Linux(LinuxTargets[k])!SavedIsSet
    /\ part[1] = "windows" => \A k \in DOMAIN WindowsTargets :
         part = <<"windows", k>> =>
           /\ Windows(WindowsTargets[k])!TypeOK
           /\ Windows(WindowsTargets[k])!ExecutedIsCounted
           /\ Windows(WindowsTargets[k])!NotInitializing /\ Windows(WindowsTargets[k])!Owned

\* Sweep: the work list finds exactly the places where control can arrive, every block is
\* entered at its start only, so that one breakpoint there tells whether it ran, and in
\* aligned code every instruction that can run is in exactly one block (sweep_region).
BlocksExact ==
    part = <<"sweep">> =>
        /\ Sweeping!TypeOK /\ Sweeping!EntriesExact
        /\ Sweeping!EnteredAtStart /\ Sweeping!BlocksPartition

\* Source coverage: converting the merged coverage of two inputs gives what merging their
\* source coverages would, a line of several blocks having the larger count
\* (binary_to_source_coverage; its comment says otherwise: SplitLineMissed); a file that the user denies, or
\* does not allow, has no line in the report, whatever the order of the rules and wherever
\* it is inlined; every other file is one class with each of its lines once, and the
\* totals are those of all lines (CoberturaCoverage::from).
ReportExact ==
    part = <<"source">> =>
        Source!TypeOK /\ Source!MergeCommutes /\ Source!DeniedHasNoLine /\ Source!ReportComplete

\* "If we miss any part of a line, count it as missed" (source.rs:123): a line of several
\* blocks, one of which did not run, has the count 0 (binary_to_source_coverage).
SplitLineMissed == part = <<"source">> => Source!PartMissed

\* Expansion: the evaluation with a stack of replacements under way computes what the
\* bottom-up definition does (evaluate_value_checked); however the user's options are
\* ordered, libFuzzer sees the flag or the input a command is about (build_std_command),
\* and checking an input runs it once.
CommandMeant ==
    part = <<"expand">> =>
        Expanding!TypeOK /\ Expanding!EvaluatesBottomUp /\ Expanding!ModeSeen /\ Expanding!ChecksOnce

\* URLs: of the https URLs "No blob URL is a container URL", whatever empty segments they
\* have, while a file URL passes for both; the blob that a container names is a blob URL
\* of that account and container, and its name is read back as it was, directories
\* included.  A local file is read back without its directories, and in a file URL that
\* to_file_path refuses the directories after the first are part of the name (BlobUrl::new,
\* BlobContainerUrl::new, blob, name).
UrlRoundTrip ==
    part = <<"url">> =>
        LET b == blob(url, file)
        IN  /\ url.scheme = "https" => ~(IsContainerUrl(url) /\ IsBlobUrl(url))
            /\ IsContainerUrl(url) => IsBlobUrl(b) /\ account(b) = account(url)
            /\ IsContainerUrl(url) /\ url.scheme = "https" =>
                 container(b) = container(url) /\ name(b) = file
            /\ Local(url) => name(b) = <<file[Len(file)]>>
            /\ url.scheme = "file" /\ ~Local(url) /\ url.path # <<EmptySegment>> =>
                 container(b) = container(url) /\ name(b) = Tail(url.path) \o file
=============================================================================
