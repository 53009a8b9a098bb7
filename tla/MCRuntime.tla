------------------------------ MODULE MCRuntime ------------------------------
(***************************************************************************)
(* What the tasks of one node owe in the end: the loops and monitors of     *)
(* onefuzz-task, as one instance for TLC with the fairness of their threads *)
(* and processes.  task says which component runs (Config::run); the others *)
(* stay as they are.                                                        *)
(***************************************************************************)
EXTENDS Naturals, Sequences

\* The configurations of a component are a function from names to records, one field for
\* each constant of its module.
CONSTANTS
    None,
    MonitorTasks,     \* the directories that are monitored (ResultMonitor)
    SupervisorTasks,  \* the supervisor tasks (Supervisor)
    StatWorkers, StatRuns, StatIters, StatQueue,  \* the workers counted, and the bounds (RuntimeStats)
    GeneratorTasks,   \* the generator tasks (Generator)
    LocalTasks,       \* the local runs (LocalRun)
    TerminalTasks     \* their terminals (TerminalUi)

VARIABLES
    task,
    crashes, queue, unique, reports, noRepro, pc, held, receipt, input, stack, batch,
    todo, tries, events, swallowed, phase, attempts, worker, runs, temp, dir, watch,
    remote, found, early, cut, created, exists, watched, item, seen, inputs, child,
    permit, timer, hb, alive, late, stats, pending, client, cancelled, run, iters,
    channel, count, reported, corpora, rounds, generated, untested, process, command,
    started, tasks, ui, files, monitors, handled, raw, senders, loop, announced,
    counting, dirs, counts, selected, telemetry, lagged, sent, missed, written, taken,
    logs, keys

vars == <<task, crashes, queue, unique, reports, noRepro, pc, held, receipt, input,
          stack, batch, todo, tries, events, swallowed, phase, attempts, worker, runs,
          temp, dir, watch, remote, found, early, cut, created, exists, watched, item,
          seen, inputs, child, permit, timer, hb, alive, late, stats, pending, client,
          cancelled, run, iters, channel, count, reported, corpora, rounds, generated,
          untested, process, command, started, tasks, ui, files, monitors, handled,
          raw, senders, loop, announced, counting, dirs, counts, selected, telemetry,
          lagged, sent, missed, written, taken, logs, keys>>

Reports == INSTANCE CrashReports WITH
    Worker <- {"w1", "w2"}, Input <- {"i1"}, Stack <- {"s1"}, Msg <- {"m1"},
    MsgInput <- [m1 |-> "i1"], BadUrl <- None, Kind <- "generic",
    Dirs <- {"unique", "reports", "no_repro"}, CheckQueue <- TRUE, MaxRetry <- 1,
    MaxPops <- 2

Fuzz == INSTANCE FuzzTask WITH
    Workers <- {"w1", "w2"}, CrashFiles <- {"crash"}, InputFiles <- {},
    ExpectCrash <- TRUE, MaxAttempts <- 2, MaxRuns <- 2

Monitor(cfg) == INSTANCE ResultMonitor WITH
    Files <- cfg.Files, Ignored <- cfg.Ignored, FileUrl <- cfg.FileUrl,
    NetworkFails <- cfg.NetworkFails, MaxResets <- cfg.MaxResets,
    MaxEvents <- cfg.MaxEvents

Supervise(cfg) == INSTANCE Supervisor WITH
    WaitForFiles <- cfg.WaitForFiles, MaxAlive <- cfg.MaxAlive

Stats == INSTANCE RuntimeStats WITH
    Workers <- StatWorkers, MaxRuns <- StatRuns, MaxIters <- StatIters,
    MaxQueue <- StatQueue

Generate(cfg) == INSTANCE Generator WITH
    Corpora <- cfg.Corpora, Names <- cfg.Names, Contents <- cfg.Contents,
    Crashing <- cfg.Crashing, RenameOutput <- cfg.RenameOutput,
    MaxRounds <- cfg.MaxRounds

Local(cfg) == INSTANCE LocalRun WITH
    Consumers <- cfg.Consumers, Regression <- cfg.Regression, Ui <- cfg.Ui,
    Timeout <- cfg.Timeout, Files <- cfg.Files, MaxFinds <- cfg.MaxFinds

Terminal(cfg) == INSTANCE TerminalUi WITH
    Announced <- cfg.Announced, Kinds <- cfg.Kinds,
    LOGS_BUFFER_SIZE <- cfg.LOGS_BUFFER_SIZE, LogBatch <- cfg.LogBatch,
    Capacity <- cfg.Capacity, Senders <- cfg.Senders, MaxKeys <- cfg.MaxKeys,
    MaxFiles <- cfg.MaxFiles, MaxStats <- cfg.MaxStats, MaxLogs <- cfg.MaxLogs

\* The configurations that TLC uses.
MonitorConfigs ==
    [remote |-> [Files |-> {"f", ".dot"}, Ignored |-> {".dot"}, FileUrl |-> FALSE,
                 NetworkFails |-> FALSE, MaxResets |-> 3, MaxEvents |-> 3],
     local |-> [Files |-> {"f", ".dot"}, Ignored |-> {".dot"}, FileUrl |-> TRUE,
                NetworkFails |-> TRUE, MaxResets |-> 2, MaxEvents |-> 3]]
SupervisorConfigs == [afl |-> [WaitForFiles |-> TRUE, MaxAlive |-> 4]]
GeneratorConfigs ==
    [radamsa |-> [Corpora |-> {"c1", "c2"}, Names |-> {"n1", "n2"},
                  Contents |-> {"x", "y", "z"}, Crashing |-> {"x", "y"},
                  RenameOutput |-> TRUE, MaxRounds |-> 3]]
LocalConfigs ==
    [ui |-> [Consumers |-> <<"report">>, Regression |-> TRUE, Ui |-> TRUE,
             Timeout |-> FALSE, Files |-> {"f1"}, MaxFinds |-> 2],
     timed |-> [Consumers |-> <<"report", "coverage">>, Regression |-> FALSE,
                Ui |-> FALSE, Timeout |-> TRUE, Files |-> {"f1"}, MaxFinds |-> 1]]
TerminalConfigs ==
    [stats |-> [Announced |-> <<>>, Kinds |-> {"k1", "k2"}, LOGS_BUFFER_SIZE |-> 2,
                LogBatch |-> 2, Capacity |-> 2,
                Senders |-> {"tick", "telemetry", "timeout"}, MaxKeys |-> 0,
                MaxFiles |-> 0, MaxStats |-> 2, MaxLogs |-> 3],
     dirs |-> [Announced |-> <<"d1", "d2", "d1">>, Kinds |-> {},
               LOGS_BUFFER_SIZE |-> 2, LogBatch |-> 2, Capacity |-> 2,
               Senders |-> {"keyboard", "commands"}, MaxKeys |-> 2, MaxFiles |-> 1,
               MaxStats |-> 2, MaxLogs |-> 0]]

\* What the components assume of their constants.
ASSUME RuntimeAssumption ==
    /\ Reports!ReportsAssumption
    /\ Fuzz!FuzzAssumption
    /\ \A k \in DOMAIN MonitorTasks : Monitor(MonitorTasks[k])!MonitorAssumption
    /\ \A k \in DOMAIN SupervisorTasks : Supervise(SupervisorTasks[k])!SupervisorAssumption
    /\ Stats!StatsAssumption
    /\ \A k \in DOMAIN GeneratorTasks : Generate(GeneratorTasks[k])!GeneratorAssumption
    /\ \A k \in DOMAIN LocalTasks : Local(LocalTasks[k])!LocalRunAssumption
    /\ \A k \in DOMAIN TerminalTasks : Terminal(TerminalTasks[k])!TerminalUiAssumption

ReportsIdle ==
    /\ phase = None /\ attempts = None /\ worker = None /\ runs = None /\ temp = None
    /\ dir = None /\ watch = None /\ remote = None /\ found = None /\ early = None
    /\ cut = None /\ created = None /\ exists = None /\ watched = None /\ item = None
    /\ seen = None /\ inputs = None /\ child = None /\ permit = None /\ timer = None
    /\ hb = None /\ alive = None /\ late = None /\ stats = None /\ pending = None
    /\ client = None /\ cancelled = None /\ run = None /\ iters = None
    /\ channel = None /\ count = None /\ reported = None /\ corpora = None
    /\ rounds = None /\ generated = None /\ untested = None /\ process = None
    /\ command = None /\ started = None /\ tasks = None /\ ui = None /\ files = None
    /\ monitors = None /\ handled = None /\ raw = None /\ senders = None
    /\ loop = None /\ announced = None /\ counting = None /\ dirs = None
    /\ counts = None /\ selected = None /\ telemetry = None /\ lagged = None
    /\ sent = None /\ missed = None /\ written = None /\ taken = None /\ logs = None
    /\ keys = None
ReportsOthers == <<task, phase, attempts, worker, runs, temp, dir, watch, remote,
    found, early, cut, created, exists, watched, item, seen, inputs, child, permit,
    timer, hb, alive, late, stats, pending, client, cancelled, run, iters, channel,
    count, reported, corpora, rounds, generated, untested, process, command, started,
    tasks, ui, files, monitors, handled, raw, senders, loop, announced, counting,
    dirs, counts, selected, telemetry, lagged, sent, missed, written, taken, logs,
    keys>>

FuzzIdle ==
    /\ crashes = None /\ queue = None /\ unique = None /\ reports = None
    /\ noRepro = None /\ pc = None /\ held = None /\ receipt = None /\ input = None
    /\ stack = None /\ batch = None /\ todo = None /\ tries = None /\ swallowed = None
    /\ created = None /\ exists = None /\ watched = None /\ item = None /\ seen = None
    /\ inputs = None /\ child = None /\ permit = None /\ timer = None /\ hb = None
    /\ alive = None /\ late = None /\ stats = None /\ pending = None /\ client = None
    /\ cancelled = None /\ run = None /\ iters = None /\ channel = None
    /\ count = None /\ reported = None /\ corpora = None /\ rounds = None
    /\ generated = None /\ untested = None /\ process = None /\ command = None
    /\ started = None /\ tasks = None /\ ui = None /\ files = None /\ monitors = None
    /\ handled = None /\ raw = None /\ senders = None /\ loop = None
    /\ announced = None /\ counting = None /\ dirs = None /\ counts = None
    /\ selected = None /\ telemetry = None /\ lagged = None /\ sent = None
    /\ missed = None /\ written = None /\ taken = None /\ logs = None /\ keys = None
FuzzOthers == <<task, crashes, queue, unique, reports, noRepro, pc, held, receipt,
    input, stack, batch, todo, tries, swallowed, created, exists, watched, item, seen,
    inputs, child, permit, timer, hb, alive, late, stats, pending, client, cancelled,
    run, iters, channel, count, reported, corpora, rounds, generated, untested,
    process, command, started, tasks, ui, files, monitors, handled, raw, senders,
    loop, announced, counting, dirs, counts, selected, telemetry, lagged, sent,
    missed, written, taken, logs, keys>>

MonitorIdle ==
    /\ crashes = None /\ queue = None /\ unique = None /\ reports = None
    /\ noRepro = None /\ held = None /\ receipt = None /\ input = None /\ stack = None
    /\ batch = None /\ todo = None /\ tries = None /\ swallowed = None /\ phase = None
    /\ attempts = None /\ worker = None /\ runs = None /\ temp = None /\ watch = None
    /\ found = None /\ early = None /\ cut = None /\ inputs = None /\ child = None
    /\ permit = None /\ timer = None /\ hb = None /\ alive = None /\ late = None
    /\ stats = None /\ pending = None /\ client = None /\ cancelled = None
    /\ run = None /\ iters = None /\ channel = None /\ count = None /\ reported = None
    /\ corpora = None /\ rounds = None /\ generated = None /\ untested = None
    /\ process = None /\ command = None /\ started = None /\ tasks = None /\ ui = None
    /\ files = None /\ monitors = None /\ handled = None /\ raw = None
    /\ senders = None /\ loop = None /\ announced = None /\ counting = None
    /\ dirs = None /\ counts = None /\ selected = None /\ telemetry = None
    /\ lagged = None /\ sent = None /\ missed = None /\ written = None /\ taken = None
    /\ logs = None /\ keys = None
MonitorOthers == <<task, crashes, queue, unique, reports, noRepro, held, receipt,
    input, stack, batch, todo, tries, swallowed, phase, attempts, worker, runs, temp,
    watch, found, early, cut, inputs, child, permit, timer, hb, alive, late, stats,
    pending, client, cancelled, run, iters, channel, count, reported, corpora, rounds,
    generated, untested, process, command, started, tasks, ui, files, monitors,
    handled, raw, senders, loop, announced, counting, dirs, counts, selected,
    telemetry, lagged, sent, missed, written, taken, logs, keys>>

SupervisorIdle ==
    /\ crashes = None /\ queue = None /\ unique = None /\ reports = None
    /\ noRepro = None /\ pc = None /\ held = None /\ receipt = None /\ input = None
    /\ stack = None /\ batch = None /\ todo = None /\ tries = None /\ events = None
    /\ swallowed = None /\ attempts = None /\ worker = None /\ runs = None
    /\ temp = None /\ dir = None /\ watch = None /\ found = None /\ early = None
    /\ cut = None /\ created = None /\ exists = None /\ watched = None /\ item = None
    /\ seen = None /\ run = None /\ iters = None /\ channel = None /\ count = None
    /\ reported = None /\ corpora = None /\ rounds = None /\ generated = None
    /\ untested = None /\ process = None /\ command = None /\ started = None
    /\ tasks = None /\ ui = None /\ files = None /\ monitors = None /\ handled = None
    /\ raw = None /\ senders = None /\ loop = None /\ announced = None
    /\ counting = None /\ dirs = None /\ counts = None /\ selected = None
    /\ telemetry = None /\ lagged = None /\ sent = None /\ missed = None
    /\ written = None /\ taken = None /\ logs = None /\ keys = None
SupervisorOthers == <<task, crashes, queue, unique, reports, noRepro, pc, held,
    receipt, input, stack, batch, todo, tries, events, swallowed, attempts, worker,
    runs, temp, dir, watch, found, early, cut, created, exists, watched, item, seen,
    run, iters, channel, count, reported, corpora, rounds, generated, untested,
    process, command, started, tasks, ui, files, monitors, handled, raw, senders,
    loop, announced, counting, dirs, counts, selected, telemetry, lagged, sent,
    missed, written, taken, logs, keys>>

StatsIdle ==
    /\ crashes = None /\ queue = None /\ unique = None /\ reports = None
    /\ noRepro = None /\ pc = None /\ held = None /\ receipt = None /\ input = None
    /\ stack = None /\ batch = None /\ todo = None /\ tries = None /\ events = None
    /\ swallowed = None /\ phase = None /\ attempts = None /\ worker = None
    /\ runs = None /\ temp = None /\ dir = None /\ watch = None /\ remote = None
    /\ found = None /\ early = None /\ cut = None /\ created = None /\ exists = None
    /\ watched = None /\ item = None /\ seen = None /\ inputs = None /\ child = None
    /\ permit = None /\ timer = None /\ hb = None /\ alive = None /\ late = None
    /\ pending = None /\ client = None /\ cancelled = None /\ corpora = None
    /\ rounds = None /\ generated = None /\ untested = None /\ process = None
    /\ command = None /\ started = None /\ tasks = None /\ ui = None /\ files = None
    /\ monitors = None /\ handled = None /\ raw = None /\ senders = None
    /\ loop = None /\ announced = None /\ counting = None /\ dirs = None
    /\ counts = None /\ selected = None /\ telemetry = None /\ lagged = None
    /\ sent = None /\ missed = None /\ written = None /\ taken = None /\ logs = None
    /\ keys = None
StatsOthers == <<task, crashes, queue, unique, reports, noRepro, pc, held, receipt,
    input, stack, batch, todo, tries, events, swallowed, phase, attempts, worker,
    runs, temp, dir, watch, remote, found, early, cut, created, exists, watched, item,
    seen, inputs, child, permit, timer, hb, alive, late, pending, client, cancelled,
    corpora, rounds, generated, untested, process, command, started, tasks, ui, files,
    monitors, handled, raw, senders, loop, announced, counting, dirs, counts,
    selected, telemetry, lagged, sent, missed, written, taken, logs, keys>>

GeneratorIdle ==
    /\ queue = None /\ unique = None /\ reports = None /\ noRepro = None /\ pc = None
    /\ held = None /\ receipt = None /\ input = None /\ stack = None /\ batch = None
    /\ todo = None /\ tries = None /\ swallowed = None /\ attempts = None
    /\ worker = None /\ runs = None /\ temp = None /\ dir = None /\ watch = None
    /\ cut = None /\ created = None /\ exists = None /\ item = None /\ seen = None
    /\ inputs = None /\ child = None /\ permit = None /\ timer = None /\ hb = None
    /\ alive = None /\ late = None /\ stats = None /\ pending = None /\ client = None
    /\ cancelled = None /\ run = None /\ iters = None /\ channel = None
    /\ count = None /\ reported = None /\ process = None /\ command = None
    /\ started = None /\ tasks = None /\ ui = None /\ files = None /\ monitors = None
    /\ handled = None /\ raw = None /\ senders = None /\ loop = None
    /\ announced = None /\ counting = None /\ dirs = None /\ counts = None
    /\ selected = None /\ telemetry = None /\ lagged = None /\ sent = None
    /\ missed = None /\ written = None /\ taken = None /\ logs = None /\ keys = None
GeneratorOthers == <<task, queue, unique, reports, noRepro, pc, held, receipt, input,
    stack, batch, todo, tries, swallowed, attempts, worker, runs, temp, dir, watch,
    cut, created, exists, item, seen, inputs, child, permit, timer, hb, alive, late,
    stats, pending, client, cancelled, run, iters, channel, count, reported, process,
    command, started, tasks, ui, files, monitors, handled, raw, senders, loop,
    announced, counting, dirs, counts, selected, telemetry, lagged, sent, missed,
    written, taken, logs, keys>>

RunIdle ==
    /\ crashes = None /\ unique = None /\ reports = None /\ noRepro = None
    /\ pc = None /\ held = None /\ receipt = None /\ input = None /\ stack = None
    /\ batch = None /\ todo = None /\ tries = None /\ events = None
    /\ swallowed = None /\ phase = None /\ attempts = None /\ worker = None
    /\ runs = None /\ temp = None /\ watch = None /\ remote = None /\ found = None
    /\ cut = None /\ exists = None /\ watched = None /\ seen = None /\ inputs = None
    /\ child = None /\ permit = None /\ timer = None /\ hb = None /\ alive = None
    /\ late = None /\ stats = None /\ pending = None /\ client = None
    /\ cancelled = None /\ run = None /\ iters = None /\ channel = None
    /\ count = None /\ reported = None /\ corpora = None /\ rounds = None
    /\ generated = None /\ untested = None /\ raw = None /\ senders = None
    /\ loop = None /\ announced = None /\ counting = None /\ dirs = None
    /\ counts = None /\ selected = None /\ telemetry = None /\ lagged = None
    /\ sent = None /\ missed = None /\ written = None /\ taken = None /\ logs = None
    /\ keys = None
RunOthers == <<task, crashes, unique, reports, noRepro, pc, held, receipt, input,
    stack, batch, todo, tries, events, swallowed, phase, attempts, worker, runs, temp,
    watch, remote, found, cut, exists, watched, seen, inputs, child, permit, timer,
    hb, alive, late, stats, pending, client, cancelled, run, iters, channel, count,
    reported, corpora, rounds, generated, untested, raw, senders, loop, announced,
    counting, dirs, counts, selected, telemetry, lagged, sent, missed, written, taken,
    logs, keys>>

TerminalIdle ==
    /\ crashes = None /\ queue = None /\ unique = None /\ reports = None
    /\ noRepro = None /\ pc = None /\ held = None /\ receipt = None /\ input = None
    /\ stack = None /\ batch = None /\ todo = None /\ tries = None /\ swallowed = None
    /\ phase = None /\ attempts = None /\ worker = None /\ runs = None /\ temp = None
    /\ dir = None /\ watch = None /\ remote = None /\ found = None /\ early = None
    /\ created = None /\ exists = None /\ watched = None /\ item = None /\ seen = None
    /\ inputs = None /\ child = None /\ permit = None /\ timer = None /\ hb = None
    /\ alive = None /\ late = None /\ pending = None /\ client = None /\ run = None
    /\ iters = None /\ channel = None /\ count = None /\ reported = None
    /\ corpora = None /\ rounds = None /\ generated = None /\ untested = None
    /\ process = None /\ command = None /\ started = None /\ tasks = None /\ ui = None
    /\ files = None /\ monitors = None /\ handled = None
TerminalOthers == <<task, crashes, queue, unique, reports, noRepro, pc, held, receipt,
    input, stack, batch, todo, tries, swallowed, phase, attempts, worker, runs, temp,
    dir, watch, remote, found, early, created, exists, watched, item, seen, inputs,
    child, permit, timer, hb, alive, late, pending, client, run, iters, channel,
    count, reported, corpora, rounds, generated, untested, process, command, started,
    tasks, ui, files, monitors, handled>>

Init ==
    \/ task = <<"crash_report">> /\ Reports!Init /\ ReportsIdle
    \/ task = <<"libfuzzer_fuzz">> /\ Fuzz!Init /\ FuzzIdle
    \/ \E k \in DOMAIN MonitorTasks :
         task = <<"monitor", k>> /\ Monitor(MonitorTasks[k])!Init /\ MonitorIdle
    \/ \E k \in DOMAIN SupervisorTasks :
         task = <<"supervisor", k>> /\ Supervise(SupervisorTasks[k])!Init /\ SupervisorIdle
    \/ task = <<"runtime_stats">> /\ Stats!Init /\ StatsIdle
    \/ \E k \in DOMAIN GeneratorTasks :
         task = <<"generator", k>> /\ Generate(GeneratorTasks[k])!Init /\ GeneratorIdle
    \/ \E k \in DOMAIN LocalTasks :
         task = <<"local", k>> /\ Local(LocalTasks[k])!Init /\ RunIdle
    \/ \E k \in DOMAIN TerminalTasks :
         task = <<"terminal", k>> /\ Terminal(TerminalTasks[k])!Init /\ TerminalIdle

RunReports == task = <<"crash_report">> /\ Reports!Next /\ UNCHANGED ReportsOthers
RunFuzz == task = <<"libfuzzer_fuzz">> /\ Fuzz!Next /\ UNCHANGED FuzzOthers
RunMonitor(k) ==
    /\ task = <<"monitor", k>>
    /\ Monitor(MonitorTasks[k])!Next /\ UNCHANGED MonitorOthers
RunSupervise(k) ==
    /\ task = <<"supervisor", k>>
    /\ Supervise(SupervisorTasks[k])!Next /\ UNCHANGED SupervisorOthers
RunStats == task = <<"runtime_stats">> /\ Stats!Next /\ UNCHANGED StatsOthers
RunGenerate(k) ==
    /\ task = <<"generator", k>>
    /\ Generate(GeneratorTasks[k])!Next /\ UNCHANGED GeneratorOthers
RunLocal(k) ==
    /\ task = <<"local", k>>
    /\ Local(LocalTasks[k])!Next /\ UNCHANGED RunOthers
RunTerminal(k) ==
    /\ task = <<"terminal", k>>
    /\ Terminal(TerminalTasks[k])!Next /\ UNCHANGED TerminalOthers

Next ==
    \/ RunReports
    \/ RunFuzz
    \/ task[1] = "monitor" /\ \E k \in DOMAIN MonitorTasks : RunMonitor(k)
    \/ task[1] = "supervisor" /\ \E k \in DOMAIN SupervisorTasks : RunSupervise(k)
    \/ RunStats
    \/ task[1] = "generator" /\ \E k \in DOMAIN GeneratorTasks : RunGenerate(k)
    \/ task[1] = "local" /\ \E k \in DOMAIN LocalTasks : RunLocal(k)
    \/ task[1] = "terminal" /\ \E k \in DOMAIN TerminalTasks : RunTerminal(k)

\* A thread or process that can go on does; nothing is assumed of the fuzzers, of the
\* targets or of the users.
Fairness ==
    /\ \A w \in {"w1", "w2"} :
         /\ WF_vars(task = <<"crash_report">> /\ (Reports!Advance(w) \/ Reports!Fault(w)) /\ UNCHANGED ReportsOthers)
         /\ WF_vars(task = <<"libfuzzer_fuzz">> /\ Fuzz!Monitor(w) /\ UNCHANGED FuzzOthers)
         /\ WF_vars(task = <<"libfuzzer_fuzz">> /\ worker[w] = "crashed" /\ Fuzz!Exited(w) /\ UNCHANGED FuzzOthers)
    /\ WF_vars(task = <<"crash_report">> /\ Reports!Expire("m1") /\ UNCHANGED ReportsOthers)
    /\ WF_vars(task = <<"libfuzzer_fuzz">> /\ Fuzz!Upload("crash") /\ UNCHANGED FuzzOthers)
    /\ \A k \in DOMAIN MonitorTasks :
         WF_vars(task = <<"monitor", k>> /\ Monitor(MonitorTasks[k])!MonitorStep /\ UNCHANGED MonitorOthers)
    /\ \A k \in DOMAIN SupervisorTasks :
         /\ WF_vars(task = <<"supervisor", k>> /\ Supervise(SupervisorTasks[k])!WaitProcess /\ UNCHANGED SupervisorOthers)
         /\ WF_vars(task = <<"supervisor", k>> /\ Supervise(SupervisorTasks[k])!HeartbeatProcess /\ UNCHANGED SupervisorOthers)
         /\ WF_vars(task = <<"supervisor", k>> /\ Supervise(SupervisorTasks[k])!ClientStep /\ UNCHANGED SupervisorOthers)
    /\ WF_vars(task = <<"runtime_stats">> /\ Stats!Receive /\ UNCHANGED StatsOthers)
    /\ \A k \in DOMAIN GeneratorTasks : \A d \in Generate(GeneratorTasks[k])!Targets :
         WF_vars(task = <<"generator", k>> /\ Generate(GeneratorTasks[k])!Upload(d) /\ UNCHANGED GeneratorOthers)
    /\ \A k \in DOMAIN LocalTasks :
         /\ WF_vars(task = <<"local", k>> /\ Local(LocalTasks[k])!Main /\ UNCHANGED RunOthers)
         /\ WF_vars(task = <<"local", k>> /\ Local(LocalTasks[k])!FuzzInit /\ UNCHANGED RunOthers)
         /\ \A c \in Local(LocalTasks[k])!Followers :
              WF_vars(task = <<"local", k>> /\ Local(LocalTasks[k])!Step(c) /\ UNCHANGED RunOthers)
    /\ \A k \in DOMAIN TerminalTasks : \A s \in Terminal(TerminalTasks[k])!Threads :
         WF_vars(task = <<"terminal", k>> /\ Terminal(TerminalTasks[k])!Thread(s) /\ UNCHANGED TerminalOthers)

Spec == Init /\ [][Next]_vars /\ Fairness

\* The type invariants of the components.
TypeOK ==
    /\ task[1] = "monitor" => \A k \in DOMAIN MonitorTasks :
         task = <<"monitor", k>> => Monitor(MonitorTasks[k])!TypeOK
    /\ task[1] = "supervisor" => \A k \in DOMAIN SupervisorTasks :
         task = <<"supervisor", k>> => Supervise(SupervisorTasks[k])!TypeOK
    /\ task = <<"runtime_stats">> => Stats!TypeOK
    /\ task[1] = "generator" => \A k \in DOMAIN GeneratorTasks :
         task = <<"generator", k>> => Generate(GeneratorTasks[k])!TypeOK
    /\ task[1] = "local" => \A k \in DOMAIN LocalTasks :
         task = <<"local", k>> => Local(LocalTasks[k])!TypeOK
    /\ task[1] = "terminal" => \A k \in DOMAIN TerminalTasks :
         task = <<"terminal", k>> => Terminal(TerminalTasks[k])!TypeOK

\* Resets, deletions and failures of single uploads make the directory monitor forget no
\* file that was created under the watch, and it never listens to a directory that is
\* gone without an event that will tell it so (next_file, file_monitor_event); later
\* rounds of the generator never overwrite a crash that was found and renamed
\* (test_inputs).  In a local run a crash under the watch is on its way to every task that
\* follows the directory, once for each time it was put there, the same name again and
\* again included (run_fuzzer, monitor_directory, ChannelQueueClient).
NothingMissed ==
    /\ task[1] = "monitor" => \A k \in DOMAIN MonitorTasks :
         task = <<"monitor", k>> => /\ Monitor(MonitorTasks[k])!SeenNotForgotten
                                    /\ Monitor(MonitorTasks[k])!NeverDeaf
    /\ task[1] = "generator" => \A k \in DOMAIN GeneratorTasks :
         task = <<"generator", k>> => Generate(GeneratorTasks[k])!CrashKept
    /\ task[1] = "local" => \A k \in DOMAIN LocalTasks :
         task = <<"local", k>> => Local(LocalTasks[k])!OnItsWay

\* At most one heartbeat says that a supervisor lives after it has been waited for, and
\* nothing is left to send when the background task ends (wait_process, init_heartbeat).
HeartbeatsTrue ==
    task[1] = "supervisor" => \A k \in DOMAIN SupervisorTasks :
        task = <<"supervisor", k>> => /\ Supervise(SupervisorTasks[k])!OneLateHeartbeat
                                      /\ Supervise(SupervisorTasks[k])!LastFlush

\* The user of a local run selects an entry that is in the list however it grows between
\* the keys, and has the terminal back when it says that it has ended (on_key_down, on_quit).
TerminalTrue ==
    task[1] = "terminal" => \A k \in DOMAIN TerminalTasks :
        task = <<"terminal", k>> => /\ Terminal(TerminalTasks[k])!SelectionInList
                                    /\ Terminal(TerminalTasks[k])!TerminalRestored

\* What the service and the user are told of a running task is true: its heartbeats, the
\* iterations, of which none is counted twice or missed although workers repeat their
\* counts, start over from zero and interleave (TotalStats::update), the selection and the
\* end of the terminal, and the last logs in their order (take_available_logs).  The types
\* of all components are checked with it.
ToldIsTrue ==
    /\ TypeOK /\ HeartbeatsTrue /\ TerminalTrue
    /\ task = <<"runtime_stats">> => Stats!CountExact
    /\ task[1] = "terminal" => \A k \in DOMAIN TerminalTasks :
         task = <<"terminal", k>> => Terminal(TerminalTasks[k])!LogsInOrder

\* What was begun comes to its end: an announced input is processed, over deaths of
\* workers, lost answers and expired claims (InputPoller::run); a crash that libFuzzer or
\* the generator has written is uploaded; a directory that is recreated is watched again;
\* the end of a supervisor ends its heartbeats, so that nobody keeps telling the service
\* that a dead fuzzer is alive; everything printed is reported.  A local run processes every crash under its watches and
\* does not outlive a failed task (try_wait_all_join_handles); its terminal catches up with
\* what it shows, and ends when it is told to, whichever sender told it (ui_loop).
BegunEnds ==
    <>[](/\ task = <<"crash_report">> => Reports!Settled("m1")
         /\ task = <<"libfuzzer_fuzz">> => Fuzz!CrashSettled
         /\ task[1] = "monitor" => \A k \in DOMAIN MonitorTasks :
              task = <<"monitor", k>> => Monitor(MonitorTasks[k])!WatchedAgain
         /\ task[1] = "supervisor" => \A k \in DOMAIN SupervisorTasks :
              task = <<"supervisor", k>> => Supervise(SupervisorTasks[k])!StopHeard
         /\ task = <<"runtime_stats">> => reported = Stats!Printed
         /\ task[1] = "generator" => \A k \in DOMAIN GeneratorTasks :
              task = <<"generator", k>> => Generate(GeneratorTasks[k])!CrashesInContainer
         /\ task[1] = "local" => \A k \in DOMAIN LocalTasks :
              task = <<"local", k>> => Local(LocalTasks[k])!CrashesProcessed
         /\ task[1] = "terminal" => \A k \in DOMAIN TerminalTasks :
              task = <<"terminal", k>> => /\ Terminal(TerminalTasks[k])!ShownIsCurrent
                                          /\ Terminal(TerminalTasks[k])!QuitEnds)
=============================================================================
