-------------------------------- MODULE Tasks --------------------------------
(***************************************************************************)
(* The tasks that several nodes run at once on shared containers and one    *)
(* input queue.  A onefuzz-task process runs the one task its configuration *)
(* names (tasks/config.rs, Config::run): task says which kind it is and     *)
(* which of the configurations of that kind it has, and the other           *)
(* components stay as they are.  On a machine that the service does not     *)
(* manage the agent itself is the component.                                *)
(*                                                                         *)
(* The configurations of a kind of task are a function from names to        *)
(* records, one field for each constant of the kind's module.               *)
(***************************************************************************)
EXTENDS Naturals

CONSTANTS
    None, BadUrl,
    ReportTasks,     \* the crash report tasks (CrashReports)
    MergeTasks,      \* the merges (Merge)
    AnalysisTasks,   \* the analysis (Analysis)
    CoverageTasks,   \* coverage (CoverageTask)
    DotnetTasks,     \* coverage of .NET targets (DotnetCoverage)
    RegressionTasks, \* the regression tasks (Regression)
    FuzzTasks        \* libFuzzer fuzzing (FuzzTask)

VARIABLES
    task,
    crashes, queue, unique, reports, noRepro, pc, held, receipt, input, stack, batch,
    todo, tries, events, swallowed, candidates, remote, local, tmp, attempts,
    failures, printed, merged, behind, analysis, saved, existing, count, outputs,
    report, watching, seen, coverage, attempt, ignored, main, files, merging,
    snapshot, found, cobertura, done, folded, unwritten, overlapped, content, inputs,
    report_list, build, stored, sent, dir, regressing, phase, worker, runs, temp,
    watch, early, cut, reset, sched, cause, work, workers, prev, lastPoll, outbox,
    doneLock, rebootCtx, workCtx, proc, ipc, view, taskView, deaths, diedAt, claimed,
    stopNode, stopTasks, setupOk

vars == <<task, crashes, queue, unique, reports, noRepro, pc, held, receipt, input,
          stack, batch, todo, tries, events, swallowed, candidates, remote, local,
          tmp, attempts, failures, printed, merged, behind, analysis, saved, existing,
          count, outputs, report, watching, seen, coverage, attempt, ignored, main,
          files, merging, snapshot, found, cobertura, done, folded, unwritten,
          overlapped, content, inputs, report_list, build, stored, sent, dir,
          regressing, phase, worker, runs, temp, watch, early, cut, reset, sched,
          cause, work, workers, prev, lastPoll, outbox, doneLock, rebootCtx, workCtx,
          proc, ipc, view, taskView, deaths, diedAt, claimed, stopNode, stopTasks,
          setupOk>>

Reports(cfg) == INSTANCE CrashReports WITH
    Worker <- cfg.Worker, Input <- cfg.Input, Stack <- cfg.Stack, Msg <- cfg.Msg,
    MsgInput <- cfg.MsgInput, Kind <- cfg.Kind, Dirs <- cfg.Dirs,
    CheckQueue <- cfg.CheckQueue, MaxRetry <- cfg.MaxRetry, MaxPops <- cfg.MaxPops

Merger(cfg) == INSTANCE Merge WITH
    Worker <- cfg.Worker, Input <- cfg.Input, Feature <- cfg.Feature,
    Covers <- cfg.Covers, Msg <- cfg.Msg, MsgInput <- cfg.MsgInput, Kind <- cfg.Kind,
    QueueMode <- cfg.QueueMode, Preserve <- cfg.Preserve,
    MaxFailure <- cfg.MaxFailure, MaxRetry <- cfg.MaxRetry, MaxPops <- cfg.MaxPops

Analyze(cfg) == INSTANCE Analysis WITH
    Worker <- cfg.Worker, Input <- cfg.Input, Msg <- cfg.Msg,
    MsgInput <- cfg.MsgInput, HasCrashes <- cfg.HasCrashes,
    HasReports <- cfg.HasReports, SyncEvery <- cfg.SyncEvery, MaxPops <- cfg.MaxPops

Cover(cfg) == INSTANCE CoverageTask WITH
    Input <- cfg.Input, Block <- cfg.Block, Known <- cfg.Known, Hit <- cfg.Hit,
    Corpus <- cfg.Corpus, Msg <- cfg.Msg, MsgInput <- cfg.MsgInput,
    Attempts <- cfg.Attempts, SaveEvery <- cfg.SaveEvery, MaxPops <- cfg.MaxPops,
    MaxCrashes <- cfg.MaxCrashes

Dotnet(cfg) == INSTANCE DotnetCoverage WITH
    Input <- cfg.Input, Corpus <- cfg.Corpus, Attempts <- cfg.Attempts

Regress(cfg) == INSTANCE Regression WITH
    Nodes <- cfg.Nodes, Inputs <- cfg.Inputs, Stacks <- cfg.Stacks,
    Files <- cfg.Files, Lists <- cfg.Lists, Builds <- cfg.Builds, Flaky <- cfg.Flaky,
    Scheme <- cfg.Scheme, task <- regressing

Fuzz(cfg) == INSTANCE FuzzTask WITH
    Workers <- cfg.Workers, CrashFiles <- cfg.CrashFiles,
    InputFiles <- cfg.InputFiles, ExpectCrash <- cfg.ExpectCrash,
    MaxAttempts <- cfg.MaxAttempts, MaxRuns <- cfg.MaxRuns

Unmanaged == INSTANCE Agent WITH
    Tasks <- {"t1"}, WorkSets <- {"single"}, TasksOf <- [single |-> {"t1"}],
    RebootSets <- {"single"}, Managed <- FALSE, MaxDeaths <- 1

\* What the components assume of their constants.
ASSUME TasksAssumption ==
    /\ \A k \in DOMAIN ReportTasks : Reports(ReportTasks[k])!ReportsAssumption
    /\ \A k \in DOMAIN MergeTasks : Merger(MergeTasks[k])!MergeAssumption
    /\ \A k \in DOMAIN AnalysisTasks : Analyze(AnalysisTasks[k])!AnalysisAssumption
    /\ \A k \in DOMAIN CoverageTasks : Cover(CoverageTasks[k])!CoverageAssumption
    /\ \A k \in DOMAIN DotnetTasks : Dotnet(DotnetTasks[k])!DotnetAssumption
    /\ \A k \in DOMAIN RegressionTasks : Regress(RegressionTasks[k])!RegressionAssumption
    /\ \A k \in DOMAIN FuzzTasks : Fuzz(FuzzTasks[k])!FuzzAssumption
    /\ Unmanaged!AgentAssumption

ReportsIdle ==
    /\ candidates = None /\ remote = None /\ local = None /\ tmp = None
    /\ attempts = None /\ failures = None /\ printed = None /\ merged = None
    /\ behind = None /\ analysis = None /\ saved = None /\ existing = None
    /\ count = None /\ outputs = None /\ report = None /\ watching = None
    /\ seen = None /\ coverage = None /\ attempt = None /\ ignored = None
    /\ main = None /\ files = None /\ merging = None /\ snapshot = None
    /\ found = None /\ cobertura = None /\ done = None /\ folded = None
    /\ unwritten = None /\ overlapped = None /\ content = None /\ inputs = None
    /\ report_list = None /\ build = None /\ stored = None /\ sent = None
    /\ dir = None /\ regressing = None /\ phase = None /\ worker = None /\ runs = None
    /\ temp = None /\ watch = None /\ early = None /\ cut = None /\ reset = None
    /\ sched = None /\ cause = None /\ work = None /\ workers = None /\ prev = None
    /\ lastPoll = None /\ outbox = None /\ doneLock = None /\ rebootCtx = None
    /\ workCtx = None /\ proc = None /\ ipc = None /\ view = None /\ taskView = None
    /\ deaths = None /\ diedAt = None /\ claimed = None /\ stopNode = None
    /\ stopTasks = None /\ setupOk = None
ReportsOthers == <<task, candidates, remote, local, tmp, attempts, failures, printed,
    merged, behind, analysis, saved, existing, count, outputs, report, watching, seen,
    coverage, attempt, ignored, main, files, merging, snapshot, found, cobertura,
    done, folded, unwritten, overlapped, content, inputs, report_list, build, stored,
    sent, dir, regressing, phase, worker, runs, temp, watch, early, cut, reset, sched,
    cause, work, workers, prev, lastPoll, outbox, doneLock, rebootCtx, workCtx, proc,
    ipc, view, taskView, deaths, diedAt, claimed, stopNode, stopTasks, setupOk>>

MergeIdle ==
    /\ crashes = None /\ unique = None /\ reports = None /\ noRepro = None
    /\ input = None /\ stack = None /\ batch = None /\ todo = None /\ tries = None
    /\ events = None /\ swallowed = None /\ analysis = None /\ saved = None
    /\ existing = None /\ count = None /\ outputs = None /\ report = None
    /\ watching = None /\ seen = None /\ coverage = None /\ attempt = None
    /\ ignored = None /\ main = None /\ files = None /\ merging = None
    /\ snapshot = None /\ found = None /\ cobertura = None /\ done = None
    /\ folded = None /\ unwritten = None /\ overlapped = None /\ content = None
    /\ inputs = None /\ report_list = None /\ build = None /\ stored = None
    /\ sent = None /\ dir = None /\ regressing = None /\ phase = None /\ worker = None
    /\ runs = None /\ temp = None /\ watch = None /\ early = None /\ cut = None
    /\ reset = None /\ sched = None /\ cause = None /\ work = None /\ workers = None
    /\ prev = None /\ lastPoll = None /\ outbox = None /\ doneLock = None
    /\ rebootCtx = None /\ workCtx = None /\ proc = None /\ ipc = None /\ view = None
    /\ taskView = None /\ deaths = None /\ diedAt = None /\ claimed = None
    /\ stopNode = None /\ stopTasks = None /\ setupOk = None
MergeOthers == <<task, crashes, unique, reports, noRepro, input, stack, batch, todo,
    tries, events, swallowed, analysis, saved, existing, count, outputs, report,
    watching, seen, coverage, attempt, ignored, main, files, merging, snapshot, found,
    cobertura, done, folded, unwritten, overlapped, content, inputs, report_list,
    build, stored, sent, dir, regressing, phase, worker, runs, temp, watch, early,
    cut, reset, sched, cause, work, workers, prev, lastPoll, outbox, doneLock,
    rebootCtx, workCtx, proc, ipc, view, taskView, deaths, diedAt, claimed, stopNode,
    stopTasks, setupOk>>

AnalysisIdle ==
    /\ unique = None /\ reports = None /\ noRepro = None /\ stack = None
    /\ batch = None /\ tries = None /\ swallowed = None /\ candidates = None
    /\ remote = None /\ local = None /\ tmp = None /\ attempts = None
    /\ failures = None /\ printed = None /\ merged = None /\ behind = None
    /\ coverage = None /\ attempt = None /\ ignored = None /\ main = None
    /\ files = None /\ merging = None /\ snapshot = None /\ found = None
    /\ cobertura = None /\ done = None /\ folded = None /\ unwritten = None
    /\ overlapped = None /\ content = None /\ inputs = None /\ report_list = None
    /\ build = None /\ stored = None /\ sent = None /\ dir = None /\ regressing = None
    /\ phase = None /\ worker = None /\ runs = None /\ temp = None /\ watch = None
    /\ early = None /\ cut = None /\ reset = None /\ sched = None /\ cause = None
    /\ work = None /\ workers = None /\ prev = None /\ lastPoll = None
    /\ outbox = None /\ doneLock = None /\ rebootCtx = None /\ workCtx = None
    /\ proc = None /\ ipc = None /\ view = None /\ taskView = None /\ deaths = None
    /\ diedAt = None /\ claimed = None /\ stopNode = None /\ stopTasks = None
    /\ setupOk = None
AnalysisOthers == <<task, unique, reports, noRepro, stack, batch, tries, swallowed,
    candidates, remote, local, tmp, attempts, failures, printed, merged, behind,
    coverage, attempt, ignored, main, files, merging, snapshot, found, cobertura,
    done, folded, unwritten, overlapped, content, inputs, report_list, build, stored,
    sent, dir, regressing, phase, worker, runs, temp, watch, early, cut, reset, sched,
    cause, work, workers, prev, lastPoll, outbox, doneLock, rebootCtx, workCtx, proc,
    ipc, view, taskView, deaths, diedAt, claimed, stopNode, stopTasks, setupOk>>

CoverageIdle ==
    /\ unique = None /\ reports = None /\ noRepro = None /\ stack = None
    /\ batch = None /\ tries = None /\ events = None /\ swallowed = None
    /\ candidates = None /\ local = None /\ tmp = None /\ attempts = None
    /\ failures = None /\ printed = None /\ merged = None /\ behind = None
    /\ analysis = None /\ saved = None /\ existing = None /\ outputs = None
    /\ report = None /\ watching = None /\ seen = None /\ main = None /\ files = None
    /\ merging = None /\ snapshot = None /\ found = None /\ cobertura = None
    /\ done = None /\ folded = None /\ unwritten = None /\ overlapped = None
    /\ content = None /\ inputs = None /\ report_list = None /\ build = None
    /\ stored = None /\ sent = None /\ dir = None /\ regressing = None /\ phase = None
    /\ worker = None /\ runs = None /\ temp = None /\ watch = None /\ early = None
    /\ cut = None /\ reset = None /\ sched = None /\ cause = None /\ work = None
    /\ workers = None /\ prev = None /\ lastPoll = None /\ outbox = None
    /\ doneLock = None /\ rebootCtx = None /\ workCtx = None /\ proc = None
    /\ ipc = None /\ view = None /\ taskView = None /\ deaths = None /\ diedAt = None
    /\ claimed = None /\ stopNode = None /\ stopTasks = None /\ setupOk = None
CoverageOthers == <<task, unique, reports, noRepro, stack, batch, tries, events,
    swallowed, candidates, local, tmp, attempts, failures, printed, merged, behind,
    analysis, saved, existing, outputs, report, watching, seen, main, files, merging,
    snapshot, found, cobertura, done, folded, unwritten, overlapped, content, inputs,
    report_list, build, stored, sent, dir, regressing, phase, worker, runs, temp,
    watch, early, cut, reset, sched, cause, work, workers, prev, lastPoll, outbox,
    doneLock, rebootCtx, workCtx, proc, ipc, view, taskView, deaths, diedAt, claimed,
    stopNode, stopTasks, setupOk>>

DotnetIdle ==
    /\ crashes = None /\ queue = None /\ unique = None /\ reports = None
    /\ noRepro = None /\ pc = None /\ held = None /\ receipt = None /\ stack = None
    /\ batch = None /\ tries = None /\ swallowed = None /\ candidates = None
    /\ local = None /\ tmp = None /\ attempts = None /\ failures = None
    /\ printed = None /\ merged = None /\ behind = None /\ analysis = None
    /\ saved = None /\ existing = None /\ count = None /\ outputs = None
    /\ report = None /\ seen = None /\ coverage = None /\ ignored = None
    /\ content = None /\ inputs = None /\ report_list = None /\ build = None
    /\ stored = None /\ sent = None /\ dir = None /\ regressing = None /\ phase = None
    /\ worker = None /\ runs = None /\ temp = None /\ watch = None /\ early = None
    /\ cut = None /\ reset = None /\ sched = None /\ cause = None /\ work = None
    /\ workers = None /\ prev = None /\ lastPoll = None /\ outbox = None
    /\ doneLock = None /\ rebootCtx = None /\ workCtx = None /\ proc = None
    /\ ipc = None /\ view = None /\ taskView = None /\ deaths = None /\ diedAt = None
    /\ claimed = None /\ stopNode = None /\ stopTasks = None /\ setupOk = None
DotnetOthers == <<task, crashes, queue, unique, reports, noRepro, pc, held, receipt,
    stack, batch, tries, swallowed, candidates, local, tmp, attempts, failures,
    printed, merged, behind, analysis, saved, existing, count, outputs, report, seen,
    coverage, ignored, content, inputs, report_list, build, stored, sent, dir,
    regressing, phase, worker, runs, temp, watch, early, cut, reset, sched, cause,
    work, workers, prev, lastPoll, outbox, doneLock, rebootCtx, workCtx, proc, ipc,
    view, taskView, deaths, diedAt, claimed, stopNode, stopTasks, setupOk>>

RegressionIdle ==
    /\ crashes = None /\ queue = None /\ unique = None /\ reports = None
    /\ noRepro = None /\ held = None /\ receipt = None /\ input = None /\ stack = None
    /\ batch = None /\ tries = None /\ events = None /\ swallowed = None
    /\ candidates = None /\ remote = None /\ local = None /\ tmp = None
    /\ attempts = None /\ failures = None /\ printed = None /\ merged = None
    /\ behind = None /\ analysis = None /\ saved = None /\ existing = None
    /\ count = None /\ outputs = None /\ report = None /\ watching = None
    /\ seen = None /\ coverage = None /\ attempt = None /\ ignored = None
    /\ main = None /\ files = None /\ merging = None /\ snapshot = None
    /\ found = None /\ cobertura = None /\ done = None /\ folded = None
    /\ unwritten = None /\ overlapped = None /\ phase = None /\ worker = None
    /\ runs = None /\ temp = None /\ watch = None /\ early = None /\ cut = None
    /\ reset = None /\ sched = None /\ cause = None /\ work = None /\ workers = None
    /\ prev = None /\ lastPoll = None /\ outbox = None /\ doneLock = None
    /\ rebootCtx = None /\ workCtx = None /\ proc = None /\ ipc = None /\ view = None
    /\ taskView = None /\ deaths = None /\ diedAt = None /\ claimed = None
    /\ stopNode = None /\ stopTasks = None /\ setupOk = None
RegressionOthers == <<task, crashes, queue, unique, reports, noRepro, held, receipt,
    input, stack, batch, tries, events, swallowed, candidates, remote, local, tmp,
    attempts, failures, printed, merged, behind, analysis, saved, existing, count,
    outputs, report, watching, seen, coverage, attempt, ignored, main, files, merging,
    snapshot, found, cobertura, done, folded, unwritten, overlapped, phase, worker,
    runs, temp, watch, early, cut, reset, sched, cause, work, workers, prev, lastPoll,
    outbox, doneLock, rebootCtx, workCtx, proc, ipc, view, taskView, deaths, diedAt,
    claimed, stopNode, stopTasks, setupOk>>

FuzzIdle ==
    /\ crashes = None /\ queue = None /\ unique = None /\ reports = None
    /\ noRepro = None /\ pc = None /\ held = None /\ receipt = None /\ input = None
    /\ stack = None /\ batch = None /\ todo = None /\ tries = None /\ swallowed = None
    /\ candidates = None /\ local = None /\ tmp = None /\ failures = None
    /\ printed = None /\ merged = None /\ behind = None /\ analysis = None
    /\ saved = None /\ existing = None /\ count = None /\ outputs = None
    /\ report = None /\ watching = None /\ seen = None /\ coverage = None
    /\ attempt = None /\ ignored = None /\ main = None /\ files = None
    /\ merging = None /\ snapshot = None /\ cobertura = None /\ done = None
    /\ folded = None /\ unwritten = None /\ overlapped = None /\ content = None
    /\ inputs = None /\ report_list = None /\ build = None /\ stored = None
    /\ sent = None /\ regressing = None /\ reset = None /\ sched = None
    /\ cause = None /\ work = None /\ workers = None /\ prev = None /\ lastPoll = None
    /\ outbox = None /\ doneLock = None /\ rebootCtx = None /\ workCtx = None
    /\ proc = None /\ ipc = None /\ view = None /\ taskView = None /\ deaths = None
    /\ diedAt = None /\ claimed = None /\ stopNode = None /\ stopTasks = None
    /\ setupOk = None
FuzzOthers == <<task, crashes, queue, unique, reports, noRepro, pc, held, receipt,
    input, stack, batch, todo, tries, swallowed, candidates, local, tmp, failures,
    printed, merged, behind, analysis, saved, existing, count, outputs, report,
    watching, seen, coverage, attempt, ignored, main, files, merging, snapshot,
    cobertura, done, folded, unwritten, overlapped, content, inputs, report_list,
    build, stored, sent, regressing, reset, sched, cause, work, workers, prev,
    lastPoll, outbox, doneLock, rebootCtx, workCtx, proc, ipc, view, taskView, deaths,
    diedAt, claimed, stopNode, stopTasks, setupOk>>

AgentIdle ==
    /\ crashes = None /\ queue = None /\ unique = None /\ reports = None
    /\ noRepro = None /\ held = None /\ receipt = None /\ input = None /\ stack = None
    /\ batch = None /\ todo = None /\ tries = None /\ events = None
    /\ swallowed = None /\ candidates = None /\ remote = None /\ local = None
    /\ tmp = None /\ attempts = None /\ failures = None /\ printed = None
    /\ merged = None /\ behind = None /\ analysis = None /\ saved = None
    /\ existing = None /\ count = None /\ outputs = None /\ report = None
    /\ watching = None /\ seen = None /\ coverage = None /\ attempt = None
    /\ ignored = None /\ main = None /\ files = None /\ merging = None
    /\ snapshot = None /\ found = None /\ cobertura = None /\ done = None
    /\ folded = None /\ unwritten = None /\ overlapped = None /\ content = None
    /\ inputs = None /\ report_list = None /\ build = None /\ stored = None
    /\ sent = None /\ dir = None /\ regressing = None /\ phase = None /\ worker = None
    /\ runs = None /\ temp = None /\ watch = None /\ early = None /\ cut = None
AgentOthers == <<task, crashes, queue, unique, reports, noRepro, held, receipt, input,
    stack, batch, todo, tries, events, swallowed, candidates, remote, local, tmp,
    attempts, failures, printed, merged, behind, analysis, saved, existing, count,
    outputs, report, watching, seen, coverage, attempt, ignored, main, files, merging,
    snapshot, found, cobertura, done, folded, unwritten, overlapped, content, inputs,
    report_list, build, stored, sent, dir, regressing, phase, worker, runs, temp,
    watch, early, cut>>

Init ==
    \/ \E k \in DOMAIN ReportTasks :
         task = <<"report", k>> /\ Reports(ReportTasks[k])!Init /\ ReportsIdle
    \/ \E k \in DOMAIN MergeTasks :
         task = <<"merge", k>> /\ Merger(MergeTasks[k])!Init /\ MergeIdle
    \/ \E k \in DOMAIN AnalysisTasks :
         task = <<"analysis", k>> /\ Analyze(AnalysisTasks[k])!Init /\ AnalysisIdle
    \/ \E k \in DOMAIN CoverageTasks :
         task = <<"coverage", k>> /\ Cover(CoverageTasks[k])!Init /\ CoverageIdle
    \/ \E k \in DOMAIN DotnetTasks :
         task = <<"dotnet_coverage", k>> /\ Dotnet(DotnetTasks[k])!Init /\ DotnetIdle
    \/ \E k \in DOMAIN RegressionTasks :
         task = <<"regression", k>> /\ Regress(RegressionTasks[k])!Init /\ RegressionIdle
    \/ \E k \in DOMAIN FuzzTasks :
         task = <<"fuzz", k>> /\ Fuzz(FuzzTasks[k])!Init /\ FuzzIdle
    \/ task = <<"unmanaged_agent">> /\ Unmanaged!Init /\ AgentIdle

RunReports(k) ==
    /\ task = <<"report", k>>
    /\ Reports(ReportTasks[k])!Next /\ UNCHANGED ReportsOthers
RunMerger(k) ==
    /\ task = <<"merge", k>>
    /\ Merger(MergeTasks[k])!Next /\ UNCHANGED MergeOthers
RunAnalyze(k) ==
    /\ task = <<"analysis", k>>
    /\ Analyze(AnalysisTasks[k])!Next /\ UNCHANGED AnalysisOthers
RunCover(k) ==
    /\ task = <<"coverage", k>>
    /\ Cover(CoverageTasks[k])!Next /\ UNCHANGED CoverageOthers
RunDotnet(k) ==
    /\ task = <<"dotnet_coverage", k>>
    /\ Dotnet(DotnetTasks[k])!Next /\ UNCHANGED DotnetOthers
RunRegress(k) ==
    /\ task = <<"regression", k>>
    /\ Regress(RegressionTasks[k])!Next /\ UNCHANGED RegressionOthers
RunFuzz(k) ==
    /\ task = <<"fuzz", k>>
    /\ Fuzz(FuzzTasks[k])!Next /\ UNCHANGED FuzzOthers
RunUnmanaged == task = <<"unmanaged_agent">> /\ Unmanaged!Next /\ UNCHANGED AgentOthers

Next ==
    \/ task[1] = "report" /\ \E k \in DOMAIN ReportTasks : RunReports(k)
    \/ task[1] = "merge" /\ \E k \in DOMAIN MergeTasks : RunMerger(k)
    \/ task[1] = "analysis" /\ \E k \in DOMAIN AnalysisTasks : RunAnalyze(k)
    \/ task[1] = "coverage" /\ \E k \in DOMAIN CoverageTasks : RunCover(k)
    \/ task[1] = "dotnet_coverage" /\ \E k \in DOMAIN DotnetTasks : RunDotnet(k)
    \/ task[1] = "regression" /\ \E k \in DOMAIN RegressionTasks : RunRegress(k)
    \/ task[1] = "fuzz" /\ \E k \in DOMAIN FuzzTasks : RunFuzz(k)
    \/ RunUnmanaged

Spec == Init /\ [][Next]_vars

\* The type invariants of the tasks.  (Here and below the kind is compared first, so that
\* TLC looks only at the configurations of the kind that runs.)
TypeOK ==
    /\ task[1] = "report" => \A k \in DOMAIN ReportTasks :
         task = <<"report", k>> => Reports(ReportTasks[k])!TypeOK
    /\ task[1] = "merge" => \A k \in DOMAIN MergeTasks :
         task = <<"merge", k>> => Merger(MergeTasks[k])!TypeOK
    /\ task[1] = "analysis" => \A k \in DOMAIN AnalysisTasks :
         task = <<"analysis", k>> => Analyze(AnalysisTasks[k])!TypeOK
    /\ task[1] = "coverage" => \A k \in DOMAIN CoverageTasks :
         task = <<"coverage", k>> => Cover(CoverageTasks[k])!TypeOK
    /\ task[1] = "dotnet_coverage" => \A k \in DOMAIN DotnetTasks :
         task = <<"dotnet_coverage", k>> => Dotnet(DotnetTasks[k])!TypeOK
    /\ task[1] = "regression" => \A k \in DOMAIN RegressionTasks :
         task = <<"regression", k>> => Regress(RegressionTasks[k])!TypeOK
    /\ task[1] = "fuzz" => \A k \in DOMAIN FuzzTasks :
         task = <<"fuzz", k>> => Fuzz(FuzzTasks[k])!TypeOK

\* A message is deleted only when what it asked for is stored, whichever node is
\* overtaken: the report of its input, the output of the analysis and the blocks it covers
\* are in the container; so are the features of a merged candidate, except for those of a
\* merge that printed nothing and of a libFuzzer node whose last push failed, which are
\* in that node's copy only, and the blob outlives the message; an input of the .NET task
\* is in the coverage file or waits to be merged, until the merges of its two loops have
\* overwritten each other.  Each component's property says exactly what it excepts.
AcknowledgedIsStored ==
    /\ task[1] = "report" => \A k \in DOMAIN ReportTasks :
         task = <<"report", k>> => Reports(ReportTasks[k])!AcknowledgedIsStored
    /\ task[1] = "merge" => \A k \in DOMAIN MergeTasks :
         task = <<"merge", k>> => Merger(MergeTasks[k])!AcknowledgedIsStored
    /\ task[1] = "analysis" => \A k \in DOMAIN AnalysisTasks :
         task = <<"analysis", k>> => Analyze(AnalysisTasks[k])!AcknowledgedIsStored
    /\ task[1] = "coverage" => \A k \in DOMAIN CoverageTasks :
         task = <<"coverage", k>> => Cover(CoverageTasks[k])!AcknowledgedIsStored
    /\ task[1] = "dotnet_coverage" => \A k \in DOMAIN DotnetTasks :
         task = <<"dotnet_coverage", k>> => Dotnet(DotnetTasks[k])!AcknowledgedIsStored

\* What was there before is dealt with before a task goes on or ends: a batch merge that
\* all nodes have ended covers what its inputs cover, run_existing has pushed what it ran
\* on and no watched report is left before the analysis polls, the corpus is recorded
\* before the coverage task polls, and a regression task that ends well has an answer for
\* all it was asked about.
ExistingHandled ==
    /\ task[1] = "merge" => \A k \in DOMAIN MergeTasks :
         task = <<"merge", k>> => Merger(MergeTasks[k])!ExistingHandled
    /\ task[1] = "analysis" => \A k \in DOMAIN AnalysisTasks :
         task = <<"analysis", k>> => Analyze(AnalysisTasks[k])!ExistingHandled
    /\ task[1] = "coverage" => \A k \in DOMAIN CoverageTasks :
         task = <<"coverage", k>> => Cover(CoverageTasks[k])!ExistingHandled
    /\ task[1] = "regression" => \A k \in DOMAIN RegressionTasks :
         task = <<"regression", k>> => Regress(RegressionTasks[k])!ExistingHandled

\* What is found arrives, whole and once: several workers and lost answers announce a
\* report at most once, and the unique report of a stack is there before a report names
\* it; a crash or an input that a fuzzer found is in one of the directories, through
\* moves, collisions of names and the worker's next run, is uploaded or still to be, and
\* is complete unless its writer was killed.
ResultsArrive ==
    /\ task[1] = "report" => \A k \in DOMAIN ReportTasks :
         task = <<"report", k>> => Reports(ReportTasks[k])!ResultsArrive
    /\ task[1] = "fuzz" => \A k \in DOMAIN FuzzTasks :
         task = <<"fuzz", k>> => Fuzz(FuzzTasks[k])!ResultsArrive

\* Unmanaged nodes: also where the operator may remove the lock and the context, no
\* worker runs before its setup, and only a death between lock and event silences it.
\* The types of all components are checked with it.
UnmanagedSafe ==
    /\ TypeOK
    /\ task = <<"unmanaged_agent">> => Unmanaged!TypeOK /\ Unmanaged!UnmanagedSafe

\* Nodes that write to one container take nothing away from each other: a saved report is
\* not replaced, a push from a stale copy of a corpus deletes nothing, and the coverage
\* file that is overwritten loses neither block nor count.
StoredStays ==
    [][/\ task[1] = "report" => \A k \in DOMAIN ReportTasks :
            task = <<"report", k>> => Reports(ReportTasks[k])!StoredStays
       /\ task[1] = "merge" => \A k \in DOMAIN MergeTasks :
            task = <<"merge", k>> => Merger(MergeTasks[k])!StoredStays
       /\ task[1] = "coverage" => \A k \in DOMAIN CoverageTasks :
            task = <<"coverage", k>> => Cover(CoverageTasks[k])!StoredStays
       /\ task[1] = "regression" => \A k \in DOMAIN RegressionTasks :
            task = <<"regression", k>> => Regress(RegressionTasks[k])!StoredStays]_vars
==============================================================================
