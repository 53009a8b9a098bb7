# OneFuzz: models, checks and proofs

OneFuzz is a fuzzing service.  An API service (C#, Azure Functions over Azure
tables and queues) keeps jobs, tasks, pools, scalesets and nodes; an agent (Rust)
on each node takes work sets from its pool's queue, sets them up, runs one
`onefuzz-task` process per work unit and reports what happens as events.  The task
processes fuzz, reproduce crashes, merge corpora and record coverage, on containers
and queues that several nodes share.  This directory holds TLA+ modules for the parts
whose correctness depends on the order of events, and for the algorithms whose
result is hard to see from the code.

Paths below are relative to `src/src/`; `S/` stands for `ApiService/ApiService/`,
`T/` for `agent/onefuzz-task/src/`.

## Inventory

| Part | State it keeps | Operations | Talks to |
|---|---|---|---|
| Agent start-up (`agent/onefuzz-agent/src/main.rs`, `reboot.rs`, `work.rs`, `done.rs`) | three files: `workset_context`, `reboot_context`, `supervisor-is-done` | start, load the reboot context, report a crash, lock | the service (events), the service manager |
| Agent loop (`agent.rs`, `scheduler.rs`, `coordinator.rs`) | `Scheduler`, previous state, outcome of the last command poll | poll a command, emit a state, claim, set up, reboot, run, update, finish | pool queue, service |
| Registration and requests (`config.rs`, `auth.rs`, `coordinator.rs`, `work.rs`, `agent/reqwest-retry`) | registration, token, queue URL | register, renew, retry, refresh on 401, poll and claim a command | service, token endpoint |
| Pool queue (`work.rs`, `agent/storage-queue`) | messages with a visibility timeout | pop, can_schedule, claim, drop | service, other nodes |
| Workers and task processes (`worker.rs`, `T/managed/cmd.rs`) | a slot per work unit, a process, an IPC channel, reader threads with tail buffers | start, connect, wait, stop, kill, shut down | the agent |
| Log upload (`log_uploader.rs`) | position, append blob | loop, stop, flush | storage |
| Task kinds (`T/tasks/*`) | directories, containers, input queue | existing inputs, polling, saving, syncing | storage, other nodes |
| Directory monitors, heartbeats, statistics (`agent/onefuzz/src`) | watch, events, pending messages, totals | watch, reset, upload, flush | storage, queues |
| Local runs (`T/local`, `agent/storage-queue/src/local_queue.rs`) | spawned tasks, channels, screen | wait for a directory, start, monitor, join, show, quit | tasks in one process |
| Recorders and debuggers (`agent/coverage`, `agent/debugger`) | breakpoints, threads, images, suspended threads | set, clear, step over, defer, count | the target's threads |
| Testers (`agent/onefuzz/src/input_tester.rs`, `agent/input-tester`) | runs, crashes, buckets, samples | run, time out, triage, bucket | the target |
| Blocks, source coverage, placeholders, URLs | none: functions of their input | sweep, convert, expand, parse | |
| Jobs (`S/onefuzzlib/JobOperations.cs`, `S/Functions/Jobs.cs`) | `Job`: state, end time | create, delete, Init, Stopping, expire, stop if never started | tasks, webhooks |
| Tasks (`TaskOperations.cs`, `Functions/Tasks.cs`) | `Task`: state, error, end time, input queue | create, delete, MarkFailed, MarkStopping, SetState, Init, Stopping, Stopped | job, node tasks, commands |
| Task timer and scheduler (`Functions/TimerTasks.cs`, `onefuzzlib/orm/Orm.cs`, `Scheduler.cs`) | records it has read; buckets, work sets | expire, update, schedule | jobs, tasks, pool queue |
| Agent handlers (`Functions/AgentEvents.cs`, `AgentCanSchedule.cs`, `AgentCommands.cs`) | `NodeTasks`, `NodeMessage` | SettingUp, Running, Done events; can_schedule; commands | tasks, nodes |
| Webhooks (`WebhookOperations.cs`) | message log with a try count, queue | queue, send, retry, expire | users' endpoints |
| Proxy manager and forwards (`proxy-manager`, `ProxyForwardOperations.cs`, `ProxyOperations.cs`) | table of forwards, configuration blob, unit files, units | create, save, fetch, write, start, stop, notify | service, systemd |
| Nodes, pools, scalesets, repro machines, notifications, CLI, deployment | records | | cloud |

What is hard here, and what makes each part correct:

* **Crashes of the agent.**  Its process may end at every `await`; what the service
  learns then depends on which file was written before which request.  Correct
  means: work is backed by a file, a crash is reported, nothing runs before its
  setup succeeded, an image that is done stays done.
* **Stale writes of the service.**  `SetState` ends in an unconditional upsert of a
  record that the timer read many requests ago.  Correct means: a stopped task is
  not brought back, a running task expires, a stopped job has stopped tasks, a task
  is not scheduled twice, its input queue exists when it is needed.
* **Claims that expire, answers that get lost.**  Queue messages come back while
  somebody still works on them; a request whose answer is lost is sent again.  Correct
  means: a message is deleted only when its result is stored, and a repetition changes
  nothing that is stored.
* **Several nodes on one container.**  Each has a stale copy.  Correct means that
  no node takes away what another has written.
* **Waiting on one another.**  A job waits for its tasks, a task for its nodes, a
  node for a command that the timer sends; an agent waits for its task and the task for
  its agent.  Correct means that stopping ends.
* **Threads of a target under a debugger.**  Stops of several threads queue up while one
  steps over a breakpoint.  Correct means: nothing executed is missed, nobody stays
  suspended.
* **Partial failures.**  Some copies of a work set are queued and the rest not; the
  report is saved and the unique report is not; one of several joined futures ends with an error.

`PROJECT.json` lists every part, modelled or not, and the hazards, each at its line.

## Modules

| Module | Models |
|---|---|
| `Agent` | the agent on one node image, with deaths, restarts and reboots |
| `NodeContract` | what the service may rely on from one managed image: the abstract specification that `Agent` implements |
| `Registration` | registration, tokens, the Coordinator's requests and the queue URL, over the retry client, with faults, lost answers and expiries |
| `PoolQueue` | the pool's queue between several nodes: pop, can_schedule, claim, drop |
| `TaskProcess` | one worker, its task process, the two IPC connections, the reader threads |
| `LogUploader` | the upload loop of a task's log |
| `CrashReports` | the three crash report tasks: batch, poll, reproduce, save |
| `Merge` | libFuzzer merge (queue and batch) and generic merge |
| `Analysis` | the analysis task and its report monitor |
| `CoverageTask`, `DotnetCoverage` | the coverage tasks: retries, saving, polling, overlapping merges |
| `Regression` | the regression tasks |
| `FuzzTask` | the libFuzzer fuzzing tasks, their workers, moves and monitors |
| `Generator`, `Supervisor`, `RuntimeStats` | the generator task; the supervisor task and the heartbeat client; the libFuzzer statistics |
| `ResultMonitor` | `monitor_results`: watching, resets, uploads |
| `LocalRun`, `TerminalUi` | `onefuzz-task local libfuzzer`: the tasks of one process and their directory monitors; its terminal, the senders and the loop |
| `LinuxRecorder`, `WindowsRecorder`, `WindowsDebugger` | breakpoints, images, threads |
| `InputTester`, `TargetTester` | `test_input` and its triage; the Windows crash tester, its summary and buckets |
| `Sweep`, `SourceCoverage`, `Expand`, `BlobUrl` | basic blocks, source coverage and reports, command lines, URLs, each against a reference definition |
| `Jobs` | one job: HTTP handlers, timer, scheduler, pool queue, event handlers, nodes |
| `Webhooks` | the delivery of one event to one endpoint |
| `ProxyManager` | forwards, configuration blob, the manager's loop and its units |
| `MCAgent`, `MCJobs` | instances for TLC (the run `debugger` is of `WindowsDebugger` itself, with `MCDebugger.cfg`) |
| `Tasks` | the composition of the tasks that share containers, for any set of configurations of each; `MCTasks` gives the configurations |
| `MCTasks`, `MCRuntime`, `MCNode`, `MCTesters`, `MCCoverage` | instances that hold several components |
| `AgentProofs`, `JobsProofs` | theorems about the module of that name |
| `NodeProofs` | theorems about `MCNode`: `Registration`, `TaskProcess`, `PoolQueue`, `LogUploader`, `ProxyManager`, `Webhooks` |
| `TesterProofs` | theorems about `MCTesters`: `WindowsDebugger`, `InputTester`, `TargetTester` |
| `TaskProofs` | theorems about `Tasks`: `CrashReports`, `CoverageTask`, `DotnetCoverage`, `Merge`, `Analysis`, `Regression`, `FuzzTask`, and the `Agent` of an unmanaged node |
| `RuntimeProofs` | theorems about `MCRuntime`: `ResultMonitor`, `Generator`, `LocalRun`, `Supervisor`, `RuntimeStats`, `TerminalUi` |
| `CoverageProofs` | theorems about `MCCoverage`: `LinuxRecorder`, `WindowsRecorder`, `Sweep`, `SourceCoverage`, `Expand`, `BlobUrl` |

`Tasks` and the MC modules that hold several put components that do not interact into one
specification: a variable `task` (or `part`) is chosen in `Init` and says which
component runs, as `Config::run` does for the task of a process (in `Tasks` it is the kind of the task and the
name of its configuration); variables that
a component does not have are `None` and stay so.  Their state space is the sum of
those of the components, not the product, and a property says for each component what it
means there.  Components that do interact are one module or one composition: `Agent`
with the service's view of it, its files and its tasks; `Jobs` with timer, handlers,
queue and nodes; `PoolQueue`, `CrashReports`, `Merge`, `Analysis`, `Regression` with several
nodes on one queue and one set of containers; `FuzzTask` with workers, monitors and
uploads; `DotnetCoverage` with its two loops; `LocalRun` with fuzzer, monitors, channels and
followers.

### Agent

`pc` is the point of the program between two awaits; `sched`, `cause`, `work`,
`workers`, `prev`, `lastPoll` are the fields of `Agent` and `Scheduler`; `doneLock`,
`rebootCtx`, `workCtx` are the three files; `proc` and `ipc` the task processes and
their channels; `view` and `taskView` what the service was last told.  `deaths`,
`diedAt`, `claimed`, `stopNode`, `stopTasks`, `setupOk` are history variables: no
action other than their own update reads them, except the bound on `deaths`.

Each handler of `Agent::run` is one action or, where it awaits between two effects,
a sequence of them (`SetDoneLock` then `EmitDone`, `SaveContext` then
`FinishSetup` or `SetupError`, `SaveReboot` then `Reboot`).  `Die` ends the process
at any point and is the model of every `?` that leaves `run`, of panics and of
kills; `LoseMemory` keeps the files and closes the channels.  `Start` is the service
manager.  The requests themselves are abstracted to their outcome: an event is
received or the agent dies.  Setup scripts and downloads succeed or fail.

The IPC channel matters: when the agent dies, a task notices that its channel is
closed and shuts down (`TaskShutsDown`), which may come after the crash report.

### NodeContract

Four variables: the announced state, what was announced of each task, the work set
the image answers for and whether it is closed.  Its actions give the legal orders
of events.  `Agent` maps `committed` to `workCtx` and `closed` to `doneLock`, and
`ImplementsContract` is checked as a property of the run `agent`.  The nodes of
`Jobs` are an environment that sends events in the orders of this contract; their
phases collapse `Rebooting` and `Ready` into `SettingUp`.

### Jobs

`task`, `job`, `nodeTasks`, `messages`, `keep` are the tables, `inputs` the input
queues, `queue` the pool's queue as a bag, `node` what each machine is doing.  The
timer function is a process: `at` is the part of `TimerTasks.Run` it is in, `snap`
and `snapJob` the records it has read and not yet used, `iter` the loop of
`ProcessStateUpdates`, and `chunk`, `todo`, `units` the locals of the scheduler.
Its writes start from the record in `snap`, not from the table: that is where the stale
upserts come from.  The stop of a task or a job goes call by call (`current`, `listed`,
`newJob`, `back`): `StoppingTask` sends the commands, `CheckNodes` looks for nodes, `StoppedTask`
writes the record, `DeleteQueue` removes the queue and asks whether all tasks are stopped, and `StopIfAllDone` stops the job;
`JobStopping` queries the tasks, `StopListed` marks them one by one and `JobStopped` writes the
job.  `StopNeverStarted` reads the job and its tasks, and marks them and writes the job in later steps.  A request that creates a task has passed its check of the job
(`PostTask`, `creating`) before it inserts the record (`CreateTask`).

Histories, which only properties read: `replaced` collects the records on which a stale write undid a
set-up or an end time, `revived` the tasks that a SettingUp event took out of Stopping or Stopped, `late`
the tasks inserted when the job was or was about to be Stopped (both until the task stops), `leaked` the stopped tasks whose queue an
aborted timer has left, `overlooked` the tasks that a node has set up between the check of the nodes and
the write of Stopped.

Abstractions, each a choice:

* One job.  Jobs share the pool's queue and nodes, and nothing else.
* The other HTTP handlers and the event handlers are atomic: they write the record they have just
  read.  So are `MarkFailed` with the dependents it reaches, and the commands that one stop of a task
  sends.  Two invocations of the timer do not overlap (a timer trigger is a singleton).
* Clocks are nondeterministic: a task or job with an end time may expire at any tick.
* Prerequisites are never missing, because `Tasks.Post` has looked them up and no
  task record is deleted while its job lives.
* A machine goes together with its record: `RemoveNode` is the deletion or reimage
  of a node, at any time, for whatever reason `NodeOperations` and
  `ScalesetOperations` have; `OtherStop` a Stop command from there.
* The reasons for which `BuildWorkUnit` fails a task (no pool, invalid
  configuration) are a choice; a bucket whose configurations differ throws, which is
  one of the faults of `AbortTimer`.
* `faults` bounds aborted ticks, partial failures of the queue, lost claims, crashes
  and silent ends of agents.  An agent that dies between its claim and the saved context, before or
  after its SettingUp event, is `LoseClaim`.
* An event is delivered once; a retry of one that had arrived is not modelled.
  The exception is the report of a crash, which may be repeated.

### The tasks

Every task is a process with a program counter `pc` (per node where several nodes run it),
the containers are sets or functions of model values, and an input queue is a function from
messages to a state, a receipt and a count of deliveries (`MaxPops` bounds them).  A message
becomes visible again at any time (`Expire`), so that a slow node works on what another has;
`Die` (or the error path `failed`) ends a task between any two awaits.  Inputs, stacks, blocks
and features are small sets; what the target does with an input is a choice where it may be
flaky, a constant where it is not.  Azcopy, libFuzzer, the analyzer and `dotnet-coverage` are
external: each is what the code uses of it (which files it may read, write and remove, and
that it may fail before, in the middle of and after its work).

* `CrashReports`: `unique`, `reports`, `noRepro` are the containers; an upload is conditional
  (`If-None-Match`) and its answer may be lost.
* `FuzzTask`: a file is moved from the worker's temporary directory to the crash directory,
  where the monitor sees it.  A rename into a watched directory counts as a creation (what the
  version of `notify` in the lock file reports).
* `Merge`: `behind` (history) holds the nodes with a push that failed and none since that succeeded.  `DotnetCoverage`:
  `overlapped` says that one merge has written the file that the other had read before.
* `Analysis`: an error of the watch ends the monitor as a success (`WatchEnds`), and a report whose metadata cannot be
  read is skipped, as in the code.  `CoverageTask`: a file of earlier coverage is read or there is none; that
  one which cannot be read counts as empty is left out.
* `Generator` is modelled with `rename_output`.  Without it, later crashes replace
  earlier ones of the same name in the directory.
* `Supervisor`: a supervisor that exits with status 0 leaves the task running without
  heartbeats, as in the code.

* `LocalRun`: a consumer is one of the tasks with a queue (`Consumers`, in the order of
  `libfuzzer::run`); `created` holds the events of its watch, `queue` its channel, and `early` (history) the
  crashes that were there before the watch.  A consumer processes an input or fails.  The fuzzer may find a crash of the same
  name again, up to `MaxFinds` times.
* `TerminalUi`: `events` is the channel to `ui_loop`, which is one action per event; the
  tasks and the keyboard thread are `Thread(s)`.  A timer does not send again before its last event was
  taken, and the batch of 10 logs, the buffer of 100 and the broadcast channel of 5000 are constants of
  size 2, so that each overflows.  Several kinds in one telemetry event are events of their own.

### Around the agent's loop

`Registration` has one variable for the request under way (`kind`, `attempt`, `answer`) and
`after`, what to do with its result; every request of the agent goes through the same
`send_retry` with at most `MAX_RETRY_ATTEMPTS` retries, unless the backoff's
`max_elapsed_time` is over (`TimeElapses`).  A registration of a node that the service knows deletes its record and the
commands in it.  `TaskProcess` has the two
one-shot servers of `ipc-channel` with their timeouts, the kill after 90 seconds, the blocking calls
that a dropped runtime waits for, the pipes that a grandchild may hold open, and errors of the
channel (`ReceiveFails`).  `LogUploader` has azure_core's own retry, which sends a block again whose answer
was lost (`resent`).  A webhook message that was dequeued `MaxDequeue` times goes to the host's poison queue.

### Debuggers and recorders

A thread of the target executes, traps or exits (`Execute`); its stop is queued until the
debugger handles it (`Handle`).  Memory holds for each breakpoint address the breakpoint or the
original byte.  `LinuxRecorder` and `WindowsRecorder` are about which blocks are counted,
`WindowsDebugger` about stepping over with other threads suspended; an instruction that raises an exception
while it is stepped over is left out there.

`InputTester` has the two ways of running a target: on Linux (ptrace triage) and on Windows, where
`test_input_debugger` uses the debugger of `input-tester` (`Windows`).  A killed target may end later than the kill.
`TargetTester` names a sample by the content and the extension of its input (`Content`, `Ext`).

### Algorithms

`Sweep` runs the work list of `sweep_region` on every function of four bytes over a set of
instructions (branches, calls, calls that do not return, returns, with unaligned targets) and
compares with the reachable addresses as a least fixed point.  `Expand` compares the evaluation
with a stack against a bottom-up definition; a text there is a sequence of tokens, a placeholder
(`{input}` is written `<input>`) or a word, of which some name no file (`Missing`) or leave a path without
a file name (`Nameless`).  `SourceCoverage` compares the conversion of merged counts
with the merge of converted counts; no allowlist (`None`) allows every file, an empty one none.  `BlobUrl` is checked over every URL of
up to three segments with any of three schemes and any kind of host, file URLs with a host included.

## Runs

| Run | Instance | Properties |
|---|---|---|
| `agent` | two work sets, {t1,t2} with a reboot and {t1}; two deaths | `TypeOK`, `WorkTracked`, `SetupBeforeRun`, `SilentOnlyIfCut`, `DoneIsTrue`, `ImplementsContract`, `ImageEnds` |
| `jobs` | t1 and t2 in one bucket, one task per work set, t2 depends on t1; one node | `TypeOK`, `JobStoppedMeansTasksStopped`, `Provided`, `NodesMatchTasks`, `StoppedUntilSetup`, `FailurePropagates` |
| `jobs_live` | one task that asks for two nodes, one node, kept on completion; one fault | `Provided`, `StoppingEnds` |
| `tasks` | each task that shares containers, mostly two nodes, one or two messages that are delivered two or three times; the agent of an unmanaged node | `AcknowledgedIsStored`, `ExistingHandled`, `ResultsArrive`, `UnmanagedSafe`, `StoredStays` |
| `task_runtime` | crash reports, fuzzing, monitors, supervisor, statistics, generator; a local run with a terminal (one consumer, one crash that is found twice) and one with a timeout (two consumers, one crash); the terminal with statistics and logs, and with directories and keys; with fairness | `NothingMissed`, `ToldIsTrue`, `BegunEnds` |
| `node` | registration (four faults, two expiries), pool queue (two nodes, two work sets), task process (left by its agent or not), log upload, proxy; webhooks (two functions, three tries, two deaths, `MaxDequeue` 2, one lost answer, one failed write) | `ScheduledOnce`, `ProcessAccounted`, `LogComplete`, `ServesWhatItReports`, `NeverForgotten`, `RepeatedOnlyByFault`, `FaultsTolerated`, `NodeRecovers`, `DeliveryEnds` |
| `testers` | debugger with three threads and two breakpoints, input tester with two threads on Linux and on Windows, crash tester on one and on three inputs | `BreakpointsKept`, `CrashFound`, `TestsEnd` |
| `coverage` | the Linux recorder with two threads and two modules and with three threads and one module, the Windows recorder with two of each; sweep, source coverage, expansion, URLs | `CountedIsExecuted`, `BlocksExact`, `ReportExact`, `CommandMeant`, `UrlRoundTrip` |
| `agent_slots` | no deaths | violated: `SlotsFull` |
| `jobs_setup` | as `jobs`, with both tasks in one work set | violated: `SetupPreservesStop` |
| `debugger` | two threads, two Counter breakpoints | violated: `CounterRestored` |
| `source_lines` | as `coverage`, with functions of one byte | violated: `SplitLineMissed` |

A property of these runs is a conjunction of named parts, defined and explained in the module of
the component.  In short:

* `WorkTracked` (`ContextBacksWork`, `ClaimTracked`): what is being worked on is on disk, and a
  claimed work set is forgotten only in the window between claim and save.
* `SetupBeforeRun`: no worker without a successful setup, across reboots.
* `SilentOnlyIfCut`: a locked agent that has not said Done died between lock and event.
* `DoneIsTrue` (`CleanDone`, `DoneMeansExited`): what Done says has happened.
* `ImplementsContract`, `ImageEnds` (`CrashReported`, `NeverStuck`): refinement and liveness.
* `StoppedUntilSetup`: only a SettingUp event brings a stopped task back.
* `JobStoppedMeansTasksStopped`: a stopped job has stopped tasks only, apart from `revived` ones and from those
  that a request inserted after the job's own query of its tasks (`late`).
* `Provided` (`RunningExpires`, `JobClock`, `InputQueue`): clocks are set, except where the timer
  undid them, and input queues exist as long as tasks need them and no longer, unless the timer is aborted
  between the write of Stopped and the deletion (`leaked`).
* `NodesMatchTasks` (`StoppedMeansIdle`, `NoDoubleScheduling`): no node that has announced a stopped
  task still has it to run, unless it announced it between the timer's check and its write (`overlooked`); without a
  fault a task is not queued and running more often than it asked for.
* `FailurePropagates`; `StoppingEnds` (`TaskStops`, `JobStops`): dependents fail with a failed
  task; a task or job being stopped does not stay so, except a failed task that was revived.
* `AcknowledgedIsStored`: a queue message is deleted only when what it asked for is stored.  For a merge this is the
  container, except what a libFuzzer node has in its own copy since a push of it failed (`behind`); for .NET
  coverage the coverage file, as long as no two merges have overlapped.
* `ExistingHandled`: what was in the containers before is dealt with before a task goes on or ends.
* `ResultsArrive`: reports are announced once and in order; what a fuzzer found is somewhere, and
  uploaded whole.
* `StoredStays`: no node removes or replaces what another has stored.
* `UnmanagedSafe`: `SetupBeforeRun` and `SilentOnlyIfCut` where an operator may remove lock and context.
* `NothingMissed`, `ToldIsTrue`, `BegunEnds`: monitors, heartbeats, statistics and what the
  terminal shows; what was begun ends, local runs and their terminal included.  In a local run a crash is on its way
  to each follower once for each time it was found.
* `ScheduledOnce`, `ProcessAccounted`, `LogComplete`, `ServesWhatItReports`, `FaultsTolerated`,
  `NodeRecovers`: the parts around the agent's loop tolerate the faults their retries are for and come to
  rest when the faults end.  `FaultsTolerated`: before more faults than `send_retry` tolerates, or its `max_elapsed_time`, have
  met one call, no request fails, no command is lost and no registered node is registered anew.  `LogComplete`: the blob is a beginning of
  the log, and all of it after a stop, unless azure_core has appended a block twice.
* `BreakpointsKept`, `CrashFound`, `TestsEnd`: debugger and testers.  `CrashFound`: a crash that a run showed is reported; what
  is called clean ran to its end or, on Windows, to the time limit; a content with one extension is reported once in a bucket.
* `CountedIsExecuted`, `BlocksExact`, `ReportExact`, `CommandMeant`, `UrlRoundTrip`: from code to report.  `CountedIsExecuted`: what ran
  in an instrumented module is counted, since its last mapping on Linux and during its first load on Windows.  `UrlRoundTrip`: an https
  blob is read back as it was named, a local file as its last segment.
* `NeverForgotten`, `RepeatedOnlyByFault`, `DeliveryEnds`: webhooks.  An event that is not settled is queued or in hands, except after a
  failed write, the sender's death or the move to the poison queue.

Some parts carry exceptions (`revived`, `replaced`, `late`, `leaked`, `overlooked`, `Stuck`, `faults = 0` in `Jobs`, the fault counters of
`Webhooks`, `behind` and `printed` in `Merge`, `overlapped` and `unwritten` in `DotnetCoverage`, `early` and `cut` in `FuzzTask`, `early` in
`LocalRun`, `cut` and `missed` in `TerminalUi`, `resent` in `LogUploader`, `late` in `Registration`, `lost` in
`LinuxRecorder`, `unloaded` in `WindowsRecorder`).  They are the places where the code does less than one would
like; each is written into the property so that nothing beyond it goes wrong.

**Bounds.**  Two deaths let the agent die once while it works and once while it
reports.  Two tasks are the least for propagation, and for a bucket that does not fit into one work set
(`MaxTasksPerSet`; both in one set take more than twice the states, and are left to the theorems); and a task that asks for two nodes
(`AloneCount`) the least for a copy that is still queued while another runs.  `MaxUpdates` is 2 instead of 5: the second iteration already runs a
handler on a record it has changed, and further ones repeat the second.  One fault is
enough for each window between two writes.  Two deliveries of a message are the least for a
claim that expires while its holder works, and three let the overtaken node come back.
Retry limits are 1 to 3 instead of 3 to 10: the code compares a counter with the limit, and the
cases are below, at and above it; `Registration` has one fault more than it takes to
exhaust one request.  Three threads are the least for a queued stop of a
thread that is suspended while two others are at breakpoints.  Four-byte functions hold two
branches that cross.  Nodes and workers are interchangeable in `tasks`
(`SYMMETRY`), which checks no liveness.

**Deadlock.**  `Agent` stops when its image is locked, tasks and tests end, so these
configurations switch the check off; the liveness properties say where they may stop.
`Jobs` never stops, and its runs check it.

**Fairness.**  `Agent`: weak fairness of the service manager (`onefuzz.service` has
`Restart=always`, `onefuzz-run.ps1` loops) and of a running process.  Nothing is
assumed of task processes, commands or deaths other than that their number is bounded.
`Jobs`: the timer fires every 15 seconds, agents keep sending their events and polling
commands, nodes that are done are removed by `TimerWorkers`.  Users and tasks owe
nothing.  The components: weak fairness of each loop or background task that tokio or a
thread runs, of expiring visibility timeouts and of the 15-second timer of the proxies.
`PoolQueue` has strong fairness of two steps: a pop of a given message (the queue hands out every
visible message in the end, though each can be invisible again and again) and the reimaging of an
outdated node.  In `TaskProcess` the task owes nothing when it is to be stopped, because it is killed
after a timeout; it is assumed to run on only once its agent has failed or gone (`Left`).  Faults are bounded by constants; nothing
else keeps them away.

**Mutants.**  `PROJECT.json` names, for each property of each passing run, a mistake in a modelled
definition that breaks it; these definitions stand before the ones they distort, with the suffix of
the mistake (`ReportUnit_First`, `Retry_OffByOne` and so on), and are used nowhere else.

## Proofs

TLC checks the instances of the runs; the theorems hold for every value of the constants that
satisfies the assumption of the module (`AgentAssumption`, `JobsAssumption`, and for the compositions `NodeAssumption`,
`TestersAssumption`, `TasksAssumption`, `RuntimeAssumption` and `CoverageAssumption`, which collect those of their
components); TLC evaluates it in each run.  Every invariant that a passing run checks is a theorem, and so is each of its action
properties.  Every theorem has the same argument: an inductive invariant, a lemma that it holds initially, lemmas
that each action keeps it, and a temporal last step.  The theorems of `NodeProofs`, `TesterProofs`, `TaskProofs`, `RuntimeProofs` and
`CoverageProofs` are about the composed specifications that the runs check; the invariant of a composition is, for each
component, that this one runs and satisfies its own.  Only `ToldFirst` is about a component alone.

Two techniques stand in for induction over data, which the provers cannot instantiate.  A statement about all natural numbers is shown by
its least counterexample (`LeastNumber`, from the well-foundedness of the naturals).  A recursive function is a `CHOOSE` of
a solution of its equation: first the equation is shown to have a solution, from approximations that satisfy it up to a number, and then
the properties of any solution are shown, again by a least counterexample.  A recursion that does not count down needs a
measure: the end of the code for `Sweep`, the placeholders that are not on the stack for `Expand`.

**`Agent`** (`AgentProofs`).

* `TypeCorrect`: `TypeOK` alone is not inductive: `EmitStateUpdate` and the worker actions need to know which
  `sched` a `pc` allows and that `work` is a work set wherever it is used.  `Shape` says so; `TypeInv` is the conjunction.
* `SilentOnlyInOneWindow`, `NoWorkerBeforeSetup`: from `SafeInv`, which adds `LockShape`, where the program can be
  while the lock exists, and that the service was told before the lock where the crash report ends.
  `SafeWithoutService`: the same on an unmanaged node, where the lock and the context may be removed.
* `NodeTracksWork`, `NodeTellsTruth`: from `AgentInv`.  For each `pc` it says which files exist (`DiskShape`), which
  work set is claimed and which of it is on disk (`ClaimShape`), what the processes, the workers and the announced task
  states may be (`TaskShape`), what the service was last told (`ViewShape`), and what is known after a death (`CrashShape`).
* `NodeKeepsContract`: `Managed => (Spec => ImplementsContract)`, the refinement of `NodeContract`.  The lemma
  `ContractInit` maps the initial states; then one step per action shows that it is an action of the contract or leaves its
  four variables alone, with `AgentInv` where the contract's guard is about what happened before.  An unmanaged
  node does not implement the contract, because an operator may remove the lock that ends it.

**`Jobs`** (`JobsProofs`).  `JobsInv` relates the tables to what the timer function still holds: a task whose record is in
`snap` has not been stopped since and has not lost its error or end time (`SnapShape`), the queues and clocks behind
what the timer will write are there unless `replaced` or `revived` says otherwise (`SnapInputs`, `SnapClock`), and what a node has
announced is in its table of tasks and not stopped (`NodeShape`).  Between the calls of a stop it says what the calls so far have
established and which task or record the next will write; a step of another actor that takes this away is exactly one that puts the task into `late`, `leaked` or `overlooked`.  The effects of the handlers on tasks, nodes, the job
and the timer are stated once (`TaskEffect`, `NodeEffect`, `JobEffect`, `TimerEffect`), proved for each action, and the
invariant is shown from the effects.  From it: `TypesKept`, `StoppedJobHasStoppedTasks`, `TasksProvided`
and the action properties `StoppedLeavesBySetup` and `FailureReachesDependents`.  The latter
needs what the recursion of `MarkFailed` reaches, which the model defines as a least closed set, so that `ReachFacts` needs no
induction.

`NodesAgreeWithTasks` adds `CopiesInv`: while there is no fault, a task that the timer may still schedule, from its record or from a
stale copy of it, is neither queued nor on a node (`Unscheduled`), and the tasks of a chunk are of one bucket, so that they ask for the same number of copies.
`Queued` numbers the equal messages of the queue, which stays a bag, so that the copies of a task are the size of a set instead of a sum.

**Around the agent's loop** (`NodeProofs`).

* `RequestsTolerateFaults`: `Counted` says how many faults the attempts of the request under way account for, and whether its
  time has elapsed.
* `WorkerTellsTruth`: `Tailed` (the buffers hold the end of what was written), `Ended`, `ClosedMeant` (who closed a channel).
* `OneNodePerWorkSet`: a message is deleted exactly when its fate is decided (`Settled`), and a node that has claimed is
  the only one (`RanOnce`).
* `LogArrives`: with `OneNode` (in `NodeAssumption`).  The blob is the log up to what the pass has read, plus the blocks of this pass; an append
  that took effect unanswered is in `resent` until the pass ends.  Several nodes append to one blob (see the findings), and then the blob is not the
  log of any of them.
* `EventNeverForgotten`, `DeliveryRepeatedOnlyByFault`: where the one message of an event is and how often it was dequeued, and that posts are at most the
  tries recorded plus the tries lost to faults.
* `ReportIsServed`: what the unit files, the loaded units and the active ones are at each point of `proxy::update`.

**Debugger and testers** (`TesterProofs`).

* `WindowsDebugger`: `ToldFirst`, for all breakpoints, from `RemovedReported`: a breakpoint is
  taken out only after it was reported.  `CounterKept`: with `OneCounter` (in `TestersAssumption`), the hypothesis that only one breakpoint has to be
  restored, which is what the comment of `restore_breakpoint_pc` takes for granted.  Without it the statement is
  false; the run `debugger` has the counterexample.
* `CrashIsFound`.  `InputTester` (`InputInv`): a run that showed a crash ends the test, so that no later run can lose it; on
  Windows a target outlives its run only when the debugger failed.  `TargetTester`
  (`TargetInv`): an exception nobody handled is the last of its run, and the filter, a recursion over the exceptions, drops first
  chances only; so the one second chance of a
  result names the bucket.  No code has more second chances than first ones, so that the subtraction in `Summary::update` does not
  underflow.  Which input is at hand at each `pc`, with the results and reports so far, is in `PlaceInv` and `BucketInv`.

**The tasks** (`TaskProofs`).  Five theorems say what the tasks promise alike, each with one conjunct per task:
`AcknowledgedKept`, `ExistingKept`, `ResultsKept`, `ContainersKept`, `UnmanagedKept`.  They are theorems
of `Tasks`.  Each kind of task has an invariant and lemmas with its configuration as a parameter; `TasksInv` says that the task
that runs satisfies the invariant of its kind, and `StepOfTask` that every step is a step of that task.

* `CrashReports` (`ReportsInv`): what a worker holds at each `pc`; a deleted message has a stored report; what was
  announced is stored.  Its containers only grow (`ReportsStay`).
* `CoverageTask` (`CoverInv`): the coverage in memory is ahead of the saved one, which covers the inputs of
  the corpus that were recorded.  `DotnetCoverage` (`DotnetInv`): the recording of a message is there before the message goes, and
  stays in its file until a merge has folded it in; what a merge has read is in what it writes.
* `Merge` (`MergeInv`): by `pc`, the features of the candidates are in the corpus, in the candidate that a queue message
  still names, or in the copy of a libFuzzer node in `behind`.
* `Analysis` (`AnalysisInv`), `Regression` (`RegressionInv`): which inputs are done, under way and left.
  The first attempt at `AnalysisInv` failed at `Start`: the model reset the list of every node that ran when one
  started.  TLC confirmed it with two nodes, and `Start` was corrected.
* `FuzzTask` (`FuzzInv`): a partial blob means an upload that was cut; a file in the crash directory was found; a file that is
  there before the monitor watches is in `early`.

* `UnmanagedKept` is about the types of all tasks and about the agent of an unmanaged node.  `TypesInv` has what the invariants above
  leave open (`CorpusCounted`, `RegressionData` and so on); the agent's part is the invariant of `AgentProofs`, whose lemmas are
  instantiated.

**Tasks at run time** (`RuntimeProofs`).

* `NothingIsMissed`: `MonitorInv` (what is seen lies in the present incarnation of the directory, only a watch on that incarnation sees
  it, and the watch is told of the removal of its incarnation and of no other), `GeneratorInv` (with `rename_output`; without it a later
  crash replaces an earlier one of its name), `LocalInv` (until its monitor watches, nothing has come through the channel of a
  follower; files that were there before the watch stay; a find is in one place of the way to a follower).
* `ToldTrue`: `SupervisorInv` (the supervisor's end is kept as a permit until the heartbeats look, so at most one heartbeat is late),
  `StatsInv` (the messages of a worker are in order and newer than what the total has of it, and the last one of a run has its number
  of iterations; the sums are folds, which are unfolded one worker at a time), `TerminalInv` (the selection, the shown logs and what
  still waits in the channels).

**From code to report** (`CoverageProofs`).

* `RecordersCountExactly`: `LinuxInv` and `WinInv`.  A block of an instrumented module has its breakpoint, or is counted, or its stop is being handled
  (on Linux, or its count was dropped with an earlier mapping; on Windows, as long as its module has not been unloaded); a
  deferred module has a breakpoint at the return address for which the thread that entered is on its way.  `CoverageAssumption`
  leaves out what is under "Recorders" in the findings (`Reload`, `OthersReturn`, `SymFails`, return addresses that modules share).  The first attempt failed for
  three threads: `OnBreakpoint` of the Linux model recorded a block in its history `executed` although another thread had unmapped the
  module before the stop was handled.  TLC confirmed it with three threads and one module; the history was corrected and that configuration added to the run.
* `SweepIsExact`: `SweepInv`.  Some set of addresses holds what was visited, is closed under falling through, and every other successor of its
  members is visited or pending (`Swept`), so that at the end it contains what can run.  What is visited or pending is a leader, and where a
  block ends is shown downwards from the end of the region (`Ends`, `TopDown`).
* `ReportsAreExact`: `SourceInv` says that a line has the largest count of the converted blocks it belongs to.  The totals are folds over sets of classes and
  packages whose lines are disjoint: the size of the union satisfies the fold's equation, and nothing else does.
* `CommandsAreMeant`: `ExpandInv`.  A placeholder that gets its value in round k of the bottom-up definition is replaced by that value with every stack
  that has no placeholder of that round (`ReplaceKnown`); one that gets none fails with every stack (`ReplaceUnknown`, by the measure); and the rounds come to a
  fixed point because each adds a placeholder or is the last (`ChainEnds`).  The flag of a mode is the second argument, and only the
  first could hide it.
* `UrlsRoundTrip`: `UrlInv` and the index arithmetic of concatenated paths.

The proofs changed the model where it could not be reasoned about: the evaluation of `Expand` is a recursive function of a text and a stack, the filter of the custom
options another (`Kept`), the tokens of `Expand` a set of its own, the copies of a task in `Jobs` are counted as a set (`Queued`), and the inputs of `SourceCoverage` and `Expand` are constants of `MCCoverage` with their
assumptions; `Regression` and `CoverageTask` state the shape of their files and that a corpus is finite.

**Model-checked only**: liveness (`ImageEnds`, `StoppingEnds`, `BegunEnds`, `NodeRecovers`, `DeliveryEnds`, `TestsEnd`) and everything
with fairness, which is out of the prover's reach.  That the recursions end in the code is not stated either: the theorems say what they compute.

## Findings

Four disagreements between the code and its own statements are kept as runs:

* `agent_slots`: `State<Busy>::stop` empties the slots of the other workers, and `update`
  unwraps them (`agent/onefuzz-agent/src/scheduler.rs:310`, 281).
* `jobs_setup`: a SettingUp event brings a stopped task back (`S/Functions/AgentEvents.cs:135`).
* `debugger`: of two Counter breakpoints that two threads have run into, one is never written again, because the
  stop of the second thread overwrites the one address to restore (`agent/debugger/src/target.rs:569`; lines 186-187
  say that one is enough).  The recorders use OneTime breakpoints, which are not restored.
* `source_lines`: a line counts as reached when any part of it was, although the comment says "If we miss any part of a
  line, count it as missed" (`agent/coverage/src/source.rs:124`, 123).

The following were met while modelling.  The models behave as the code does here; the properties
are stated so that they hold nevertheless, or the instance leaves the case out where this is said.

Agent and service:

* `Tasks.Post` checks the job and inserts the task later (`S/Functions/Tasks.cs:121`, 141), and `JobOperations.Stopping` queries
  the tasks and writes the job later (`JobOperations.cs:108`, 124): a task inserted in between stays Init under a Stopped job (`late`).
* A timer that is aborted between `SetState(Stopped)` and the deletion of the queue leaves the queue for ever
  (`TaskOperations.cs:350`; `leaked`).  A SettingUp event between the check of the nodes (342) and that write leaves a Stopped task
  on a node (`overlooked`).
* A restarted agent announces Init again, and the service clears the node's reimage request on Init
  because "nodes only send 'init' state once" (`AgentEvents.cs:98`).
* A failed task that was put back into SettingUp survives the Done of its node
  (`TaskOperations.cs:120`; `AgentEvents.cs:160` says such tasks are stopped early).
* A task whose prerequisite is in its bucket is scheduled although the prerequisite was skipped
  (`Scheduler.cs:84`); one created after its prerequisite failed is scheduled
  (`TaskOperations.cs:284`).
* `ProcessStateUpdates` runs the handler of Stopping again on a stopped job (`orm/Orm.cs:328`).
* `Registration::create` never reaches the branch that waits for the scaleset (`config.rs:281`), and a
  refused pop is not recognised as an expired SAS URL (`work.rs:185`), because `send_retry`
  returns an error of its own: the agent ends and renews at its restart instead.
* A claim whose answer is lost is deleted and reported as failed; the work set does not
  reappear (`agent.rs:152`).  A work set whose first task is stopped is dropped with all others
  (`coordinator.rs:267`).
* A task that runs out of memory does not exit: the runtime it drops waits for `shutdown_listener`
  (`T/managed/cmd.rs:76`).  An agent whose task exits before it connects waits for its own accept
  (`worker.rs:195`) and is not restarted.
* A node that registers again loses the commands in its record (`S/Functions/AgentRegistration.cs:132`).
* A webhook message whose host dies `MaxDequeue` times goes to the poison queue, which nobody reads; its event is then neither
  delivered nor given up.
* `append_block` has no condition on the position, and azure_core sends a request again whose answer it has not got: a block may be in the
  log blob twice (`log_uploader.rs:210`).
* All nodes that run a task append to one log blob, named after the deployment (`worker.rs:262`);
  `LogUploader` is checked with one node.
* `UpdateOrCreate` of a forward looks at no port of another machine (`ProxyForwardOperations.cs:59`), so a
  forward may be overwritten; a manager killed between a file and its unit never repairs the
  unit (`proxy-manager/src/proxy.rs:114`), which is why `Converges` excepts crashes.

Tasks:

* A libFuzzer merge that prints no result is taken for one that adds nothing, and its input is
  deleted (`agent/onefuzz/src/libfuzzer.rs:434`): `NothingForgotten` excepts it.
* Reports that the analyzer writes for existing crashes are not monitored
  (`T/tasks/analysis/generic.rs:98`).
* The two loops of the .NET coverage task may drop each other's coverage
  (`T/tasks/coverage/dotnet.rs:158`): after such an overlap `AcknowledgedIsStored` of `DotnetCoverage` only says that
  the recording was folded in once.
* A libFuzzer merge whose push failed has the input in the node's copy of the corpus: when its message comes back, the merge finds "no new
  files", does not push and deletes the message.  Until a later push only the node has the input (`T/tasks/merge/libfuzzer_merge.rs:146`; `behind`).
* An input whose stack is already the name of a regression report is not recorded, and a regression report
  has no `input_blob` (`T/tasks/regression/common.rs:98`, 153).
* `monitor_results` ends with an error when the directory is removed right before it is watched
  (`agent/onefuzz/src/syncdir.rs:246`).
* In a local run, a crash that is found before the spawned monitor watches is never reported
  (`T/local/common.rs:298`): a consumer with a queue has no directory to process in batch
  (`T/local/libfuzzer_crash_report.rs:59`).  `OnItsWay` and `CrashesProcessed` except these (`early`).  An error
  of the watch ends the monitor as a success (`agent/onefuzz/src/monitor.rs:73`), and the run goes on deaf.  A crash that is found again
  under the same name is enqueued again (`T/local/common.rs:308`).
* The terminal stays in raw mode when the command ends first (`T/local/cmd.rs:91`) or drawing fails
  (`T/local/tui.rs:443`); a directory that does not appear within ten seconds is never counted (630).
* The queue in a file writes XML and reads bincode (`agent/storage-queue/src/local_queue.rs:26`); it
  is not modelled.
* With `-ignore_remaining_args=1` among the user's options, `LibFuzzer::repro` hides the input
  (`libfuzzer.rs:378`); `{input_file_name}` fails with an input marker (`expand.rs:180`).

Recorders, debugger, testers:

* An image mapped again at the same base gets no breakpoints (`coverage/src/record/linux/debugger.rs:377`;
  `Reload` is FALSE), and two threads that trap at one breakpoint put the second off track (163).  A module mapped again
  elsewhere starts with new counts, and those of its earlier mapping are dropped (`coverage/src/record/linux.rs:102`; `lost`).
* A Windows module that is unloaded and loaded again gets no breakpoints, so that what runs in it then is not counted
  (`coverage/src/record/windows.rs:161`; `unloaded`).
* A second deferral to one return address loses the first (`RetOf` gives each module its
  own), a return on the wrong thread resets the wrong breakpoint (`OthersReturn` is FALSE), and a failed
  symbol initialisation leaves all breakpoints unresolved (`SymFails` is FALSE)
  (`coverage/src/record/windows.rs:126`, `debugger/src/target.rs:270`).  The second report of a one-time
  breakpoint ends the recording (`windows.rs:139`).
* A breakpoint is restored by the first of several stepping threads (`debugger/src/breakpoint.rs:137`).
* Triage blames the process's first thread (`onefuzz/src/triage.rs:62`).
* On Windows `test_input_debugger` takes a run that came to the time limit for a clean one
  (`onefuzz/src/input_tester.rs:139`), and a debugger that fails leaves the target running.
* In the crash tester equal contents with two extensions are reported twice and share one log directory (`tester.rs:460`), a failed
  stack walk loses the exception, equal handled exceptions collapse (`crash_detector.rs:340`), equal inputs with different
  stacks are stored twice (`tester.rs:465`), a throw is preferred (435), children are not debugged, and a
  sample without a log directory counts half (229).
* `instruction_offsets` skips the last instruction of a block (`coverage/src/source.rs:160`), and the base denylist
  of Windows is dropped (`T/tasks/coverage/generic.rs:176`).
* A file URL that `to_file_path` refuses, one with a host on Linux, is kept as a blob with an account and a container, and its directories
  after the first become part of the name (`onefuzz/src/blob/url.rs:22`, 132).

## Not modelled

`PROJECT.json` gives the reason for each part.  In particular:

* The record of a node and the scalesets (`NodeOperations`, `ScalesetOperations`, `ShrinkQueue`, `AutoScale`,
  `VmssOperations`): mostly answers of the cloud.  Three hazards are there and in no module: a failed conditional update
  of a node is only logged (`NodeOperations.cs:569`), the cleanup of a scaleset queries its nodes three times
  (`ScalesetOperations.cs:561`), and the shrink queue is refilled while nodes take from it (`ShrinkQueue.cs:57`).
* Repro machines, notifications, daily timers, the VM of a proxy.
* Cloud provider calls, storage, authentication, serialization, the CLI and the deployment: I/O or local
  computation without a protocol of their own.
* Symbols, stack walking, object files, XML, stack trace parsing: text and formats, whose interesting inputs
  a finite instance does not reach.

## Plan

1. `NodeLife`: the record of a node with conditional updates (`NodeOperations`,
   `AgentEvents.OnStateUpdate`, `TimerWorkers`, heartbeats), composed with `NodeContract` as its environment.
2. `Scaleset` and `Pool` on top of it: resize, shrink queue, cleanup, shutdown.
