------------------------------- MODULE LocalRun -------------------------------
(***************************************************************************)
(* onefuzz-task local libfuzzer: a fuzzing task and the tasks that look at  *)
(* its crashes, all in one process.  Each of these follows the directory of *)
(* the crashes through a DirectoryMonitorQueue: a spawned task that watches *)
(* the directory and puts what it sees into a channel.                      *)
(*                                                                         *)
(* The tasks themselves are in FuzzTask, CrashReports, CoverageTask,        *)
(* Analysis and Regression, the terminal in TerminalUi: here they work,     *)
(* end or fail.                                                            *)
(***************************************************************************)
EXTENDS Naturals, Sequences

CONSTANTS
    Consumers,   \* the tasks with a queue, in the order of their start: "report", "coverage", "analysis"
    Regression,  \* --regression_reports_dir is given
    Ui,          \* --tui
    Timeout,     \* --timeout
    Files,       \* the names of the crashes that the fuzzer may find
    MaxFinds,    \* bound: how often it finds one of the same name
    None

Elements(s) == {s[i] : i \in DOMAIN s}
NoneTwice(s) == \A i, j \in DOMAIN s : s[i] = s[j] => i = j

\* What is put into the directory: a name, and which of the files of that name it is (0 is
\* one that was there before).  A crash is named by the hash of its input: the fuzzer may
\* find the same one again.
Finds == Files \X (0..MaxFinds)

LocalRunAssumption ==
    /\ Consumers \in Seq({"report", "coverage", "analysis"})
    /\ NoneTwice(Consumers)
    /\ Regression \in BOOLEAN /\ Ui \in BOOLEAN /\ Timeout \in BOOLEAN
    /\ MaxFinds \in Nat /\ None \notin Finds

Followers == Elements(Consumers)
Tasks == Followers \cup {"fuzz"} \cup (IF Regression THEN {"regression"} ELSE {})

VARIABLES
    process,   \* "running", or how it has ended: "ok", "error"
    command,   \* libfuzzer::run: "wait", "start", "join" or "error"
    started,   \* the consumers that were started
    tasks,     \* the spawned tasks: "off", "new", "run", "ok", "error"
    ui,        \* the spawned terminal: "off", "run", "ok", "error"
    dir,       \* the directory of the crashes exists
    files,     \* what was put there
    monitors,  \* monitor_directory: "off", "new", "watch", "ok", "error"
    created,   \* the create events it has yet to take
    queue,     \* the channel
    item,      \* the message that a consumer works on
    handled,   \* what it has processed
    early      \* history: the files that were there before the watch

flow == <<created, queue, item, handled>>
vars == <<process, command, started, tasks, ui, dir, files, monitors, flow, early>>

Per(x) == [c \in Followers |-> x]

Init ==
    /\ process = "running" /\ command = "wait" /\ started = 0
    /\ tasks = [t \in Tasks |-> IF t = "fuzz" THEN "new" ELSE "off"]
    /\ ui = (IF Ui THEN "run" ELSE "off")
    /\ dir \in BOOLEAN /\ files \in SUBSET (IF dir THEN Files \X {0} ELSE {})
    /\ monitors = Per("off") /\ created = Per(<<>>) /\ queue = Per(<<>>)
    /\ item = Per(None) /\ handled = Per({}) /\ early = Per({})

Running == process = "running"

----------------------------------------------------------------------------
(* libfuzzer::run                                                          *)

\* wait_for_dir: until the directory is there, or ten seconds are over.
WaitForDir ==
    /\ Running /\ command = "wait"
    /\ \/ dir /\ command' = "start"
       \/ ~dir /\ command' = "error"
    /\ UNCHANGED <<process, started, tasks, ui, dir, files, monitors, flow, early>>

\* DirectoryMonitorQueue::start_monitoring: a channel, and a task that fills it.
StartMonitoring(c) == monitors' = [monitors EXCEPT ![c] = "new"]

\* The monitor of the directory and the task on its queue: both are spawned, and
\* neither is waited for.  A consumer with a queue has no `crashes` to process in batch
\* (build_report_config, build_analysis_config).
StartConsumer ==
    /\ Running /\ command = "start" /\ started < Len(Consumers)
    /\ LET c == Consumers[started + 1] IN
         /\ StartMonitoring(c)
         /\ tasks' = [tasks EXCEPT ![c] = "new"]
    /\ started' = started + 1
    /\ UNCHANGED <<process, command, ui, dir, files, flow, early>>

StartRegression ==
    /\ Running /\ command = "start" /\ started = Len(Consumers)
    /\ command' = "join"
    /\ tasks' = IF Regression THEN [tasks EXCEPT !["regression"] = "new"] ELSE tasks
    /\ UNCHANGED <<process, started, ui, dir, files, monitors, flow, early>>

\* A configuration that cannot be built; what was spawned goes on.
ConfigFails ==
    /\ Running /\ command = "start" /\ command' = "error"
    /\ UNCHANGED <<process, started, tasks, ui, dir, files, monitors, flow, early>>

Failed == (\E t \in Tasks : tasks[t] = "error") \/ \E c \in Followers : monitors[c] = "error"

\* try_wait_all_join_handles: until the first failure, since the fuzzing task has no other end.
TryWaitAll ==
    /\ Running /\ command = "join" /\ Failed /\ command' = "error"
    /\ UNCHANGED <<process, started, tasks, ui, dir, files, monitors, flow, early>>

----------------------------------------------------------------------------
(* The tasks.                                                              *)

\* init_directories of the fuzzing task makes the directory.
FuzzInit ==
    /\ Running /\ tasks["fuzz"] = "new"
    /\ tasks' = [tasks EXCEPT !["fuzz"] = "run"] /\ dir' = TRUE
    /\ UNCHANGED <<process, command, started, ui, files, monitors, flow, early>>

\* run_fuzzer moves a crash into the directory, over one of the same name if there is one;
\* the watch tells of the file again (where it does not, nothing changes).
FindCrash(f) ==
    /\ Running /\ tasks["fuzz"] = "run" /\ dir
    /\ \E k \in 1..MaxFinds :
         /\ <<f, k>> \notin files /\ (k > 1 => <<f, k - 1>> \in files)
         /\ files' = files \cup {<<f, k>>}
         /\ created' = [c \in Followers |->
              IF monitors[c] = "watch" THEN Append(created[c], <<f, k>>) ELSE created[c]]
    /\ UNCHANGED <<process, command, started, tasks, ui, dir, monitors, queue, item, handled, early>>

\* verify and the directories of the others.
TaskInit(t) ==
    /\ Running /\ t # "fuzz" /\ tasks[t] = "new"
    /\ tasks' = [tasks EXCEPT ![t] = "run"]
    /\ UNCHANGED <<process, command, started, ui, dir, files, monitors, flow, early>>

\* Any error of a task; only the regression task comes to an end without one.
TaskFails(t) ==
    /\ Running /\ tasks[t] \in {"new", "run"}
    /\ tasks' = [tasks EXCEPT ![t] = "error"]
    /\ UNCHANGED <<process, command, started, ui, dir, files, monitors, flow, early>>

RegressionEnds ==
    /\ Running /\ Regression /\ tasks["regression"] = "run"
    /\ tasks' = [tasks EXCEPT !["regression"] = "ok"]
    /\ UNCHANGED <<process, command, started, ui, dir, files, monitors, flow, early>>

\* DirectoryMonitor::new, at some time after the spawn; no watch may be left to have.
Watch(c) ==
    /\ Running /\ monitors[c] = "new"
    /\ \E result \in {"watch", "error"} : monitors' = [monitors EXCEPT ![c] = result]
    /\ early' = [early EXCEPT ![c] = files]
    /\ UNCHANGED <<process, command, started, tasks, ui, dir, files, flow>>

\* ChannelQueueClient::enqueue
EnqueueFile(c, f) == queue' = [queue EXCEPT ![c] = Append(@, f)]

\* One turn of monitor_directory: next_file, enqueue.
Enqueue(c) ==
    /\ Running /\ monitors[c] = "watch" /\ created[c] # <<>>
    /\ EnqueueFile(c, Head(created[c]))
    /\ created' = [created EXCEPT ![c] = Tail(@)]
    /\ UNCHANGED <<process, command, started, tasks, ui, dir, files, monitors, item, handled, early>>

\* An error of the watch or the end of the directory: next_file returns None, and the
\* monitor ends as if all were well.
WatchEnds(c) ==
    /\ Running /\ monitors[c] = "watch"
    /\ monitors' = [monitors EXCEPT ![c] = "ok"]
    /\ UNCHANGED <<process, command, started, tasks, ui, dir, files, flow, early>>

\* ChannelQueueClient::pop; an empty channel is asked again.  The message is gone:
\* deleting it does nothing.
Pop(c) ==
    /\ Running /\ tasks[c] = "run" /\ item[c] = None /\ queue[c] # <<>>
    /\ item' = [item EXCEPT ![c] = Head(queue[c])]
    /\ queue' = [queue EXCEPT ![c] = Tail(@)]
    /\ UNCHANGED <<process, command, started, tasks, ui, dir, files, monitors, created, handled, early>>

Process(c) ==
    /\ Running /\ tasks[c] = "run" /\ item[c] # None
    /\ handled' = [handled EXCEPT ![c] = @ \cup {item[c]}]
    /\ item' = [item EXCEPT ![c] = None]
    /\ UNCHANGED <<process, command, started, tasks, ui, dir, files, monitors, created, queue, early>>

----------------------------------------------------------------------------
(* cmd::run                                                                *)

\* The terminal ends when the user or the timeout says so, or fails (TerminalUi).
UiEnds ==
    /\ Running /\ ui = "run" /\ ui' \in {"ok", "error"}
    /\ UNCHANGED <<process, command, started, tasks, dir, files, monitors, flow, early>>

\* select! of terminal and command, timeout of the command, or the command alone: the
\* process ends with everything that was spawned.
CommandDone ==
    /\ Running
    /\ \/ command = "error" /\ process' = "error"
       \/ ui \in {"ok", "error"} /\ process' = ui
    /\ UNCHANGED <<command, started, tasks, ui, dir, files, monitors, flow, early>>

TimeoutElapsed ==
    /\ Running /\ Timeout /\ ~Ui /\ process' = "ok"
    /\ UNCHANGED <<command, started, tasks, ui, dir, files, monitors, flow, early>>

----------------------------------------------------------------------------
Step(c) == Watch(c) \/ Enqueue(c) \/ Pop(c) \/ Process(c)

Main == WaitForDir \/ StartConsumer \/ StartRegression \/ TryWaitAll \/ CommandDone

Next ==
    \/ Main \/ ConfigFails \/ FuzzInit \/ RegressionEnds \/ UiEnds \/ TimeoutElapsed
    \/ \E f \in Files : FindCrash(f)
    \/ \E t \in Tasks : TaskInit(t) \/ TaskFails(t)
    \/ \E c \in Followers : Step(c) \/ WatchEnds(c)
----------------------------------------------------------------------------
TypeOK ==
    /\ process \in {"running", "ok", "error"}
    /\ command \in {"wait", "start", "join", "error"} /\ started \in 0..Len(Consumers)
    /\ tasks \in [Tasks -> {"off", "new", "run", "ok", "error"}]
    /\ ui \in {"off", "run", "ok", "error"} /\ dir \in BOOLEAN /\ files \subseteq Finds
    /\ monitors \in [Followers -> {"off", "new", "watch", "ok", "error"}]
    /\ created \in [Followers -> Seq(Finds)] /\ queue \in [Followers -> Seq(Finds)]
    /\ item \in [Followers -> Finds \cup {None}] /\ handled \in [Followers -> SUBSET Finds]

\* Each crash that is found under the watch is on its way to every consumer, or there, and
\* on its way once for each time it was found.
OnItsWay ==
    \A c \in Followers : monitors[c] = "watch" =>
        LET way == queue[c] \o created[c]
            here == {item[c]} \ {None} IN
        /\ files \ early[c] = Elements(way) \cup here \cup handled[c]
        /\ NoneTwice(way) /\ Elements(way) \cap (here \cup handled[c]) = {}

\* As long as the process lives, every crash under a watch is processed, and the failure of
\* any task has not gone unnoticed.
CrashesProcessed ==
    Running => /\ \A c \in Followers :
                    monitors[c] = "watch" /\ tasks[c] = "run" => files \ early[c] \subseteq handled[c]
               /\ ~Failed
=============================================================================
