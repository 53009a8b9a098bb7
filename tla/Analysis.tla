------------------------------ MODULE Analysis ------------------------------
(***************************************************************************)
(* The generic_analysis task of onefuzz-task: an analyzer runs on every    *)
(* crash that is in the container when the task starts (run_existing), and *)
(* then on every crash the queue announces (poll_inputs).  What it writes  *)
(* to the analysis directory is pushed; the reports it writes to the       *)
(* reports directory are picked up by a DirectoryMonitor (monitor_reports) *)
(* that is polled together with poll_inputs.                               *)
(*                                                                         *)
(* A file is created empty and written later: a Create event is delivered  *)
(* for every file that is created while the directory is watched.          *)
(***************************************************************************)
EXTENDS Naturals, FiniteSets

CONSTANTS
    Worker, Input,
    Msg, MsgInput, None,
    HasCrashes,   \* Config::crashes is given
    HasReports,   \* one of the three report containers is given
    SyncEvery,    \* run_existing pushes after every 10 inputs
    MaxPops       \* bound on the deliveries of a message

AnalysisAssumption ==
    /\ MsgInput \in [Msg -> Input] /\ None \notin Msg \cup Input
    /\ HasCrashes \in BOOLEAN /\ HasReports \in BOOLEAN
    /\ SyncEvery \in Nat \ {0} /\ MaxPops \in Nat

VARIABLES
    crashes, queue,
    analysis,   \* inputs whose output is in the analysis container
    saved,      \* inputs whose report is in the report containers
    pc, held, receipt, input,
    existing,   \* crashes.local_path on each node, never pulled again
    todo,       \* the files run_existing has not read yet
    count,      \* its counter, modulo SyncEvery
    outputs,    \* analysis.local_path: inputs the analyzer has run on
    report,     \* the report file of each input in the reports directory
    watching,   \* "yes" once monitor_reports has its DirectoryMonitor, "ended" after it
    events,     \* Create events it has not handled
    seen        \* history: reports created while the directory was watched, less
                \* those whose event the monitor has dropped

server == <<crashes, queue>>
monitor == <<watching, events>>
vars == <<server, analysis, saved, pc, held, receipt, input, existing, todo,
          count, outputs, report, monitor, seen>>

State == {"start", "existing", "push_every", "push_existing", "poll", "polled",
          "run", "running", "push", "delete", "failed"}

TypeOK ==
    /\ crashes \subseteq Input
    /\ queue \in [Msg -> [state : {"unsent", "visible", "hidden", "deleted"},
                          receipt : 0..MaxPops]]
    /\ analysis \subseteq Input /\ saved \subseteq Input
    /\ pc \in [Worker -> State]
    /\ held \in [Worker -> Msg \cup {None}] /\ receipt \in [Worker -> 0..MaxPops]
    /\ input \in [Worker -> Input \cup {None}]
    /\ existing \in [Worker -> SUBSET Input] /\ todo \in [Worker -> SUBSET Input]
    /\ count \in [Worker -> 0..(SyncEvery - 1)]
    /\ outputs \in [Worker -> SUBSET Input]
    /\ report \in [Worker -> [Input -> {"none", "empty", "written"}]]
    /\ watching \in [Worker -> {"no", "yes", "ended"}]
    /\ events \in [Worker -> SUBSET Input] /\ seen \in [Worker -> SUBSET Input]

Init ==
    /\ crashes \in SUBSET Input /\ analysis = {} /\ saved = {}
    /\ queue = [m \in Msg |-> [state |-> "unsent", receipt |-> 0]]
    /\ pc = [w \in Worker |-> "start"]
    /\ held = [w \in Worker |-> None] /\ receipt = [w \in Worker |-> 0]
    /\ input = [w \in Worker |-> None]
    /\ existing = [w \in Worker |-> {}] /\ todo = [w \in Worker |-> {}]
    /\ count = [w \in Worker |-> 0] /\ outputs = [w \in Worker |-> {}]
    /\ report = [w \in Worker |-> [i \in Input |-> "none"]]
    /\ watching = [w \in Worker |-> "no"]
    /\ events = [w \in Worker |-> {}] /\ seen = [w \in Worker |-> {}]

Goto(w, s) == pc' = [pc EXCEPT ![w] = s]
Running(w) == pc[w] # "failed"

\* An error of any step is the result of run: the monitor is dropped with it.
Fail(w) == /\ Goto(w, "failed")
           /\ watching' = [watching EXCEPT ![w] = "no"]
           /\ events' = [events EXCEPT ![w] = {}]

-----------------------------------------------------------------------------
(* The crashes container and its queue.                                    *)

Found(i) ==
    /\ i \notin crashes /\ crashes' = crashes \cup {i}
    /\ UNCHANGED <<queue, analysis, saved, pc, held, receipt, input, existing, todo,
                   count, outputs, report, monitor, seen>>

Enqueue(m) ==
    /\ \/ queue[m].state = "unsent" /\ MsgInput[m] \in crashes
       \/ queue[m].state = "hidden" /\ queue[m].receipt < MaxPops
    /\ queue' = [queue EXCEPT ![m].state = "visible"]
    /\ UNCHANGED <<crashes, analysis, saved, pc, held, receipt, input, existing, todo,
                   count, outputs, report, monitor, seen>>

-----------------------------------------------------------------------------
(* The analyzer and the monitor of its reports.                            *)

\* The analyzer creates the report, if it has an option for the directory.
CreateReport(w, i) ==
    IF HasReports /\ report[w][i] = "none"
    THEN /\ report' = [report EXCEPT ![w][i] = "empty"]
         /\ events' = IF watching[w] = "yes" THEN [events EXCEPT ![w] = @ \cup {i}] ELSE events
         /\ seen' = IF watching[w] = "yes" THEN [seen EXCEPT ![w] = @ \cup {i}] ELSE seen
    ELSE UNCHANGED <<report, events, seen>>

\* run_tool starts the analyzer: an analyzer that does not start is an error.
RunTool(w) ==
    /\ pc[w] = "run"
    /\ \/ Goto(w, "running") /\ CreateReport(w, input[w]) /\ UNCHANGED watching
       \/ Fail(w) /\ UNCHANGED <<report, seen>>
    /\ UNCHANGED <<server, analysis, saved, held, receipt, input, existing, todo, count, outputs>>

\* run_existing's counter of the files it has run on.
Count(w) == IF held[w] = None THEN [count EXCEPT ![w] = (@ + 1) % SyncEvery] ELSE count

AfterTool(w) == IF held[w] = None THEN "existing" ELSE "push"

\* monitor_process has waited for it: its output is on disk.
ToolEnds(w) ==
    /\ pc[w] = "running"
    /\ \/ /\ Goto(w, AfterTool(w))
          /\ outputs' = [outputs EXCEPT ![w] = @ \cup {input[w]}]
          /\ report' = [report EXCEPT ![w][input[w]] = IF HasReports THEN "written" ELSE "none"]
          /\ count' = Count(w)
          /\ UNCHANGED monitor
       \/ Fail(w) /\ UNCHANGED <<outputs, report, count>>
    /\ UNCHANGED <<server, analysis, saved, held, receipt, input, existing, todo, seen>>

ReportError(w, i) == Fail(w)

\* The next file of monitor_reports: one that does not parse is an error, and
\* so is one that cannot be saved; next_file skips one whose metadata it cannot
\* read.
MonitorReport(w) ==
    /\ Running(w) /\ watching[w] = "yes"
    /\ \E i \in events[w] :
         \/ /\ report[w][i] = "written"
            /\ events' = [events EXCEPT ![w] = @ \ {i}]
            /\ saved' = saved \cup {i}
            /\ UNCHANGED <<pc, watching, seen>>
         \/ ReportError(w, i) /\ UNCHANGED <<saved, seen>>
         \/ /\ events' = [events EXCEPT ![w] = @ \ {i}]
            /\ seen' = [seen EXCEPT ![w] = @ \ {i}]
            /\ UNCHANGED <<pc, watching, saved>>
    /\ UNCHANGED <<server, analysis, held, receipt, input, existing, todo, count,
                   outputs, report>>

\* After an error of the watcher next_file returns None: monitor_reports is done,
\* and the task goes on without it.
WatchEnds(w) ==
    /\ Running(w) /\ watching[w] = "yes"
    /\ watching' = [watching EXCEPT ![w] = "ended"]
    /\ events' = [events EXCEPT ![w] = {}]
    /\ seen' = [seen EXCEPT ![w] = {}]
    /\ UNCHANGED <<server, analysis, saved, pc, held, receipt, input, existing, todo,
                   count, outputs, report>>

-----------------------------------------------------------------------------
(* run, run_existing and poll_inputs.                                      *)

\* init, init_pull of the tools and crashes; the monitor's future is made here
\* and not polled: it watches nothing yet.
Start(w) ==
    /\ pc[w] = "start"
    /\ \/ /\ Goto(w, "existing")
          /\ existing' = [existing EXCEPT ![w] = IF HasCrashes THEN crashes ELSE {}]
          /\ todo' = [todo EXCEPT ![w] = existing'[w]]
          /\ UNCHANGED monitor
       \/ Fail(w) /\ UNCHANGED <<existing, todo>>
    /\ UNCHANGED <<server, analysis, saved, held, receipt, input, count, outputs, report, seen>>

AfterExisting(w) == IF HasCrashes THEN "push_existing" ELSE "poll"

\* run_existing: the next file, the push after every SyncEvery files, or the
\* last push.
NextExisting(w) ==
    /\ pc[w] = "existing"
    /\ \/ /\ input[w] # None /\ count[w] = 0
          /\ Goto(w, "push_every") /\ UNCHANGED <<input, todo>>
       \/ /\ input[w] = None \/ count[w] # 0
          /\ \E i \in todo[w] :
               /\ Goto(w, "run") /\ input' = [input EXCEPT ![w] = i]
               /\ todo' = [todo EXCEPT ![w] = @ \ {i}]
       \/ /\ todo[w] = {} /\ Goto(w, AfterExisting(w))
          /\ (input[w] = None \/ count[w] # 0) /\ UNCHANGED <<input, todo>>
    /\ UNCHANGED <<server, analysis, saved, held, receipt, existing, count,
                   outputs, report, monitor, seen>>

AfterPush(w) ==
    CASE pc[w] = "push_every" -> "existing"
      [] pc[w] = "push_existing" -> "poll"
      [] OTHER -> "delete"

\* analysis.sync_push; when run_existing is done, try_join polls both futures
\* and the monitor starts to watch.
Push(w) ==
    /\ pc[w] \in {"push_every", "push_existing", "push"}
    /\ \/ /\ analysis' = analysis \cup outputs[w]
          /\ Goto(w, AfterPush(w))
          /\ input' = IF pc[w] = "push_every" THEN [input EXCEPT ![w] = None] ELSE input
          /\ UNCHANGED monitor
       \/ Fail(w) /\ UNCHANGED <<analysis, input>>
    /\ UNCHANGED <<server, saved, held, receipt, existing, todo, count, outputs, report, seen>>

Watch(w) ==
    /\ Running(w) /\ (pc[w] = "poll" \/ held[w] # None) /\ HasReports /\ watching[w] = "no"
    /\ watching' = [watching EXCEPT ![w] = "yes"]
    /\ UNCHANGED <<server, analysis, saved, pc, held, receipt, input, existing, todo,
                   count, outputs, report, events, seen>>

Pop(w) ==
    /\ pc[w] = "poll"
    /\ \E m \in Msg :
         /\ queue[m].state = "visible" /\ queue[m].receipt < MaxPops
         /\ queue' = [queue EXCEPT ![m] = [state |-> "hidden", receipt |-> @.receipt + 1]]
         /\ \/ /\ Goto(w, "polled") /\ UNCHANGED monitor
               /\ held' = [held EXCEPT ![w] = m]
               /\ receipt' = [receipt EXCEPT ![w] = queue[m].receipt + 1]
               /\ input' = [input EXCEPT ![w] = MsgInput[m]]
            \/ Fail(w) /\ UNCHANGED <<held, receipt, input>>
    /\ UNCHANGED <<crashes, analysis, saved, existing, todo, count, outputs, report, seen>>

\* The input was among the files of the batch.
AlreadyChecked(w) == HasCrashes /\ input[w] \in existing[w]

Polled(w) ==
    /\ pc[w] = "polled"
    /\ \/ Goto(w, IF AlreadyChecked(w) THEN "delete" ELSE "run") /\ UNCHANGED monitor
       \/ Fail(w)
    /\ UNCHANGED <<server, analysis, saved, held, receipt, input, existing, todo,
                   count, outputs, report, seen>>

\* message.delete: the answer may be lost, or the message be another's now.
Delete(w) ==
    LET mine == queue[held[w]].state # "deleted" /\ queue[held[w]].receipt = receipt[w]
        gone == [queue EXCEPT ![held[w]].state = "deleted"]
    IN  /\ pc[w] = "delete"
        /\ \/ mine /\ queue' = gone /\ Goto(w, "poll") /\ UNCHANGED monitor
           \/ queue' \in {queue} \cup (IF mine THEN {gone} ELSE {}) /\ Fail(w)
        /\ UNCHANGED <<crashes, analysis, saved, held, receipt, input, existing, todo,
                       count, outputs, report, seen>>

Step(w) ==
    \/ Start(w) \/ NextExisting(w) \/ RunTool(w) \/ ToolEnds(w) \/ Push(w)
    \/ Watch(w) \/ MonitorReport(w) \/ WatchEnds(w) \/ Pop(w) \/ Polled(w) \/ Delete(w)

Next ==
    \/ \E i \in Input : Found(i)
    \/ \E m \in Msg : Enqueue(m)
    \/ \E w \in Worker : Step(w)

Spec == Init /\ [][Next]_vars

\* try_join polls both futures, and the analyzer ends.
Fairness ==
    \A w \in Worker :
        WF_vars(Watch(w)) /\ WF_vars(MonitorReport(w)) /\ WF_vars(ToolEnds(w))
FairSpec == Spec /\ Fairness

-----------------------------------------------------------------------------
(* Properties.                                                             *)

\* A message is deleted only when the analyzer's output for its input is in
\* the container, on whichever node it ran, in the batch or from the queue.
AcknowledgedIsStored ==
    \A m \in Msg : queue[m].state = "deleted" => MsgInput[m] \in analysis

\* A report that was created while the directory was watched is saved or still
\* waits for the monitor, as long as the task runs, unless the watcher reported
\* an error or the report's metadata could not be read.
WatchedReportSaved ==
    \A w \in Worker : Running(w) => seen[w] \subseteq saved \cup events[w]

\* What run_existing has run on is pushed by the time the node polls.
ExistingPushed ==
    \A w \in Worker : pc[w] \in {"poll", "polled"} => existing[w] \subseteq analysis

\* What was there before and what was reported is dealt with before the node polls.
ExistingHandled == ExistingPushed /\ WatchedReportSaved
=============================================================================
