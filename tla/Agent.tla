------------------------------- MODULE Agent -------------------------------
(***************************************************************************)
(* The supervisor agent (onefuzz-agent) on one node image: its start-up,   *)
(* its main loop over the Scheduler state machine, the workers it starts,  *)
(* the three files it leaves on disk (work set context, reboot context,    *)
(* done lock) and the events the service has received from it.             *)
(*                                                                         *)
(* The process may die at every point where it awaits (an error that       *)
(* propagates with `?`, a panic, a kill, a power loss): its memory is lost *)
(* and its files remain.  The service manager starts it again.             *)
(***************************************************************************)
EXTENDS Naturals

CONSTANTS
    Tasks,       \* task ids
    WorkSets,    \* the work sets the pool queue can hand out
    TasksOf,     \* the task ids of the work units of a work set
    RebootSets,  \* the work sets with `reboot` set
    Managed,     \* a managed node is never started with --reset_lock
    MaxDeaths,   \* bound on the number of deaths of the process
    None

ASSUME AgentAssumption ==
    /\ TasksOf \in [WorkSets -> SUBSET Tasks]
    /\ \A w \in WorkSets : TasksOf[w] # {}
    /\ RebootSets \subseteq WorkSets
    /\ Managed \in BOOLEAN
    /\ MaxDeaths \in Nat
    /\ None \notin WorkSets

VARIABLES
    pc,        \* where the process is
    reset,     \* the process was started with --reset_lock
    sched,     \* Scheduler: the kind of state
    cause,     \* Done.cause
    work,      \* the work set the Scheduler owns
    workers,   \* Busy.workers: the slot of each work unit
    prev,      \* Agent.previous_state
    lastPoll,  \* Agent.last_poll_command
    outbox,    \* events collected by an update and not yet emitted
    doneLock,  \* the file supervisor-is-done exists
    rebootCtx, \* content of the file reboot_context
    workCtx,   \* content of the file workset_context
    proc,      \* the onefuzz-task process of each task
    ipc,       \* tasks of whose IPC channel the agent holds the sending end
    view,      \* last StateUpdate event the service has received
    taskView,  \* last WorkerEvent the service has received for each task
    deaths,    \* number of deaths so far
    diedAt,    \* where the process died since the last claim
    claimed,   \* last work set deleted from the pool queue to be executed
    stopNode,  \* a Stop or StopIfFree command has taken effect
    stopTasks, \* tasks for which a StopTask command has taken effect
    setupOk    \* work sets whose setup has finished without error

memory == <<reset, sched, cause, work, workers, prev, lastPoll, outbox>>
files == <<doneLock, rebootCtx, workCtx>>
procs == <<proc, ipc>>
service == <<view, taskView>>
history == <<deaths, diedAt, claimed, stopNode, stopTasks, setupOk>>
vars == <<pc, memory, files, procs, service, history>>

SchedulerKind ==
    {"Free", "SettingUp", "PendingReboot", "Ready", "Busy", "Done"}

DoneCause == {"SetupError", "Stopped", "WorkersDone"}

NodeState == {"Init", "Free", "SettingUp", "Rebooting", "Ready", "Busy", "Done"}

\* A slot is None both for a task that has no unit in the work set ("Absent")
\* and for a unit whose worker has been taken out of it ("Dropped").
Slot == {"Absent", "Ready", "Running", "Done", "Dropped"}

ProcState == {"none", "alive", "ok", "err"}
Exited == {"ok", "err"}

Starting == {"LoadReboot", "ResetWork", "CheckWork"}
Reporting == {"ReportUnits", "ReportDone", "ReportLock"}
Looping == {"EmitInit", "Top", "Update", "Body", "RunSetup", "Reboot",
            "EmitEvents", "EmitDone"}
\* "Hung": the end of the process waits for a thread that never returns.
PC == {"Down", "Hung"} \cup Starting \cup Reporting \cup Looping

WorkerEvent == [task : Tasks, kind : {"Running", "DoneOk", "DoneErr"}]

\* scheduler.rs: From<&Scheduler> for NodeState
StateOf(s) == IF s = "PendingReboot" THEN "Rebooting" ELSE s

NoWorkers == [t \in Tasks |-> "Absent"]

TypeOK ==
    /\ pc \in PC
    /\ reset \in BOOLEAN
    /\ sched \in SchedulerKind
    /\ cause \in DoneCause \cup {"None"}
    /\ work \in WorkSets \cup {None}
    /\ workers \in [Tasks -> Slot]
    /\ prev \in NodeState
    /\ lastPoll \in {"Ok", "RequestFailed", "ClaimFailed"}
    /\ outbox \in SUBSET WorkerEvent
    /\ doneLock \in BOOLEAN
    /\ rebootCtx \in WorkSets \cup {None}
    /\ workCtx \in WorkSets \cup {None}
    /\ proc \in [Tasks -> ProcState]
    /\ ipc \in SUBSET Tasks
    /\ view \in NodeState \cup {"None", "DoneError"}
    /\ taskView \in [Tasks -> {"None", "Running", "DoneOk", "DoneErr", "Crashed"}]
    /\ deaths \in 0..MaxDeaths
    /\ diedAt \in SUBSET [at : PC, in : SchedulerKind]
    /\ claimed \in WorkSets \cup {None}
    /\ stopNode \in BOOLEAN
    /\ stopTasks \in SUBSET Tasks
    /\ setupOk \in SUBSET WorkSets

Init ==
    /\ pc = "Down"
    /\ reset = FALSE
    /\ sched = "Free"
    /\ cause = "None"
    /\ work = None
    /\ workers = NoWorkers
    /\ prev = "Init"
    /\ lastPoll = "Ok"
    /\ outbox = {}
    /\ doneLock = FALSE
    /\ rebootCtx = None
    /\ workCtx = None
    /\ proc = [t \in Tasks |-> "none"]
    /\ ipc = {}
    /\ view = "None"
    /\ taskView = [t \in Tasks |-> "None"]
    /\ deaths = 0
    /\ diedAt = {}
    /\ claimed = None
    /\ stopNode = FALSE
    /\ stopTasks = {}
    /\ setupOk = {}

----------------------------------------------------------------------------
(* The end of the process.                                                 *)

\* The memory of the process is gone; the IPC senders close with it.
LoseMemory ==
    /\ pc' = "Down"
    /\ reset' = FALSE
    /\ sched' = "Free"
    /\ cause' = "None"
    /\ work' = None
    /\ workers' = NoWorkers
    /\ prev' = "Init"
    /\ lastPoll' = "Ok"
    /\ outbox' = {}
    /\ ipc' = {}

\* The process ends by itself with an error or a panic.
Fail ==
    /\ LoseMemory
    /\ diedAt' = diedAt \cup {[at |-> pc, in |-> sched]}

\* An awaited call fails and the error leaves Agent::run, or the process is
\* killed, at any point of its life.
Die ==
    /\ pc # "Down"
    /\ deaths < MaxDeaths
    /\ deaths' = deaths + 1
    /\ Fail
    /\ UNCHANGED <<files, proc, service, claimed, stopNode, stopTasks, setupOk>>

----------------------------------------------------------------------------
(* main.rs: run, run_agent, check_existing_worksets                        *)

\* run: --reset_lock removes the done lock; otherwise a process that finds the
\* lock returns at once.
Start ==
    /\ pc = "Down"
    /\ \/ /\ ~Managed
          /\ reset' = TRUE
          /\ doneLock' = FALSE
       \/ /\ ~doneLock
          /\ reset' = FALSE
          /\ UNCHANGED doneLock
    /\ pc' = "LoadReboot"
    /\ UNCHANGED <<sched, cause, work, workers, prev, lastPoll, outbox, rebootCtx,
                   workCtx, procs, service, history>>

\* Reboot::load_context reads and removes the file; Scheduler::new (called once
\* the checks below have passed) starts in Ready with its content.
LoadReboot ==
    /\ pc = "LoadReboot"
    /\ rebootCtx' = None
    /\ work' = rebootCtx
    /\ sched' = IF rebootCtx # None THEN "Ready" ELSE "Free"
    /\ pc' = "ResetWork"
    /\ UNCHANGED <<reset, cause, workers, prev, lastPoll, outbox, doneLock, workCtx,
                   procs, service, history>>

\* run_agent removes the work set context when the node is reset.
ResetWork ==
    /\ pc = "ResetWork"
    /\ workCtx' = IF reset THEN None ELSE workCtx
    /\ pc' = IF work # None THEN "Top" ELSE "CheckWork"
    /\ UNCHANGED <<memory, doneLock, rebootCtx, procs, service, history>>

\* Mutant of CheckWork: the done lock is set before the reports.
CheckWork_LockFirst ==
    /\ pc = "CheckWork"
    /\ IF workCtx # None
       THEN /\ pc' = "ReportUnits"
            /\ outbox' = {[task |-> t, kind |-> "DoneErr"] : t \in TasksOf[workCtx]}
            /\ doneLock' = TRUE
       ELSE /\ pc' = "EmitInit"
            /\ UNCHANGED <<outbox, doneLock>>
    /\ UNCHANGED <<reset, sched, cause, work, workers, prev, lastPoll, rebootCtx,
                   workCtx, procs, service, history>>

\* check_existing_worksets: a work set context without a reboot context means
\* that the agent died while it owned the work set.
CheckWork ==
    /\ pc = "CheckWork"
    /\ IF workCtx # None
       THEN /\ pc' = "ReportUnits"
            /\ outbox' = {[task |-> t, kind |-> "DoneErr"] : t \in TasksOf[workCtx]}
       ELSE /\ pc' = "EmitInit"
            /\ UNCHANGED outbox
    /\ UNCHANGED <<reset, sched, cause, work, workers, prev, lastPoll, files, procs,
                   service, history>>

\* Mutant of ReportUnit: only the first work unit is reported.
ReportUnit_First ==
    /\ pc = "ReportUnits"
    /\ \E e \in outbox :
         /\ taskView' = [taskView EXCEPT ![e.task] = "Crashed"]
         /\ outbox' = {}
         /\ pc' = "ReportDone"
    /\ UNCHANGED <<reset, sched, cause, work, workers, prev, lastPoll, files,
                   procs, view, history>>

\* One WorkerEvent::Done with a failure for each work unit of the context.
ReportUnit ==
    /\ pc = "ReportUnits"
    /\ \E e \in outbox :
         /\ taskView' = [taskView EXCEPT ![e.task] = "Crashed"]
         /\ outbox' = outbox \ {e}
         /\ pc' = IF outbox = {e} THEN "ReportDone" ELSE pc
    /\ UNCHANGED <<reset, sched, cause, work, workers, prev, lastPoll, files, procs,
                   view, history>>

ReportDone ==
    /\ pc = "ReportDone"
    /\ view' = "DoneError"
    /\ pc' = "ReportLock"
    /\ UNCHANGED <<memory, files, procs, taskView, history>>

\* Mutant of ReportLock: the done semaphore is not set after the reports.
ReportLock_NoLock ==
    /\ pc = "ReportLock"
    /\ Fail
    /\ UNCHANGED <<files, proc, service, deaths, claimed, stopNode, stopTasks,
                   setupOk>>

\* The done lock is written after the events; then run_agent bails.
ReportLock ==
    /\ pc = "ReportLock"
    /\ doneLock' = TRUE
    /\ Fail
    /\ UNCHANGED <<rebootCtx, workCtx, proc, service, deaths, claimed, stopNode,
                   stopTasks, setupOk>>

----------------------------------------------------------------------------
(* agent.rs: Agent::run                                                    *)

\* Sent when the agent has not been started by a work set's reboot.
EmitInit ==
    /\ pc = "EmitInit"
    /\ view' = "Init"
    /\ pc' = "Top"
    /\ UNCHANGED <<memory, files, procs, taskView, history>>

\* Scheduler::execute_command for Stop and for StopIfFree: the state becomes
\* Done(Stopped) and every worker is dropped, which closes its channel.
StopNow ==
    /\ sched' = "Done"
    /\ cause' = "Stopped"
    /\ work' = None
    /\ workers' = NoWorkers
    /\ ipc' = {}
    /\ stopNode' = TRUE
    /\ UNCHANGED <<proc, stopTasks>>

\* State<Busy>::stop: the running worker of the task is stopped; the worker of
\* every other slot is taken out and not put back.
StopSlots(t) ==
    [u \in Tasks |->
        CASE workers[u] = "Absent" -> "Absent"
          [] workers[u] = "Running" /\ u = t -> "Done"
          [] OTHER -> "Dropped"]

\* State<Stopping>::kill waits for the process, whose channel is closed now.  A
\* Busy node does not look whether the task is one of its work set.
StopTask(t) ==
    /\ sched = "Busy"
    /\ workers' = StopSlots(t)
    /\ ipc' = {}
    /\ IF workers[t] = "Running" /\ proc[t] = "alive"
       THEN \E s \in Exited : proc' = [proc EXCEPT ![t] = s]
       ELSE UNCHANGED proc
    /\ stopTasks' = stopTasks \cup {t}
    /\ UNCHANGED <<sched, cause, work, stopNode>>

\* Commands that leave the Scheduler as it is: AddSshKey, StopTask when it is
\* not Busy, StopIfFree when it is not Free.
IgnoreCommand ==
    UNCHANGED <<sched, cause, work, workers, procs, stopNode, stopTasks>>

\* execute_pending_commands when a command has been received and claimed
ExecuteCommand ==
    /\ pc = "Top"
    /\ \/ StopNow
       \/ \E t \in Tasks : StopTask(t)
       \/ IgnoreCommand
    /\ lastPoll' = "Ok"
    /\ pc' = "Update"
    /\ UNCHANGED <<reset, prev, outbox, files, service, deaths, diedAt, claimed,
                   setupOk>>

\* Mutant of NoCommand: a response that cannot be parsed is not fatal.
NoCommand_KeepsParseError ==
    /\ pc = "Top"
    /\ lastPoll' \in {"Ok", "RequestFailed", "ClaimFailed", "RequestParseFailed"}
    /\ pc' = "Update"
    /\ UNCHANGED <<reset, sched, cause, work, workers, prev, outbox, files, procs,
                   service, history>>

\* execute_pending_commands without a command to execute: no command, the
\* request failed, or the claim failed once.
NoCommand ==
    /\ pc = "Top"
    /\ \E r \in {"Ok", "RequestFailed", "ClaimFailed"} :
         /\ ~(r = "ClaimFailed" /\ lastPoll = "ClaimFailed")
         /\ lastPoll' = r
    /\ pc' = "Update"
    /\ UNCHANGED <<reset, sched, cause, work, workers, prev, outbox, files, procs,
                   service, history>>

\* A claim failed twice in a row, or a task did not stop within 90 seconds and
\* has been killed: the error ends the agent.
CommandFailed ==
    /\ pc = "Top"
    /\ \/ /\ lastPoll = "ClaimFailed"
          /\ UNCHANGED <<proc, stopTasks>>
       \/ /\ sched = "Busy"
          /\ \E t \in Tasks :
               /\ workers[t] = "Running" /\ proc[t] = "alive"
               /\ proc' = [proc EXCEPT ![t] = "err"]
               /\ stopTasks' = stopTasks \cup {t}
    /\ Fail
    /\ UNCHANGED <<files, service, deaths, claimed, stopNode, setupOk>>

----------------------------------------------------------------------------
(* agent.rs: Agent::update and the handler of each Scheduler state         *)

InHandler(s) == sched = s /\ pc \in {"Top", "Update"}

\* emit_state_update_if_changed: nothing is sent when the state of the last
\* update was the same.
EmitStateUpdate ==
    /\ pc \in {"Top", "Update"}
    /\ sched # "Done"
    /\ view' = IF StateOf(sched) = prev THEN view ELSE StateOf(sched)
    /\ pc' = "Body"
    /\ UNCHANGED <<memory, files, procs, taskView, history>>

InBody(s) == sched = s /\ pc = "Body"

\* free: no message, a message this node may not schedule, a stopped work set
\* that is claimed to drop it, or a claim that failed.
FreeNoWork ==
    /\ InBody("Free")
    /\ prev' = "Free"
    /\ pc' = "Top"
    /\ UNCHANGED <<reset, sched, cause, work, workers, lastPoll, outbox, files, procs,
                   service, history>>

\* free: the service allows the work set and the message has been deleted.
FreeClaim ==
    /\ InBody("Free")
    /\ \E w \in WorkSets : work' = w /\ claimed' = w
    /\ diedAt' = {}
    /\ sched' = "SettingUp"
    /\ prev' = "Free"
    /\ pc' = "Top"
    /\ UNCHANGED <<reset, cause, workers, lastPoll, outbox, files, procs, service,
                   deaths, stopNode, stopTasks, setupOk>>

\* Mutant of SaveContext: setup goes on without saving the work set.
SaveContext_Missing ==
    /\ InBody("SettingUp")
    /\ pc' = "RunSetup"
    /\ UNCHANGED <<memory, files, procs, service, history>>

\* setup.rs: SetupRunner::run up to WorkSet::save_context
SaveContext ==
    /\ InBody("SettingUp")
    /\ workCtx' = work
    /\ pc' = "RunSetup"
    /\ UNCHANGED <<memory, doneLock, rebootCtx, procs, service, history>>

\* Mutant of SetupError: the exit status of the setup script is not looked at.
SetupError_Ignored ==
    /\ InBody("SettingUp") \/ pc = "RunSetup"
    /\ sched' = "Ready"
    /\ prev' = "SettingUp"
    /\ pc' = "Top"
    /\ UNCHANGED <<reset, cause, work, workers, lastPoll, outbox, files, procs,
                   service, history>>

\* State<SettingUp>::finish when the runner or the setup script fails, before
\* or after the context has been saved.
SetupError ==
    /\ InBody("SettingUp") \/ pc = "RunSetup"
    /\ sched' = "Done"
    /\ cause' = "SetupError"
    /\ prev' = "SettingUp"
    /\ pc' = "Top"
    /\ UNCHANGED <<reset, work, workers, lastPoll, outbox, files, procs, service,
                   history>>

\* State<SettingUp>::finish when setup succeeds
FinishSetup ==
    /\ pc = "RunSetup"
    /\ sched' = IF work \in RebootSets THEN "PendingReboot" ELSE "Ready"
    /\ setupOk' = setupOk \cup {work}
    /\ prev' = "SettingUp"
    /\ pc' = "Top"
    /\ UNCHANGED <<reset, cause, work, workers, lastPoll, outbox, files, procs,
                   service, deaths, diedAt, claimed, stopNode, stopTasks>>

\* pending_reboot: the context is saved, then the reboot is requested.
SaveReboot ==
    /\ InBody("PendingReboot")
    /\ rebootCtx' = work
    /\ pc' = "Reboot"
    /\ UNCHANGED <<memory, doneLock, workCtx, procs, service, history>>

\* Reboot::invoke: the machine restarts, or does not within ten minutes.
Reboot ==
    /\ pc = "Reboot"
    /\ Fail
    /\ UNCHANGED <<files, proc, service, deaths, claimed, stopNode, stopTasks,
                   setupOk>>

\* State<Ready>::run: a worker for each work unit
RunWorkers ==
    /\ InBody("Ready")
    /\ sched' = "Busy"
    /\ workers' = [t \in Tasks |->
                     IF t \in TasksOf[work] THEN "Ready" ELSE "Absent"]
    /\ prev' = "Ready"
    /\ pc' = "Top"
    /\ UNCHANGED <<reset, cause, work, lastPoll, outbox, files, procs, service,
                   history>>

----------------------------------------------------------------------------
(* worker.rs and scheduler.rs: State<Busy>::update                         *)

\* Worker::update: a Ready worker starts its process, a Running one whose
\* process has exited is Done, the others stay.
Updated(t) ==
    CASE workers[t] = "Ready" -> "Running"
      [] workers[t] = "Running" /\ proc[t] \in Exited -> "Done"
      [] OTHER -> workers[t]

EventOf(t) ==
    [task |-> t,
     kind |-> CASE workers[t] = "Ready" -> "Running"
                [] proc[t] = "ok" -> "DoneOk"
                [] OTHER -> "DoneErr"]

Changed == {t \in Tasks : Updated(t) # workers[t]}

\* Mutant of AllWorkersDone: one worker that is done is enough.
AllWorkersDone_Any ==
    \E t \in Tasks : Updated(t) = "Done"

AllWorkersDone == \A t \in Tasks : Updated(t) \in {"Absent", "Done"}

\* One pass over the workers; the events are kept for the end of the pass.
UpdateWorkers ==
    /\ InBody("Busy")
    /\ \A t \in Tasks : workers[t] # "Dropped"
    /\ workers' = [t \in Tasks |-> Updated(t)]
    /\ proc' = [t \in Tasks |-> IF workers[t] = "Ready" THEN "alive" ELSE proc[t]]
    /\ ipc' = {t \in Tasks : Updated(t) = "Running"}
    /\ outbox' = {EventOf(t) : t \in Changed}
    /\ sched' = IF AllWorkersDone THEN "Done" ELSE "Busy"
    /\ cause' = IF AllWorkersDone THEN "WorkersDone" ELSE cause
    /\ pc' = "EmitEvents"
    /\ UNCHANGED <<reset, work, prev, lastPoll, files, service, history>>

\* Worker::update fails for a worker (its process cannot be started, or does not
\* connect to the IPC channels within 30 seconds) after others were updated.
StartFailed ==
    /\ InBody("Busy")
    /\ \E t \in Tasks :
         /\ workers[t] = "Ready"
         /\ \E started \in SUBSET {u \in Tasks : workers[u] = "Ready"} :
              proc' = [u \in Tasks |-> IF u \in started THEN "alive" ELSE proc[u]]
    /\ Fail
    /\ UNCHANGED <<files, service, deaths, claimed, stopNode, stopTasks, setupOk>>

\* Worker::update fails for a worker whose process has exited before it connected:
\* the accept that has timed out still blocks its thread, and the end of the
\* process waits for that thread (TaskProcess models this in detail).
StartHangs ==
    /\ InBody("Busy")
    /\ \E t \in Tasks :
         /\ workers[t] = "Ready"
         /\ \E started \in SUBSET {u \in Tasks : workers[u] = "Ready"} :
              proc' = [u \in Tasks |-> IF u = t THEN "err"
                                      ELSE IF u \in started THEN "alive" ELSE proc[u]]
    /\ pc' = "Hung"
    /\ ipc' = {}
    /\ UNCHANGED <<memory, files, service, history>>

\* worker_slot.take().unwrap() panics on an empty slot.
UpdatePanic ==
    /\ InBody("Busy")
    /\ \E t \in Tasks : workers[t] = "Dropped"
    /\ Fail
    /\ UNCHANGED <<files, proc, service, deaths, claimed, stopNode, stopTasks,
                   setupOk>>

\* busy: the events of the pass are sent one after the other.
EmitWorkerEvent ==
    /\ pc = "EmitEvents"
    /\ \E e \in outbox :
         /\ taskView' = [taskView EXCEPT ![e.task] = e.kind]
         /\ outbox' = outbox \ {e}
    /\ UNCHANGED <<pc, reset, sched, cause, work, workers, prev, lastPoll, files, procs,
                   view, history>>

EndUpdate ==
    /\ pc = "EmitEvents"
    /\ outbox = {}
    /\ prev' = "Busy"
    /\ pc' = "Top"
    /\ UNCHANGED <<reset, sched, cause, work, workers, lastPoll, outbox, files, procs,
                   service, history>>

----------------------------------------------------------------------------
(* agent.rs: done                                                          *)

\* The done lock is written before the event is sent.
SetDoneLock ==
    /\ InHandler("Done")
    /\ doneLock' = TRUE
    /\ pc' = "EmitDone"
    /\ UNCHANGED <<memory, rebootCtx, workCtx, procs, service, history>>

\* The Done event carries the error of a failed setup; then run returns.
EmitDone ==
    /\ pc = "EmitDone"
    /\ view' = IF cause = "SetupError" THEN "DoneError" ELSE "Done"
    /\ LoseMemory
    /\ UNCHANGED <<files, proc, taskView, history>>

----------------------------------------------------------------------------
(* onefuzz-task: the process of a task                                     *)

\* The task ends while the agent still holds its channel: it is killed, or fails
\* before it listens to the channel (see TaskProcess).
TaskExits ==
    /\ \E t \in Tasks, s \in Exited :
         /\ proc[t] = "alive"
         /\ proc' = [proc EXCEPT ![t] = s]
    /\ UNCHANGED <<pc, memory, files, ipc, service, history>>

\* managed/cmd.rs: shutdown_listener sees the channel disconnected.
TaskShutsDown ==
    /\ \E t \in Tasks :
         /\ proc[t] = "alive" /\ t \notin ipc
         /\ proc' = [proc EXCEPT ![t] = "ok"]
    /\ UNCHANGED <<pc, memory, files, ipc, service, history>>

Boot == Start \/ LoadReboot \/ ResetWork \/ CheckWork
            \/ ReportUnit \/ ReportDone \/ ReportLock \/ EmitInit

Commands == ExecuteCommand \/ NoCommand \/ CommandFailed

Handlers == \/ EmitStateUpdate
            \/ FreeNoWork \/ FreeClaim
            \/ SaveContext \/ SetupError \/ FinishSetup
            \/ SaveReboot \/ Reboot
            \/ RunWorkers
            \/ UpdateWorkers \/ StartFailed \/ StartHangs
            \/ UpdatePanic
            \/ EmitWorkerEvent \/ EndUpdate
            \/ SetDoneLock \/ EmitDone

TaskProcess == TaskExits \/ TaskShutsDown

Next == Boot \/ Commands \/ Handlers \/ TaskProcess \/ Die

Spec == Init /\ [][Next]_vars

----------------------------------------------------------------------------
(* Properties                                                              *)

\* On a managed node, everything that runs tasks (the workers in memory, the
\* reboot that will lead to them) is backed by the work set context on disk,
\* so that a death can be reported (setup.rs:70 before the states that follow,
\* reboot.rs:87, main.rs:251).
ContextBacksWork ==
    Managed =>
      /\ sched \in {"PendingReboot", "Ready", "Busy"} => workCtx = work
      /\ rebootCtx # None => workCtx = rebootCtx
      /\ \A t \in Tasks : proc[t] # "none" =>
            workCtx # None /\ t \in TasksOf[workCtx]

\* Workers are only ever created for a work set whose setup succeeded, in this
\* life of the agent or in the one before its reboot.
SetupBeforeRun ==
    /\ sched \in {"PendingReboot", "Ready", "Busy"} => work \in setupOk
    /\ rebootCtx # None => rebootCtx \in setupOk

\* A claimed work set stays known to the node: in memory, on disk, or closed by
\* the done lock.  It is forgotten only when the agent dies after the claim
\* (work.rs:214) and before the context is saved (setup.rs:70), or when it dies
\* between a Stop of such a work set and the done lock.
ClaimTracked ==
    Managed /\ claimed # None =>
      \/ work = claimed \/ workCtx = claimed
      \/ doneLock \/ sched = "Done"
      \/ \E d \in diedAt : /\ d.in \in {"SettingUp", "Done"}
                          /\ d.at \in {"Top", "Update", "Body"}

\* An agent that has set the done lock has told the service that it is done,
\* except when it died between the lock and the event (agent.rs:294, 310): the
\* lock then keeps it silent for ever.
SilentOnlyIfCut ==
    doneLock /\ view \notin {"Done", "DoneError"} =>
      pc = "EmitDone" \/ \E d \in diedAt : d.at = "EmitDone"

\* What holds for a node without a service as well.
UnmanagedSafe == SetupBeforeRun /\ SilentOnlyIfCut

\* A Done event without an error means that every task of the image's work set
\* has been reported done, or was the subject of a stop command.
CleanDone ==
    Managed /\ view = "Done" /\ workCtx # None /\ ~stopNode =>
      \A t \in TasksOf[workCtx] :
        taskView[t] \in {"DoneOk", "DoneErr"} \/ t \in stopTasks

\* The exit status in a WorkerEvent::Done is that of the process, which has
\* exited when the event is sent (worker.rs:292).
DoneMeansExited ==
    Managed => \A t \in Tasks :
      /\ taskView[t] = "DoneOk" => proc[t] = "ok"
      /\ taskView[t] = "DoneErr" => proc[t] = "err"

\* Every slot holds a worker when State<Busy>::update takes it
\* (worker_slot.take().unwrap(), scheduler.rs:281).
SlotsFull ==
    InBody("Busy") => \A t \in Tasks : workers[t] # "Dropped"

\* What the node has taken on is never out of sight: in each state of its work,
\* and between its claim and its end.
WorkTracked == ContextBacksWork /\ ClaimTracked

\* What the service is told at the end is what has happened.
DoneIsTrue == CleanDone /\ DoneMeansExited

\* The events and files of a managed image implement the contract: an image that
\* has said it is done is not heard of again, and one that has saved a work set
\* never saves another, nor announces itself as fresh or free (the service
\* clears its reimage request on Init, agent.rs:74-80).
Contract == INSTANCE NodeContract
              WITH committed <- workCtx, closed <- doneLock

ImplementsContract == Contract!Spec

\* The service manager restarts the process (onefuzz.service: Restart=always;
\* onefuzz-run.ps1), and a running process keeps taking steps.  Nothing is
\* assumed of commands, of task processes, or of deaths beyond their bound.
Fairness == WF_vars(Boot) /\ WF_vars(Handlers)

FairSpec == Spec /\ Fairness

\* A work set that was running when the agent died is reported and the image
\* locked, however often the agent dies while it does so.
CrashReported ==
    (Managed /\ pc = "Down" /\ workCtx # None /\ rebootCtx = None) ~> doneLock

\* An image with a saved work set ends up locked, or has a task's process under
\* supervision: it never hangs between setup, reboot, start and stop, except at
\* the one point where a task died before it connected.
NeverStuck ==
    (Managed /\ workCtx # None) ~>
      (doneLock \/ pc = "Hung" \/ \E t \in ipc : proc[t] = "alive")

\* The image comes to rest, whenever and however often its agent dies.
ImageEnds == CrashReported /\ NeverStuck
=============================================================================
