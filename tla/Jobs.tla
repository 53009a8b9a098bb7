-------------------------------- MODULE Jobs --------------------------------
(***************************************************************************)
(* A job and its tasks in the service: the HTTP handlers that create and   *)
(* delete them, the 15-second timer that stops, initialises and schedules  *)
(* them, the pool queue their work sets go through, and the handlers of    *)
(* the events that the nodes send (in the order NodeContract allows).      *)
(*                                                                         *)
(* Tables are written with unconditional upserts (Orm.Replace).  The timer *)
(* function works for long on records it has read earlier: it is a process *)
(* of its own, which takes a step for each query and each write, and its   *)
(* writes replace whatever the other handlers have written since.  The     *)
(* request that creates a task checks the job in one step and inserts the  *)
(* task in another.  The other HTTP and event handlers work on the one     *)
(* record they have just read; a step is such a handler as a whole, and so *)
(* is MarkFailed with its dependents.                                      *)
(***************************************************************************)
EXTENDS Naturals, Sequences, FiniteSets, Bags

CONSTANTS
    Tasks,            \* the tasks of the job
    Nodes,            \* machine slots of the pool
    Prereq,           \* TaskConfig.PrereqTasks
    Bucket,           \* BucketId: shared by the tasks that may be colocated
    Count,            \* TaskPool.Count: the number of nodes a task runs on
    KeepOnFailure,    \* tasks with TaskDebugFlag.KeepNodeOnFailure
    KeepOnCompletion, \* tasks with TaskDebugFlag.KeepNodeOnCompletion
    MaxTasksPerSet,   \* MAX_TASKS_PER_SET
    MaxUpdates,       \* ProcessStateUpdates: MaxUpdates
    MaxFaults         \* bound on the faults of the timer function

ASSUME JobsAssumption ==
    /\ Prereq \in [Tasks -> SUBSET Tasks]
    /\ Count \in [Tasks -> Nat \ {0}]
    /\ \A t, u \in Tasks :
         t # u /\ Bucket[t] = Bucket[u] => Count[t] = 1 /\ Count[u] = 1
    /\ KeepOnFailure \subseteq Tasks /\ KeepOnCompletion \subseteq Tasks
    /\ MaxTasksPerSet \in Nat \ {0}
    /\ MaxUpdates \in Nat \ {0}
    /\ MaxFaults \in Nat

VARIABLES
    task,       \* the Task table
    job,        \* the Job record
    inputs,     \* tasks whose input queue exists
    queue,      \* the pool's queue: a bag of work sets
    nodeTasks,  \* the NodeTasks table
    node,       \* what each node does
    keep,       \* nodes with DebugKeepNode
    messages,   \* the NodeMessage table: commands for each node
    at,         \* where the timer function is
    snap,       \* the task records it has read and not processed yet
    snapJob,    \* the job record it has read
    iter,       \* iterations of ProcessStateUpdates
    chunk,      \* the tasks of the chunk being built
    todo,       \* those not looked at yet
    units,      \* WorkSet.WorkUnits: the task ids, in order
    current,    \* the task that it is about to stop, if any
    listed,     \* the records that the stop of the job has read and not marked
    newJob,     \* the job record that the stop of the job will write
    back,       \* where the timer function goes on after it
    creating,   \* tasks whose creation has passed its checks
    faults,     \* number of faults so far
    replaced,   \* records on which the timer has undone a set-up or an end time
    revived,    \* tasks a node has brought back, and that have not stopped since
    late,       \* tasks inserted when their job was Stopped, or as good as, and
                \* that have not stopped since
    leaked,     \* stopped tasks whose queue an abort has left behind
    overlooked  \* tasks that a node has set up after the check of their nodes and
                \* before the write of Stopped

tables == <<task, job, inputs, nodeTasks>>
nodes == <<node, keep, messages>>
stops == <<current, listed, newJob, back>>
local == <<snap, snapJob, iter, chunk, todo, units, stops>>
requests == <<creating, late>>
history == <<replaced, revived, leaked, overlooked>>
vars == <<tables, queue, nodes, at, local, requests, faults, history>>

----------------------------------------------------------------------------
(* Enums.cs: TaskStateHelper, JobStateHelper                               *)

ShuttingDown == {"Stopping", "Stopped"}
HasStarted == {"Running", "Stopping", "Stopped"}
AvailableTask == {"Waiting", "Scheduled", "SettingUp", "Running"}
NeedsWorkTask == {"Init", "Stopping"}
AvailableJob == {"Init", "Enabled"}

NeedsWorkJob == {"Init", "Stopping"}

\* "None": no record.  Nothing ever sets WaitJob.
TaskState == {"None", "Init"} \cup AvailableTask \cup ShuttingDown
JobState == {"None", "Init", "Enabled", "Stopping", "Stopped"}

TaskRecord == [state : TaskState, error : BOOLEAN, endTime : BOOLEAN]
JobRecord == [state : JobState, endTime : BOOLEAN]

Phase == {"Free", "Claimed", "SettingUp", "Busy", "Crashed", "Ending",
          "Over"}

NodeRecord == [phase : Phase, units : SUBSET Tasks, left : SUBSET Tasks,
               running : SUBSET Tasks]

Empty(p) == [phase |-> p, units |-> {}, left |-> {}, running |-> {}]

TimerAt == {"Idle", "Expired", "Jobs", "Tasks", "Nodes", "Stop", "Delete",
            "AllDone", "Stopping", "Schedule", "Build", "Mark", "Never"}

Elements(s) == {s[i] : i \in DOMAIN s}

NoSnap == [t \in {} |-> t]
Without(f, t) == [u \in DOMAIN f \ {t} |-> f[u]]

TypeOK ==
    /\ task \in [Tasks -> TaskRecord]
    /\ job \in JobRecord
    /\ inputs \subseteq Tasks
    /\ IsABag(queue) /\ \A m \in DOMAIN queue : m # <<>> /\ Elements(m) \subseteq Tasks
    /\ nodeTasks \subseteq Nodes \X Tasks
    /\ node \in [Nodes -> NodeRecord]
    /\ keep \subseteq Nodes
    /\ messages \in [Nodes -> SUBSET (Tasks \cup {"Stop"})]
    /\ at \in TimerAt
    /\ DOMAIN snap \subseteq Tasks
    /\ \A t \in DOMAIN snap : snap[t] \in TaskRecord
    /\ snapJob \in JobRecord
    /\ iter \in 0..MaxUpdates
    /\ chunk \subseteq Tasks /\ todo \subseteq chunk
    /\ units \in Seq(Tasks)
    /\ current \subseteq Tasks
    /\ DOMAIN listed \subseteq Tasks
    /\ \A t \in DOMAIN listed : listed[t] \in TaskRecord
    /\ newJob \in JobRecord
    /\ back \in TimerAt
    /\ creating \subseteq Tasks
    /\ faults \in 0..MaxFaults
    /\ replaced \subseteq Tasks \cup {"job"}
    /\ revived \subseteq Tasks /\ late \subseteq Tasks
    /\ leaked \subseteq Tasks /\ overlooked \subseteq Tasks

NoTask == [state |-> "None", error |-> FALSE, endTime |-> FALSE]
NoJob == [state |-> "None", endTime |-> FALSE]

Init ==
    /\ task = [t \in Tasks |-> NoTask]
    /\ job = NoJob
    /\ inputs = {}
    /\ queue = EmptyBag
    /\ nodeTasks = {}
    /\ node = [n \in Nodes |-> Empty("Free")]
    /\ keep = {}
    /\ messages = [n \in Nodes |-> {}]
    /\ at = "Idle"
    /\ snap = NoSnap
    /\ snapJob = NoJob
    /\ iter = 0
    /\ chunk = {}
    /\ todo = {}
    /\ units = <<>>
    /\ current = {} /\ listed = NoSnap /\ newJob = NoJob /\ back = "Idle"
    /\ creating = {}
    /\ faults = 0
    /\ replaced = {} /\ revived = {}
    /\ late = {} /\ leaked = {} /\ overlooked = {}

----------------------------------------------------------------------------
(* TaskOperations.cs                                                       *)

\* Mutant of SetState: OnStart is not called for a task that leaves SettingUp.
SetState_OnlyRunning(r, s) ==
    IF r.state = s THEN r
    ELSE [r EXCEPT !.state = s, !.endTime = @ \/ r.state = "Running"]

\* SetState on a record: a task that leaves Running or SettingUp gets its end
\* time (OnStart) if it has none.
SetState(r, s) ==
    IF r.state = s THEN r
    ELSE [r EXCEPT !.state = s,
                   !.endTime = @ \/ r.state \in {"Running", "SettingUp"}]

\* Mutant of CanFail: MarkFailed does not return for tasks that shut down.
CanFail_ShuttingDown(r) == r.state # "None" /\ ~r.error

\* The first half of MarkFailed: the early returns
CanFail(r) == r.state \notin ShuttingDown \cup {"None"} /\ ~r.error

Failed(r) == SetState([r EXCEPT !.error = TRUE], "Stopping")

\* Mutant of Reach: MarkFailed does not go on to the dependents.
Reach_NoDependents(tk, S) == S

\* The tasks MarkFailed reaches from S: dependents, their dependents, and so on,
\* as long as each of them may still fail.  The recursion's result is the least
\* set that contains S and every such dependent of its members.
Reach(tk, S) ==
    LET Closed == {R \in SUBSET Tasks :
                     \A t \in Tasks :
                       CanFail(tk[t]) /\ Prereq[t] \cap R # {} => t \in R}
    IN  {t \in Tasks : \A R \in Closed : S \subseteq R => t \in R}

\* MarkFailed(task, error) for the tasks S, with their current records
MarkFailed(tk, S) ==
    LET F == Reach(tk, {t \in S : CanFail(tk[t])})
    IN  [t \in Tasks |-> IF t \in F THEN Failed(tk[t]) ELSE tk[t]]

\* The same for one task with a record r read earlier
MarkFailedAs(tk, t, r) ==
    IF CanFail(r) THEN MarkFailed([tk EXCEPT ![t] = r], {t}) ELSE tk

\* MarkStopping(task, reason), with a record r of the task
MarkStopping(tk, t, r) ==
    IF r.state \in ShuttingDown THEN tk
    ELSE IF r.state \in HasStarted
         THEN [tk EXCEPT ![t] = SetState(r, "Stopping")]
         ELSE MarkFailedAs(tk, t, r)

\* OnStart, for the job: its clock starts with that of its first task.
OnStart(j, tk, tk2) ==
    [j EXCEPT !.endTime =
        @ \/ \E t \in Tasks : tk2[t].endTime /\ ~tk[t].endTime]

\* CheckPrereqTasks (a prerequisite is never missing: Tasks.Post has found it,
\* and no record is ever deleted)
CheckPrereqTasks(t) == \A p \in Prereq[t] : task[p].state \in HasStarted

----------------------------------------------------------------------------
(* JobOperations.cs                                                        *)

Exist(tk) == {t \in Tasks : tk[t].state # "None"}

\* Mutant of AllStopped: a task that is stopping counts as stopped.
AllStopped_Stopping(tk) == \A t \in Exist(tk) : tk[t].state \in ShuttingDown

AllStopped(tk) == \A t \in Exist(tk) : tk[t].state = "Stopped"

\* Stopping(job), with the record j the caller has, up to its query: it decides
\* what will be written and which tasks will be marked (MarkStopping returns at
\* once for the others).
JobStopping(j, then) ==
    /\ at' = "Stopping" /\ back' = then
    /\ listed' = [t \in {u \in Exist(task) : task[u].state \notin ShuttingDown} |->
                    task[t]]
    /\ newJob' = [j EXCEPT !.state = IF AllStopped(task) THEN "Stopped"
                                     ELSE "Stopping"]

----------------------------------------------------------------------------
(* Jobs.cs and Tasks.cs: the HTTP handlers                                 *)

CreateJob ==
    /\ job.state = "None"
    /\ job' = [NoJob EXCEPT !.state = "Init"]
    /\ UNCHANGED <<task, inputs, nodeTasks, queue, nodes, at, local, requests,
                   faults, history>>

\* Jobs.Delete leaves the rest to the timer.
DeleteJob ==
    /\ job.state \in AvailableJob
    /\ job' = [job EXCEPT !.state = "Stopping"]
    /\ UNCHANGED <<task, inputs, nodeTasks, queue, nodes, at, local, requests,
                   faults, history>>

\* Tasks.Post up to its last check: the job accepts tasks and every prerequisite
\* exists, in whatever state it is.
PostTask(t) ==
    /\ task[t].state = "None" /\ t \notin creating
    /\ job.state \in AvailableJob
    /\ Prereq[t] \subseteq Exist(task)
    /\ creating' = creating \cup {t}
    /\ UNCHANGED <<tables, queue, nodes, at, local, late, faults, history>>

\* TaskOperations.Create: whatever has become of the job, the task is inserted.
CreateTask(t) ==
    /\ t \in creating
    /\ creating' = creating \ {t}
    /\ task' = [task EXCEPT ![t].state = "Init"]
    /\ late' = IF "Stopped" \in {job.state, newJob.state} THEN late \cup {t}
               ELSE late
    /\ UNCHANGED <<job, inputs, nodeTasks, queue, nodes, at, local, faults,
                   history>>

DeleteTask(t) ==
    /\ task[t].state \notin ShuttingDown \cup {"None"}
    /\ task' = MarkStopping(task, t, task[t])
    /\ job' = OnStart(job, task, task')
    /\ UNCHANGED <<inputs, nodeTasks, queue, nodes, at, local, requests, faults,
                   history>>

Http == \/ CreateJob \/ DeleteJob
        \/ \E t \in Tasks : PostTask(t) \/ CreateTask(t) \/ DeleteTask(t)

----------------------------------------------------------------------------
(* TimerTasks.cs: Run, one record at a time                                *)

\* SearchExpired: any of the running clocks may have run out.
StartTimer ==
    /\ at = "Idle"
    /\ \E S \in SUBSET {t \in Tasks : /\ task[t].state \in AvailableTask
                                      /\ task[t].endTime} :
         snap' = [t \in S |-> task[t]]
    /\ at' = "Expired"
    /\ UNCHANGED <<tables, queue, nodes, snapJob, iter, chunk, todo, units, stops,
                   requests, faults, history>>

\* Replace of a record that was read as r before: that a node has begun to set
\* the task up, or the end time it has since got, is undone.
Undoes(t, r) ==
    IF \/ task[t].state = "SettingUp" /\ r.state # "SettingUp"
       \/ task[t].endTime /\ ~r.endTime
    THEN replaced \cup {t} ELSE replaced

StopExpired(t) ==
    /\ at = "Expired" /\ t \in DOMAIN snap
    /\ task' = MarkStopping(task, t, snap[t])
    /\ job' = OnStart(job, task, task')
    /\ snap' = Without(snap, t)
    /\ replaced' = Undoes(t, snap[t])
    /\ UNCHANGED <<inputs, nodeTasks, queue, nodes, at, snapJob, iter, chunk, todo,
                   units, stops, requests, faults, revived, leaked, overlooked>>

\* The job has expired, and its stop begins.
ExpireJob ==
    /\ at = "Expired" /\ snap = NoSnap
    /\ job.state \in AvailableJob /\ job.endTime
    /\ JobStopping(job, "Expired")
    /\ UNCHANGED <<tables, queue, nodes, snap, snapJob, iter, chunk, todo, units,
                   current, requests, faults, history>>

QueryJobs ==
    /\ at = "Expired" /\ snap = NoSnap
    /\ at' = "Jobs"
    /\ snapJob' = IF job.state \in NeedsWorkJob THEN job ELSE NoJob
    /\ iter' = 0
    /\ UNCHANGED <<tables, queue, nodes, snap, chunk, todo, units, stops, requests,
                   faults, history>>

\* The timer writes a job record j that it has made from an older one.
ReplaceJob(j) ==
    /\ job' = j
    /\ replaced' = IF job.endTime /\ ~j.endTime THEN replaced \cup {"job"}
                   ELSE replaced

\* Mutant of UpdateJob: one iteration too many.
UpdateJob_OneMore ==
    /\ at = "Jobs" /\ snapJob # NoJob /\ iter <= MaxUpdates
    /\ snapJob.state = "Init"
    /\ ReplaceJob([snapJob EXCEPT !.state = "Enabled"])
    /\ iter' = iter + 1
    /\ UNCHANGED <<task, inputs, nodeTasks, queue, nodes, at, snap, snapJob, chunk,
                   todo, units, stops, requests, faults, revived, leaked,
                   overlooked>>

\* One iteration of Orm.ProcessStateUpdates: the handler of the state in which
\* the record was read, whatever the last iteration has returned.
UpdateJob ==
    /\ at = "Jobs" /\ snapJob # NoJob /\ iter < MaxUpdates
    /\ iter' = iter + 1
    /\ \/ /\ snapJob.state = "Init"
          /\ ReplaceJob([snapJob EXCEPT !.state = "Enabled"])
          /\ UNCHANGED <<at, listed, newJob, back>>
       \/ /\ snapJob.state = "Stopping"
          /\ JobStopping(snapJob, "Jobs")
          /\ UNCHANGED <<job, replaced>>
    /\ UNCHANGED <<task, inputs, nodeTasks, queue, nodes, snap, snapJob, chunk,
                   todo, units, current, requests, faults, revived, leaked,
                   overlooked>>

\* Stopping: MarkStopping for a task, with the record of its query
StopListed(t) ==
    /\ at = "Stopping" /\ t \in DOMAIN listed
    /\ task' = MarkStopping(task, t, listed[t])
    /\ job' = OnStart(job, task, task')
    /\ listed' = Without(listed, t)
    /\ replaced' = Undoes(t, listed[t])
    /\ UNCHANGED <<inputs, nodeTasks, queue, nodes, at, snap, snapJob, iter, chunk,
                   todo, units, current, newJob, back, requests, faults, revived,
                   leaked, overlooked>>

\* Stopping: the last write.  ProcessStateUpdates ends when the state is the one
\* it had read, and goes on with the old record when it is Stopped.
JobStopped ==
    /\ at = "Stopping" /\ listed = NoSnap
    /\ ReplaceJob(newJob)
    /\ at' = back /\ back' = "Idle" /\ newJob' = NoJob
    /\ iter' = IF back = "Jobs" /\ newJob.state = "Stopping" THEN MaxUpdates
               ELSE iter
    /\ UNCHANGED <<task, inputs, nodeTasks, queue, nodes, snap, snapJob, chunk,
                   todo, units, current, listed, requests, faults, revived, leaked,
                   overlooked>>

QueryTasks ==
    /\ at = "Jobs" /\ (snapJob = NoJob \/ iter = MaxUpdates)
    /\ at' = "Tasks"
    /\ snap' = [t \in {u \in Tasks : task[u].state \in NeedsWorkTask} |-> task[t]]
    /\ snapJob' = NoJob
    /\ iter' = 0
    /\ UNCHANGED <<tables, queue, nodes, chunk, todo, units, stops, requests,
                   faults, history>>

\* TaskOperations.Init
InitTask(t) ==
    /\ at = "Tasks" /\ t \in DOMAIN snap
    /\ snap[t].state = "Init"
    /\ inputs' = inputs \cup {t}
    /\ task' = [task EXCEPT ![t] = SetState(snap[t], "Waiting")]
    /\ replaced' = Undoes(t, snap[t])
    /\ snap' = Without(snap, t)
    /\ UNCHANGED <<job, nodeTasks, queue, nodes, at, snapJob, iter, chunk, todo,
                   units, stops, requests, faults, revived, leaked, overlooked>>

\* NodeTasksOperations.GetNodesByTaskId
NodesOf(t) == {n \in Nodes : <<n, t>> \in nodeTasks}

\* The check of NodeOperations.StopIfComplete
Complete(n) ==
    \A t \in Tasks : <<n, t>> \in nodeTasks => task[t].state \in ShuttingDown

\* Mutant of StopTask: a node whose tasks are all stopping gets no command.
StopTask_OnlyComplete(t) ==
    messages' = [n \in Nodes |->
        IF n \in NodesOf(t) /\ ~Complete(n) THEN messages[n] \cup {t}
        ELSE messages[n]]

\* NodeOperations.StopTask: a command for every node of the task
StopTask(t) ==
    messages' = [n \in Nodes |->
        IF n \notin NodesOf(t) THEN messages[n]
        ELSE messages[n] \cup {t} \cup (IF Complete(n) THEN {"Stop"} ELSE {})]

\* TaskOperations.Stopping: its first call
StoppingTask(t) ==
    /\ at = "Tasks" /\ t \in DOMAIN snap
    /\ snap[t].state = "Stopping"
    /\ StopTask(t)
    /\ current' = {t}
    /\ at' = "Nodes"
    /\ UNCHANGED <<tables, queue, node, keep, snap, snapJob, iter, chunk, todo,
                   units, listed, newJob, back, requests, faults, history>>

\* Mutant of CheckNodes: the nodes are not looked at.
CheckNodes_Any(t) ==
    /\ at = "Nodes" /\ t \in current
    /\ at' = "Stop"
    /\ UNCHANGED <<tables, queue, nodes, local, requests, faults, history>>

\* TaskOperations.Stopping: its second call; while nodes remain the task waits
\* for the next tick.
CheckNodes(t) ==
    /\ at = "Nodes" /\ t \in current
    /\ IF NodesOf(t) = {}
       THEN at' = "Stop" /\ UNCHANGED <<snap, current>>
       ELSE at' = "Tasks" /\ snap' = Without(snap, t) /\ current' = {}
    /\ UNCHANGED <<tables, queue, nodes, snapJob, iter, chunk, todo, units, listed,
                   newJob, back, requests, faults, history>>

\* TaskOperations.Stopped: SetState.  A node may have set the task up since the
\* check.
StoppedTask(t) ==
    /\ at = "Stop" /\ t \in current
    /\ task' = [task EXCEPT ![t] = SetState(snap[t], "Stopped")]
    /\ at' = "Delete"
    /\ snap' = Without(snap, t)
    /\ replaced' = Undoes(t, snap[t])
    /\ revived' = revived \ {t} /\ late' = late \ {t}
    /\ UNCHANGED <<job, inputs, nodeTasks, queue, nodes, snapJob, iter, chunk, todo,
                   units, stops, creating, faults, leaked, overlooked>>

\* Mutant of DeleteQueue: the queue of the last task is left to the job.
DeleteQueue_NotLast(t) ==
    /\ at = "Delete" /\ t \in current
    /\ inputs' = IF AllStopped(task) THEN inputs ELSE inputs \ {t}
    /\ current' = {}
    /\ at' = "Tasks"
    /\ UNCHANGED <<task, job, nodeTasks, queue, nodes, snap, snapJob, iter, chunk,
                   todo, units, listed, newJob, back, requests, faults, history>>

\* TaskOperations.Stopped: DeleteQueue, then the job and the query of
\* StopIfAllDone.  Only this process touches the queues, and nobody changes the
\* job together with which tasks are stopped: the three may be one step.
DeleteQueue(t) ==
    /\ at = "Delete" /\ t \in current
    /\ inputs' = inputs \ {t}
    /\ current' = {}
    /\ IF AllStopped(task) THEN at' = "AllDone" /\ snapJob' = job
       ELSE at' = "Tasks" /\ UNCHANGED snapJob
    /\ UNCHANGED <<task, job, nodeTasks, queue, nodes, snap, iter, chunk, todo,
                   units, listed, newJob, back, requests, faults, history>>

\* StopIfAllDone: Stopping(job)
StopIfAllDone ==
    /\ at = "AllDone"
    /\ JobStopping(snapJob, "Tasks")
    /\ snapJob' = NoJob
    /\ UNCHANGED <<tables, queue, nodes, snap, iter, chunk, todo, units, current,
                   requests, faults, history>>

----------------------------------------------------------------------------
(* Scheduler.cs: ScheduleTasks                                             *)

QuerySchedule ==
    /\ at = "Tasks" /\ snap = NoSnap
    /\ at' = "Schedule"
    /\ snap' = [t \in {u \in Tasks : task[u].state = "Waiting"} |-> task[t]]
    /\ UNCHANGED <<tables, queue, nodes, snapJob, iter, chunk, todo, units, stops,
                   requests, faults, history>>

\* BucketTasks and Chunk
PickChunk ==
    /\ at = "Schedule"
    /\ \E C \in SUBSET DOMAIN snap :
         /\ C # {}
         /\ \E b \in {Bucket[t] : t \in Tasks} :
              LET B == {t \in DOMAIN snap : Bucket[t] = b}
              IN  /\ C \subseteq B
                  /\ C = B \/ Cardinality(C) = MaxTasksPerSet
         /\ Cardinality(C) <= MaxTasksPerSet
         /\ chunk' = C /\ todo' = C
    /\ units' = <<>>
    /\ at' = "Build"
    /\ UNCHANGED <<tables, queue, nodes, snap, snapJob, iter, stops, requests, faults,
                   history>>

\* BuildWorkSet for one task: it waits for its prerequisites, becomes a work
\* unit, or is marked as failed (no pool, no valid configuration).
BuildWorkUnit(t) ==
    /\ at = "Build" /\ t \in todo
    /\ todo' = todo \ {t}
    /\ LET ready == \/ Prereq[t] \subseteq chunk
                    \/ CheckPrereqTasks(t)
       IN  \/ /\ ~ready
              /\ UNCHANGED <<task, job, units, replaced>>
           \/ /\ ready
              /\ units' = Append(units, t)
              /\ UNCHANGED <<task, job, replaced>>
           \/ /\ ready
              /\ task' = MarkFailedAs(task, t, snap[t])
              /\ job' = OnStart(job, task, task')
              /\ replaced' = Undoes(t, snap[t])
              /\ UNCHANGED units
    /\ UNCHANGED <<inputs, nodeTasks, queue, nodes, at, snap, snapJob, iter, chunk,
                   stops, requests, faults, revived, leaked, overlooked>>

EndChunk ==
    /\ snap' = [t \in DOMAIN snap \ chunk |-> snap[t]]
    /\ chunk' = {}

\* k copies of the work set are in the pool's queue.
Push(k) == queue' = IF k = 0 THEN queue ELSE queue (+) [m \in {units} |-> k]

\* ScheduleWorkset: all copies are queued.
ScheduleWorkset ==
    /\ at = "Build" /\ todo = {} /\ units # <<>>
    /\ Push(Count[Head(units)])
    /\ at' = "Mark"
    /\ UNCHANGED <<tables, nodes, local, requests, faults, history>>

\* Nothing to queue, the pool is not available, or the queue fails on one of
\* the copies: the tasks stay Waiting for the next round.
ScheduleNothing ==
    /\ at = "Build" /\ todo = {}
    /\ \/ Push(0) /\ UNCHANGED faults
       \/ /\ units # <<>> /\ faults < MaxFaults
          /\ \E k \in 1..(Count[Head(units)] - 1) : Push(k)
          /\ faults' = faults + 1
    /\ at' = "Schedule"
    /\ EndChunk
    /\ units' = <<>>
    /\ UNCHANGED <<tables, nodes, snapJob, iter, todo, stops, requests, history>>

\* The work set is queued: SetState(Scheduled) for one of its tasks
MarkScheduled ==
    /\ at = "Mark"
    /\ LET t == Head(units)
       IN  /\ task' = [task EXCEPT ![t] = SetState(snap[t], "Scheduled")]
           /\ replaced' = Undoes(t, snap[t])
    /\ units' = Tail(units)
    /\ IF Len(units) = 1 THEN at' = "Schedule" /\ EndChunk
       ELSE UNCHANGED <<at, snap, chunk>>
    /\ UNCHANGED <<job, inputs, nodeTasks, queue, nodes, snapJob, iter, todo, stops,
                   requests, faults, revived, leaked, overlooked>>

\* StopNeverStartedJobs: 30 days without an end time.  MarkFailed returns at once
\* for the tasks that are left out.
StopNeverStarted ==
    /\ at = "Schedule" /\ snap = NoSnap
    /\ job.state = "Enabled" /\ ~job.endTime
    /\ at' = "Never"
    /\ snapJob' = job
    /\ snap' = [t \in {u \in Tasks : CanFail(task[u])} |-> task[t]]
    /\ UNCHANGED <<tables, queue, nodes, iter, chunk, todo, units, stops, requests,
                   faults, history>>

FailNeverStarted(t) ==
    /\ at = "Never" /\ t \in DOMAIN snap
    /\ task' = MarkFailedAs(task, t, snap[t])
    /\ job' = OnStart(job, task, task')
    /\ snap' = Without(snap, t)
    /\ replaced' = Undoes(t, snap[t])
    /\ UNCHANGED <<inputs, nodeTasks, queue, nodes, at, snapJob, iter, chunk, todo,
                   units, stops, requests, faults, revived, leaked, overlooked>>

StopNeverStartedJob ==
    /\ at = "Never" /\ snap = NoSnap
    /\ JobStopping(snapJob, "Idle")
    /\ snapJob' = NoJob
    /\ UNCHANGED <<tables, queue, nodes, snap, iter, chunk, todo, units, current,
                   requests, faults, history>>

EndTimer ==
    /\ at = "Schedule" /\ snap = NoSnap
    /\ at' = "Idle"
    /\ UNCHANGED <<tables, queue, nodes, local, requests, faults, history>>

\* An exception or the end of the host ends the function; the next tick starts
\* from the tables.
AbortTimer ==
    /\ at # "Idle" /\ faults < MaxFaults
    /\ faults' = faults + 1
    /\ at' = "Idle"
    /\ snap' = NoSnap /\ snapJob' = NoJob /\ iter' = 0
    /\ chunk' = {} /\ todo' = {} /\ units' = <<>>
    /\ current' = {} /\ listed' = NoSnap /\ newJob' = NoJob /\ back' = "Idle"
    /\ leaked' = IF at = "Delete" THEN leaked \cup current ELSE leaked
    /\ UNCHANGED <<tables, queue, nodes, requests, replaced, revived, overlooked>>

Timer == \/ StartTimer \/ ExpireJob \/ QueryJobs \/ UpdateJob \/ JobStopped
         \/ QueryTasks \/ StopIfAllDone
         \/ \E t \in Tasks : \/ StopExpired(t) \/ StopListed(t) \/ InitTask(t)
                             \/ StoppingTask(t) \/ CheckNodes(t)
                             \/ StoppedTask(t) \/ DeleteQueue(t)
                             \/ BuildWorkUnit(t) \/ FailNeverStarted(t)
         \/ QuerySchedule \/ PickChunk \/ ScheduleWorkset \/ ScheduleNothing
         \/ MarkScheduled \/ StopNeverStarted \/ StopNeverStartedJob \/ EndTimer

----------------------------------------------------------------------------
(* The nodes: what the agent does between two requests (NodeContract), and *)
(* AgentCanSchedule.cs, AgentEvents.cs, NodeOperations.cs                  *)

Rest == <<at, local, requests, faults, replaced, leaked, overlooked>>

\* can_schedule for the first work unit only (coordinator.rs), then the claim
Claim(n) ==
    /\ node[n].phase = "Free"
    /\ \E m \in DOMAIN queue :
         /\ task[Head(m)].state \notin ShuttingDown
         /\ queue' = queue (-) SetToBag({m})
         /\ node' = [node EXCEPT ![n] =
              [phase |-> "Claimed", units |-> Elements(m), left |-> Elements(m),
               running |-> {}]]
    /\ UNCHANGED <<tables, keep, messages, Rest, revived>>

\* WorkStopped: the message is claimed and dropped.
DropStopped(n) ==
    /\ node[n].phase = "Free"
    /\ \E m \in DOMAIN queue :
         /\ task[Head(m)].state \in ShuttingDown
         /\ queue' = queue (-) SetToBag({m})
    /\ UNCHANGED <<tables, nodes, Rest, revived>>

\* The agent dies after the claim and before the work set is on disk; it may have
\* announced the setup before (agent.rs:220, setup.rs:70), and the service goes
\* on believing it.
LoseClaim(n) ==
    /\ node[n].phase \in {"Claimed", "SettingUp"}
    /\ faults < MaxFaults
    /\ faults' = faults + 1
    /\ node' = [node EXCEPT ![n] = Empty("Free")]
    /\ UNCHANGED <<tables, queue, keep, messages, at, local, requests, history>>

\* OnStateUpdate, NodeState.SettingUp: for every task of the work set
SettingUpEvent(n) ==
    /\ node[n].phase = "Claimed"
    /\ node' = [node EXCEPT ![n].phase = "SettingUp"]
    /\ task' = [t \in Tasks |->
         IF t \in node[n].units /\ task[t].state \notin {"Running", "SettingUp"}
         THEN SetState(task[t], "SettingUp") ELSE task[t]]
    /\ nodeTasks' = nodeTasks \cup ({n} \X node[n].units)
    /\ revived' = revived \cup
         {t \in node[n].units : task[t].state \in ShuttingDown}
    /\ overlooked' = IF at = "Stop" THEN overlooked \cup (current \cap node[n].units)
                     ELSE overlooked
    /\ UNCHANGED <<job, inputs, queue, keep, messages, at, local, requests, faults,
                   replaced, leaked>>

\* OnWorkerEventRunning
RunningEvent(n, t) ==
    /\ node[n].phase \in {"SettingUp", "Busy"} /\ t \in node[n].left
    /\ node' = [node EXCEPT ![n].phase = "Busy", ![n].left = @ \ {t},
                            ![n].running = @ \cup {t}]
    /\ nodeTasks' = nodeTasks \cup {<<n, t>>}
    /\ task' = IF task[t].state \in ShuttingDown THEN task
               ELSE [task EXCEPT ![t] = SetState(@, "Running")]
    /\ job' = OnStart(job, task, task')
    /\ UNCHANGED <<inputs, queue, keep, messages, Rest, revived>>

\* OnWorkerEventDone with the given exit status
WorkerDone(n, t, success) ==
    /\ task' = IF success THEN MarkStopping(task, t, task[t])
               ELSE MarkFailed(task, {t})
    /\ job' = OnStart(job, task, task')
    /\ keep' = IF t \in KeepOnCompletion \/ (~success /\ t \in KeepOnFailure)
               THEN keep \cup {n} ELSE keep
    /\ nodeTasks' = IF n \in keep' THEN nodeTasks ELSE nodeTasks \ {<<n, t>>}
    /\ UNCHANGED <<inputs, queue, messages, Rest, revived>>

\* The task's process has exited.  The start of every worker was announced
\* before the first of them is looked at.
DoneEvent(n, t) ==
    /\ node[n].phase = "Busy" /\ node[n].left = {} /\ t \in node[n].running
    /\ node' = [node EXCEPT ![n].running = @ \ {t}]
    /\ \E success \in BOOLEAN : WorkerDone(n, t, success)

\* check_existing_worksets reports every unit of the work set.
CrashEvent(n, t) ==
    /\ node[n].phase = "Crashed" /\ t \in node[n].left
    /\ node' = [node EXCEPT ![n].left = @ \ {t}]
    /\ WorkerDone(n, t, FALSE)

Crashed(nd) == [nd EXCEPT !.phase = "Crashed", !.left = nd.units, !.running = {}]

\* The agent dies with the work set on disk, or again while it reports.
Crash(n) ==
    /\ node[n].phase \in {"SettingUp", "Busy", "Crashed"}
    /\ faults < MaxFaults
    /\ faults' = faults + 1
    /\ node' = [node EXCEPT ![n] = Crashed(@)]
    /\ UNCHANGED <<tables, queue, keep, messages, at, local, requests, history>>

\* NodeOperations.MarkTasksStoppedEarly
MarkTasksStoppedEarly(n) ==
    /\ task' = MarkFailed(task, {t \in Tasks : <<n, t>> \in nodeTasks})
    /\ job' = OnStart(job, task, task')

\* OnStateUpdate, NodeState.Done: after a stop, a failed setup, the end of all
\* workers or the report of a crash
NodeDone(n) ==
    /\ \/ node[n].phase \in {"Ending", "SettingUp"}
       \/ node[n].phase = "Busy" /\ node[n].left = {} /\ node[n].running = {}
       \/ node[n].phase = "Crashed" /\ node[n].left = {}
    /\ node' = [node EXCEPT ![n] = Empty("Over")]
    /\ MarkTasksStoppedEarly(n)
    /\ nodeTasks' = IF n \in keep THEN nodeTasks ELSE nodeTasks \ ({n} \X Tasks)
    /\ UNCHANGED <<inputs, queue, keep, messages, Rest, revived>>

\* The agent dies between its done lock and the event (Agent: SilentOnlyIfCut).
SilentDone(n) ==
    /\ node[n].phase = "Ending"
    /\ faults < MaxFaults
    /\ faults' = faults + 1
    /\ node' = [node EXCEPT ![n] = Empty("Over")]
    /\ UNCHANGED <<tables, queue, keep, messages, at, local, requests, history>>

\* The agent takes a command.  StopTask on several workers ends in a panic
\* (Agent: SlotsFull), and so does one that comes before they are started.
ObeyStop(n) ==
    /\ "Stop" \in messages[n]
    /\ node' = [node EXCEPT ![n] = Empty("Ending")]
    /\ messages' = [messages EXCEPT ![n] = @ \ {"Stop"}]

ObeyStopTask(n, t) ==
    /\ t \in messages[n]
    /\ messages' = [messages EXCEPT ![n] = @ \ {t}]
    /\ \/ /\ node[n].phase = "Busy" /\ node[n].units = {t}
          /\ node' = [node EXCEPT ![n] = Empty("Ending")]
       \/ /\ node[n].phase \in {"SettingUp", "Busy"} /\ t \in node[n].units
          /\ node' = [node EXCEPT ![n] = Crashed(@)]
       \/ /\ node[n].phase # "Busy" \/ t \notin node[n].units
          /\ UNCHANGED node

Obey(n) ==
    /\ node[n].phase \in {"Free", "Claimed", "SettingUp", "Busy"}
    /\ node[n].phase = "Busy" => node[n].left = {}
    /\ ObeyStop(n) \/ \E t \in Tasks : ObeyStopTask(n, t)
    /\ UNCHANGED <<tables, queue, keep, Rest, revived>>

\* The agent takes a Stop command of another part of the service: the node is
\* too old, outdated, to be scaled in, or a user asks for it.
OtherStop(n) ==
    /\ node[n].phase \in {"Free", "Claimed", "SettingUp", "Busy"}
    /\ node[n].phase = "Busy" => node[n].left = {}
    /\ node' = [node EXCEPT ![n] = Empty("Ending")]
    /\ UNCHANGED <<tables, queue, keep, messages, Rest, revived>>

\* NodeOperations.Delete: the node is reimaged or deleted (it is done, too old,
\* or has stopped sending heartbeats) and a fresh one takes its place.
RemoveNode(n) ==
    /\ MarkTasksStoppedEarly(n)
    /\ nodeTasks' = nodeTasks \ ({n} \X Tasks)
    /\ messages' = [messages EXCEPT ![n] = {}]
    /\ keep' = keep \ {n}
    /\ node' = [node EXCEPT ![n] = Empty("Free")]
    /\ UNCHANGED <<inputs, queue, Rest, revived>>

Events(n) == \/ SettingUpEvent(n) \/ NodeDone(n)
             \/ \E t \in Tasks : RunningEvent(n, t) \/ CrashEvent(n, t)

NodeFaults(n) == LoseClaim(n) \/ Crash(n) \/ SilentDone(n)

Node(n) == \/ Claim(n) \/ DropStopped(n) \/ Events(n) \/ NodeFaults(n)
           \/ \E t \in Tasks : DoneEvent(n, t)
           \/ Obey(n) \/ OtherStop(n) \/ RemoveNode(n)

Next == Http \/ Timer \/ AbortTimer \/ \E n \in Nodes : Node(n)

Spec == Init /\ [][Next]_vars

----------------------------------------------------------------------------
(* Properties                                                              *)

\* A stopped task leaves that state only when a node that had claimed it says
\* that it sets it up (AgentEvents.cs:136): no late worker event, no deletion
\* and no stale record of the timer brings it back.
StoppedUntilSetup ==
    [][\A t \in Tasks : task[t].state = "Stopped" =>
         task'[t].state \in {"Stopped", "SettingUp"}]_vars

\* A job is Stopped only when all of its tasks are (JobOperations.cs:119),
\* whatever is created, deleted or reported meanwhile.  Two kinds of tasks are the
\* exceptions, and the only ones: those a node has revived, and those whose
\* request had passed its check of the job (Tasks.cs:121) and inserts them after
\* the query that found every task stopped (JobOperations.cs:108, 124).
JobStoppedMeansTasksStopped ==
    job.state = "Stopped" =>
      \A t \in Exist(task) : task[t].state = "Stopped" \/ t \in revived \cup late

\* A running task has an end time, so that it expires: SettingUp comes before
\* Running (TaskOperations.cs:154).  The exception is a task whose SettingUp was
\* undone by the scheduler's late SetState(Scheduled).
RunningExpires ==
    \A t \in Tasks : task[t].state = "Running" =>
      task[t].endTime \/ t \in replaced

\* The job's clock runs once that of a task does (TaskOperations.cs:236), unless
\* the timer has undone it or is stopping the job.
JobClock ==
    (\E t \in Tasks : task[t].endTime) =>
      job.endTime \/ job.state \in {"Stopping", "Stopped"} \/ "job" \in replaced

\* The input queue of a task exists as long as the task may need it, and is
\* gone once the task has stopped (TaskOperations.cs:334, 351), although the
\* timer creates and deletes it on the strength of records it has read earlier:
\* a stopped task has its queue only while the timer is about to delete it, or
\* for ever after an abort at that very point.  A task that is revived after it
\* has stopped runs without its queue.
InputQueue ==
    \A t \in Tasks :
      /\ task[t].state = "Stopped" /\ t \in inputs =>
           t \in leaked \/ (at = "Delete" /\ t \in current)
      /\ task[t].state \in AvailableTask => t \in inputs \/ t \in revived

\* What keeps a task going and what ends it are there when it runs, and not after:
\* its clock, its job's clock and its input queue.
Provided == RunningExpires /\ JobClock /\ InputQueue

\* A task is Stopped only when no node that has announced it still has it to
\* run (TaskOperations.cs:342): stop commands, node events and node removals
\* race with the check.  The exception is a task that a node has announced
\* between the check and the write of Stopped (350).
StoppedMeansIdle ==
    \A t \in Tasks, n \in Nodes :
      task[t].state = "Stopped" /\ node[n].phase \in {"SettingUp", "Busy"} =>
        t \notin node[n].left \cup node[n].running \/ t \in overlooked

Holders(t) ==
    {n \in Nodes : /\ t \in node[n].units
                   /\ node[n].phase \in {"Claimed", "SettingUp", "Busy"}}

\* The messages of the queue that the task is in; those alike are numbered.
Queued(t) ==
    UNION {{m} \X (1..queue[m]) : m \in {w \in DOMAIN queue : t \in Elements(w)}}

Copies(t) == Cardinality(Queued(t)) + Cardinality(Holders(t))

\* Without a fault between the queue and the table, a task is never in the
\* pool's queue and on nodes more often than it asked for: the timer never
\* schedules it twice, although its records are stale.
NoDoubleScheduling ==
    faults = 0 => \A t \in Tasks : Copies(t) <= Count[t]

\* The table of tasks, the pool's queue and the nodes agree on what is to run.
NodesMatchTasks == StoppedMeansIdle /\ NoDoubleScheduling

\* When a task fails, the tasks that wait for it are failed with it, through
\* the recursion of MarkFailed (TaskOperations.cs:133-139).
FailurePropagates ==
    [][\A t \in Tasks, u \in Exist(task) :
         ~task[t].error /\ task'[t].error /\ t \in Prereq[u] =>
           task[u].error \/ task'[u].state \in ShuttingDown]_vars

\* "Other states we would want to preserve are excluded by the outermost
\* conditional check" (AgentEvents.cs:133-134): the setup of a work set does not
\* take a task out of Stopping or Stopped.
SetupPreservesStop ==
    [][\A t \in Tasks : task[t].state \in ShuttingDown =>
         task'[t].state # "SettingUp"]_vars

\* The timer function runs every 15 seconds and its faults are bounded; an
\* agent goes on sending its events and polling commands (Agent: NeverStuck), of
\* which it gets the newest (NewSortedKey), so that a Stop, which is sent after the
\* StopTask, is not kept from it by older ones; a node that is done is reimaged or
\* deleted.  Nothing is assumed of users, of
\* the processes of the tasks, or of clocks.
Fairness ==
    /\ WF_vars(Timer)
    /\ \A n \in Nodes :
         /\ WF_vars(Events(n))
         /\ WF_vars(Obey(n))
         /\ WF_vars(Obey(n) /\ ObeyStop(n))
         /\ WF_vars(node[n].phase = "Over" /\ RemoveNode(n))

FairSpec == Spec /\ Fairness

\* A task that is being stopped does not stay so: the commands, the events and
\* the timer never wait for one another for ever.
TaskStops ==
    \A t \in Tasks :
      task[t].state = "Stopping" ~> task[t].state # "Stopping"

\* A task that was failed and then revived cannot be failed again: MarkFailed
\* returns at once (TaskOperations.cs:120).
Stuck(t) == task[t].error /\ task[t].state \notin ShuttingDown

\* A job that is being stopped ends, unless a failed task has been revived or
\* the timer has undone the request.
JobStops ==
    job.state = "Stopping" ~>
      job.state # "Stopping" \/ \E t \in Tasks : Stuck(t)

\* Stopping ends, for a task and for a job.
StoppingEnds == TaskStops /\ JobStops
=============================================================================
