----------------------------- MODULE JobsProofs -----------------------------
(***************************************************************************)
(* Proofs about Jobs, for every set of tasks and nodes, every graph of     *)
(* prerequisites, every number of copies and of faults.                    *)
(***************************************************************************)
EXTENDS Jobs, FiniteSetTheorems, TLAPS

----------------------------------------------------------------------------
(* What the operations on a task record and on the table of tasks do.      *)

\* q is r, or r on its way to its end.
Stops(r, q) ==
    \/ q = r
    \/ /\ r.state \notin ShuttingDown \cup {"None"}
       /\ q.state = "Stopping"
       /\ r.error => q.error
       /\ q.endTime <=> r.endTime \/ r.state \in {"Running", "SettingUp"}

Table == [Tasks -> TaskRecord]

\* A task that fails takes along those that wait for it.
Propagates(tk, tk2) ==
    \A t, u \in Tasks :
      ~tk[t].error /\ tk2[t].error /\ t \in Prereq[u] /\ tk[u].state # "None" =>
        tk[u].error \/ tk2[u].state \in ShuttingDown

\* SetState changes the state, never the error, and starts the clock of a task
\* that leaves SettingUp or Running.
LEMMA SetStateFacts ==
    ASSUME NEW r \in TaskRecord, NEW s \in TaskState
    PROVE  /\ SetState(r, s) \in TaskRecord
           /\ SetState(r, s).state = s
           /\ SetState(r, s).error = r.error
           /\ SetState(r, s).endTime <=>
                r.endTime \/ (r.state # s /\ r.state \in {"Running", "SettingUp"})
  BY DEF SetState, TaskRecord

\* A record that MarkFailed changes has an error and is stopping.
LEMMA FailedFacts ==
    ASSUME NEW r \in TaskRecord, CanFail(r)
    PROVE  /\ Failed(r) \in TaskRecord
           /\ Failed(r).state = "Stopping"
           /\ Failed(r).error
           /\ Failed(r) # r
           /\ Stops(r, Failed(r))
<1> DEFINE e == [r EXCEPT !.error = TRUE]
<1>1. e \in TaskRecord /\ e.state = r.state /\ e.error /\ e.endTime = r.endTime
  BY DEF TaskRecord
<1>2. "Stopping" \in TaskState
  BY DEF TaskState, ShuttingDown
<1>3. r.state # "Stopping" /\ ~r.error
  BY DEF CanFail, ShuttingDown
<1> HIDE DEF e
<1>4. Failed(r) = SetState(e, "Stopping")
  BY DEF Failed, e
<1> DEFINE q == SetState(e, "Stopping")
<1>5. /\ q \in TaskRecord
      /\ q.state = "Stopping"
      /\ q.error = e.error
      /\ q.endTime <=>
           e.endTime \/ (e.state # "Stopping" /\ e.state \in {"Running", "SettingUp"})
  BY <1>1, <1>2, SetStateFacts
<1> HIDE DEF q
<1>6. Stops(r, q) /\ q # r
  BY <1>1, <1>3, <1>5 DEF Stops, CanFail
<1> QED
  BY <1>1, <1>4, <1>5, <1>6 DEF q

\* The tasks MarkFailed reaches are the ones it starts from and tasks that may
\* fail, and no dependent that may fail is left out.
LEMMA ReachFacts ==
    ASSUME NEW tk \in Table, NEW S \in SUBSET Tasks
    PROVE  /\ S \subseteq Reach(tk, S)
           /\ Reach(tk, S) \subseteq S \cup {t \in Tasks : CanFail(tk[t])}
           /\ \A t \in Tasks :
                CanFail(tk[t]) /\ Prereq[t] \cap Reach(tk, S) # {} =>
                  t \in Reach(tk, S)
<1> DEFINE Closed == {R \in SUBSET Tasks :
                        \A t \in Tasks :
                          CanFail(tk[t]) /\ Prereq[t] \cap R # {} => t \in R}
<1>1. Reach(tk, S) = {t \in Tasks : \A R \in Closed : S \subseteq R => t \in R}
  BY DEF Reach
<1>2. S \cup {t \in Tasks : CanFail(tk[t])} \in Closed
  OBVIOUS
<1>3. ASSUME NEW t \in Tasks, CanFail(tk[t]), Prereq[t] \cap Reach(tk, S) # {}
      PROVE  t \in Reach(tk, S)
  <2> SUFFICES ASSUME NEW R \in Closed, S \subseteq R PROVE t \in R
    BY <1>1
  <2>1. PICK p \in Prereq[t] : p \in Reach(tk, S)
    BY <1>3
  <2>2. p \in R
    BY <1>1, <2>1
  <2> QED
    BY <1>3, <2>1, <2>2
<1> QED
  BY <1>1, <1>2, <1>3

\* MarkFailed fails tasks that may fail, those it is called for among them, and
\* goes on to their dependents.
LEMMA MarkFailedFacts ==
    ASSUME NEW tk \in Table, NEW S \in SUBSET Tasks
    PROVE  /\ MarkFailed(tk, S) \in Table
           /\ \A t \in Tasks : Stops(tk[t], MarkFailed(tk, S)[t])
           /\ \A t \in Tasks :
                \/ MarkFailed(tk, S)[t] = tk[t]
                \/ MarkFailed(tk, S)[t] = Failed(tk[t]) /\ CanFail(tk[t])
           /\ \A t \in S : CanFail(tk[t]) => MarkFailed(tk, S)[t] = Failed(tk[t])
           /\ \A t, u \in Tasks :
                /\ MarkFailed(tk, S)[t] # tk[t] /\ t \in Prereq[u]
                /\ CanFail(tk[u])
                => MarkFailed(tk, S)[u] = Failed(tk[u])
<1> DEFINE F == Reach(tk, {t \in S : CanFail(tk[t])})
<1>1. MarkFailed(tk, S) = [t \in Tasks |-> IF t \in F THEN Failed(tk[t]) ELSE tk[t]]
  BY DEF MarkFailed
<1>2. /\ {t \in S : CanFail(tk[t])} \subseteq F
      /\ \A t \in F : t \in Tasks /\ CanFail(tk[t])
      /\ \A u \in Tasks : CanFail(tk[u]) /\ Prereq[u] \cap F # {} => u \in F
  BY ReachFacts
<1> HIDE DEF F
<1>3. \A t \in Tasks : tk[t] \in TaskRecord
  BY DEF Table
<1>4. \A t \in F : /\ Failed(tk[t]) \in TaskRecord
                   /\ Stops(tk[t], Failed(tk[t]))
  BY <1>2, <1>3, FailedFacts
<1>5. MarkFailed(tk, S) \in Table
  BY <1>1, <1>2, <1>3, <1>4 DEF Table
<1>6. \A t \in Tasks : Stops(tk[t], tk[t])
  BY DEF Stops
<1> QED
  BY <1>1, <1>2, <1>4, <1>5, <1>6

\* What MarkFailed writes reaches every dependent that exists.
LEMMA MarkFailedPropagates ==
    ASSUME NEW tk \in Table, NEW S \in SUBSET Tasks
    PROVE  Propagates(tk, MarkFailed(tk, S))
<1> DEFINE m == MarkFailed(tk, S)
<1> SUFFICES ASSUME NEW t \in Tasks, NEW u \in Tasks, ~tk[t].error, m[t].error,
                    t \in Prereq[u], tk[u].state # "None"
             PROVE  tk[u].error \/ m[u].state \in ShuttingDown
  BY DEF Propagates
<1>1. m[t] # tk[t]
  OBVIOUS
<1>2. CASE CanFail(tk[u])
  <2>1. m[u] = Failed(tk[u]) /\ tk[u] \in TaskRecord
    BY <1>1, <1>2, MarkFailedFacts DEF Table
  <2> QED
    BY <1>2, <2>1, FailedFacts DEF ShuttingDown
<1>3. CASE ~CanFail(tk[u])
  <2>1. m[u] = tk[u]
    BY <1>3, MarkFailedFacts
  <2> QED
    BY <1>3, <2>1 DEF CanFail
<1> QED
  BY <1>2, <1>3

\* MarkFailed with a record read earlier: the task itself goes on from that
\* record, the others from their own.
LEMMA MarkFailedAsFacts ==
    ASSUME NEW tk \in Table, NEW t \in Tasks, NEW r \in TaskRecord
    PROVE  /\ MarkFailedAs(tk, t, r) \in Table
           /\ \A u \in Tasks \ {t} : Stops(tk[u], MarkFailedAs(tk, t, r)[u])
           /\ \/ MarkFailedAs(tk, t, r) = tk
              \/ /\ CanFail(r) /\ Stops(r, MarkFailedAs(tk, t, r)[t])
                 /\ MarkFailedAs(tk, t, r)[t].state = "Stopping"
                 /\ MarkFailedAs(tk, t, r)[t].error
           /\ Propagates(tk, MarkFailedAs(tk, t, r))
<1>1. CASE ~CanFail(r)
  <2>1. MarkFailedAs(tk, t, r) = tk
    BY <1>1 DEF MarkFailedAs
  <2> QED
    BY <2>1 DEF Stops, Propagates
<1>2. CASE CanFail(r)
  <2> DEFINE k == [tk EXCEPT ![t] = r]
             m == MarkFailed(k, {t})
  <2>1. MarkFailedAs(tk, t, r) = m
    BY <1>2 DEF MarkFailedAs
  <2>2. k \in Table /\ k[t] = r /\ \A u \in Tasks \ {t} : k[u] = tk[u]
    BY DEF Table
  <2> HIDE DEF k
  <2>3. /\ m \in Table /\ m[t] = Failed(r)
        /\ \A u \in Tasks : Stops(k[u], m[u])
        /\ \A u \in Tasks : m[u] = k[u] \/ (m[u] = Failed(k[u]) /\ CanFail(k[u]))
        /\ \A u, v \in Tasks :
             m[u] # k[u] /\ u \in Prereq[v] /\ CanFail(k[v]) => m[v] = Failed(k[v])
    BY <1>2, <2>2, MarkFailedFacts
  <2>4. /\ m[t].state = "Stopping" /\ m[t].error /\ m[t] # r /\ Stops(r, m[t])
    BY <1>2, <2>3, FailedFacts
  <2> HIDE DEF m
  <2>5. Propagates(tk, m)
    <3> SUFFICES ASSUME NEW u \in Tasks, NEW v \in Tasks, ~tk[u].error, m[u].error,
                        u \in Prereq[v], tk[v].state # "None"
                 PROVE  tk[v].error \/ m[v].state \in ShuttingDown
      BY DEF Propagates
    <3>1. CASE v = t
      BY <2>4, <3>1 DEF ShuttingDown
    <3>2. CASE v # t /\ CanFail(tk[v])
      <4>1. m[u] # k[u]
        BY <2>2, <2>4
      <4>2. m[v] = Failed(tk[v]) /\ tk[v] \in TaskRecord
        BY <2>2, <2>3, <3>2, <4>1 DEF Table
      <4> QED
        BY <3>2, <4>2, FailedFacts DEF ShuttingDown
    <3>3. CASE v # t /\ ~CanFail(tk[v])
      <4>1. m[v] = tk[v]
        BY <2>2, <2>3, <3>3
      <4> QED
        BY <3>3, <4>1 DEF CanFail
    <3> QED
      BY <3>1, <3>2, <3>3
  <2> QED
    BY <1>2, <2>1, <2>2, <2>3, <2>4, <2>5
<1> QED
  BY <1>1, <1>2

\* MarkStopping with a record read earlier.
LEMMA MarkStoppingFacts ==
    ASSUME NEW tk \in Table, NEW t \in Tasks, NEW r \in TaskRecord
    PROVE  /\ MarkStopping(tk, t, r) \in Table
           /\ \A u \in Tasks \ {t} : Stops(tk[u], MarkStopping(tk, t, r)[u])
           /\ \/ MarkStopping(tk, t, r) = tk
              \/ /\ r.state \notin ShuttingDown
                 /\ Stops(r, MarkStopping(tk, t, r)[t])
                 /\ MarkStopping(tk, t, r)[t].state = "Stopping"
           /\ (r.error => tk[t].error) => Propagates(tk, MarkStopping(tk, t, r))
<1>1. CASE r.state \in ShuttingDown
  <2>1. MarkStopping(tk, t, r) = tk
    BY <1>1 DEF MarkStopping
  <2> QED
    BY <2>1 DEF Stops, Propagates
<1>2. CASE r.state \notin ShuttingDown /\ r.state \in HasStarted
  <2> DEFINE q == SetState(r, "Stopping")
  <2>1. MarkStopping(tk, t, r) = [tk EXCEPT ![t] = q]
    BY <1>2 DEF MarkStopping
  <2>2. /\ q \in TaskRecord /\ q.state = "Stopping" /\ q.error = r.error
        /\ q.endTime <=>
             r.endTime \/ (r.state # "Stopping" /\ r.state \in {"Running", "SettingUp"})
    BY SetStateFacts DEF TaskState, ShuttingDown
  <2> HIDE DEF q
  <2>3. Stops(r, q)
    BY <1>2, <2>2 DEF Stops, ShuttingDown, HasStarted
  <2>4. /\ MarkStopping(tk, t, r) \in Table
        /\ \A u \in Tasks \ {t} : MarkStopping(tk, t, r)[u] = tk[u]
        /\ MarkStopping(tk, t, r)[t] = q
    BY <2>1, <2>2 DEF Table
  <2>5. (r.error => tk[t].error) => Propagates(tk, MarkStopping(tk, t, r))
    BY <2>2, <2>4 DEF Propagates
  <2> QED
    BY <1>2, <2>2, <2>3, <2>4, <2>5 DEF Stops
<1>3. CASE r.state \notin ShuttingDown /\ r.state \notin HasStarted
  <2>1. MarkStopping(tk, t, r) = MarkFailedAs(tk, t, r)
    BY <1>3 DEF MarkStopping
  <2> QED
    BY <1>3, <2>1, MarkFailedAsFacts
<1> QED
  BY <1>1, <1>2, <1>3

----------------------------------------------------------------------------
(* The invariant.                                                          *)

Scheduling == {"Schedule", "Build", "Mark"}

\* From the query of the tasks that need work to that of those to be scheduled
Working == {"Tasks", "Nodes", "Stop", "Delete", "AllDone", "Stopping"}

\* What the timer function holds at each point of its program.
SnapHeld ==
    /\ at \in {"Idle", "Jobs"} => snap = NoSnap
    /\ \A t \in DOMAIN snap :
         /\ at = "Expired" => snap[t].state \in AvailableTask
         /\ at \in Working => snap[t].state \in NeedsWorkTask
         /\ at \in Scheduling => snap[t].state = "Waiting"
         /\ at = "Never" => CanFail(snap[t])

ChunkHeld ==
    /\ chunk \subseteq DOMAIN snap
    /\ Elements(units) \subseteq chunk
    /\ at = "Mark" => units # <<>>
    /\ at \notin {"Build", "Mark"} => chunk = {} /\ units = <<>>
    /\ at # "Build" => todo = {}

CurrentHeld ==
    /\ at \in {"Nodes", "Stop"} =>
         \A t \in current : t \in DOMAIN snap /\ snap[t].state = "Stopping"
    /\ at \notin {"Nodes", "Stop", "Delete"} => current = {}
    /\ \A t, u \in current : t = u

\* The stop of a job: what it has read and what it will write.
StopHeld ==
    /\ \A t \in DOMAIN listed :
         /\ at = "Stopping"
         /\ listed[t].state \notin ShuttingDown \cup {"None"}
    /\ at = "Stopping" =>
         /\ newJob.state \in {"Stopping", "Stopped"}
         /\ back \in {"Expired", "Jobs", "Tasks", "Idle"}
         /\ back # "Tasks" => snap = NoSnap
    /\ at # "Stopping" => newJob = NoJob
    /\ \/ snapJob = NoJob
       \/ at = "Jobs" /\ snapJob.state \in NeedsWorkJob
       \/ at = "Stopping" /\ back = "Jobs" /\ snapJob.state = "Stopping"
       \/ at \in {"AllDone", "Never"}

TimerShape == SnapHeld /\ ChunkHeld /\ CurrentHeld /\ StopHeld

TypeInv == TypeOK /\ TimerShape

\* A record that the timer has read and will replace: the task has not been stopped
\* since, and has not lost its error or its end time.
Behind(t, r) ==
    /\ task[t].state \notin {"None", "Stopped"}
    /\ r.error => task[t].error
    /\ r.endTime => task[t].endTime

SnapShape ==
    /\ \A t \in DOMAIN snap : /\ Behind(t, snap[t])
                              /\ at \in Scheduling => task[t].state # "Init"
    /\ \A t \in DOMAIN listed : Behind(t, listed[t])
    /\ \A t \in DOMAIN snap \cap DOMAIN listed :
         /\ snap[t].error => listed[t].error
         /\ snap[t].endTime => listed[t].endTime

\* A task whose setup a node has announced has its clock, or gets it when it
\* leaves SettingUp, or the timer has undone its setup.
SetupSeen(t) == task[t].state = "SettingUp" \/ task[t].endTime \/ t \in replaced

\* Tasks in the queue and on nodes have been initialised; those that a node has
\* announced are in the table of nodes' tasks and have not been stopped.
NodeShape ==
    /\ \A m \in DOMAIN queue : \A t \in Elements(m) :
         task[t].state \notin {"None", "Init"}
    /\ \A n \in Nodes :
         /\ node[n].left \subseteq node[n].units
         /\ node[n].running \subseteq node[n].units
         /\ \A t \in node[n].units : task[t].state \notin {"None", "Init"}
         /\ node[n].phase \in {"SettingUp", "Busy"} =>
              \A t \in node[n].left \cup node[n].running :
                /\ <<n, t>> \in nodeTasks
                /\ task[t].state # "Stopped" \/ t \in overlooked
                /\ SetupSeen(t)

\* The input queues of the tasks the scheduler holds.
SnapInputs ==
    at \in Scheduling => \A t \in DOMAIN snap : t \in inputs \/ t \in revived

\* A job record that the timer will enable again hides no clock but by undoing it.
SnapClock ==
    at = "Jobs" /\ snapJob.state = "Init" /\ (\E t \in Tasks : task[t].endTime) =>
      job.endTime \/ "job" \in replaced

\* Before the job there are no tasks.
NoJobYet ==
    job.state = "None" =>
      \A t \in Tasks : task[t].state = "None" /\ ~task[t].endTime

\* A task whose creation has passed its checks has a job and is not in the table.
Posted == \A t \in creating : task[t].state = "None" /\ job.state # "None"

\* The task whose queue is about to be deleted has stopped.
Deleting ==
    at = "Delete" => \A t \in current : task[t].state = "Stopped" \/ t \in revived

\* The task about to be stopped is on no node, but one that has come since.
Checked ==
    at = "Stop" => \A t \in current : NodesOf(t) = {} \/ t \in overlooked

\* A job record that says Stopped is as true before it is written as after.
StopFound ==
    newJob.state = "Stopped" =>
      \A t \in Exist(task) : task[t].state = "Stopped" \/ t \in revived \cup late

JobsInv == TypeInv /\ SnapShape /\ NodeShape /\ SnapInputs /\ SnapClock /\ NoJobYet
             /\ Posted /\ Deleting /\ Checked /\ StopFound
             /\ JobStoppedMeansTasksStopped /\ Provided

----------------------------------------------------------------------------
(* Types.                                                                  *)

\* The tasks of a work set, when it grows and when it is walked.
LEMMA ElementsFacts ==
    ASSUME NEW s \in Seq(Tasks)
    PROVE  /\ Elements(s) \subseteq Tasks
           /\ \A t \in Tasks : Elements(Append(s, t)) = Elements(s) \cup {t}
           /\ s # <<>> => /\ Head(s) \in Elements(s)
                          /\ Tail(s) \in Seq(Tasks)
                          /\ Elements(Tail(s)) \subseteq Elements(s)
                          /\ Len(s) = 1 => Tail(s) = <<>>
                          /\ Len(s) # 1 => Tail(s) # <<>>
           /\ Elements(<<>>) = {}
<1> USE DEF Elements
<1>1. Elements(s) \subseteq Tasks /\ Elements(<<>>) = {}
  OBVIOUS
<1>2. ASSUME NEW t \in Tasks
      PROVE  Elements(Append(s, t)) = Elements(s) \cup {t}
  <2>1. /\ DOMAIN Append(s, t) = 1..(Len(s) + 1) /\ DOMAIN s = 1..Len(s)
        /\ \A i \in 1..Len(s) : Append(s, t)[i] = s[i]
        /\ Append(s, t)[Len(s) + 1] = t
        /\ Len(s) \in Nat
    OBVIOUS
  <2>2. 1..(Len(s) + 1) = 1..Len(s) \cup {Len(s) + 1}
    BY <2>1
  <2> QED
    BY <2>1, <2>2
<1>3. ASSUME s # <<>>
      PROVE  /\ Head(s) \in Elements(s)
             /\ Tail(s) \in Seq(Tasks)
             /\ Elements(Tail(s)) \subseteq Elements(s)
             /\ Len(s) = 1 => Tail(s) = <<>>
             /\ Len(s) # 1 => Tail(s) # <<>>
  <2>1. /\ Tail(s) \in Seq(Tasks) /\ Len(Tail(s)) = Len(s) - 1
        /\ DOMAIN s = 1..Len(s) /\ DOMAIN Tail(s) = 1..(Len(s) - 1)
        /\ \A i \in 1..(Len(s) - 1) : Tail(s)[i] = s[i + 1]
        /\ Len(s) \in Nat /\ Len(s) > 0 /\ Head(s) = s[1]
    BY <1>3
  <2>2. \A i \in 1..(Len(s) - 1) : i + 1 \in 1..Len(s)
    BY <2>1
  <2>3. Elements(Tail(s)) \subseteq Elements(s)
    BY <2>1, <2>2
  <2>4. Head(s) \in Elements(s)
    BY <2>1
  <2> QED
    BY <2>1, <2>3, <2>4
<1> QED
  BY <1>1, <1>2, <1>3

\* The work sets in the queue.
QueueOK(q) ==
    IsABag(q) /\ \A m \in DOMAIN q : m # <<>> /\ Elements(m) \subseteq Tasks

\* Queueing adds copies of the current work set and no other.
LEMMA PushFacts ==
    ASSUME QueueOK(queue), NEW k \in Nat, Push(k),
           k # 0 => units # <<>> /\ Elements(units) \subseteq Tasks
    PROVE  /\ QueueOK(queue')
           /\ DOMAIN queue' \subseteq DOMAIN queue \cup {units}
           /\ k = 0 => queue' = queue
<1>1. CASE k = 0
  BY <1>1 DEF Push
<1>2. CASE k # 0
  <2>1. /\ DOMAIN queue' = DOMAIN queue \cup {units}
        /\ \A e \in DOMAIN queue' :
             queue'[e] = (IF e \in DOMAIN queue THEN queue[e] ELSE 0)
                           + (IF e \in {units} THEN k ELSE 0)
        /\ queue' = [e \in DOMAIN queue' |-> queue'[e]]
    BY <1>2 DEF Push, (+)
  <2>2. \A e \in DOMAIN queue' : queue'[e] \in {n \in Nat : n > 0}
    BY <1>2, <2>1 DEF QueueOK, IsABag
  <2> QED
    BY <1>2, <2>1, <2>2 DEF QueueOK, IsABag
<1> QED
  BY <1>1, <1>2

\* A claim takes a copy out of the queue and leaves the others.
LEMMA TakeFacts ==
    ASSUME QueueOK(queue), NEW m \in DOMAIN queue,
           queue' = queue (-) SetToBag({m})
    PROVE  QueueOK(queue') /\ DOMAIN queue' \subseteq DOMAIN queue
<1> DEFINE B == [e \in DOMAIN queue |->
                   IF e \in {m} THEN queue[e] - SetToBag({m})[e] ELSE queue[e]]
<1>1. SetToBag({m}) = [e \in {m} |-> 1]
  BY DEF SetToBag
<1>2. queue' = [e \in {d \in DOMAIN B : B[d] > 0} |-> B[e]]
  BY <1>1 DEF (-)
<1>3. \A e \in DOMAIN queue : B[e] > 0 => B[e] \in {n \in Nat : n > 0}
  BY <1>1 DEF QueueOK, IsABag
<1> HIDE DEF B
<1>4. DOMAIN B = DOMAIN queue
  BY DEF B
<1>5. /\ DOMAIN queue' \subseteq DOMAIN queue
      /\ \A e \in DOMAIN queue' : queue'[e] \in {n \in Nat : n > 0}
      /\ queue' = [e \in DOMAIN queue' |-> queue'[e]]
  BY <1>2, <1>3, <1>4
<1>6. IsABag(queue')
  BY <1>5 DEF IsABag
<1> QED
  BY <1>5, <1>6 DEF QueueOK

\* OnStart changes the job's clock only.
LEMMA OnStartFacts ==
    ASSUME NEW j \in JobRecord, NEW tk \in Table, NEW tk2 \in Table
    PROVE  /\ OnStart(j, tk, tk2) \in JobRecord
           /\ OnStart(j, tk, tk2).state = j.state
           /\ OnStart(j, tk, tk2).endTime <=>
                j.endTime \/ \E t \in Tasks : tk2[t].endTime /\ ~tk[t].endTime
<1> DEFINE b == \E t \in Tasks : tk2[t].endTime /\ ~tk[t].endTime
<1>1. OnStart(j, tk, tk2) = [j EXCEPT !.endTime = @ \/ b]
  BY DEF OnStart
<1>2. b \in BOOLEAN
  OBVIOUS
<1> HIDE DEF b
<1>3. /\ OnStart(j, tk, tk2) \in JobRecord
      /\ OnStart(j, tk, tk2).state = j.state
      /\ OnStart(j, tk, tk2).endTime <=> j.endTime \/ b
  BY <1>1, <1>2 DEF JobRecord
<1> QED
  BY <1>3 DEF b

----------------------------------------------------------------------------
(* What a step may do to the record of a task.                             *)

\* It is left alone, or stopped from the record that is in the table.
Fresh(t) == Stops(task[t], task'[t])

\* It is created.
Created(t) ==
    /\ t \in creating /\ t \notin creating'
    /\ task[t].state = "None" /\ task'[t].state = "Init"
    /\ task'[t].error = task[t].error /\ task'[t].endTime = task[t].endTime
    /\ "Stopped" \in {job.state, newJob.state} => t \in late'

\* The timer function replaces it by one made from a record r it has read before.
Marked(t, r) ==
    /\ replaced' = Undoes(t, r)
    /\ Stops(r, task'[t]) /\ task'[t].state = "Stopping"
    /\ r.error => task'[t].error

Rewritten(t) ==
    /\ replaced' = Undoes(t, snap[t])
    /\ task'[t].error = snap[t].error /\ task'[t].endTime = snap[t].endTime
    /\ \/ /\ at = "Tasks" /\ snap[t].state = "Init"
          /\ task'[t].state = "Waiting" /\ t \in inputs'
          /\ t \notin DOMAIN snap'
       \/ /\ at = "Stop" /\ t \in current /\ snap[t].state = "Stopping"
          /\ task'[t].state = "Stopped" /\ at' = "Delete" /\ current' = current
          /\ t \notin DOMAIN snap' /\ UNCHANGED inputs
       \/ /\ at = "Mark" /\ snap[t].state = "Waiting"
          /\ task'[t].state = "Scheduled"

Stale(t) ==
    \/ /\ t \in DOMAIN snap
       /\ \/ at \in {"Expired", "Build", "Never"} /\ Marked(t, snap[t])
          \/ Rewritten(t)
    \/ t \in DOMAIN listed /\ Marked(t, listed[t])

\* A node announces its setup.
SetUp(t) ==
    /\ \E n \in Nodes : node[n].phase = "Claimed" /\ t \in node[n].units
    /\ task[t].state \notin {"Running", "SettingUp"}
    /\ task'[t].state = "SettingUp"
    /\ task'[t].error = task[t].error /\ task'[t].endTime = task[t].endTime
    /\ task[t].state \in ShuttingDown => t \in revived'

\* A node announces its start.
Runs(t) ==
    /\ \E n \in Nodes : node[n].phase \in {"SettingUp", "Busy"} /\ t \in node[n].left
    /\ task[t].state \notin ShuttingDown
    /\ task'[t].state = "Running"
    /\ task'[t].error = task[t].error
    /\ task[t].state = "SettingUp" => task'[t].endTime
    /\ task[t].endTime => task'[t].endTime

\* That it was revived or late is forgotten only when it is stopped.
Kept(t) ==
    \/ (t \in revived => t \in revived') /\ (t \in late => t \in late')
    \/ at = "Stop" /\ task'[t].state = "Stopped"

TaskEffect ==
    /\ task' \in Table
    /\ \A t \in Tasks : Fresh(t) \/ Created(t) \/ Stale(t) \/ SetUp(t) \/ Runs(t)
    /\ replaced \subseteq replaced'
    /\ leaked \subseteq leaked' /\ overlooked \subseteq overlooked'
    /\ \A t \in Tasks : Kept(t)
    /\ \A t \in inputs \ inputs' : at = "Delete" /\ t \in current /\ UNCHANGED task
    /\ \A t \in inputs' \ inputs : task'[t].state = "Waiting"
    /\ \A t \in creating' \ creating :
         task[t].state = "None" /\ job.state # "None" /\ UNCHANGED <<task, job>>

\* An upsert from an older record is noted when it undoes something.
LEMMA UndoesFacts ==
    ASSUME NEW t \in Tasks, NEW r \in TaskRecord
    PROVE  /\ replaced \subseteq Undoes(t, r) /\ Undoes(t, r) \subseteq replaced \cup {t}
           /\ task[t].state = "SettingUp" /\ r.state # "SettingUp" => t \in Undoes(t, r)
           /\ task[t].endTime /\ ~r.endTime => t \in Undoes(t, r)
  BY DEF Undoes

\* Every step has one of these effects on each task.
LEMMA TaskStep ==
    ASSUME TypeInv, Posted, [Next]_vars
    PROVE  TaskEffect
<1>a. /\ task \in Table
      /\ \A t \in DOMAIN snap : t \in Tasks /\ snap[t] \in TaskRecord
      /\ \A t \in DOMAIN listed : t \in Tasks /\ listed[t] \in TaskRecord
  BY DEF TypeInv, TypeOK, Table
<1>b. /\ todo \subseteq chunk /\ chunk \subseteq DOMAIN snap /\ Elements(units) \subseteq chunk
      /\ units \in Seq(Tasks) /\ (at = "Mark" => units # <<>>)
      /\ at \in Scheduling => \A t \in DOMAIN snap : snap[t].state = "Waiting"
  BY DEF TypeInv, TypeOK, TimerShape, SnapHeld, ChunkHeld
<1> DEFINE H == leaked \subseteq leaked' /\ overlooked \subseteq overlooked'
<1>k. revived \subseteq revived' /\ late \subseteq late' => \A t \in Tasks : Kept(t)
  BY DEF Kept
<1>0. UNCHANGED <<task, inputs, replaced, revived, creating, late>> /\ H => TaskEffect
  BY <1>a, <1>k DEF TaskEffect, Fresh, Stops
<1>s. ASSUME NEW t \in Tasks, task' = MarkStopping(task, t, task[t]),
             UNCHANGED <<inputs, replaced, revived, creating, late>>, H
      PROVE  TaskEffect
  <2>1. task[t] \in TaskRecord
    BY <1>a DEF Table
  <2> QED
    BY <1>k, <1>a, <1>s, <2>1, MarkStoppingFacts DEF TaskEffect, Fresh, Stops
<1>1. CASE CreateJob
  BY <1>1, <1>0 DEF CreateJob, tables, requests, history, Rest
<1>2. CASE DeleteJob
  BY <1>2, <1>0 DEF DeleteJob, tables, requests, history, Rest
<1>3. ASSUME NEW t \in Tasks, CreateTask(t) PROVE TaskEffect
  <2> DEFINE r == [task[t] EXCEPT !.state = "Init"]
  <2>1. /\ task' = [task EXCEPT ![t] = r] /\ UNCHANGED <<inputs, replaced, revived>> /\ H
        /\ task[t].state = "None" /\ t \in creating /\ creating' = creating \ {t}
        /\ late \subseteq late'
        /\ "Stopped" \in {job.state, newJob.state} => t \in late'
    BY <1>3 DEF CreateTask, Posted, history
  <2>2. /\ r \in TaskRecord /\ r.state = "Init"
        /\ r.error = task[t].error /\ r.endTime = task[t].endTime
    BY <1>a DEF Table, TaskRecord, TaskState
  <2> HIDE DEF r
  <2>3. task' \in Table /\ task'[t] = r /\ \A u \in Tasks \ {t} : task'[u] = task[u]
    BY <1>a, <2>1, <2>2 DEF Table
  <2> QED
    BY <1>k, <2>1, <2>2, <2>3 DEF TaskEffect, Fresh, Created, Stops
<1>4. ASSUME NEW t \in Tasks, DeleteTask(t) PROVE TaskEffect
  <2>1. task' = MarkStopping(task, t, task[t]) /\ UNCHANGED <<inputs, replaced, revived, creating, late>> /\ H
    BY <1>4 DEF DeleteTask, requests, history
  <2> QED
    BY <1>a, <2>1, <1>s
<1>5. CASE StartTimer
  BY <1>5, <1>0 DEF StartTimer, tables, requests, history, Rest
<1>6. ASSUME NEW t \in Tasks, StopExpired(t) PROVE TaskEffect
  <2>1. /\ at = "Expired" /\ t \in DOMAIN snap
        /\ task' = MarkStopping(task, t, snap[t])
        /\ replaced' = Undoes(t, snap[t])
        /\ UNCHANGED <<inputs, revived, creating, late>> /\ H
    BY <1>6 DEF StopExpired, requests
  <2>2. /\ task' \in Table
        /\ \A u \in Tasks \ {t} : Fresh(u)
        /\ \/ task' = task
           \/ Stops(snap[t], task'[t]) /\ task'[t].state = "Stopping"
              /\ snap[t].state # "Stopping"
    BY <1>a, <2>1, MarkStoppingFacts DEF Fresh, ShuttingDown
  <2>3. Fresh(t) \/ Stale(t)
    BY <2>1, <2>2 DEF Fresh, Stale, Marked, Stops
  <2> QED
    BY <1>k, <1>a, <2>1, <2>2, <2>3, UndoesFacts DEF TaskEffect
<1>7. CASE ExpireJob
  BY <1>7, <1>0 DEF ExpireJob, tables, requests, history
<1>8. CASE QueryJobs
  BY <1>8, <1>0 DEF QueryJobs, tables, requests, history, Rest
<1>9. CASE UpdateJob
  <2>1. /\ UNCHANGED <<task, inputs, revived, creating, late>> /\ H
        /\ replaced \subseteq replaced'
    BY <1>9 DEF UpdateJob, ReplaceJob, requests
  <2> QED
    BY <1>k, <1>a, <2>1 DEF TaskEffect, Fresh, Stops
<1>10. CASE QueryTasks
  BY <1>10, <1>0 DEF QueryTasks, tables, requests, history, Rest
<1>11. ASSUME NEW t \in Tasks, InitTask(t) PROVE TaskEffect
  <2> DEFINE r == SetState(snap[t], "Waiting")
  <2>1. /\ at = "Tasks" /\ t \in DOMAIN snap /\ snap[t].state = "Init"
        /\ task' = [task EXCEPT ![t] = r] /\ inputs' = inputs \cup {t}
        /\ replaced' = Undoes(t, snap[t])
        /\ UNCHANGED <<revived, creating, late>> /\ H
        /\ t \notin DOMAIN snap'
    BY <1>11 DEF InitTask, Without, requests
  <2>2. /\ r \in TaskRecord /\ r.state = "Waiting" /\ r.error = snap[t].error
        /\ r.endTime = snap[t].endTime
    <3>1. snap[t] \in TaskRecord /\ "Waiting" \in TaskState
      BY <1>a, <2>1 DEF TaskState, AvailableTask
    <3>2. /\ r \in TaskRecord /\ r.state = "Waiting" /\ r.error = snap[t].error
          /\ r.endTime <=> snap[t].endTime
      BY <2>1, <3>1, SetStateFacts
    <3> HIDE DEF r
    <3> QED
      BY <3>1, <3>2 DEF TaskRecord
  <2> HIDE DEF r
  <2>3. task' \in Table /\ task'[t] = r /\ \A u \in Tasks \ {t} : task'[u] = task[u]
    BY <1>a, <2>1, <2>2 DEF Table
  <2>4. Stale(t)
    BY <2>1, <2>2, <2>3 DEF Stale, Rewritten
  <2>5. \A u \in Tasks \ {t} : Fresh(u)
    BY <2>3 DEF Fresh, Stops
  <2> QED
    BY <1>k, <1>a, <2>1, <2>2, <2>3, <2>4, <2>5, UndoesFacts DEF TaskEffect
<1>12. ASSUME NEW t \in Tasks, StoppingTask(t) PROVE TaskEffect
  BY <1>12, <1>0 DEF StoppingTask, tables, requests, history, Rest
<1>13. ASSUME NEW t \in Tasks, StoppedTask(t) PROVE TaskEffect
  <2> DEFINE r == SetState(snap[t], "Stopped")
  <2>1. /\ at = "Stop" /\ t \in current /\ at' = "Delete" /\ current' = current
        /\ task' = [task EXCEPT ![t] = r] /\ replaced' = Undoes(t, snap[t])
        /\ revived' = revived \ {t} /\ late' = late \ {t}
        /\ UNCHANGED <<inputs, creating>> /\ H
        /\ t \notin DOMAIN snap'
    BY <1>13 DEF StoppedTask, Without, stops
  <2>2. t \in DOMAIN snap /\ snap[t].state = "Stopping"
    BY <2>1 DEF TypeInv, TimerShape, CurrentHeld
  <2>3. /\ r \in TaskRecord /\ r.state = "Stopped" /\ r.error = snap[t].error
        /\ r.endTime = snap[t].endTime
    BY <1>a, <2>2, SetStateFacts DEF TaskState, ShuttingDown, TaskRecord
  <2> HIDE DEF r
  <2>4. task' \in Table /\ task'[t] = r /\ \A u \in Tasks \ {t} : task'[u] = task[u]
    BY <1>a, <2>1, <2>3 DEF Table
  <2>5. Stale(t)
    BY <2>1, <2>2, <2>3, <2>4 DEF Stale, Rewritten
  <2>6. \A u \in Tasks \ {t} : Fresh(u)
    BY <2>4 DEF Fresh, Stops
  <2>7. replaced \subseteq replaced'
    BY <1>a, <2>1, <2>2, UndoesFacts
  <2>8. \A u \in Tasks : Kept(u)
    BY <2>1, <2>3, <2>4 DEF Kept
  <2> QED
    BY <2>1, <2>4, <2>5, <2>6, <2>7, <2>8 DEF TaskEffect
<1>14. CASE QuerySchedule
  BY <1>14, <1>0 DEF QuerySchedule, tables, requests, history, Rest
<1>15. CASE PickChunk
  BY <1>15, <1>0 DEF PickChunk, tables, requests, history, Rest
<1>16. ASSUME NEW t \in Tasks, BuildWorkUnit(t) PROVE TaskEffect
  <2>1. CASE UNCHANGED <<task, replaced>>
    BY <1>16, <1>0, <2>1 DEF BuildWorkUnit, requests
  <2>2. CASE task' = MarkFailedAs(task, t, snap[t]) /\ replaced' = Undoes(t, snap[t])
    <3>1. /\ at = "Build" /\ t \in DOMAIN snap /\ t \in Tasks
          /\ UNCHANGED <<inputs, revived, creating, late>> /\ H
      BY <1>16, <1>a, <1>b DEF BuildWorkUnit, requests
    <3>2. /\ task' \in Table
          /\ \A u \in Tasks \ {t} : Fresh(u)
          /\ \/ task' = task
             \/ /\ CanFail(snap[t]) /\ Stops(snap[t], task'[t])
                /\ task'[t].state = "Stopping" /\ task'[t].error
      BY <1>a, <2>2, <3>1, MarkFailedAsFacts DEF Fresh
    <3>3. Fresh(t) \/ Stale(t)
      BY <2>2, <3>1, <3>2 DEF Fresh, Stale, Marked, Stops
    <3> QED
      BY <1>k, <1>a, <2>2, <3>1, <3>2, <3>3, UndoesFacts DEF TaskEffect
  <2> QED
    BY <1>16, <2>1, <2>2 DEF BuildWorkUnit
<1>17. CASE ScheduleWorkset
  BY <1>17, <1>0 DEF ScheduleWorkset, tables, requests, history, Rest
<1>18. CASE ScheduleNothing
  BY <1>18, <1>0 DEF ScheduleNothing, tables, requests, history, Rest
<1>19. CASE MarkScheduled
  <2> DEFINE t == Head(units)
             r == SetState(snap[t], "Scheduled")
  <2>1. /\ at = "Mark" /\ task' = [task EXCEPT ![t] = r]
        /\ replaced' = Undoes(t, snap[t])
        /\ UNCHANGED <<inputs, revived, creating, late>> /\ H
    BY <1>19 DEF MarkScheduled, requests
  <2>0. t \in Elements(units)
    BY <1>b, <2>1, ElementsFacts
  <2>2. t \in DOMAIN snap /\ t \in Tasks /\ snap[t].state = "Waiting"
    BY <1>a, <1>b, <2>1, <2>0 DEF Scheduling
  <2> HIDE DEF t
  <2>3. /\ r \in TaskRecord /\ r.state = "Scheduled" /\ r.error = snap[t].error
        /\ r.endTime = snap[t].endTime
    BY <1>a, <2>2, SetStateFacts DEF TaskState, AvailableTask, TaskRecord
  <2> HIDE DEF r
  <2>4. task' \in Table /\ task'[t] = r /\ \A u \in Tasks \ {t} : task'[u] = task[u]
    BY <1>a, <2>1, <2>2, <2>3 DEF Table
  <2>5. Stale(t)
    BY <2>1, <2>2, <2>3, <2>4 DEF Stale, Rewritten
  <2>6. \A u \in Tasks \ {t} : Fresh(u)
    BY <2>4 DEF Fresh, Stops
  <2> QED
    BY <1>k, <1>a, <2>1, <2>2, <2>4, <2>5, <2>6, UndoesFacts DEF TaskEffect
<1>20. CASE StopNeverStarted
  BY <1>20, <1>0 DEF StopNeverStarted, tables, requests, history, Rest
<1>21. CASE EndTimer
  BY <1>21, <1>0 DEF EndTimer, tables, requests, history, Rest
<1>22. CASE AbortTimer
  BY <1>22, <1>0 DEF AbortTimer, tables, requests, history, Rest
<1>23. ASSUME NEW n \in Nodes, Claim(n) PROVE TaskEffect
  BY <1>23, <1>0 DEF Claim, tables, requests, history, Rest
<1>24. ASSUME NEW n \in Nodes, DropStopped(n) PROVE TaskEffect
  BY <1>24, <1>0 DEF DropStopped, tables, requests, history, Rest
<1>25. ASSUME NEW n \in Nodes, LoseClaim(n) PROVE TaskEffect
  BY <1>25, <1>0 DEF LoseClaim, tables, requests, history, Rest
<1>26. ASSUME NEW n \in Nodes, SettingUpEvent(n) PROVE TaskEffect
  <2>1. /\ node[n].phase = "Claimed"
        /\ task' = [t \in Tasks |->
             IF t \in node[n].units /\ task[t].state \notin {"Running", "SettingUp"}
             THEN SetState(task[t], "SettingUp") ELSE task[t]]
        /\ revived' = revived \cup {t \in node[n].units : task[t].state \in ShuttingDown}
        /\ UNCHANGED <<inputs, replaced, creating, late>> /\ H
    BY <1>26 DEF SettingUpEvent, requests
  <2>2. ASSUME NEW t \in Tasks
        PROVE  task'[t] \in TaskRecord /\ (Fresh(t) \/ SetUp(t))
    <3>1. CASE t \in node[n].units /\ task[t].state \notin {"Running", "SettingUp"}
      <4> DEFINE r == SetState(task[t], "SettingUp")
      <4>1. /\ r \in TaskRecord /\ r.state = "SettingUp" /\ r.error = task[t].error
            /\ r.endTime = task[t].endTime
        BY <1>a, <3>1, SetStateFacts DEF Table, TaskState, AvailableTask, TaskRecord
      <4> HIDE DEF r
      <4>2. task'[t] = r
        BY <2>1, <3>1 DEF r
      <4> QED
        BY <2>1, <3>1, <4>1, <4>2 DEF SetUp
    <3>2. CASE ~(t \in node[n].units /\ task[t].state \notin {"Running", "SettingUp"})
      BY <1>a, <2>1, <3>2 DEF Fresh, Stops, Table
    <3> QED
      BY <3>1, <3>2
  <2>3. task' \in Table
    BY <2>1, <2>2 DEF Table
  <2> QED
    BY <1>k, <2>1, <2>2, <2>3 DEF TaskEffect
<1>27. ASSUME NEW n \in Nodes, NEW t \in Tasks, RunningEvent(n, t) PROVE TaskEffect
  <2> DEFINE r == SetState(task[t], "Running")
  <2>1. /\ node[n].phase \in {"SettingUp", "Busy"} /\ t \in node[n].left
        /\ task' = IF task[t].state \in ShuttingDown THEN task
                   ELSE [task EXCEPT ![t] = r]
        /\ UNCHANGED <<inputs, replaced, revived, creating, late>> /\ H
    BY <1>27 DEF RunningEvent, Rest, requests
  <2>2. CASE task[t].state \in ShuttingDown
    BY <1>0, <2>1, <2>2
  <2>3. CASE task[t].state \notin ShuttingDown
    <3>1. /\ r \in TaskRecord /\ r.state = "Running" /\ r.error = task[t].error
          /\ task[t].endTime \/ task[t].state = "SettingUp" => r.endTime
      BY <1>a, SetStateFacts DEF Table, TaskState, AvailableTask
    <3> HIDE DEF r
    <3>2. task' \in Table /\ task'[t] = r /\ \A u \in Tasks \ {t} : task'[u] = task[u]
      BY <1>a, <2>1, <2>3, <3>1 DEF Table
    <3>3. Runs(t)
      BY <2>1, <2>3, <3>1, <3>2 DEF Runs
    <3>4. \A u \in Tasks \ {t} : Fresh(u)
      BY <3>2 DEF Fresh, Stops
    <3> QED
      BY <1>k, <2>1, <3>2, <3>3, <3>4 DEF TaskEffect
  <2> QED
    BY <2>2, <2>3
<1>28. ASSUME NEW n \in Nodes, NEW t \in Tasks, DoneEvent(n, t) PROVE TaskEffect
  <2>1. /\ task' = MarkStopping(task, t, task[t]) \/ task' = MarkFailed(task, {t})
        /\ UNCHANGED <<inputs, replaced, revived, creating, late>> /\ H
    BY <1>28 DEF DoneEvent, WorkerDone, Rest, requests
  <2>2. CASE task' = MarkFailed(task, {t})
    BY <1>k, <1>a, <2>1, <2>2, MarkFailedFacts DEF TaskEffect, Fresh
  <2>3. CASE task' = MarkStopping(task, t, task[t])
    BY <1>a, <2>1, <2>3, <1>s
  <2> QED
    BY <2>1, <2>2, <2>3
<1>29. ASSUME NEW n \in Nodes, NEW t \in Tasks, CrashEvent(n, t) PROVE TaskEffect
  <2>1. task' = MarkFailed(task, {t}) /\ UNCHANGED <<inputs, replaced, revived, creating, late>> /\ H
    BY <1>29 DEF CrashEvent, WorkerDone, Rest, requests
  <2> QED
    BY <1>k, <1>a, <2>1, MarkFailedFacts DEF TaskEffect, Fresh
<1>30. ASSUME NEW n \in Nodes, Crash(n) PROVE TaskEffect
  BY <1>30, <1>0 DEF Crash, tables, requests, history, Rest
<1>31. ASSUME NEW n \in Nodes, NodeDone(n) PROVE TaskEffect
  <2>1. /\ task' = MarkFailed(task, {t \in Tasks : <<n, t>> \in nodeTasks})
        /\ UNCHANGED <<inputs, replaced, revived, creating, late>> /\ H
    BY <1>31 DEF NodeDone, MarkTasksStoppedEarly, Rest, requests
  <2>2. {t \in Tasks : <<n, t>> \in nodeTasks} \in SUBSET Tasks
    OBVIOUS
  <2> QED
    BY <1>k, <1>a, <2>1, <2>2, MarkFailedFacts DEF TaskEffect, Fresh
<1>32. ASSUME NEW n \in Nodes, SilentDone(n) PROVE TaskEffect
  BY <1>32, <1>0 DEF SilentDone, tables, requests, history, Rest
<1>33. ASSUME NEW n \in Nodes, Obey(n) PROVE TaskEffect
  BY <1>33, <1>0 DEF Obey, tables, requests, history, Rest
<1>34. ASSUME NEW n \in Nodes, OtherStop(n) PROVE TaskEffect
  BY <1>34, <1>0 DEF OtherStop, tables, requests, history, Rest
<1>35. ASSUME NEW n \in Nodes, RemoveNode(n) PROVE TaskEffect
  <2>1. /\ task' = MarkFailed(task, {t \in Tasks : <<n, t>> \in nodeTasks})
        /\ UNCHANGED <<inputs, replaced, revived, creating, late>> /\ H
    BY <1>35 DEF RemoveNode, MarkTasksStoppedEarly, Rest, requests
  <2>2. {t \in Tasks : <<n, t>> \in nodeTasks} \in SUBSET Tasks
    OBVIOUS
  <2> QED
    BY <1>k, <1>a, <2>1, <2>2, MarkFailedFacts DEF TaskEffect, Fresh
<1>36. CASE UNCHANGED vars
  BY <1>36, <1>0 DEF vars, tables, requests, history
<1>37. ASSUME NEW t \in Tasks, PostTask(t) PROVE TaskEffect
  <2>1. /\ UNCHANGED <<task, job, inputs, replaced, revived, late>> /\ H
        /\ creating' = creating \cup {t}
        /\ task[t].state = "None" /\ job.state # "None"
    BY <1>37 DEF PostTask, tables, history, AvailableJob
  <2> QED
    BY <1>k, <1>a, <2>1 DEF TaskEffect, Fresh, Stops
<1>38. ASSUME NEW t \in Tasks, StopListed(t) PROVE TaskEffect
  <2>1. /\ at = "Stopping" /\ t \in DOMAIN listed
        /\ task' = MarkStopping(task, t, listed[t])
        /\ replaced' = Undoes(t, listed[t])
        /\ UNCHANGED <<inputs, revived, creating, late>> /\ H
    BY <1>38 DEF StopListed, requests
  <2>2. /\ task' \in Table
        /\ \A u \in Tasks \ {t} : Fresh(u)
        /\ \/ task' = task
           \/ Stops(listed[t], task'[t]) /\ task'[t].state = "Stopping"
              /\ listed[t].state # "Stopping"
    BY <1>a, <2>1, MarkStoppingFacts DEF Fresh, ShuttingDown
  <2>3. Fresh(t) \/ Stale(t)
    BY <2>1, <2>2 DEF Fresh, Stale, Marked, Stops
  <2> QED
    BY <1>k, <1>a, <2>1, <2>2, <2>3, UndoesFacts DEF TaskEffect
<1>39. CASE JobStopped
  <2>1. /\ UNCHANGED <<task, inputs, revived, creating, late>> /\ H
        /\ replaced \subseteq replaced'
    BY <1>39 DEF JobStopped, ReplaceJob, requests
  <2> QED
    BY <1>k, <1>a, <2>1 DEF TaskEffect, Fresh, Stops
<1>40. ASSUME NEW t \in Tasks, CheckNodes(t) PROVE TaskEffect
  BY <1>40, <1>0 DEF CheckNodes, tables, requests, history
<1>41. ASSUME NEW t \in Tasks, DeleteQueue(t) PROVE TaskEffect
  <2>1. /\ UNCHANGED <<task, replaced, revived, creating, late>> /\ H
        /\ at = "Delete" /\ t \in current /\ inputs' = inputs \ {t}
    BY <1>41 DEF DeleteQueue, requests, history
  <2> QED
    BY <1>k, <1>a, <2>1 DEF TaskEffect, Fresh, Stops
<1>42. CASE StopIfAllDone
  BY <1>42, <1>0 DEF StopIfAllDone, tables, requests, history
<1>43. ASSUME NEW t \in Tasks, FailNeverStarted(t) PROVE TaskEffect
  <2>1. /\ at = "Never" /\ t \in DOMAIN snap
        /\ task' = MarkFailedAs(task, t, snap[t]) /\ replaced' = Undoes(t, snap[t])
        /\ UNCHANGED <<inputs, revived, creating, late>> /\ H
    BY <1>43 DEF FailNeverStarted, requests
  <2>2. /\ task' \in Table
        /\ \A u \in Tasks \ {t} : Fresh(u)
        /\ \/ task' = task
           \/ /\ CanFail(snap[t]) /\ Stops(snap[t], task'[t])
              /\ task'[t].state = "Stopping" /\ task'[t].error
    BY <1>a, <2>1, MarkFailedAsFacts DEF Fresh
  <2>3. Fresh(t) \/ Stale(t)
    BY <2>1, <2>2 DEF Fresh, Stale, Marked, Stops
  <2> QED
    BY <1>k, <1>a, <2>1, <2>2, <2>3, UndoesFacts DEF TaskEffect
<1>44. CASE StopNeverStartedJob
  BY <1>44, <1>0 DEF StopNeverStartedJob, tables, requests, history
<1> QED
  BY <1>1, <1>2, <1>3, <1>4, <1>5, <1>6, <1>7, <1>8, <1>9, <1>10, <1>11,
     <1>12, <1>13, <1>14, <1>15, <1>16, <1>17, <1>18, <1>19, <1>20, <1>21,
     <1>22, <1>23, <1>24, <1>25, <1>26, <1>27, <1>28, <1>29, <1>30, <1>31,
     <1>32, <1>33, <1>34, <1>35, <1>36, <1>37, <1>38, <1>39, <1>40, <1>41,
     <1>42, <1>43, <1>44 DEF Next, Http, Timer, Node,
     Events, NodeFaults

\* The variables of the timer function.
TimerType ==
    /\ at \in TimerAt
    /\ DOMAIN snap \subseteq Tasks
    /\ \A t \in DOMAIN snap : snap[t] \in TaskRecord
    /\ snapJob \in JobRecord
    /\ iter \in 0..MaxUpdates
    /\ chunk \subseteq Tasks /\ todo \subseteq chunk
    /\ units \in Seq(Tasks)
    /\ current \subseteq Tasks
    /\ DOMAIN listed \subseteq Tasks
    /\ \A t \in DOMAIN listed : listed[t] \in TaskRecord
    /\ newJob \in JobRecord
    /\ back \in TimerAt

\* What a step may do to the records the timer function holds, to the job record
\* that it will write and to the task it is about to stop.
TimerEffect ==
    /\ \A t \in DOMAIN snap' :
         \/ /\ t \in DOMAIN snap /\ snap'[t] = snap[t]
            /\ at' \in Scheduling <=> at \in Scheduling
         \/ /\ snap'[t] = task[t] /\ UNCHANGED <<task, inputs, revived>>
            /\ task[t].state \notin {"None", "Stopped"}
            /\ at' \in Scheduling => task[t].state = "Waiting"
    /\ \A t \in DOMAIN listed' :
         /\ UNCHANGED snap
         /\ \/ t \in DOMAIN listed /\ listed'[t] = listed[t]
            \/ /\ listed'[t] = task[t] /\ UNCHANGED task
               /\ task[t].state \notin {"None", "Stopped"}
    /\ at' = "Jobs" =>
         \/ at = "Jobs" /\ snapJob' = snapJob
         \/ UNCHANGED <<task, job, replaced>> /\ snapJob' \in {job, NoJob}
         \/ snapJob'.state # "Init"
    /\ newJob'.state = "Stopped" =>
         newJob' = newJob \/ (UNCHANGED task /\ AllStopped(task))
    /\ at = "Delete" => \/ at' = "Delete" /\ current' = current
                        \/ \A t \in current : t \in leaked' \/ t \notin inputs'
    /\ at' = "Delete" => \/ at = "Delete" /\ current' = current
                         \/ \A t \in current' : task'[t].state = "Stopped"

\* The query of the stop of a job.
LEMMA JobStoppingFacts ==
    ASSUME task \in Table, NEW j \in JobRecord, NEW then, JobStopping(j, then)
    PROVE  /\ at' = "Stopping" /\ back' = then
           /\ DOMAIN listed' \subseteq Tasks
           /\ \A t \in DOMAIN listed' :
                /\ listed'[t] = task[t] /\ listed'[t] \in TaskRecord
                /\ task[t].state \notin ShuttingDown \cup {"None"}
           /\ newJob' \in JobRecord
           /\ newJob'.state \in {"Stopping", "Stopped"}
           /\ newJob'.state = "Stopped" => AllStopped(task)
  BY DEF JobStopping, Exist, Table, JobRecord, JobState

\* Every step keeps the types of the timer function's variables and what they
\* hold at each point of its program.
LEMMA TimerStep ==
    ASSUME TypeInv, [Next]_vars
    PROVE  TimerType' /\ TimerShape' /\ TimerEffect
<1> USE DEF TimerShape
<1>0. UNCHANGED <<at, local>> => TimerType' /\ TimerShape' /\ TimerEffect
  BY DEF TypeInv, TypeOK, TimerType, TimerEffect, local, stops, SnapHeld, ChunkHeld,
         CurrentHeld, StopHeld
<1>a. /\ TimerType /\ task \in Table /\ job \in JobRecord
      /\ SnapHeld /\ ChunkHeld /\ CurrentHeld /\ StopHeld
  BY DEF TypeInv, TypeOK, TimerType, Table
<1>n. UNCHANGED <<snap, chunk, todo, units>> => (SnapHeld /\ ChunkHeld =>
        /\ at' \in Working /\ at \in Working => SnapHeld'
        /\ at' \notin {"Build", "Mark"} /\ at \notin {"Build", "Mark"} => ChunkHeld')
  BY DEF SnapHeld, ChunkHeld, Working, Scheduling
<1>1. CASE CreateJob
  BY <1>1, <1>0 DEF CreateJob, local, Rest
<1>2. CASE DeleteJob
  BY <1>2, <1>0 DEF DeleteJob, local, Rest
<1>3. ASSUME NEW t \in Tasks, CreateTask(t)
      PROVE  TimerType' /\ TimerShape' /\ TimerEffect
  BY <1>3, <1>0 DEF CreateTask, local, Rest
<1>4. ASSUME NEW t \in Tasks, DeleteTask(t)
      PROVE  TimerType' /\ TimerShape' /\ TimerEffect
  BY <1>4, <1>0 DEF DeleteTask, local, Rest
<1>5. CASE StartTimer
  <2>1. PICK S \in SUBSET {t \in Tasks : task[t].state \in AvailableTask /\ task[t].endTime} :
          snap' = [t \in S |-> task[t]]
    BY <1>5 DEF StartTimer
  <2>2. /\ at = "Idle" /\ at' = "Expired" /\ DOMAIN snap' = S
        /\ \A t \in S : /\ t \in Tasks /\ snap'[t] = task[t] /\ task[t] \in TaskRecord
                        /\ task[t].state \in AvailableTask
        /\ UNCHANGED <<task, inputs, snapJob, iter, chunk, todo, units, revived>>
        /\ UNCHANGED stops
    BY <1>5, <2>1 DEF StartTimer, tables, history, TypeInv, TypeOK
  <2>3. TimerType'
    BY <1>a, <2>2 DEF TimerType, TimerAt, stops
  <2>4. TimerShape'
    BY <1>a, <2>2
       DEF SnapHeld, ChunkHeld, CurrentHeld, StopHeld, Scheduling, Working, stops
  <2>5. TimerEffect
    BY <1>a, <2>2 DEF TimerEffect, Scheduling, AvailableTask, StopHeld, stops, NoJob
  <2> QED
    BY <2>3, <2>4, <2>5
<1>6. ASSUME NEW t \in Tasks, StopExpired(t)
      PROVE  TimerType' /\ TimerShape' /\ TimerEffect
  BY <1>6, JobsAssumption
  DEF StopExpired, tables, history, local, stops, Without, EndChunk, SnapHeld,
      ChunkHeld, CurrentHeld, StopHeld, TypeInv, TypeOK, TimerType, TimerEffect, Table,
      TimerAt, Scheduling, Working, AvailableTask, ShuttingDown, NeedsWorkTask,
      NeedsWorkJob, NoSnap, NoJob, JobRecord, JobState
<1>7. CASE ExpireJob
  <2>1. /\ at = "Expired" /\ snap = NoSnap /\ JobStopping(job, "Expired")
        /\ UNCHANGED <<tables, snap, snapJob, iter, chunk, todo, units, current, history>>
    BY <1>7 DEF ExpireJob
  <2>2. snapJob = NoJob /\ current = {}
    BY <1>a, <2>1 DEF StopHeld, CurrentHeld
  <2>3. TimerType'
    BY <1>a, <2>1, JobStoppingFacts DEF TimerType, TimerAt
  <2>4. TimerShape'
    BY <1>a, <2>1, <2>2, JobStoppingFacts
       DEF SnapHeld, ChunkHeld, CurrentHeld, StopHeld, Scheduling, Working, NoSnap
  <2>5. TimerEffect
    BY <1>a, <2>1, JobStoppingFacts DEF TimerEffect, Scheduling, ShuttingDown, tables, NoSnap
  <2> QED
    BY <2>3, <2>4, <2>5
<1>8. CASE QueryJobs
  BY <1>8, JobsAssumption
  DEF QueryJobs, tables, history, local, stops, Without, EndChunk, SnapHeld,
      ChunkHeld, CurrentHeld, StopHeld, TypeInv, TypeOK, TimerType, TimerEffect, Table,
      TimerAt, Scheduling, Working, AvailableTask, ShuttingDown, NeedsWorkTask,
      NeedsWorkJob, NoSnap, NoJob, JobRecord, JobState
<1>9. CASE UpdateJob
  <2>1. /\ at = "Jobs" /\ snapJob # NoJob /\ iter < MaxUpdates /\ iter' = iter + 1
        /\ UNCHANGED <<task, inputs, snap, snapJob, chunk, todo, units, current, revived,
                       leaked>>
    BY <1>9 DEF UpdateJob
  <2>2. snap = NoSnap /\ current = {} /\ iter' \in 0..MaxUpdates
    BY <1>a, <2>1, JobsAssumption DEF SnapHeld, CurrentHeld, TimerType
  <2>3. CASE UNCHANGED <<at, listed, newJob, back>>
    BY <1>a, <2>1, <2>2, <2>3
       DEF TimerType, TimerEffect, SnapHeld, ChunkHeld, CurrentHeld, StopHeld, Scheduling
  <2>4. CASE snapJob.state = "Stopping" /\ JobStopping(snapJob, "Jobs")
    <3>1. snapJob \in JobRecord
      BY <1>a DEF TimerType
    <3>2. TimerType'
      BY <1>a, <2>1, <2>2, <2>4, <3>1, JobStoppingFacts DEF TimerType, TimerAt
    <3>3. TimerShape'
      BY <1>a, <2>1, <2>2, <2>4, <3>1, JobStoppingFacts
         DEF SnapHeld, ChunkHeld, CurrentHeld, StopHeld, Scheduling, Working, NoSnap
    <3>4. TimerEffect
      BY <1>a, <2>1, <2>4, <3>1, JobStoppingFacts
         DEF TimerEffect, Scheduling, ShuttingDown, tables
    <3> QED
      BY <3>2, <3>3, <3>4
  <2> QED
    BY <1>9, <2>3, <2>4 DEF UpdateJob
<1>10. CASE QueryTasks
  BY <1>10, JobsAssumption
  DEF QueryTasks, tables, history, local, stops, Without, EndChunk, SnapHeld,
      ChunkHeld, CurrentHeld, StopHeld, TypeInv, TypeOK, TimerType, TimerEffect, Table,
      TimerAt, Scheduling, Working, AvailableTask, ShuttingDown, NeedsWorkTask,
      NeedsWorkJob, NoSnap, NoJob, JobRecord, JobState
<1>11. ASSUME NEW t \in Tasks, InitTask(t)
       PROVE  TimerType' /\ TimerShape' /\ TimerEffect
  BY <1>11, JobsAssumption
  DEF InitTask, tables, history, local, stops, Without, EndChunk, SnapHeld,
      ChunkHeld, CurrentHeld, StopHeld, TypeInv, TypeOK, TimerType, TimerEffect, Table,
      TimerAt, Scheduling, Working, AvailableTask, ShuttingDown, NeedsWorkTask,
      NeedsWorkJob, NoSnap, NoJob, JobRecord, JobState
<1>12. ASSUME NEW t \in Tasks, StoppingTask(t)
       PROVE  TimerType' /\ TimerShape' /\ TimerEffect
  <2>1. /\ at = "Tasks" /\ t \in DOMAIN snap /\ snap[t].state = "Stopping"
        /\ current' = {t} /\ at' = "Nodes"
        /\ UNCHANGED <<task, inputs, snap, snapJob, iter, chunk, todo, units, listed,
                       newJob, back, revived>>
    BY <1>12 DEF StoppingTask, tables, history
  <2> QED
    BY <1>a, <1>n, <2>1
       DEF TimerType, TimerEffect, TimerAt, Scheduling, Working, CurrentHeld, StopHeld
<1>13. ASSUME NEW t \in Tasks, StoppedTask(t)
       PROVE  TimerType' /\ TimerShape' /\ TimerEffect
  <2>1. /\ at = "Stop" /\ t \in current /\ at' = "Delete" /\ snap' = Without(snap, t)
        /\ task' = [task EXCEPT ![t] = SetState(snap[t], "Stopped")]
        /\ UNCHANGED <<inputs, snapJob, iter, chunk, todo, units, current, listed,
                       newJob, back>>
    BY <1>13 DEF StoppedTask, stops
  <2>2. t \in DOMAIN snap /\ current = {t} /\ snap[t] \in TaskRecord
    BY <1>a, <2>1 DEF CurrentHeld, TimerType
  <2>3. task'[t].state = "Stopped"
    BY <1>a, <2>1, <2>2, SetStateFacts DEF Table, TaskState, ShuttingDown
  <2>4. DOMAIN snap' \subseteq DOMAIN snap /\ \A u \in DOMAIN snap' : snap'[u] = snap[u]
    BY <2>1 DEF Without
  <2>5. TimerType'
    BY <1>a, <2>1, <2>4 DEF TimerType, TimerAt
  <2>6. TimerShape'
    BY <1>a, <2>1, <2>4
       DEF SnapHeld, ChunkHeld, CurrentHeld, StopHeld, Scheduling, Working
  <2>7. TimerEffect
    BY <1>a, <2>1, <2>2, <2>3, <2>4 DEF TimerEffect, Scheduling, StopHeld
  <2> QED
    BY <2>5, <2>6, <2>7
<1>14. CASE QuerySchedule
  BY <1>14, JobsAssumption
  DEF QuerySchedule, tables, history, local, stops, Without, EndChunk, SnapHeld,
      ChunkHeld, CurrentHeld, StopHeld, TypeInv, TypeOK, TimerType, TimerEffect, Table,
      TimerAt, Scheduling, Working, AvailableTask, ShuttingDown, NeedsWorkTask,
      NeedsWorkJob, NoSnap, NoJob, JobRecord, JobState
<1>15. CASE PickChunk
  BY <1>15, JobsAssumption, ElementsFacts
  DEF PickChunk, tables, history, local, stops, Without, EndChunk, SnapHeld,
      ChunkHeld, CurrentHeld, StopHeld, TypeInv, TypeOK, TimerType, TimerEffect, Table,
      TimerAt, Scheduling, Working, AvailableTask, ShuttingDown, NeedsWorkTask,
      NeedsWorkJob, NoSnap, NoJob, JobRecord, JobState
<1>16. ASSUME NEW t \in Tasks, BuildWorkUnit(t)
       PROVE  TimerType' /\ TimerShape' /\ TimerEffect
  <2>1. /\ at = "Build" /\ t \in todo /\ todo' = todo \ {t}
        /\ units' = units \/ units' = Append(units, t)
        /\ UNCHANGED <<at, snap, snapJob, iter, chunk, current, listed, newJob, back>>
    BY <1>16 DEF BuildWorkUnit, stops
  <2>2. units \in Seq(Tasks) /\ Elements(units) \subseteq chunk /\ t \in chunk
    BY <1>a, <2>1 DEF TimerType, ChunkHeld
  <2>3. Elements(Append(units, t)) = Elements(units) \cup {t}
    BY <2>2, ElementsFacts
  <2>4. units' \in Seq(Tasks) /\ Elements(units)' \subseteq chunk
    <3>1. CASE units' = units
      BY <2>2, <3>1
    <3>2. CASE units' = Append(units, t)
      <4>1. Elements(units)' = Elements(Append(units, t))
        BY <3>2 DEF Elements
      <4> QED
        BY <2>2, <2>3, <3>2, <4>1
    <3> QED
      BY <2>1, <3>1, <3>2
  <2> QED
    BY <1>a, <2>1, <2>4
       DEF TimerType, TimerEffect, SnapHeld, ChunkHeld, CurrentHeld, StopHeld, Scheduling
<1>17. CASE ScheduleWorkset
  BY <1>17, JobsAssumption
  DEF ScheduleWorkset, tables, history, local, stops, Without, EndChunk, SnapHeld,
      ChunkHeld, CurrentHeld, StopHeld, TypeInv, TypeOK, TimerType, TimerEffect, Table,
      TimerAt, Scheduling, Working, AvailableTask, ShuttingDown, NeedsWorkTask,
      NeedsWorkJob, NoSnap, NoJob, JobRecord, JobState
<1>18. CASE ScheduleNothing
  BY <1>18, JobsAssumption, ElementsFacts
  DEF ScheduleNothing, tables, history, local, stops, Without, EndChunk, SnapHeld,
      ChunkHeld, CurrentHeld, StopHeld, TypeInv, TypeOK, TimerType, TimerEffect, Table,
      TimerAt, Scheduling, Working, AvailableTask, ShuttingDown, NeedsWorkTask,
      NeedsWorkJob, NoSnap, NoJob, JobRecord, JobState
<1>19. CASE MarkScheduled
  <2>1. /\ at = "Mark" /\ units' = Tail(units)
        /\ IF Len(units) = 1 THEN at' = "Schedule" /\ EndChunk
           ELSE UNCHANGED <<at, snap, chunk>>
        /\ UNCHANGED <<snapJob, iter, todo, current, listed, newJob, back>>
    BY <1>19 DEF MarkScheduled, stops
  <2>2. /\ units' \in Seq(Tasks) /\ Elements(units)' \subseteq Elements(units)
        /\ (Len(units) = 1 => units' = <<>>) /\ (Len(units) # 1 => units' # <<>>)
        /\ Elements(<<>>) = {}
    BY <1>a, <2>1, ElementsFacts DEF TimerType, ChunkHeld
  <2>3. CASE Len(units) # 1
    BY <1>a, <2>1, <2>2, <2>3
       DEF TimerType, TimerEffect, SnapHeld, ChunkHeld, CurrentHeld, StopHeld
  <2>4. CASE Len(units) = 1
    <3>1. /\ at' = "Schedule" /\ chunk' = {} /\ units' = <<>>
          /\ DOMAIN snap' \subseteq DOMAIN snap
          /\ \A t \in DOMAIN snap' : snap'[t] = snap[t]
      BY <2>1, <2>2, <2>4 DEF EndChunk
    <3>2. TimerEffect
      BY <1>a, <2>1, <3>1 DEF TimerEffect, Scheduling, StopHeld
    <3>3. TimerType'
      BY <1>a, <2>1, <2>2, <3>1 DEF TimerType, TimerAt, ChunkHeld
    <3>4. TimerShape'
      BY <1>a, <2>1, <2>2, <3>1
         DEF SnapHeld, ChunkHeld, CurrentHeld, StopHeld, Scheduling, Working
    <3> QED
      BY <3>2, <3>3, <3>4
  <2> QED
    BY <2>3, <2>4
<1>20. CASE StopNeverStarted
  <2>1. /\ at = "Schedule" /\ at' = "Never" /\ snapJob' = job
        /\ DOMAIN snap' \subseteq Tasks
        /\ \A t \in DOMAIN snap' : snap'[t] = task[t] /\ CanFail(task[t])
        /\ UNCHANGED <<task, inputs, iter, chunk, todo, units, current, listed, newJob,
                       back, revived>>
    BY <1>20 DEF StopNeverStarted, tables, stops, history
  <2>2. TimerType'
    BY <1>a, <2>1 DEF TimerType, TimerAt, Table
  <2>3. TimerShape'
    BY <1>a, <2>1
       DEF SnapHeld, ChunkHeld, CurrentHeld, StopHeld, Scheduling, Working
  <2>4. TimerEffect
    BY <1>a, <2>1 DEF TimerEffect, Scheduling, CanFail, ShuttingDown, StopHeld
  <2> QED
    BY <2>2, <2>3, <2>4
<1>21. CASE EndTimer
  BY <1>21, JobsAssumption
  DEF EndTimer, tables, history, local, stops, Without, EndChunk, SnapHeld,
      ChunkHeld, CurrentHeld, StopHeld, TypeInv, TypeOK, TimerType, TimerEffect, Table,
      TimerAt, Scheduling, Working, AvailableTask, ShuttingDown, NeedsWorkTask,
      NeedsWorkJob, NoSnap, NoJob, JobRecord, JobState
<1>22. CASE AbortTimer
  BY <1>22, JobsAssumption, ElementsFacts
  DEF AbortTimer, tables, history, local, stops, Without, EndChunk, SnapHeld,
      ChunkHeld, CurrentHeld, StopHeld, TypeInv, TypeOK, TimerType, TimerEffect, Table,
      TimerAt, Scheduling, Working, AvailableTask, ShuttingDown, NeedsWorkTask,
      NeedsWorkJob, NoSnap, NoJob, JobRecord, JobState
<1>23. ASSUME NEW n \in Nodes, Claim(n) PROVE TimerType' /\ TimerShape' /\ TimerEffect
  BY <1>23, <1>0 DEF Claim, local, Rest
<1>24. ASSUME NEW n \in Nodes, DropStopped(n)
       PROVE  TimerType' /\ TimerShape' /\ TimerEffect
  BY <1>24, <1>0 DEF DropStopped, local, Rest
<1>25. ASSUME NEW n \in Nodes, LoseClaim(n)
       PROVE  TimerType' /\ TimerShape' /\ TimerEffect
  BY <1>25, <1>0 DEF LoseClaim, local, Rest
<1>26. ASSUME NEW n \in Nodes, SettingUpEvent(n)
       PROVE  TimerType' /\ TimerShape' /\ TimerEffect
  BY <1>26, <1>0 DEF SettingUpEvent, local
<1>27. ASSUME NEW n \in Nodes, NEW t \in Tasks, RunningEvent(n, t)
       PROVE  TimerType' /\ TimerShape' /\ TimerEffect
  BY <1>27, <1>0 DEF RunningEvent, local, Rest
<1>28. ASSUME NEW n \in Nodes, NEW t \in Tasks, DoneEvent(n, t)
       PROVE  TimerType' /\ TimerShape' /\ TimerEffect
  BY <1>28, <1>0 DEF DoneEvent, WorkerDone, local, Rest
<1>29. ASSUME NEW n \in Nodes, NEW t \in Tasks, CrashEvent(n, t)
       PROVE  TimerType' /\ TimerShape' /\ TimerEffect
  BY <1>29, <1>0 DEF CrashEvent, WorkerDone, local, Rest
<1>30. ASSUME NEW n \in Nodes, Crash(n) PROVE TimerType' /\ TimerShape' /\ TimerEffect
  BY <1>30, <1>0 DEF Crash, local, Rest
<1>31. ASSUME NEW n \in Nodes, NodeDone(n)
       PROVE  TimerType' /\ TimerShape' /\ TimerEffect
  BY <1>31, <1>0 DEF NodeDone, local, Rest
<1>32. ASSUME NEW n \in Nodes, SilentDone(n)
       PROVE  TimerType' /\ TimerShape' /\ TimerEffect
  BY <1>32, <1>0 DEF SilentDone, local, Rest
<1>33. ASSUME NEW n \in Nodes, Obey(n) PROVE TimerType' /\ TimerShape' /\ TimerEffect
  BY <1>33, <1>0 DEF Obey, local, Rest
<1>34. ASSUME NEW n \in Nodes, OtherStop(n)
       PROVE  TimerType' /\ TimerShape' /\ TimerEffect
  BY <1>34, <1>0 DEF OtherStop, local, Rest
<1>35. ASSUME NEW n \in Nodes, RemoveNode(n)
       PROVE  TimerType' /\ TimerShape' /\ TimerEffect
  BY <1>35, <1>0 DEF RemoveNode, local, Rest
<1>36. CASE UNCHANGED vars
  BY <1>36, <1>0 DEF vars, local
<1>37. ASSUME NEW t \in Tasks, PostTask(t) PROVE TimerType' /\ TimerShape' /\ TimerEffect
  BY <1>37, <1>0 DEF PostTask
<1>38. ASSUME NEW t \in Tasks, StopListed(t)
       PROVE  TimerType' /\ TimerShape' /\ TimerEffect
  <2>1. /\ at = "Stopping" /\ listed' = Without(listed, t)
        /\ UNCHANGED <<at, snap, snapJob, iter, chunk, todo, units, current, newJob, back>>
    BY <1>38 DEF StopListed
  <2>2. DOMAIN listed' \subseteq DOMAIN listed /\ \A u \in DOMAIN listed' : listed'[u] = listed[u]
    BY <2>1 DEF Without
  <2> QED
    BY <1>a, <2>1, <2>2
       DEF TimerType, TimerEffect, SnapHeld, ChunkHeld, CurrentHeld, StopHeld
<1>39. CASE JobStopped
  <2>1. /\ at = "Stopping" /\ listed = NoSnap
        /\ at' = back /\ back' = "Idle" /\ newJob' = NoJob
        /\ iter' \in {iter, MaxUpdates}
        /\ UNCHANGED <<snap, snapJob, chunk, todo, units, current, listed>>
    BY <1>39 DEF JobStopped
  <2>2. /\ back \in {"Expired", "Jobs", "Tasks", "Idle"} /\ current = {}
        /\ back # "Tasks" => snap = NoSnap
        /\ snapJob = NoJob \/ (back = "Jobs" /\ snapJob.state = "Stopping")
    BY <1>a, <2>1 DEF StopHeld, CurrentHeld
  <2>3. TimerType'
    BY <1>a, <2>1, <2>2, JobsAssumption DEF TimerType, TimerAt, NoJob, JobRecord, JobState
  <2>4. TimerShape'
    <3>1. SnapHeld' /\ ChunkHeld'
      BY <1>a, <2>1, <2>2 DEF SnapHeld, ChunkHeld, Scheduling, Working, NoSnap
    <3>2. CurrentHeld' /\ StopHeld'
      BY <2>1, <2>2 DEF CurrentHeld, StopHeld, NeedsWorkJob, NoSnap
    <3> QED
      BY <3>1, <3>2
  <2>5. TimerEffect
    BY <2>1, <2>2 DEF TimerEffect, Scheduling, NoJob, NoSnap
  <2> QED
    BY <2>3, <2>4, <2>5
<1>40. ASSUME NEW t \in Tasks, CheckNodes(t)
       PROVE  TimerType' /\ TimerShape' /\ TimerEffect
  <2>1. /\ at = "Nodes"
        /\ \/ at' = "Stop" /\ UNCHANGED <<snap, current>>
           \/ at' = "Tasks" /\ snap' = Without(snap, t) /\ current' = {}
        /\ UNCHANGED <<snapJob, iter, chunk, todo, units, listed, newJob, back>>
    BY <1>40 DEF CheckNodes
  <2>2. DOMAIN snap' \subseteq DOMAIN snap /\ \A u \in DOMAIN snap' : snap'[u] = snap[u]
    BY <2>1 DEF Without
  <2>3. TimerType'
    BY <1>a, <2>1, <2>2 DEF TimerType, TimerAt
  <2>4. TimerShape'
    BY <1>a, <2>1, <2>2
       DEF SnapHeld, ChunkHeld, CurrentHeld, StopHeld, Scheduling, Working
  <2>5. TimerEffect
    BY <1>a, <2>1, <2>2 DEF TimerEffect, Scheduling, StopHeld
  <2> QED
    BY <2>3, <2>4, <2>5
<1>41. ASSUME NEW t \in Tasks, DeleteQueue(t)
       PROVE  TimerType' /\ TimerShape' /\ TimerEffect
  <2>1. /\ at = "Delete" /\ t \in current /\ inputs' = inputs \ {t} /\ current' = {}
        /\ \/ at' = "AllDone" /\ snapJob' = job
           \/ at' = "Tasks" /\ UNCHANGED snapJob
        /\ UNCHANGED <<snap, iter, chunk, todo, units, listed, newJob, back>>
    BY <1>41 DEF DeleteQueue
  <2>2. \A u \in current : u \notin inputs'
    BY <1>a, <2>1 DEF CurrentHeld
  <2> QED
    BY <1>a, <1>n, <2>1, <2>2
       DEF TimerType, TimerEffect, TimerAt, Scheduling, Working, CurrentHeld, StopHeld
<1>42. CASE StopIfAllDone
  <2>1. /\ at = "AllDone" /\ JobStopping(snapJob, "Tasks") /\ snapJob' = NoJob
        /\ UNCHANGED <<tables, snap, iter, chunk, todo, units, current, history>>
    BY <1>42 DEF StopIfAllDone
  <2>2. snapJob \in JobRecord
    BY <1>a DEF TimerType
  <2>3. TimerType'
    BY <1>a, <2>1, <2>2, JobStoppingFacts DEF TimerType, TimerAt, NoJob, JobRecord, JobState
  <2>4. TimerShape'
    BY <1>a, <1>n, <2>1, <2>2, JobStoppingFacts DEF CurrentHeld, StopHeld, Working
  <2>5. TimerEffect
    BY <1>a, <2>1, <2>2, JobStoppingFacts DEF TimerEffect, Scheduling, ShuttingDown, tables
  <2> QED
    BY <2>3, <2>4, <2>5
<1>43. ASSUME NEW t \in Tasks, FailNeverStarted(t)
       PROVE  TimerType' /\ TimerShape' /\ TimerEffect
  <2>1. /\ at = "Never" /\ snap' = Without(snap, t)
        /\ UNCHANGED <<at, snapJob, iter, chunk, todo, units, current, listed, newJob, back>>
    BY <1>43 DEF FailNeverStarted, stops
  <2>2. DOMAIN snap' \subseteq DOMAIN snap /\ \A u \in DOMAIN snap' : snap'[u] = snap[u]
    BY <2>1 DEF Without
  <2>3. TimerType'
    BY <1>a, <2>1, <2>2 DEF TimerType
  <2>4. TimerShape'
    BY <1>a, <2>1, <2>2
       DEF SnapHeld, ChunkHeld, CurrentHeld, StopHeld, Scheduling, Working
  <2>5. TimerEffect
    BY <1>a, <2>1, <2>2 DEF TimerEffect, Scheduling, StopHeld
  <2> QED
    BY <2>3, <2>4, <2>5
<1>44. CASE StopNeverStartedJob
  <2>1. /\ at = "Never" /\ snap = NoSnap /\ JobStopping(snapJob, "Idle") /\ snapJob' = NoJob
        /\ UNCHANGED <<tables, snap, iter, chunk, todo, units, current, history>>
    BY <1>44 DEF StopNeverStartedJob
  <2>2. snapJob \in JobRecord
    BY <1>a DEF TimerType
  <2>3. TimerType'
    BY <1>a, <2>1, <2>2, JobStoppingFacts DEF TimerType, TimerAt, NoJob, JobRecord, JobState
  <2>4. TimerShape'
    BY <1>a, <2>1, <2>2, JobStoppingFacts
       DEF SnapHeld, ChunkHeld, CurrentHeld, StopHeld, Scheduling, Working, NoSnap
  <2>5. TimerEffect
    BY <1>a, <2>1, <2>2, JobStoppingFacts DEF TimerEffect, Scheduling, ShuttingDown, tables, NoSnap
  <2> QED
    BY <2>3, <2>4, <2>5
<1> QED
  BY <1>1, <1>2, <1>3, <1>4, <1>5, <1>6, <1>7, <1>8, <1>9, <1>10, <1>11,
     <1>12, <1>13, <1>14, <1>15, <1>16, <1>17, <1>18, <1>19, <1>20, <1>21,
     <1>22, <1>23, <1>24, <1>25, <1>26, <1>27, <1>28, <1>29, <1>30, <1>31,
     <1>32, <1>33, <1>34, <1>35, <1>36, <1>37, <1>38, <1>39, <1>40, <1>41,
     <1>42, <1>43, <1>44 DEF Next, Http, Timer, Node,
     Events, NodeFaults

\* The variables of the nodes and of the pool's queue, and the counters.
NodeType ==
    /\ inputs \subseteq Tasks
    /\ QueueOK(queue)
    /\ nodeTasks \subseteq Nodes \X Tasks
    /\ node \in [Nodes -> NodeRecord]
    /\ keep \subseteq Nodes
    /\ messages \in [Nodes -> SUBSET (Tasks \cup {"Stop"})]
    /\ faults \in 0..MaxFaults
    /\ replaced \subseteq Tasks \cup {"job"}
    /\ revived \subseteq Tasks /\ late \subseteq Tasks
    /\ leaked \subseteq Tasks /\ overlooked \subseteq Tasks
    /\ creating \subseteq Tasks

\* The type invariant in the parts that the effects are about.
LEMMA TypeParts == TypeOK <=> task \in Table /\ job \in JobRecord /\ TimerType /\ NodeType
  BY DEF TypeOK, Table, TimerType, NodeType, QueueOK

AtWork == {"SettingUp", "Busy"}

\* The tasks a node has announced and not reported as done.
Live(nd) == nd.left \cup nd.running

\* A node goes on with what it has, and its rows of nodeTasks with it.
GoesOn(n) ==
    /\ node'[n].units = node[n].units
    /\ node'[n].left \subseteq node[n].left
    /\ node'[n].running \subseteq node[n].running \cup node[n].left
    /\ node'[n].phase \in AtWork =>
         /\ node[n].phase \in AtWork
         /\ \A t \in Live(node'[n]) : <<n, t>> \in nodeTasks => <<n, t>> \in nodeTasks'

\* It ends, or has died.
GivesUp(n) ==
    /\ node'[n].units \subseteq node[n].units
    /\ node'[n].left \subseteq node'[n].units /\ node'[n].running = {}
    /\ node'[n].phase \notin AtWork

\* It claims a work set.
Claims(n) ==
    /\ node'[n].phase = "Claimed"
    /\ \E m \in DOMAIN queue : node'[n].units = Elements(m)
    /\ node'[n].left = node'[n].units /\ node'[n].running = {}

\* It announces the setup of its work set.
Announces(n) ==
    /\ node'[n].units = node[n].units /\ node'[n].left = node[n].left
    /\ node'[n].running = node[n].running
    /\ \A t \in node[n].units : /\ <<n, t>> \in nodeTasks'
                                /\ task'[t].state \in {"SettingUp", "Running"}

NodeEffect ==
    /\ \A m \in DOMAIN queue' : m \in DOMAIN queue \/ (at = "Build" /\ m = units)
    /\ \A n \in Nodes : GoesOn(n) \/ GivesUp(n) \/ Claims(n) \/ Announces(n)

\* Every step has one of these effects on each node, and keeps the types.
LEMMA NodeStep ==
    ASSUME TypeInv, [Next]_vars
    PROVE  NodeType' /\ NodeEffect
<1>a. NodeType /\ task \in Table /\ JobsAssumption
  BY TypeParts, JobsAssumption DEF TypeInv
<1>0. UNCHANGED <<inputs, queue, nodeTasks, node, keep, messages, faults, replaced, revived,
                  creating, late, leaked, overlooked>>
        => NodeType' /\ NodeEffect
  BY <1>a DEF NodeType, NodeEffect, GoesOn, Live
<1>b. /\ \A t \in DOMAIN snap : t \in Tasks /\ snap[t] \in TaskRecord
      /\ todo \subseteq Tasks /\ units \in Seq(Tasks) /\ Elements(units) \subseteq Tasks
  BY DEF TypeInv, TypeOK, TimerShape, ChunkHeld
<1>c. at = "Mark" => Head(units) \in Tasks
  BY <1>b, ElementsFacts DEF TypeInv, TimerShape, ChunkHeld
<1>s. UNCHANGED <<queue, nodeTasks, node, keep, messages, faults, creating, leaked>>
        /\ revived' \subseteq Tasks /\ late' \subseteq Tasks
        /\ overlooked' \subseteq Tasks /\ inputs' \subseteq Tasks /\ replaced' \subseteq Tasks \cup {"job"}
        => NodeType' /\ NodeEffect
  BY <1>a DEF NodeType, NodeEffect, GoesOn, Live
<1>d. ASSUME NEW n \in Nodes, node' = [node EXCEPT ![n] = Crashed(node[n])],
             UNCHANGED nodeTasks
      PROVE  /\ node' \in [Nodes -> NodeRecord]
             /\ \A k \in Nodes : GoesOn(k) \/ GivesUp(k)
  <2>1. /\ Crashed(node[n]) \in NodeRecord
        /\ Crashed(node[n]).units = node[n].units /\ Crashed(node[n]).left = node[n].units
        /\ Crashed(node[n]).running = {} /\ Crashed(node[n]).phase = "Crashed"
    <3>1. node[n] \in NodeRecord
      BY <1>a DEF NodeType
    <3> QED
      BY <3>1 DEF Crashed, NodeRecord, Phase
  <2>2. /\ node' \in [Nodes -> NodeRecord]
        /\ node'[n] = Crashed(node[n]) /\ \A k \in Nodes \ {n} : node'[k] = node[k]
    BY <1>a, <1>d, <2>1 DEF NodeType
  <2> QED
    BY <1>d, <2>1, <2>2 DEF GoesOn, GivesUp, AtWork
<1>1. CASE CreateJob
  BY <1>1, <1>0 DEF CreateJob, tables, nodes, requests, history
<1>2. CASE DeleteJob
  BY <1>2, <1>0 DEF DeleteJob, tables, nodes, requests, history
<1>3. ASSUME NEW t \in Tasks, CreateTask(t) PROVE NodeType' /\ NodeEffect
  BY <1>3, <1>a DEF CreateTask, nodes, history, NodeType, NodeEffect, GoesOn, Live
<1>4. ASSUME NEW t \in Tasks, DeleteTask(t) PROVE NodeType' /\ NodeEffect
  BY <1>4, <1>0 DEF DeleteTask, tables, nodes, requests, history
<1>5. CASE StartTimer
  BY <1>5, <1>0 DEF StartTimer, tables, nodes, requests, history
<1>6. ASSUME NEW t \in Tasks, StopExpired(t) PROVE NodeType' /\ NodeEffect
  <2>1. replaced' \subseteq Tasks \cup {"job"}
    BY <1>6, <1>a, <1>b, UndoesFacts DEF StopExpired, NodeType, Undoes
  <2> QED
    BY <1>6, <1>a, <1>s, <2>1 DEF StopExpired, NodeType, nodes, requests
<1>7. CASE ExpireJob
  BY <1>7, <1>0 DEF ExpireJob, tables, nodes, requests, history
<1>8. CASE QueryJobs
  BY <1>8, <1>0 DEF QueryJobs, tables, nodes, requests, history
<1>9. CASE UpdateJob
  <2>1. replaced' \subseteq Tasks \cup {"job"}
    BY <1>9, <1>a, <1>b DEF UpdateJob, ReplaceJob, NodeType
  <2> QED
    BY <1>9, <1>a, <1>s, <2>1 DEF UpdateJob, NodeType, nodes, requests
<1>10. CASE QueryTasks
  BY <1>10, <1>0 DEF QueryTasks, tables, nodes, requests, history
<1>11. ASSUME NEW t \in Tasks, InitTask(t) PROVE NodeType' /\ NodeEffect
  <2>1. replaced' \subseteq Tasks \cup {"job"}
    BY <1>11, <1>a, <1>b, UndoesFacts DEF InitTask, NodeType, Undoes
  <2> QED
    BY <1>11, <1>a, <1>s, <2>1 DEF InitTask, NodeType, nodes, requests
<1>12. ASSUME NEW t \in Tasks, StoppingTask(t) PROVE NodeType' /\ NodeEffect
  BY <1>12, <1>a
  DEF StoppingTask, tables, nodes, requests, history, Rest, StopTask,
      NodeType, NodeEffect, GoesOn, GivesUp, Claims, Announces, Live, AtWork,
      NodeRecord, Phase
<1>13. ASSUME NEW t \in Tasks, StoppedTask(t) PROVE NodeType' /\ NodeEffect
  <2>1. replaced' \subseteq Tasks \cup {"job"}
    BY <1>13, <1>a, <1>b, UndoesFacts DEF StoppedTask, NodeType, Undoes
  <2> QED
    BY <1>13, <1>a, <1>s, <2>1 DEF StoppedTask, NodeType, nodes, requests
<1>14. CASE QuerySchedule
  BY <1>14, <1>0 DEF QuerySchedule, tables, nodes, requests, history
<1>15. CASE PickChunk
  BY <1>15, <1>0 DEF PickChunk, tables, nodes, requests, history
<1>16. ASSUME NEW t \in Tasks, BuildWorkUnit(t) PROVE NodeType' /\ NodeEffect
  <2>1. replaced' \subseteq Tasks \cup {"job"}
    BY <1>16, <1>a, <1>b, UndoesFacts DEF BuildWorkUnit, NodeType, Undoes
  <2> QED
    BY <1>16, <1>a, <1>s, <2>1 DEF BuildWorkUnit, NodeType, nodes, requests
<1>17. CASE ScheduleWorkset
  <2>1. Count[Head(units)] \in Nat /\ Push(Count[Head(units)]) /\ units # <<>>
    BY <1>17, <1>a, <1>b, ElementsFacts DEF ScheduleWorkset, JobsAssumption
  <2>2. QueueOK(queue') /\ \A m \in DOMAIN queue' : m \in DOMAIN queue \/ m = units
    BY <1>a, <1>b, <2>1, ElementsFacts, PushFacts DEF NodeType
  <2> QED
    BY <1>17, <1>a, <2>2
       DEF ScheduleWorkset, tables, nodes, requests, history, NodeType, NodeEffect, GoesOn, Live
<1>18. CASE ScheduleNothing
  <2>1. \E k \in Nat : Push(k) /\ (k # 0 => units # <<>>)
    BY <1>18, <1>a, <1>b DEF ScheduleNothing
  <2>2. QueueOK(queue') /\ \A m \in DOMAIN queue' : m \in DOMAIN queue \/ m = units
    BY <1>a, <1>b, <2>1, ElementsFacts, PushFacts DEF NodeType
  <2> QED
    BY <1>18, <1>a, <2>2
       DEF ScheduleNothing, tables, nodes, requests, history, NodeType, NodeEffect, GoesOn, Live
<1>19. CASE MarkScheduled
  <2>1. replaced' \subseteq Tasks \cup {"job"}
    BY <1>19, <1>a, <1>b, <1>c DEF MarkScheduled, NodeType, Undoes
  <2> QED
    BY <1>19, <1>a, <1>s, <2>1 DEF MarkScheduled, NodeType, nodes, requests
<1>20. CASE StopNeverStarted
  BY <1>20, <1>0 DEF StopNeverStarted, tables, nodes, requests, history
<1>21. CASE EndTimer
  BY <1>21, <1>0 DEF EndTimer, tables, nodes, requests, history
<1>22. CASE AbortTimer
  <2>1. /\ faults' \in 0..MaxFaults /\ leaked' \subseteq Tasks
        /\ UNCHANGED <<inputs, queue, nodeTasks, node, keep, messages, replaced, revived,
                       creating, late, overlooked>>
    BY <1>22, <1>a DEF AbortTimer, tables, nodes, requests, NodeType, TypeInv, TypeOK
  <2> QED
    BY <1>a, <2>1 DEF NodeType, NodeEffect, GoesOn, Live
<1>23. ASSUME NEW n \in Nodes, Claim(n) PROVE NodeType' /\ NodeEffect
  <2>1. PICK m \in DOMAIN queue :
          /\ queue' = queue (-) SetToBag({m})
          /\ node' = [node EXCEPT ![n] =
                 [phase |-> "Claimed", units |-> Elements(m), left |-> Elements(m),
                  running |-> {}]]
    BY <1>23 DEF Claim
  <2>2. UNCHANGED <<inputs, nodeTasks, keep, messages, faults, replaced, revived,
                    creating, late, leaked, overlooked>>
    BY <1>23 DEF Claim, tables, Rest, requests
  <2>3. QueueOK(queue') /\ DOMAIN queue' \subseteq DOMAIN queue
    BY <1>a, <2>1, TakeFacts DEF NodeType
  <2>4. Elements(m) \subseteq Tasks
    BY <1>a DEF NodeType, QueueOK
  <2>5. /\ node' \in [Nodes -> NodeRecord]
        /\ \A k \in Nodes \ {n} : node'[k] = node[k]
        /\ Claims(n)
    BY <1>a, <2>1, <2>4 DEF NodeType, NodeRecord, Phase, Claims
  <2> QED
    BY <1>a, <2>2, <2>3, <2>5 DEF NodeType, NodeEffect, GoesOn
<1>24. ASSUME NEW n \in Nodes, DropStopped(n) PROVE NodeType' /\ NodeEffect
  BY <1>24, <1>a, TakeFacts
  DEF DropStopped, tables, nodes, requests, history, Rest,
      NodeType, NodeEffect, GoesOn, GivesUp, Claims, Announces, Live, AtWork,
      NodeRecord, Phase
<1>25. ASSUME NEW n \in Nodes, LoseClaim(n) PROVE NodeType' /\ NodeEffect
  BY <1>25, <1>a
  DEF LoseClaim, tables, nodes, requests, history, Rest, Empty,
      NodeType, NodeEffect, GoesOn, GivesUp, Claims, Announces, Live, AtWork,
      NodeRecord, Phase
<1>26. ASSUME NEW n \in Nodes, SettingUpEvent(n) PROVE NodeType' /\ NodeEffect
  <2>1. /\ node' = [node EXCEPT ![n].phase = "SettingUp"]
        /\ nodeTasks' = nodeTasks \cup ({n} \X node[n].units)
        /\ revived' = revived \cup {t \in node[n].units : task[t].state \in ShuttingDown}
        /\ UNCHANGED <<inputs, queue, keep, messages, faults, replaced, creating, late,
                       leaked>>
        /\ overlooked' \in {overlooked, overlooked \cup (current \cap node[n].units)}
        /\ task' = [t \in Tasks |->
             IF t \in node[n].units /\ task[t].state \notin {"Running", "SettingUp"}
             THEN SetState(task[t], "SettingUp") ELSE task[t]]
    BY <1>26 DEF SettingUpEvent, requests
  <2>2. /\ node' \in [Nodes -> NodeRecord] /\ node[n].units \subseteq Tasks
        /\ \A k \in Nodes \ {n} : node'[k] = node[k]
        /\ node'[n].units = node[n].units /\ node'[n].left = node[n].left
        /\ node'[n].running = node[n].running
    <3>1. node \in [Nodes -> NodeRecord] /\ node[n] \in NodeRecord
      BY <1>a DEF NodeType
    <3> QED
      BY <2>1, <3>1 DEF NodeRecord, Phase
  <2>3. \A t \in node[n].units : task'[t].state \in {"SettingUp", "Running"}
    <3> SUFFICES ASSUME NEW t \in node[n].units
                 PROVE  task'[t].state \in {"SettingUp", "Running"}
      OBVIOUS
    <3>1. t \in Tasks /\ task[t] \in TaskRecord
      BY <1>a, <2>2 DEF Table
    <3>2. SetState(task[t], "SettingUp").state = "SettingUp"
      BY <3>1, SetStateFacts DEF TaskState, AvailableTask
    <3> QED
      BY <2>1, <3>1, <3>2
  <2>4. Announces(n)
    BY <2>1, <2>2, <2>3 DEF Announces
  <2>5. NodeType'
    BY <1>a, <2>1, <2>2 DEF NodeType
  <2>6. \A k \in Nodes \ {n} : GoesOn(k)
    BY <2>1, <2>2 DEF GoesOn
  <2> QED
    BY <2>1, <2>4, <2>5, <2>6 DEF NodeEffect
<1>27. ASSUME NEW n \in Nodes, NEW t \in Tasks, RunningEvent(n, t)
       PROVE  NodeType' /\ NodeEffect
  <2>1. /\ node[n].phase \in AtWork /\ t \in node[n].left
        /\ node' = [node EXCEPT ![n].phase = "Busy", ![n].left = @ \ {t},
                                ![n].running = @ \cup {t}]
        /\ nodeTasks' = nodeTasks \cup {<<n, t>>}
        /\ UNCHANGED <<inputs, queue, keep, messages, faults, replaced, revived,
                       creating, late, leaked, overlooked>>
    BY <1>27 DEF RunningEvent, Rest, requests, AtWork
  <2>2. node \in [Nodes -> NodeRecord] /\ node[n] \in NodeRecord
    BY <1>a DEF NodeType
  <2>3. /\ node' \in [Nodes -> NodeRecord]
        /\ \A k \in Nodes \ {n} : node'[k] = node[k]
        /\ node'[n].units = node[n].units /\ node'[n].left = node[n].left \ {t}
        /\ node'[n].running = node[n].running \cup {t}
    BY <2>1, <2>2 DEF NodeRecord, Phase
  <2>4. NodeType'
    BY <1>a, <2>1, <2>3 DEF NodeType
  <2>5. \A k \in Nodes : GoesOn(k)
    BY <2>1, <2>3 DEF GoesOn
  <2> QED
    BY <2>1, <2>4, <2>5 DEF NodeEffect
<1>e. ASSUME NEW n \in Nodes, NEW t \in Tasks, NEW success \in BOOLEAN,
             WorkerDone(n, t, success),
             \/ node' = [node EXCEPT ![n].running = @ \ {t}] /\ node[n].left = {}
             \/ node' = [node EXCEPT ![n].left = @ \ {t}] /\ node[n].phase = "Crashed"
      PROVE  NodeType' /\ NodeEffect
  <2>1. /\ keep' \subseteq Nodes
        /\ nodeTasks' \subseteq nodeTasks /\ nodeTasks \ {<<n, t>>} \subseteq nodeTasks'
        /\ UNCHANGED <<inputs, queue, messages, faults, replaced, revived, creating,
                       late, leaked, overlooked>>
    BY <1>a, <1>e DEF WorkerDone, Rest, requests, NodeType
  <2>2. node \in [Nodes -> NodeRecord] /\ node[n] \in NodeRecord
    BY <1>a DEF NodeType
  <2>3. /\ node' \in [Nodes -> NodeRecord]
        /\ \A k \in Nodes \ {n} : node'[k] = node[k]
        /\ node'[n].units = node[n].units /\ node'[n].phase = node[n].phase
        /\ node'[n].left \subseteq node[n].left
        /\ node'[n].running \subseteq node[n].running
        /\ t \notin Live(node'[n]) \/ node[n].phase = "Crashed"
    BY <1>e, <2>2 DEF NodeRecord, Live
  <2>4. NodeType'
    BY <1>a, <2>1, <2>3 DEF NodeType
  <2>5. \A k \in Nodes : GoesOn(k)
    BY <2>1, <2>3 DEF GoesOn, AtWork
  <2> QED
    BY <2>1, <2>4, <2>5 DEF NodeEffect
<1>28. ASSUME NEW n \in Nodes, NEW t \in Tasks, DoneEvent(n, t)
       PROVE  NodeType' /\ NodeEffect
  BY <1>28, <1>e DEF DoneEvent
<1>29. ASSUME NEW n \in Nodes, NEW t \in Tasks, CrashEvent(n, t)
       PROVE  NodeType' /\ NodeEffect
  BY <1>29, <1>e DEF CrashEvent
<1>30. ASSUME NEW n \in Nodes, Crash(n) PROVE NodeType' /\ NodeEffect
  <2>1. /\ node' = [node EXCEPT ![n] = Crashed(node[n])] /\ faults' = faults + 1
        /\ faults < MaxFaults
        /\ UNCHANGED <<inputs, queue, nodeTasks, keep, messages, replaced, revived,
                       creating, late, leaked, overlooked>>
    BY <1>30 DEF Crash, tables, requests, history
  <2>2. faults' \in 0..MaxFaults
    BY <1>a, <2>1, JobsAssumption DEF NodeType
  <2>3. /\ node' \in [Nodes -> NodeRecord]
        /\ \A k \in Nodes : GoesOn(k) \/ GivesUp(k)
    BY <1>d, <2>1
  <2> QED
    BY <1>a, <2>1, <2>2, <2>3 DEF NodeType, NodeEffect
<1>31. ASSUME NEW n \in Nodes, NodeDone(n) PROVE NodeType' /\ NodeEffect
  BY <1>31, <1>a
  DEF NodeDone, tables, nodes, requests, history, Rest, MarkTasksStoppedEarly, Empty,
      NodeType, NodeEffect, GoesOn, GivesUp, Claims, Announces, Live, AtWork,
      NodeRecord, Phase
<1>32. ASSUME NEW n \in Nodes, SilentDone(n) PROVE NodeType' /\ NodeEffect
  BY <1>32, <1>a
  DEF SilentDone, tables, nodes, requests, history, Rest, Empty,
      NodeType, NodeEffect, GoesOn, GivesUp, Claims, Announces, Live, AtWork,
      NodeRecord, Phase
<1>33. ASSUME NEW n \in Nodes, Obey(n) PROVE NodeType' /\ NodeEffect
  <2>1. /\ UNCHANGED <<inputs, queue, nodeTasks, keep, faults, replaced, revived,
                       creating, late, leaked, overlooked>>
        /\ \/ node' = [node EXCEPT ![n] = Empty("Ending")]
           \/ node' = [node EXCEPT ![n] = Crashed(node[n])]
           \/ UNCHANGED node
        /\ \E c \in Tasks \cup {"Stop"} : messages' = [messages EXCEPT ![n] = messages[n] \ {c}]
    BY <1>33 DEF Obey, ObeyStop, ObeyStopTask, tables, requests, Rest
  <2>2. messages' \in [Nodes -> SUBSET (Tasks \cup {"Stop"})]
    BY <1>a, <2>1 DEF NodeType
  <2>3. CASE node' = [node EXCEPT ![n] = Empty("Ending")]
    BY <1>a, <2>1, <2>2, <2>3
    DEF NodeType, NodeEffect, GoesOn, GivesUp, Empty, NodeRecord, Phase, AtWork
  <2>4. CASE node' = [node EXCEPT ![n] = Crashed(node[n])]
    BY <1>a, <1>d, <2>1, <2>2, <2>4 DEF NodeType, NodeEffect
  <2>5. CASE UNCHANGED node
    BY <1>a, <2>1, <2>2, <2>5 DEF NodeType, NodeEffect, GoesOn
  <2> QED
    BY <2>1, <2>3, <2>4, <2>5
<1>34. ASSUME NEW n \in Nodes, OtherStop(n) PROVE NodeType' /\ NodeEffect
  BY <1>34, <1>a
  DEF OtherStop, tables, nodes, requests, history, Rest, Empty,
      NodeType, NodeEffect, GoesOn, GivesUp, Claims, Announces, Live, AtWork,
      NodeRecord, Phase
<1>35. ASSUME NEW n \in Nodes, RemoveNode(n) PROVE NodeType' /\ NodeEffect
  BY <1>35, <1>a
  DEF RemoveNode, tables, nodes, requests, history, Rest, MarkTasksStoppedEarly, Empty,
      NodeType, NodeEffect, GoesOn, GivesUp, Claims, Announces, Live, AtWork,
      NodeRecord, Phase
<1>36. CASE UNCHANGED vars
  BY <1>36, <1>0 DEF vars, tables, nodes, requests, history
<1>37. ASSUME NEW t \in Tasks, PostTask(t) PROVE NodeType' /\ NodeEffect
  BY <1>37, <1>a DEF PostTask, tables, nodes, history, NodeType, NodeEffect, GoesOn, Live
<1>38. ASSUME NEW t \in Tasks, StopListed(t) PROVE NodeType' /\ NodeEffect
  <2>1. replaced' \subseteq Tasks \cup {"job"}
    BY <1>38, <1>a DEF StopListed, NodeType, Undoes
  <2> QED
    BY <1>38, <1>a, <1>s, <2>1 DEF StopListed, NodeType, nodes, requests
<1>39. CASE JobStopped
  <2>1. replaced' \subseteq Tasks \cup {"job"}
    BY <1>39, <1>a DEF JobStopped, ReplaceJob, NodeType
  <2> QED
    BY <1>39, <1>a, <1>s, <2>1 DEF JobStopped, NodeType, nodes, requests
<1>40. ASSUME NEW t \in Tasks, CheckNodes(t) PROVE NodeType' /\ NodeEffect
  BY <1>40, <1>0 DEF CheckNodes, tables, nodes, requests, history
<1>41. ASSUME NEW t \in Tasks, DeleteQueue(t) PROVE NodeType' /\ NodeEffect
  BY <1>41, <1>a, <1>s DEF DeleteQueue, NodeType, nodes, requests, history
<1>42. CASE StopIfAllDone
  BY <1>42, <1>0 DEF StopIfAllDone, tables, nodes, requests, history
<1>43. ASSUME NEW t \in Tasks, FailNeverStarted(t) PROVE NodeType' /\ NodeEffect
  <2>1. replaced' \subseteq Tasks \cup {"job"}
    BY <1>43, <1>a DEF FailNeverStarted, NodeType, Undoes
  <2> QED
    BY <1>43, <1>a, <1>s, <2>1 DEF FailNeverStarted, NodeType, nodes, requests
<1>44. CASE StopNeverStartedJob
  BY <1>44, <1>0 DEF StopNeverStartedJob, tables, nodes, requests, history
<1> QED
  BY <1>1, <1>2, <1>3, <1>4, <1>5, <1>6, <1>7, <1>8, <1>9, <1>10, <1>11,
     <1>12, <1>13, <1>14, <1>15, <1>16, <1>17, <1>18, <1>19, <1>20, <1>21,
     <1>22, <1>23, <1>24, <1>25, <1>26, <1>27, <1>28, <1>29, <1>30, <1>31,
     <1>32, <1>33, <1>34, <1>35, <1>36, <1>37, <1>38, <1>39, <1>40, <1>41,
     <1>42, <1>43, <1>44 DEF Next, Http, Timer, Node,
     Events, NodeFaults

\* What a step may do to the job: its clock starts with that of a task (or it is
\* deleted); it is created; the timer function enables it from a record it has
\* read before; it is stopped.
JobEffect ==
    /\ job' \in JobRecord
    /\ job'.state = "None" => job.state = "None"
    /\ job'.state = "Stopped" =>
         \/ job.state = "Stopped"
         \/ job' = newJob /\ UNCHANGED task
    /\ \/ /\ job'.state \in {job.state, "Stopping"}
          /\ job.endTime => job'.endTime
          /\ \A t \in Tasks : task'[t].endTime => task[t].endTime \/ job'.endTime
       \/ job.state = "None" /\ UNCHANGED task
       \/ /\ at = "Jobs" /\ snapJob.state = "Init" /\ UNCHANGED task
          /\ job.endTime => job'.endTime \/ "job" \in replaced'
       \/ at = "Stopping" /\ job'.state \in {"Stopping", "Stopped"}

\* Every step has one of these effects on the job.
LEMMA JobStep ==
    ASSUME TypeInv, SnapShape, Posted, [Next]_vars
    PROVE  JobEffect
<1>a. /\ task \in Table /\ task' \in Table /\ job \in JobRecord /\ snapJob \in JobRecord
      /\ \A t \in DOMAIN snap : t \in Tasks /\ snap[t] \in TaskRecord
      /\ SnapShape
  BY TaskStep DEF TypeInv, TypeOK, Table, TaskEffect
<1>u. UNCHANGED <<task, job>> => JobEffect
  BY <1>a DEF JobEffect
<1>o. job' = OnStart(job, task, task') => JobEffect
  <2> HAVE job' = OnStart(job, task, task')
  <2>1. /\ job' \in JobRecord /\ job'.state = job.state
        /\ job'.endTime <=>
             job.endTime \/ \E t \in Tasks : task'[t].endTime /\ ~task[t].endTime
    <3> DEFINE b == \E t \in Tasks : task'[t].endTime /\ ~task[t].endTime
    <3>1. job' = [job EXCEPT !.endTime = @ \/ b]
      BY DEF OnStart
    <3>2. b \in BOOLEAN /\ job \in JobRecord
      BY <1>a
    <3> HIDE DEF b
    <3>3. job' \in JobRecord /\ job'.state = job.state /\ (job'.endTime <=> job.endTime \/ b)
      BY <3>1, <3>2 DEF JobRecord
    <3> QED
      BY <3>3 DEF b
  <2>2. /\ job.endTime => job'.endTime
        /\ \A t \in Tasks : task'[t].endTime => task[t].endTime \/ job'.endTime
    BY <2>1
  <2> QED
    BY <2>1, <2>2 DEF JobEffect
<1>1. CASE CreateJob
  BY <1>1, <1>a DEF CreateJob, NoJob, JobEffect, JobRecord, JobState
<1>2. CASE DeleteJob
  BY <1>2, <1>a DEF DeleteJob, AvailableJob, JobEffect, JobRecord, JobState
<1>3. ASSUME NEW t \in Tasks, CreateTask(t) PROVE JobEffect
  <2>1. \A u \in Tasks : task'[u].endTime = task[u].endTime
    BY <1>3, <1>a DEF CreateTask, Table, TaskRecord
  <2> QED
    BY <1>3, <1>a, <2>1 DEF CreateTask, JobEffect
<1>4. ASSUME NEW t \in Tasks, DeleteTask(t) PROVE JobEffect
  BY <1>4, <1>o DEF DeleteTask
<1>5. CASE StartTimer
  BY <1>5, <1>u DEF StartTimer, tables
<1>6. ASSUME NEW t \in Tasks, StopExpired(t) PROVE JobEffect
  BY <1>6, <1>o DEF StopExpired
<1>7. CASE ExpireJob
  BY <1>7, <1>u DEF ExpireJob, tables
<1>8. CASE QueryJobs
  BY <1>8, <1>u DEF QueryJobs, tables
<1>9. CASE UpdateJob
  <2>1. CASE snapJob.state = "Init"
    <3>1. /\ at = "Jobs" /\ job' = [snapJob EXCEPT !.state = "Enabled"] /\ UNCHANGED task
          /\ job.endTime /\ ~job'.endTime => "job" \in replaced'
      BY <1>9, <2>1 DEF UpdateJob, ReplaceJob
    <3> QED
      BY <1>a, <2>1, <3>1 DEF JobEffect, JobRecord, JobState
  <2>2. CASE snapJob.state # "Init"
    BY <1>9, <1>u, <2>2 DEF UpdateJob
  <2> QED
    BY <2>1, <2>2
<1>10. CASE QueryTasks
  BY <1>10, <1>u DEF QueryTasks, tables
<1>11. ASSUME NEW t \in Tasks, InitTask(t) PROVE JobEffect
  <2> DEFINE r == SetState(snap[t], "Waiting")
  <2>1. /\ t \in DOMAIN snap /\ snap[t] \in TaskRecord /\ snap[t].state = "Init"
        /\ task' = [task EXCEPT ![t] = r] /\ UNCHANGED job
    BY <1>11, <1>a DEF InitTask
  <2>2. r.endTime => task[t].endTime
    BY <1>a, <2>1, SetStateFacts DEF TaskState, AvailableTask, SnapShape, Behind
  <2> HIDE DEF r
  <2>3. \A u \in Tasks : task'[u].endTime => task[u].endTime
    BY <1>a, <2>1, <2>2 DEF Table
  <2> QED
    BY <1>a, <2>1, <2>3 DEF JobEffect
<1>12. ASSUME NEW t \in Tasks, StoppingTask(t) PROVE JobEffect
  BY <1>12, <1>u DEF StoppingTask, tables
<1>13. ASSUME NEW t \in Tasks, StoppedTask(t) PROVE JobEffect
  <2> DEFINE r == SetState(snap[t], "Stopped")
  <2>0. /\ at = "Stop" /\ t \in current /\ task' = [task EXCEPT ![t] = r] /\ UNCHANGED job
    BY <1>13 DEF StoppedTask
  <2>1. t \in DOMAIN snap /\ snap[t] \in TaskRecord /\ snap[t].state = "Stopping"
    BY <1>a, <2>0 DEF TypeInv, TimerShape, CurrentHeld
  <2>2. r.endTime => task[t].endTime
    BY <1>a, <2>1, SetStateFacts DEF TaskState, ShuttingDown, SnapShape, Behind
  <2> HIDE DEF r
  <2>3. \A u \in Tasks : task'[u].endTime => task[u].endTime
    BY <1>a, <2>0, <2>2 DEF Table
  <2> QED
    BY <1>a, <2>0, <2>3 DEF JobEffect
<1>14. CASE QuerySchedule
  BY <1>14, <1>u DEF QuerySchedule, tables
<1>15. CASE PickChunk
  BY <1>15, <1>u DEF PickChunk, tables
<1>16. ASSUME NEW t \in Tasks, BuildWorkUnit(t) PROVE JobEffect
  <2>1. UNCHANGED <<task, job>> \/ job' = OnStart(job, task, task')
    BY <1>16 DEF BuildWorkUnit
  <2> QED
    BY <1>u, <1>o, <2>1
<1>17. CASE ScheduleWorkset
  BY <1>17, <1>u DEF ScheduleWorkset, tables
<1>18. CASE ScheduleNothing
  BY <1>18, <1>u DEF ScheduleNothing, tables
<1>19. CASE MarkScheduled
  <2> DEFINE t == Head(units)
             r == SetState(snap[t], "Scheduled")
  <2>0. /\ task' = [task EXCEPT ![t] = r] /\ UNCHANGED job
        /\ units \in Seq(Tasks) /\ units # <<>> /\ Elements(units) \subseteq DOMAIN snap
        /\ \A u \in DOMAIN snap : snap[u].state = "Waiting"
    BY <1>19 DEF MarkScheduled, TypeInv, TypeOK, TimerShape, SnapHeld, ChunkHeld, Scheduling
  <2>1. t \in DOMAIN snap /\ t \in Tasks /\ snap[t] \in TaskRecord /\ snap[t].state = "Waiting"
    BY <1>a, <2>0, ElementsFacts
  <2> HIDE DEF t
  <2>2. r.endTime => task[t].endTime
    BY <1>a, <2>1, SetStateFacts DEF TaskState, AvailableTask, SnapShape, Behind
  <2> HIDE DEF r
  <2>3. \A u \in Tasks : task'[u].endTime => task[u].endTime
    BY <1>a, <2>0, <2>1, <2>2 DEF Table
  <2> QED
    BY <1>a, <2>0, <2>3 DEF JobEffect
<1>20. CASE StopNeverStarted
  BY <1>20, <1>u DEF StopNeverStarted, tables
<1>21. CASE EndTimer
  BY <1>21, <1>u DEF EndTimer, tables
<1>22. CASE AbortTimer
  BY <1>22, <1>u DEF AbortTimer, tables
<1>23. ASSUME NEW n \in Nodes, Claim(n) PROVE JobEffect
  BY <1>23, <1>u DEF Claim, tables
<1>24. ASSUME NEW n \in Nodes, DropStopped(n) PROVE JobEffect
  BY <1>24, <1>u DEF DropStopped, tables
<1>25. ASSUME NEW n \in Nodes, LoseClaim(n) PROVE JobEffect
  BY <1>25, <1>u DEF LoseClaim, tables
<1>26. ASSUME NEW n \in Nodes, SettingUpEvent(n) PROVE JobEffect
  <2>1. ASSUME NEW t \in Tasks PROVE task'[t].endTime => task[t].endTime
    <3>1. task[t] \in TaskRecord /\ "SettingUp" \in TaskState
      BY <1>a DEF Table, TaskState, AvailableTask
    <3>2. task[t].state \notin {"Running", "SettingUp"} =>
            (SetState(task[t], "SettingUp").endTime => task[t].endTime)
      BY <3>1, SetStateFacts
    <3> QED
      BY <1>26, <3>2 DEF SettingUpEvent
  <2> QED
    BY <1>26, <1>a, <2>1 DEF SettingUpEvent, JobEffect
<1>27. ASSUME NEW n \in Nodes, NEW t \in Tasks, RunningEvent(n, t) PROVE JobEffect
  BY <1>27, <1>o DEF RunningEvent
<1>28. ASSUME NEW n \in Nodes, NEW t \in Tasks, DoneEvent(n, t) PROVE JobEffect
  BY <1>28, <1>o DEF DoneEvent, WorkerDone
<1>29. ASSUME NEW n \in Nodes, NEW t \in Tasks, CrashEvent(n, t) PROVE JobEffect
  BY <1>29, <1>o DEF CrashEvent, WorkerDone
<1>30. ASSUME NEW n \in Nodes, Crash(n) PROVE JobEffect
  BY <1>30, <1>u DEF Crash, tables
<1>31. ASSUME NEW n \in Nodes, NodeDone(n) PROVE JobEffect
  BY <1>31, <1>o DEF NodeDone, MarkTasksStoppedEarly
<1>32. ASSUME NEW n \in Nodes, SilentDone(n) PROVE JobEffect
  BY <1>32, <1>u DEF SilentDone, tables
<1>33. ASSUME NEW n \in Nodes, Obey(n) PROVE JobEffect
  BY <1>33, <1>u DEF Obey, tables
<1>34. ASSUME NEW n \in Nodes, OtherStop(n) PROVE JobEffect
  BY <1>34, <1>u DEF OtherStop, tables
<1>35. ASSUME NEW n \in Nodes, RemoveNode(n) PROVE JobEffect
  BY <1>35, <1>o DEF RemoveNode, MarkTasksStoppedEarly
<1>36. CASE UNCHANGED vars
  BY <1>36, <1>u DEF vars, tables
<1>37. ASSUME NEW t \in Tasks, PostTask(t) PROVE JobEffect
  BY <1>37, <1>u DEF PostTask, tables
<1>38. ASSUME NEW t \in Tasks, StopListed(t) PROVE JobEffect
  BY <1>38, <1>o DEF StopListed
<1>39. CASE JobStopped
  <2>1. at = "Stopping" /\ job' = newJob /\ UNCHANGED task
    BY <1>39 DEF JobStopped, ReplaceJob
  <2>2. newJob \in JobRecord /\ newJob.state \in {"Stopping", "Stopped"}
    BY <2>1 DEF TypeInv, TypeOK, TimerShape, StopHeld
  <2> QED
    BY <2>1, <2>2 DEF JobEffect
<1>40. ASSUME NEW t \in Tasks, CheckNodes(t) PROVE JobEffect
  BY <1>40, <1>u DEF CheckNodes, tables
<1>41. ASSUME NEW t \in Tasks, DeleteQueue(t) PROVE JobEffect
  BY <1>41, <1>u DEF DeleteQueue
<1>42. CASE StopIfAllDone
  BY <1>42, <1>u DEF StopIfAllDone, tables
<1>43. ASSUME NEW t \in Tasks, FailNeverStarted(t) PROVE JobEffect
  BY <1>43, <1>o DEF FailNeverStarted
<1>44. CASE StopNeverStartedJob
  BY <1>44, <1>u DEF StopNeverStartedJob, tables
<1> QED
  BY <1>1, <1>2, <1>3, <1>4, <1>5, <1>6, <1>7, <1>8, <1>9, <1>10, <1>11,
     <1>12, <1>13, <1>14, <1>15, <1>16, <1>17, <1>18, <1>19, <1>20, <1>21,
     <1>22, <1>23, <1>24, <1>25, <1>26, <1>27, <1>28, <1>29, <1>30, <1>31,
     <1>32, <1>33, <1>34, <1>35, <1>36, <1>37, <1>38, <1>39, <1>40, <1>41,
     <1>42, <1>43, <1>44 DEF Next, Http, Timer, Node,
     Events, NodeFaults

----------------------------------------------------------------------------
(* The invariant holds.                                                    *)

\* The invariant holds initially.
LEMMA JobsInit == Init => JobsInv
<1> SUFFICES ASSUME Init PROVE JobsInv
  OBVIOUS
<1>1. /\ NoTask \in TaskRecord /\ NoJob \in JobRecord /\ Empty("Free") \in NodeRecord
      /\ DOMAIN NoSnap = {} /\ 0 \in 0..MaxUpdates /\ 0 \in 0..MaxFaults
      /\ EmptyBag = [e \in {} |-> 1]
  BY JobsAssumption
     DEF NoTask, TaskRecord, TaskState, NoJob, JobRecord, JobState, Empty, NodeRecord,
         Phase, NoSnap, EmptyBag, SetToBag
<1>2. IsABag(queue) /\ DOMAIN queue = {}
  BY <1>1 DEF Init, IsABag
<1>3. TypeOK
  BY <1>1, <1>2 DEF Init, TypeOK, TimerAt
<1>4. TimerShape
  BY <1>1 DEF Init, TimerShape, SnapHeld, ChunkHeld, CurrentHeld, StopHeld, Elements,
              Scheduling, Working
<1>5. /\ \A t \in Tasks : task[t].state = "None" /\ ~task[t].endTime
      /\ job.state = "None" /\ snapJob.state = "None" /\ newJob.state = "None"
      /\ \A n \in Nodes : /\ node[n].units = {} /\ node[n].left = {}
                          /\ node[n].running = {}
  BY DEF Init, NoTask, NoJob, Empty
<1>6. /\ SnapShape /\ SnapInputs /\ SnapClock /\ NoJobYet /\ Posted /\ Deleting
      /\ Checked /\ StopFound
  BY <1>1, <1>5 DEF Init, SnapShape, SnapInputs, SnapClock, NoJobYet, Scheduling, Posted,
                    Deleting, Checked, StopFound
<1>7. NodeShape
  BY <1>2, <1>5 DEF NodeShape
<1>8. JobStoppedMeansTasksStopped /\ Provided
  BY <1>5 DEF Init, JobStoppedMeansTasksStopped, Provided, RunningExpires, JobClock,
              InputQueue, AvailableTask
<1> QED
  BY <1>3, <1>4, <1>6, <1>7, <1>8 DEF JobsInv, TypeInv

\* Every step keeps the types.
LEMMA TypeStep ==
    ASSUME JobsInv, [Next]_vars
    PROVE  TypeInv'
<1>1. TypeInv /\ SnapShape /\ Posted
  BY DEF JobsInv
<1>2. task' \in Table /\ job' \in JobRecord /\ TimerType' /\ TimerShape' /\ NodeType'
  BY <1>1, TaskStep, JobStep, TimerStep, NodeStep DEF TaskEffect, JobEffect
<1>3. TypeOK'
  BY <1>2 DEF TypeOK, Table, TimerType, NodeType, QueueOK
<1> QED
  BY <1>2, <1>3 DEF TypeInv

\* What the effects on a task have in common.
LEMMA EffectFacts ==
    ASSUME JobsInv, [Next]_vars, NEW t \in Tasks
    PROVE  /\ task[t].state \notin {"None", "Init"} => task'[t].state \notin {"None", "Init"}
           /\ task[t].state # "None" => task'[t].state # "None"
           /\ task'[t].state # "None" => task[t].state # "None" \/ Created(t)
           /\ task[t].state = "Stopped" => task'[t].state = "Stopped" \/ SetUp(t)
           /\ task'[t].state = "Stopped" =>
                \/ task[t].state = "Stopped"
                \/ /\ NodesOf(t) = {} \/ t \in overlooked'
                   /\ t \notin DOMAIN snap' /\ at' = "Delete" /\ t \in current'
           /\ SetupSeen(t) => SetupSeen(t)'
<1>1. /\ Fresh(t) \/ Created(t) \/ Stale(t) \/ SetUp(t) \/ Runs(t)
      /\ replaced \subseteq replaced'
      /\ task[t] \in TaskRecord /\ task'[t] \in TaskRecord
  BY TaskStep DEF JobsInv, TypeInv, TypeOK, TaskEffect, Table
<1>2. CASE Fresh(t)
  BY <1>1, <1>2 DEF Fresh, Stops, ShuttingDown, SetupSeen
<1>3. CASE Created(t)
  BY <1>1, <1>3 DEF Created, SetupSeen
<1>4. CASE Stale(t)
  <2>1. PICK r \in TaskRecord :
          Behind(t, r) /\ (Marked(t, r) \/ (Rewritten(t) /\ r = snap[t]))
    BY <1>4 DEF Stale, JobsInv, SnapShape, TypeInv, TypeOK
  <2>2. /\ task[t].state \notin {"None", "Stopped"}
        /\ r.endTime => task[t].endTime
        /\ replaced' = Undoes(t, r)
    BY <2>1 DEF Behind, Marked, Rewritten
  <2>3. /\ task'[t].state \notin {"None", "Init"}
        /\ task'[t].state = "Stopped" =>
             /\ at = "Stop" /\ t \in current
             /\ t \notin DOMAIN snap' /\ at' = "Delete" /\ t \in current'
    BY <2>1 DEF Marked, Rewritten
  <2>5. at = "Stop" /\ t \in current => NodesOf(t) = {} \/ t \in overlooked'
    BY TaskStep DEF TaskEffect, JobsInv, Checked
  <2>4. SetupSeen(t) => SetupSeen(t)'
    <3>1. CASE t \in replaced'
      BY <3>1 DEF SetupSeen
    <3>2. CASE t \notin replaced'
      <4>1. /\ task[t].state = "SettingUp" => r.state = "SettingUp"
            /\ task[t].endTime => r.endTime
        BY <2>1, <2>2, <3>2, UndoesFacts
      <4>2. r.endTime => task'[t].endTime
        BY <2>1 DEF Marked, Rewritten, Stops
      <4>3. r.state = "SettingUp" => task'[t].endTime
        BY <2>1 DEF Marked, Rewritten, Stops
      <4> QED
        BY <1>1, <3>2, <4>1, <4>2, <4>3 DEF SetupSeen
    <3> QED
      BY <3>1, <3>2
  <2> QED
    BY <2>2, <2>3, <2>4, <2>5
<1>5. CASE SetUp(t)
  <2>1. task[t].state # "None"
    BY <1>5 DEF SetUp, JobsInv, NodeShape
  <2> QED
    BY <1>1, <1>5, <2>1 DEF SetUp, SetupSeen
<1>6. CASE Runs(t)
  <2>1. task[t].state # "None"
    BY <1>6 DEF Runs, JobsInv, NodeShape
  <2> QED
    BY <1>1, <1>6, <2>1 DEF Runs, SetupSeen, ShuttingDown
<1> QED
  BY <1>1, <1>2, <1>3, <1>4, <1>5, <1>6

\* A record that the timer function holds stays behind the one in the table: only
\* its own write, after which it no longer holds the record, stops the task.
LEMMA SnapStep ==
    ASSUME JobsInv, [Next]_vars
    PROVE  SnapShape'
<1>a. /\ TimerEffect /\ TimerType' /\ TimerShape' /\ TimerShape /\ SnapShape
      /\ \A t \in Tasks : Fresh(t) \/ Created(t) \/ Stale(t) \/ SetUp(t) \/ Runs(t)
  BY TaskStep, TimerStep DEF TaskEffect, JobsInv, TypeInv
\* The effects other than Stale keep what is behind.
<1>b. ASSUME NEW t \in Tasks, NEW r, Behind(t, r), task'[t].state # "Stopped",
             Stale(t) => (r.error => task'[t].error) /\ (r.endTime => task'[t].endTime)
      PROVE  Behind(t, r)'
  <2>1. task'[t].state # "None"
    BY <1>b, EffectFacts DEF Behind
  <2>2. (r.error => task'[t].error) /\ (r.endTime => task'[t].endTime)
    <3>1. CASE Fresh(t)
      BY <1>b, <3>1 DEF Fresh, Stops, Behind
    <3>2. CASE Created(t) \/ SetUp(t) \/ Runs(t)
      BY <1>b, <3>2 DEF Created, SetUp, Runs, Behind
    <3> QED
      BY <1>a, <1>b, <3>1, <3>2
  <2> QED
    BY <1>b, <2>1, <2>2 DEF Behind
<1>1. ASSUME NEW t \in DOMAIN snap'
      PROVE  Behind(t, snap[t])' /\ (at' \in Scheduling => task'[t].state # "Init")
  <2>0. t \in Tasks
    BY <1>a DEF TimerType
  <2>1. CASE /\ snap'[t] = task[t] /\ UNCHANGED task
             /\ task[t].state \notin {"None", "Stopped"}
             /\ at' \in Scheduling => task[t].state = "Waiting"
    BY <2>1 DEF Behind
  <2>2. CASE /\ t \in DOMAIN snap /\ snap'[t] = snap[t]
             /\ at' \in Scheduling <=> at \in Scheduling
    <3>1. /\ Behind(t, snap[t])
          /\ at \in Scheduling => task[t].state # "Init"
      BY <1>a, <2>2 DEF SnapShape
    <3>2. /\ task'[t].state # "Stopped"
          /\ at \in Scheduling => task'[t].state # "Init"
      BY <2>0, <3>1, EffectFacts DEF Behind
    <3>3. ASSUME Stale(t)
          PROVE  (snap[t].error => task'[t].error) /\ (snap[t].endTime => task'[t].endTime)
      <4>1. CASE Marked(t, snap[t]) \/ Rewritten(t)
        BY <4>1 DEF Marked, Rewritten, Stops
      <4>2. CASE t \in DOMAIN listed /\ Marked(t, listed[t])
        BY <1>a, <2>2, <4>2 DEF Marked, Stops, SnapShape
      <4> QED
        BY <3>3, <4>1, <4>2 DEF Stale
    <3>4. Behind(t, snap[t])'
      BY <1>b, <2>0, <2>2, <3>1, <3>2, <3>3 DEF Behind
    <3> QED
      BY <2>2, <3>2, <3>4
  <2> QED
    BY <1>a, <2>1, <2>2 DEF TimerEffect
<1>2. ASSUME NEW t \in DOMAIN listed' PROVE Behind(t, listed[t])'
  <2>0. t \in Tasks /\ at' = "Stopping"
    BY <1>a DEF TimerType, TimerShape, StopHeld
  <2>1. CASE /\ listed'[t] = task[t] /\ UNCHANGED task
             /\ task[t].state \notin {"None", "Stopped"}
    BY <2>1 DEF Behind
  <2>2. CASE t \in DOMAIN listed /\ listed'[t] = listed[t]
    <3>1. Behind(t, listed[t]) /\ at = "Stopping"
      BY <1>a, <2>2 DEF SnapShape, TimerShape, StopHeld
    <3>2. task'[t].state # "Stopped"
      BY <2>0, <3>1, EffectFacts DEF Behind
    <3>3. ASSUME Stale(t)
          PROVE  (listed[t].error => task'[t].error)
                   /\ (listed[t].endTime => task'[t].endTime)
      BY <3>1, <3>3 DEF Stale, Marked, Rewritten, Stops
    <3> QED
      BY <1>b, <2>0, <2>2, <3>1, <3>2, <3>3 DEF Behind
  <2> QED
    BY <1>a, <2>1, <2>2 DEF TimerEffect
<1>3. ASSUME NEW t \in DOMAIN snap' \cap DOMAIN listed'
      PROVE  /\ snap'[t].error => listed'[t].error
             /\ snap'[t].endTime => listed'[t].endTime
  <2>1. snap' = snap /\ t \in DOMAIN snap
    BY <1>a DEF TimerEffect
  <2>2. CASE t \in DOMAIN listed /\ listed'[t] = listed[t]
    BY <1>a, <2>1, <2>2 DEF SnapShape
  <2>3. CASE listed'[t] = task[t]
    BY <1>a, <2>1, <2>3 DEF SnapShape, Behind
  <2> QED
    BY <1>a, <2>2, <2>3 DEF TimerEffect
<1> QED
  BY <1>1, <1>2, <1>3 DEF SnapShape

\* A task that a node starts has been announced.
LEMMA RunningStep ==
    ASSUME JobsInv, [Next]_vars
    PROVE  RunningExpires'
<1> SUFFICES ASSUME NEW t \in Tasks, task'[t].state = "Running"
             PROVE  task'[t].endTime \/ t \in replaced'
  BY DEF RunningExpires
<1>1. /\ Fresh(t) \/ Created(t) \/ Stale(t) \/ SetUp(t) \/ Runs(t)
      /\ replaced \subseteq replaced'
  BY TaskStep DEF JobsInv, TaskEffect
<1>2. CASE Fresh(t)
  BY <1>1, <1>2 DEF Fresh, Stops, JobsInv, Provided, RunningExpires
<1>3. CASE Created(t) \/ Stale(t) \/ SetUp(t)
  BY <1>3 DEF Created, Stale, Marked, Rewritten, SetUp
<1>4. CASE Runs(t)
  <2>1. SetupSeen(t)
    BY <1>4 DEF Runs, JobsInv, NodeShape
  <2> QED
    BY <1>1, <1>4, <2>1 DEF Runs, SetupSeen
<1> QED
  BY <1>1, <1>2, <1>3, <1>4

\* Work sets hold tasks that have been initialised; a node that has announced a
\* task keeps its row of the table until it is done with it, and the task is not
\* stopped before.
LEMMA NodeShapeStep ==
    ASSUME JobsInv, [Next]_vars
    PROVE  NodeShape'
<1>1. NodeEffect /\ NodeType /\ TypeInv /\ overlooked \subseteq overlooked'
  BY NodeStep, TaskStep, TypeParts DEF JobsInv, TypeInv, TaskEffect
<1>2. ASSUME NEW m \in DOMAIN queue', NEW t \in Elements(m)
      PROVE  task'[t].state \notin {"None", "Init"}
  <2>1. t \in Tasks /\ task[t].state \notin {"None", "Init"}
    <3>1. CASE m \in DOMAIN queue
      BY <1>1, <1>2, <3>1 DEF NodeType, QueueOK, JobsInv, NodeShape
    <3>2. CASE at = "Build" /\ m = units
      BY <1>1, <1>2, <3>2
         DEF JobsInv, TypeInv, TypeOK, TimerShape, ChunkHeld, SnapShape, Behind, Scheduling
    <3> QED
      BY <1>1, <3>1, <3>2 DEF NodeEffect
  <2> QED
    BY <2>1, EffectFacts
<1>3. ASSUME NEW n \in Nodes
      PROVE  /\ node'[n].left \subseteq node'[n].units
             /\ node'[n].running \subseteq node'[n].units
             /\ \A t \in node'[n].units : task'[t].state \notin {"None", "Init"}
             /\ node'[n].phase \in {"SettingUp", "Busy"} =>
                  \A t \in node'[n].left \cup node'[n].running :
                    /\ <<n, t>> \in nodeTasks' /\ SetupSeen(t)'
                    /\ task'[t].state # "Stopped" \/ t \in overlooked'
  <2>1. /\ node[n].units \subseteq Tasks
        /\ node[n].left \subseteq node[n].units /\ node[n].running \subseteq node[n].units
        /\ \A t \in node[n].units : task[t].state \notin {"None", "Init"}
        /\ node[n].phase \in AtWork =>
             \A t \in node[n].left \cup node[n].running :
               /\ <<n, t>> \in nodeTasks /\ SetupSeen(t)
               /\ task[t].state # "Stopped" \/ t \in overlooked
    BY <1>1 DEF JobsInv, NodeShape, NodeType, NodeRecord, AtWork
  <2>2. CASE GoesOn(n)
    <3>1. /\ node'[n].left \subseteq node'[n].units
          /\ node'[n].running \subseteq node'[n].units
          /\ \A t \in node'[n].units : task'[t].state \notin {"None", "Init"}
      BY <2>1, <2>2, EffectFacts DEF GoesOn
    <3>2. ASSUME node'[n].phase \in AtWork, NEW t \in node'[n].left \cup node'[n].running
          PROVE  /\ <<n, t>> \in nodeTasks' /\ SetupSeen(t)'
                 /\ task'[t].state # "Stopped" \/ t \in overlooked'
      <4>1. /\ t \in Tasks /\ <<n, t>> \in nodeTasks /\ <<n, t>> \in nodeTasks'
            /\ SetupSeen(t)
            /\ task[t].state # "Stopped" \/ t \in overlooked'
        BY <1>1, <2>1, <2>2, <3>2 DEF GoesOn, Live
      <4>2. n \in NodesOf(t)
        BY <4>1 DEF NodesOf
      <4> QED
        BY <4>1, <4>2, EffectFacts
    <3> QED
      BY <3>1, <3>2 DEF AtWork
  <2>3. CASE GivesUp(n)
    BY <2>1, <2>3, EffectFacts DEF GivesUp, AtWork
  <2>4. CASE Claims(n)
    <3>1. PICK m \in DOMAIN queue : node'[n].units = Elements(m)
      BY <2>4 DEF Claims
    <3>2. \A t \in Elements(m) : t \in Tasks /\ task[t].state \notin {"None", "Init"}
      BY <1>1 DEF NodeType, QueueOK, JobsInv, NodeShape
    <3> QED
      BY <2>4, <3>1, <3>2, EffectFacts DEF Claims
  <2>5. CASE Announces(n)
    <3>1. ASSUME NEW t \in node[n].units
          PROVE  /\ <<n, t>> \in nodeTasks' /\ task'[t].state \notin {"None", "Init", "Stopped"}
                 /\ SetupSeen(t)'
      <4>1. t \in Tasks /\ <<n, t>> \in nodeTasks' /\ task'[t].state \in {"SettingUp", "Running"}
        BY <2>1, <2>5 DEF Announces
      <4>2. RunningExpires'
        BY RunningStep
      <4> QED
        BY <4>1, <4>2 DEF RunningExpires, SetupSeen
    <3> QED
      BY <2>1, <2>5, <3>1 DEF Announces
  <2> QED
    BY <1>1, <2>2, <2>3, <2>4, <2>5 DEF NodeEffect
<1> QED
  BY <1>2, <1>3 DEF NodeShape

\* The timer function deletes the queue of a task after the write that stops it,
\* and creates it with the write that takes the task out of Init.
LEMMA InputsStep ==
    ASSUME JobsInv, [Next]_vars
    PROVE  InputQueue' /\ SnapInputs' /\ Deleting'
<1>1. /\ \A t \in inputs \ inputs' : at = "Delete" /\ t \in current /\ UNCHANGED task
      /\ \A t \in inputs' \ inputs : task'[t].state = "Waiting"
      /\ leaked \subseteq leaked' /\ \A t \in Tasks : Kept(t)
      /\ TimerEffect
      /\ \A t \in DOMAIN snap' : t \in Tasks
      /\ \A t \in current' : t \in Tasks
  BY TaskStep, TimerStep DEF JobsInv, TaskEffect, TimerType
<1>2. ASSUME NEW t \in Tasks
      PROVE  task'[t].state = "Stopped" /\ t \in inputs' =>
               t \in leaked' \/ (at' = "Delete" /\ t \in current')
  <2> HAVE task'[t].state = "Stopped" /\ t \in inputs'
  <2>1. t \in inputs
    BY <1>1
  <2>2. CASE task[t].state = "Stopped"
    <3>1. t \in leaked \/ (at = "Delete" /\ t \in current)
      BY <2>1, <2>2 DEF JobsInv, Provided, InputQueue
    <3> QED
      BY <1>1, <3>1 DEF TimerEffect
  <2>3. CASE task[t].state # "Stopped"
    BY <2>3, EffectFacts
  <2> QED
    BY <2>2, <2>3
<1>3. ASSUME NEW t \in Tasks
      PROVE  task'[t].state \in AvailableTask => t \in inputs' \/ t \in revived'
  <2>1. task[t].state \in AvailableTask => t \in inputs \/ t \in revived
    BY DEF JobsInv, Provided, InputQueue
  <2>2. /\ t \in inputs /\ t \notin inputs' => task'[t].state = "Stopped" \/ t \in revived'
        /\ t \in revived => task'[t].state = "Stopped" \/ t \in revived'
    BY <1>1 DEF JobsInv, Deleting, Kept
  <2>3. Fresh(t) \/ Created(t) \/ Stale(t) \/ SetUp(t) \/ Runs(t)
    BY TaskStep DEF JobsInv, TaskEffect
  <2>4. CASE Fresh(t)
    BY <2>1, <2>2, <2>4 DEF Fresh, Stops, AvailableTask
  <2>5. CASE Created(t)
    BY <2>5 DEF Created, AvailableTask
  <2>6. CASE Stale(t)
    <3>1. at = "Mark" /\ t \in DOMAIN snap => t \in inputs \/ t \in revived
      BY DEF JobsInv, SnapInputs, Scheduling
    <3> QED
      BY <2>2, <2>6, <3>1 DEF Stale, Marked, Rewritten, AvailableTask
  <2>7. CASE SetUp(t) \/ Runs(t)
    <3>1. task[t] \in TaskRecord /\ task[t].state \notin {"None", "Init"}
      BY <2>7 DEF SetUp, Runs, JobsInv, NodeShape, TypeInv, TypeOK
    <3>2. task[t].state \in AvailableTask \/ (SetUp(t) /\ task[t].state \in ShuttingDown)
      BY <2>7, <3>1 DEF TaskRecord, TaskState, Runs
    <3> QED
      BY <2>1, <2>2, <2>7, <3>2 DEF SetUp, Runs, AvailableTask
  <2> QED
    BY <2>3, <2>4, <2>5, <2>6, <2>7
<1>4. ASSUME at' \in Scheduling, NEW t \in DOMAIN snap'
      PROVE  t \in inputs' \/ t \in revived'
  <2>1. CASE t \in DOMAIN snap /\ at \in Scheduling
    BY <1>1, <2>1 DEF JobsInv, SnapInputs, Scheduling, Kept
  <2>2. CASE UNCHANGED <<task, inputs, revived>> /\ task[t].state = "Waiting"
    BY <1>1, <2>2 DEF JobsInv, Provided, InputQueue, AvailableTask
  <2> QED
    BY <1>1, <1>4, <2>1, <2>2 DEF TimerEffect
<1>5. Deleting'
  <2> SUFFICES ASSUME at' = "Delete", NEW t \in current'
               PROVE  task'[t].state = "Stopped" \/ t \in revived'
    BY DEF Deleting
  <2>1. CASE at = "Delete" /\ current' = current
    <3>1. task[t].state = "Stopped" \/ t \in revived
      BY <2>1 DEF JobsInv, Deleting
    <3> QED
      BY <1>1, <2>1, <3>1, EffectFacts DEF SetUp, ShuttingDown, Kept
  <2> QED
    BY <1>1, <2>1 DEF TimerEffect
<1>6. InputQueue'
  BY <1>2, <1>3 DEF InputQueue
<1> QED
  BY <1>4, <1>5, <1>6 DEF SnapInputs

\* The clock of the job.
LEMMA ClockStep ==
    ASSUME JobsInv, [Next]_vars
    PROVE  JobClock' /\ SnapClock' /\ NoJobYet' /\ Posted'
<1>1. /\ JobEffect /\ TimerEffect
      /\ "job" \in replaced => "job" \in replaced'
      /\ SnapClock /\ JobClock /\ NoJobYet
  <2>1. /\ JobEffect /\ TimerEffect /\ replaced \subseteq replaced'
    BY TaskStep, JobStep, TimerStep DEF JobsInv, TaskEffect
  <2> QED
    BY <2>1 DEF JobsInv, Provided
<1>2. JobClock'
  <2> SUFFICES ASSUME NEW t \in Tasks, task'[t].endTime
               PROVE  job'.endTime \/ job'.state \in {"Stopping", "Stopped"}
                        \/ "job" \in replaced'
    BY DEF JobClock
  <2> QED
    BY <1>1 DEF JobEffect, JobClock, SnapClock, NoJobYet
<1>3. SnapClock'
  <2> SUFFICES ASSUME at' = "Jobs", snapJob'.state = "Init", NEW t \in Tasks,
                      task'[t].endTime
               PROVE  job'.endTime \/ "job" \in replaced'
    BY DEF SnapClock
  <2>1. CASE at = "Jobs" /\ snapJob' = snapJob
    BY <1>1, <2>1 DEF JobEffect, SnapClock, NoJobYet
  <2>2. CASE UNCHANGED <<task, job, replaced>> /\ snapJob' \in {job, NoJob}
    BY <1>1, <2>2 DEF JobClock, NoJob
  <2> QED
    BY <1>1, <2>1, <2>2 DEF TimerEffect, NoJob
<1>4. NoJobYet'
  <2> SUFFICES ASSUME job'.state = "None", NEW t \in Tasks
               PROVE  task'[t].state = "None" /\ ~task'[t].endTime
    BY DEF NoJobYet
  <2>1. job.state = "None" /\ task[t].state = "None" /\ ~task[t].endTime
    BY <1>1 DEF JobEffect, NoJobYet
  <2>2. ~Created(t)
    BY <2>1 DEF Created, JobsInv, Posted
  <2>3. task'[t].state = "None"
    BY <2>1, <2>2, EffectFacts
  <2>4. Fresh(t) \/ Created(t) \/ Stale(t) \/ SetUp(t) \/ Runs(t)
    BY TaskStep DEF JobsInv, TaskEffect
  <2>5. Fresh(t)
    BY <2>2, <2>3, <2>4 DEF Stale, Marked, Rewritten, SetUp, Runs
  <2> QED
    BY <2>1, <2>3, <2>5 DEF Fresh, Stops
<1>5. Posted'
  <2> SUFFICES ASSUME NEW t \in creating' PROVE task'[t].state = "None" /\ job'.state # "None"
    BY DEF Posted
  <2>1. /\ t \in Tasks
        /\ t \notin creating => /\ task[t].state = "None" /\ job.state # "None"
                                /\ UNCHANGED <<task, job>>
    BY TypeStep, TaskStep DEF JobsInv, TypeInv, TypeOK, TaskEffect
  <2>2. CASE t \in creating
    <3>1. task[t].state = "None" /\ job.state # "None" /\ ~Created(t)
      BY <2>2 DEF JobsInv, Posted, Created
    <3> QED
      BY <1>1, <2>1, <3>1, EffectFacts DEF JobEffect
  <2>3. CASE t \notin creating
    BY <2>1, <2>3
  <2> QED
    BY <2>2, <2>3
<1> QED
  BY <1>2, <1>3, <1>4, <1>5

\* A job that has stopped, and one that is about to, keeps its tasks stopped but for
\* those a node revives and those that are inserted late.
LEMMA StoppedStep ==
    ASSUME JobsInv, [Next]_vars
    PROVE  JobStoppedMeansTasksStopped' /\ StopFound'
<1> DEFINE Done == \A t \in Exist(task) : task[t].state = "Stopped" \/ t \in revived \cup late
<1>a. /\ JobEffect /\ TimerEffect /\ \A t \in Tasks : Kept(t)
  BY TaskStep, JobStep, TimerStep DEF JobsInv, TaskEffect
<1>b. "Stopped" \in {job.state, newJob.state} => Done
  BY DEF JobsInv, JobStoppedMeansTasksStopped, StopFound
<1>1. ASSUME "Stopped" \in {job.state, newJob.state} PROVE Done'
  <2> SUFFICES ASSUME NEW t \in Tasks, task'[t].state # "None"
               PROVE  task'[t].state = "Stopped" \/ t \in revived' \cup late'
    BY DEF Exist
  <2>1. CASE task[t].state = "None"
    <3>1. Created(t)
      BY <2>1, EffectFacts
    <3> QED
      BY <1>1, <3>1 DEF Created
  <2>2. CASE task[t].state # "None" /\ task[t].state # "Stopped"
    BY <1>1, <1>a, <1>b, <2>2 DEF Exist, Kept
  <2>3. CASE task[t].state = "Stopped"
    BY <2>3, EffectFacts DEF SetUp, ShuttingDown
  <2> QED
    BY <2>1, <2>2, <2>3
<1>2. ASSUME UNCHANGED task, AllStopped(task) PROVE Done'
  BY <1>2 DEF AllStopped, Exist
<1> HIDE DEF Done
<1>3. job'.state = "Stopped" => Done'
  BY <1>1, <1>a DEF JobEffect
<1>4. newJob'.state = "Stopped" => Done'
  BY <1>1, <1>2, <1>a DEF TimerEffect
<1> QED
  BY <1>3, <1>4 DEF JobStoppedMeansTasksStopped, StopFound, Done

\* Between the check of its nodes and the write of Stopped a task gets no node
\* that is not seen: one that starts it has set it up, and one that sets it up then
\* is noted.
LEMMA CheckedStep ==
    ASSUME JobsInv, [Next]_vars
    PROVE  Checked'
<1>1. ASSUME nodeTasks' \subseteq nodeTasks, at' = at, current' = current,
             overlooked \subseteq overlooked'
      PROVE  Checked'
  <2> SUFFICES ASSUME at = "Stop", NEW t \in current
               PROVE  NodesOf(t)' = {} \/ t \in overlooked'
    BY <1>1 DEF Checked
  <2>1. NodesOf(t) = {} \/ t \in overlooked
    BY DEF JobsInv, Checked
  <2> QED
    BY <1>1, <2>1 DEF NodesOf
<1>2. ASSUME at' # "Stop" PROVE Checked'
  BY <1>2 DEF Checked
<1>3. CASE Http
  BY <1>1, <1>3
  DEF Http, CreateJob, DeleteJob, PostTask, CreateTask, DeleteTask, tables, local, stops,
      history
<1>4. ASSUME NEW t \in Tasks, CheckNodes(t) PROVE Checked'
  <2>1. CASE NodesOf(t) = {}
    <3>1. UNCHANGED <<nodeTasks, current>>
      BY <1>4, <2>1 DEF CheckNodes, tables
    <3>2. current = {t}
      BY <1>4 DEF CheckNodes, JobsInv, TypeInv, TimerShape, CurrentHeld
    <3> QED
      BY <2>1, <3>1, <3>2 DEF Checked, NodesOf
  <2>2. CASE NodesOf(t) # {}
    BY <1>4, <1>2, <2>2 DEF CheckNodes
  <2> QED
    BY <2>1, <2>2
<1>5. CASE AbortTimer
  BY <1>2, <1>5 DEF AbortTimer
<1>6. CASE JobStopped
  BY <1>2, <1>6 DEF JobStopped, JobsInv, TypeInv, TimerShape, StopHeld
<1>7. CASE \/ StartTimer \/ ExpireJob \/ QueryJobs \/ UpdateJob \/ QueryTasks
           \/ StopIfAllDone
  BY <1>2, <1>7 DEF StartTimer, ExpireJob, QueryJobs, UpdateJob, QueryTasks,
                    StopIfAllDone, JobStopping
<1>8. ASSUME NEW t \in Tasks,
             \/ StopExpired(t) \/ StopListed(t) \/ InitTask(t) \/ StoppingTask(t)
             \/ StoppedTask(t) \/ DeleteQueue(t) \/ BuildWorkUnit(t)
             \/ FailNeverStarted(t)
      PROVE  Checked'
  BY <1>2, <1>8 DEF StopExpired, StopListed, InitTask, StoppingTask, StoppedTask,
                    DeleteQueue, BuildWorkUnit, FailNeverStarted
<1>9. CASE \/ QuerySchedule \/ PickChunk \/ ScheduleWorkset \/ ScheduleNothing
           \/ MarkScheduled \/ StopNeverStarted \/ StopNeverStartedJob \/ EndTimer
  BY <1>2, <1>9 DEF QuerySchedule, PickChunk, ScheduleWorkset, ScheduleNothing,
                    MarkScheduled, StopNeverStarted, StopNeverStartedJob, EndTimer,
                    JobStopping
<1>10. ASSUME NEW n \in Nodes, SettingUpEvent(n) PROVE Checked'
  <2>1. /\ nodeTasks' = nodeTasks \cup ({n} \X node[n].units)
        /\ UNCHANGED <<at, current>>
        /\ at = "Stop" => overlooked' = overlooked \cup (current \cap node[n].units)
    BY <1>10 DEF SettingUpEvent, local, stops
  <2> SUFFICES ASSUME at = "Stop", NEW t \in current
               PROVE  NodesOf(t)' = {} \/ t \in overlooked'
    BY <2>1 DEF Checked
  <2>2. NodesOf(t) = {} \/ t \in overlooked
    BY DEF JobsInv, Checked
  <2> QED
    BY <2>1, <2>2 DEF NodesOf
<1>11. ASSUME NEW n \in Nodes, NEW t \in Tasks, RunningEvent(n, t) PROVE Checked'
  <2>1. <<n, t>> \in nodeTasks
    BY <1>11 DEF RunningEvent, JobsInv, NodeShape
  <2> QED
    BY <1>1, <1>11, <2>1 DEF RunningEvent, Rest, local, stops
<1>12. ASSUME NEW n \in Nodes,
              \/ Claim(n) \/ DropStopped(n) \/ NodeFaults(n) \/ Obey(n)
              \/ OtherStop(n) \/ RemoveNode(n) \/ NodeDone(n)
       PROVE  Checked'
  BY <1>1, <1>12
  DEF Claim, DropStopped, NodeFaults, LoseClaim, Crash, SilentDone, Obey, OtherStop,
      RemoveNode, NodeDone, tables, Rest, local, stops, history
<1>13. ASSUME NEW n \in Nodes, NEW t \in Tasks, DoneEvent(n, t) \/ CrashEvent(n, t)
       PROVE  Checked'
  <2>1. PICK success \in BOOLEAN : WorkerDone(n, t, success)
    BY <1>13 DEF DoneEvent, CrashEvent
  <2> QED
    BY <1>1, <2>1 DEF WorkerDone, Rest, local, stops
<1>14. CASE UNCHANGED vars
  BY <1>1, <1>14 DEF vars, tables, local, stops, history
<1> QED
  BY <1>3, <1>4, <1>5, <1>6, <1>7, <1>8, <1>9, <1>10, <1>11, <1>12, <1>13, <1>14
  DEF Next, Timer, Node, Events

\* The invariant is inductive.
LEMMA JobsStep == JobsInv /\ [Next]_vars => JobsInv'
<1> SUFFICES ASSUME JobsInv, [Next]_vars PROVE JobsInv'
  OBVIOUS
<1>1. Provided'
  BY RunningStep, ClockStep, InputsStep DEF Provided
<1> QED
  BY <1>1, TypeStep, SnapStep, NodeShapeStep, InputsStep, ClockStep, StoppedStep,
     CheckedStep
     DEF JobsInv

\* It holds in every reachable state.
LEMMA JobsInvariant == Spec => []JobsInv
  BY JobsInit, JobsStep, PTL DEF Spec

----------------------------------------------------------------------------
(* The theorems.                                                           *)

\* The tables, the queue, the nodes and the timer function's variables keep their
\* types.
THEOREM TypesKept == Spec => []TypeOK
<1>1. JobsInv => TypeOK
  BY DEF JobsInv, TypeInv
<1> QED
  BY <1>1, JobsInvariant, PTL

\* The stop of a job (JobOperations.cs:119) is final for its tasks: whatever is
\* created, deleted, expired, scheduled or reported meanwhile, a job is Stopped
\* only when all of its tasks are, but for those that a node has revived and those
\* that a request, past its check of the job, inserts after the job's own query.
THEOREM StoppedJobHasStoppedTasks == Spec => []JobStoppedMeansTasksStopped
<1>1. JobsInv => JobStoppedMeansTasksStopped
  BY DEF JobsInv
<1> QED
  BY <1>1, JobsInvariant, PTL

\* A running task has its clock, its job's clock and its input queue, and a stopped
\* one has no queue (TaskOperations.cs:154, 236, 334, 351) but where the timer is about
\* to delete it, or has been cut off before that.
THEOREM TasksProvided == Spec => []Provided
<1>1. JobsInv => Provided
  BY DEF JobsInv
<1> QED
  BY <1>1, JobsInvariant, PTL

\* A task is Stopped only when no node that has announced it still has it to run
\* (TaskOperations.cs:342), unless a node has announced it since the check.
THEOREM StoppedTaskIsIdle == Spec => []StoppedMeansIdle
<1>1. JobsInv => StoppedMeansIdle
  BY DEF JobsInv, NodeShape, StoppedMeansIdle
<1> QED
  BY <1>1, JobsInvariant, PTL

\* A stopped task leaves that state only when a node that had claimed it says that
\* it sets it up (AgentEvents.cs:136).
THEOREM StoppedLeavesBySetup == Spec => StoppedUntilSetup
<1>1. ASSUME JobsInv, [Next]_vars
      PROVE  \A t \in Tasks : task[t].state = "Stopped" =>
               task'[t].state \in {"Stopped", "SettingUp"}
  BY <1>1, EffectFacts DEF SetUp
<1>2. JobsInv /\ [Next]_vars =>
        [\A t \in Tasks : task[t].state = "Stopped" =>
           task'[t].state \in {"Stopped", "SettingUp"}]_vars
  BY <1>1
<1> QED
  BY <1>2, JobsInvariant, PTL DEF Spec, StoppedUntilSetup

\* No step fails a task without those that wait for it.
LEMMA PropagatesStep ==
    ASSUME JobsInv, [Next]_vars
    PROVE  Propagates(task, task')
<1>a. /\ task \in Table
      /\ \A t \in DOMAIN snap : /\ t \in Tasks /\ snap[t] \in TaskRecord
                                /\ snap[t].error => task[t].error
      /\ \A t \in DOMAIN listed : /\ t \in Tasks /\ listed[t] \in TaskRecord
                                  /\ listed[t].error => task[t].error
  BY DEF JobsInv, SnapShape, Behind, TypeInv, TypeOK, Table
<1>b. (\A t \in Tasks : task'[t].error => task[t].error) => Propagates(task, task')
  BY DEF Propagates
<1>1. CASE CreateJob
  BY <1>1, <1>b DEF CreateJob, tables
<1>2. CASE DeleteJob
  BY <1>2, <1>b DEF DeleteJob, tables
<1>3. ASSUME NEW t \in Tasks, CreateTask(t) PROVE Propagates(task, task')
  BY <1>3, <1>a, <1>b DEF CreateTask, Table, TaskRecord
<1>4. ASSUME NEW t \in Tasks, DeleteTask(t) PROVE Propagates(task, task')
  BY <1>4, <1>a, MarkStoppingFacts DEF DeleteTask, Table
<1>5. CASE StartTimer
  BY <1>5, <1>b DEF StartTimer, tables
<1>6. ASSUME NEW t \in Tasks, StopExpired(t) PROVE Propagates(task, task')
  BY <1>6, <1>a, MarkStoppingFacts DEF StopExpired
<1>7. CASE ExpireJob
  BY <1>7, <1>b DEF ExpireJob, tables
<1>8. CASE QueryJobs
  BY <1>8, <1>b DEF QueryJobs, tables
<1>9. CASE UpdateJob
  BY <1>9, <1>b DEF UpdateJob
<1>10. CASE QueryTasks
  BY <1>10, <1>b DEF QueryTasks, tables
<1>11. ASSUME NEW t \in Tasks, InitTask(t) PROVE Propagates(task, task')
  <2> DEFINE r == SetState(snap[t], "Waiting")
  <2>1. /\ t \in DOMAIN snap /\ snap[t] \in TaskRecord /\ task' = [task EXCEPT ![t] = r]
    BY <1>11, <1>a DEF InitTask
  <2>2. r.error => task[t].error
    BY <1>a, <2>1, SetStateFacts DEF TaskState, AvailableTask
  <2> HIDE DEF r
  <2>3. \A u \in Tasks : task'[u].error => task[u].error
    BY <1>a, <2>1, <2>2 DEF Table
  <2> QED
    BY <1>b, <2>3
<1>12. ASSUME NEW t \in Tasks, StoppingTask(t) PROVE Propagates(task, task')
  BY <1>12, <1>b DEF StoppingTask, tables
<1>13. ASSUME NEW t \in Tasks, StoppedTask(t) PROVE Propagates(task, task')
  <2> DEFINE r == SetState(snap[t], "Stopped")
  <2>0. at = "Stop" /\ t \in current /\ task' = [task EXCEPT ![t] = r]
    BY <1>13 DEF StoppedTask
  <2>1. t \in DOMAIN snap /\ snap[t] \in TaskRecord
    BY <1>a, <2>0 DEF JobsInv, TypeInv, TimerShape, CurrentHeld
  <2>2. r.error => task[t].error
    BY <1>a, <2>1, SetStateFacts DEF TaskState, ShuttingDown
  <2> HIDE DEF r
  <2>3. \A u \in Tasks : task'[u].error => task[u].error
    BY <1>a, <2>0, <2>2 DEF Table
  <2> QED
    BY <1>b, <2>3
<1>14. CASE QuerySchedule
  BY <1>14, <1>b DEF QuerySchedule, tables
<1>15. CASE PickChunk
  BY <1>15, <1>b DEF PickChunk, tables
<1>16. ASSUME NEW t \in Tasks, BuildWorkUnit(t) PROVE Propagates(task, task')
  <2>1. UNCHANGED task \/ task' = MarkFailedAs(task, t, snap[t])
    BY <1>16 DEF BuildWorkUnit
  <2>2. t \in DOMAIN snap
    BY <1>16 DEF BuildWorkUnit, TypeInv, TypeOK, TimerShape, ChunkHeld, JobsInv
  <2> QED
    BY <1>a, <1>b, <2>1, <2>2, MarkFailedAsFacts
<1>17. CASE ScheduleWorkset
  BY <1>17, <1>b DEF ScheduleWorkset, tables
<1>18. CASE ScheduleNothing
  BY <1>18, <1>b DEF ScheduleNothing, tables
<1>19. CASE MarkScheduled
  <2> DEFINE t == Head(units)
             r == SetState(snap[t], "Scheduled")
  <2>0. /\ task' = [task EXCEPT ![t] = r] /\ units \in Seq(Tasks) /\ units # <<>>
        /\ Elements(units) \subseteq DOMAIN snap
    BY <1>19 DEF MarkScheduled, JobsInv, TypeInv, TypeOK, TimerShape, ChunkHeld
  <2>1. t \in DOMAIN snap /\ t \in Tasks /\ snap[t] \in TaskRecord
    BY <1>a, <2>0, ElementsFacts
  <2> HIDE DEF t
  <2>2. r.error => task[t].error
    BY <1>a, <2>1, SetStateFacts DEF TaskState, AvailableTask
  <2> HIDE DEF r
  <2>3. \A u \in Tasks : task'[u].error => task[u].error
    BY <1>a, <2>0, <2>1, <2>2 DEF Table
  <2> QED
    BY <1>b, <2>3
<1>20. CASE StopNeverStarted
  BY <1>20, <1>b DEF StopNeverStarted, tables
<1>21. CASE EndTimer
  BY <1>21, <1>b DEF EndTimer, tables
<1>22. CASE AbortTimer
  BY <1>22, <1>b DEF AbortTimer, tables
<1>23. ASSUME NEW n \in Nodes, Claim(n) PROVE Propagates(task, task')
  BY <1>23, <1>b DEF Claim, tables
<1>24. ASSUME NEW n \in Nodes, DropStopped(n) PROVE Propagates(task, task')
  BY <1>24, <1>b DEF DropStopped, tables
<1>25. ASSUME NEW n \in Nodes, LoseClaim(n) PROVE Propagates(task, task')
  BY <1>25, <1>b DEF LoseClaim, tables
<1>26. ASSUME NEW n \in Nodes, SettingUpEvent(n) PROVE Propagates(task, task')
  <2>1. ASSUME NEW t \in Tasks PROVE task'[t].error => task[t].error
    <3>1. task[t] \in TaskRecord /\ "SettingUp" \in TaskState
      BY <1>a DEF Table, TaskState, AvailableTask
    <3>2. SetState(task[t], "SettingUp").error = task[t].error
      BY <3>1, SetStateFacts
    <3> QED
      BY <1>26, <3>2 DEF SettingUpEvent
  <2> QED
    BY <1>b, <2>1
<1>27. ASSUME NEW n \in Nodes, NEW t \in Tasks, RunningEvent(n, t)
       PROVE  Propagates(task, task')
  <2>1. task[t] \in TaskRecord /\ "Running" \in TaskState
    BY <1>a DEF Table, TaskState, AvailableTask
  <2>2. SetState(task[t], "Running").error = task[t].error
    BY <2>1, SetStateFacts
  <2>3. \A u \in Tasks : task'[u].error => task[u].error
    BY <1>27, <1>a, <2>2 DEF RunningEvent, Table
  <2> QED
    BY <1>b, <2>3
<1>28. ASSUME NEW n \in Nodes, NEW t \in Tasks, DoneEvent(n, t)
       PROVE  Propagates(task, task')
  <2>1. task' = MarkStopping(task, t, task[t]) \/ task' = MarkFailed(task, {t})
    BY <1>28 DEF DoneEvent, WorkerDone
  <2>2. task[t] \in TaskRecord
    BY <1>a DEF Table
  <2> QED
    BY <1>a, <2>1, <2>2, MarkStoppingFacts, MarkFailedPropagates
<1>29. ASSUME NEW n \in Nodes, NEW t \in Tasks, CrashEvent(n, t)
       PROVE  Propagates(task, task')
  <2>1. task' = MarkFailed(task, {t})
    BY <1>29 DEF CrashEvent, WorkerDone
  <2> QED
    BY <1>a, <2>1, MarkFailedPropagates
<1>30. ASSUME NEW n \in Nodes, Crash(n) PROVE Propagates(task, task')
  BY <1>30, <1>b DEF Crash, tables
<1>31. ASSUME NEW n \in Nodes, NodeDone(n) PROVE Propagates(task, task')
  <2> DEFINE S == {t \in Tasks : <<n, t>> \in nodeTasks}
  <2>1. task' = MarkFailed(task, S) /\ S \in SUBSET Tasks
    BY <1>31 DEF NodeDone, MarkTasksStoppedEarly
  <2> QED
    BY <1>a, <2>1, MarkFailedPropagates
<1>32. ASSUME NEW n \in Nodes, SilentDone(n) PROVE Propagates(task, task')
  BY <1>32, <1>b DEF SilentDone, tables
<1>33. ASSUME NEW n \in Nodes, Obey(n) PROVE Propagates(task, task')
  BY <1>33, <1>b DEF Obey, tables
<1>34. ASSUME NEW n \in Nodes, OtherStop(n) PROVE Propagates(task, task')
  BY <1>34, <1>b DEF OtherStop, tables
<1>35. ASSUME NEW n \in Nodes, RemoveNode(n) PROVE Propagates(task, task')
  <2> DEFINE S == {t \in Tasks : <<n, t>> \in nodeTasks}
  <2>1. task' = MarkFailed(task, S) /\ S \in SUBSET Tasks
    BY <1>35 DEF RemoveNode, MarkTasksStoppedEarly
  <2> QED
    BY <1>a, <2>1, MarkFailedPropagates
<1>36. CASE UNCHANGED vars
  BY <1>36, <1>b DEF vars, tables
<1>37. ASSUME NEW t \in Tasks, PostTask(t) PROVE Propagates(task, task')
  BY <1>37, <1>b DEF PostTask, tables
<1>38. ASSUME NEW t \in Tasks, StopListed(t) PROVE Propagates(task, task')
  BY <1>38, <1>a, MarkStoppingFacts DEF StopListed
<1>39. CASE JobStopped
  BY <1>39, <1>b DEF JobStopped
<1>40. ASSUME NEW t \in Tasks, CheckNodes(t) PROVE Propagates(task, task')
  BY <1>40, <1>b DEF CheckNodes, tables
<1>41. ASSUME NEW t \in Tasks, DeleteQueue(t) PROVE Propagates(task, task')
  BY <1>41, <1>b DEF DeleteQueue
<1>42. CASE StopIfAllDone
  BY <1>42, <1>b DEF StopIfAllDone, tables
<1>43. ASSUME NEW t \in Tasks, FailNeverStarted(t) PROVE Propagates(task, task')
  BY <1>43, <1>a, MarkFailedAsFacts DEF FailNeverStarted
<1>44. CASE StopNeverStartedJob
  BY <1>44, <1>b DEF StopNeverStartedJob, tables
<1> QED
  BY <1>1, <1>2, <1>3, <1>4, <1>5, <1>6, <1>7, <1>8, <1>9, <1>10, <1>11,
     <1>12, <1>13, <1>14, <1>15, <1>16, <1>17, <1>18, <1>19, <1>20, <1>21,
     <1>22, <1>23, <1>24, <1>25, <1>26, <1>27, <1>28, <1>29, <1>30, <1>31,
     <1>32, <1>33, <1>34, <1>35, <1>36, <1>37, <1>38, <1>39, <1>40, <1>41,
     <1>42, <1>43, <1>44 DEF Next, Http, Timer, Node,
     Events, NodeFaults

\* When a task fails, the tasks that wait for it are failed with it, through the
\* recursion of MarkFailed (TaskOperations.cs:133-139), whoever marks it: a user, a
\* node's event or removal, or the timer with a record it read earlier.
THEOREM FailureReachesDependents == Spec => FailurePropagates
<1>1. JobsInv /\ [Next]_vars =>
        [\A t \in Tasks, u \in Exist(task) :
           ~task[t].error /\ task'[t].error /\ t \in Prereq[u] =>
             task[u].error \/ task'[u].state \in ShuttingDown]_vars
  BY PropagatesStep DEF Propagates, Exist
<1> QED
  BY <1>1, JobsInvariant, PTL DEF Spec, FailurePropagates

----------------------------------------------------------------------------
(* How often a task is queued and on nodes.                                *)

Holding == {"Claimed", "SettingUp", "Busy"}
Holds(n, t) == t \in node[n].units /\ node[n].phase \in Holding

\* The timer function may still put the task into the queue: it is not initialised, it
\* waits and is not in the work set that was just queued, or the timer holds a record of
\* it from before it was scheduled, whatever has become of the task since.
Unscheduled(t) ==
    \/ task[t].state \in {"None", "Init"}
    \/ task[t].state = "Waiting" /\ ~(at = "Mark" /\ t \in Elements(units))
    \/ /\ t \in DOMAIN snap
       /\ \/ at \in Working /\ snap[t].state = "Init"
          \/ at \in {"Schedule", "Build"}
          \/ at = "Mark" /\ t \notin chunk

\* Such a task is neither in the queue nor on a node, and no task is there too often.
Rationed(t) ==
    /\ IsFiniteSet(Queued(t)) /\ IsFiniteSet(Holders(t))
    /\ Copies(t) <= Count[t]
    /\ Unscheduled(t) => Queued(t) = {} /\ Holders(t) = {}

\* A chunk is of one bucket, so that its tasks ask for the same number of nodes.
CopiesInv ==
    /\ \A t, u \in chunk : Bucket[t] = Bucket[u]
    /\ faults = 0 => \A t \in Tasks : Rationed(t)

\* A message taken out of the queue is one copy less of each of its tasks.
LEMMA TakeCopies ==
    ASSUME QueueOK(queue), NEW m \in DOMAIN queue, queue' = queue (-) SetToBag({m}),
           NEW t
    PROVE  /\ t \in Elements(m) => /\ <<m, queue[m]>> \in Queued(t)
                                   /\ Queued(t)' = Queued(t) \ {<<m, queue[m]>>}
           /\ t \notin Elements(m) => Queued(t)' = Queued(t)
<1> DEFINE B == [e \in DOMAIN queue |->
                   IF e \in {m} THEN queue[e] - SetToBag({m})[e] ELSE queue[e]]
<1>1. SetToBag({m}) = [e \in {m} |-> 1]
  BY DEF SetToBag
<1>2. queue' = [e \in {d \in DOMAIN B : B[d] > 0} |-> B[e]]
  BY <1>1 DEF (-)
<1>3. /\ \A e \in DOMAIN queue : queue[e] \in Nat /\ queue[e] > 0
      /\ DOMAIN B = DOMAIN queue /\ B[m] = queue[m] - 1
      /\ \A e \in DOMAIN queue \ {m} : B[e] = queue[e]
  BY <1>1 DEF QueueOK, IsABag
<1> HIDE DEF B
<1>4. /\ DOMAIN queue' \subseteq DOMAIN queue
      /\ \A e \in DOMAIN queue \ {m} : e \in DOMAIN queue' /\ queue'[e] = queue[e]
      /\ m \in DOMAIN queue' <=> queue[m] > 1
      /\ m \in DOMAIN queue' => queue'[m] = queue[m] - 1
  BY <1>2, <1>3
<1>5. ASSUME NEW x
      PROVE  /\ x \in Queued(t) <=> \E e \in DOMAIN queue : \E i \in 1..queue[e] :
                                      t \in Elements(e) /\ x = <<e, i>>
             /\ x \in Queued(t)' <=> \E e \in DOMAIN queue' : \E i \in 1..queue'[e] :
                                      t \in Elements(e) /\ x = <<e, i>>
  BY DEF Queued
<1>6. ASSUME NEW e \in DOMAIN queue, NEW i
      PROVE  e \in DOMAIN queue' /\ i \in 1..queue'[e] <=>
               i \in 1..queue[e] /\ <<e, i>> # <<m, queue[m]>>
  <2>1. CASE e # m
    BY <1>4, <2>1
  <2>2. CASE e = m
    BY <1>3, <1>4, <2>2
  <2> QED
    BY <2>1, <2>2
<1>7. ASSUME NEW x PROVE x \in Queued(t)' <=> x \in Queued(t) /\ x # <<m, queue[m]>>
  <2>1. ASSUME x \in Queued(t)' PROVE x \in Queued(t) /\ x # <<m, queue[m]>>
    <3>1. PICK e \in DOMAIN queue' : \E i \in 1..queue'[e] : t \in Elements(e) /\ x = <<e, i>>
      BY <1>5, <2>1
    <3>2. PICK i \in 1..queue'[e] : t \in Elements(e) /\ x = <<e, i>>
      BY <3>1
    <3>3. e \in DOMAIN queue /\ i \in 1..queue[e] /\ <<e, i>> # <<m, queue[m]>>
      BY <1>4, <1>6
    <3> QED
      BY <1>5, <3>2, <3>3
  <2>2. ASSUME x \in Queued(t), x # <<m, queue[m]>> PROVE x \in Queued(t)'
    <3>1. PICK e \in DOMAIN queue : \E i \in 1..queue[e] : t \in Elements(e) /\ x = <<e, i>>
      BY <1>5, <2>2
    <3>2. PICK i \in 1..queue[e] : t \in Elements(e) /\ x = <<e, i>>
      BY <3>1
    <3>3. e \in DOMAIN queue' /\ i \in 1..queue'[e]
      BY <1>6, <2>2, <3>2
    <3> QED
      BY <1>5, <3>2, <3>3
  <2> QED
    BY <2>1, <2>2
<1>8. queue[m] \in 1..queue[m]
  BY <1>3
<1>9. <<m, queue[m]>> \in Queued(t) <=> t \in Elements(m)
  BY <1>5, <1>8
<1> QED
  BY <1>7, <1>9

\* A work set that is queued is as many copies of those of its tasks that were not queued
\* yet, and none of any other.
LEMMA PushCopies ==
    ASSUME QueueOK(queue), NEW k \in Nat \ {0}, Push(k), NEW t
    PROVE  /\ t \in Elements(units) /\ Queued(t) = {} => Queued(t)' = {units} \X (1..k)
           /\ t \notin Elements(units) => Queued(t)' = Queued(t)
<1>1. /\ DOMAIN queue' = DOMAIN queue \cup {units}
      /\ \A e \in DOMAIN queue' :
           queue'[e] = (IF e \in DOMAIN queue THEN queue[e] ELSE 0)
                         + (IF e \in {units} THEN k ELSE 0)
  BY DEF Push, (+)
<1>2. \A e \in DOMAIN queue : queue[e] \in Nat /\ queue[e] > 0
  BY DEF QueueOK, IsABag
<1>3. ASSUME NEW x
      PROVE  /\ x \in Queued(t) <=> \E e \in DOMAIN queue : \E i \in 1..queue[e] :
                                      t \in Elements(e) /\ x = <<e, i>>
             /\ x \in Queued(t)' <=> \E e \in DOMAIN queue' : \E i \in 1..queue'[e] :
                                      t \in Elements(e) /\ x = <<e, i>>
  BY DEF Queued
<1>4. \A e \in DOMAIN queue : e # units => queue'[e] = queue[e]
  BY <1>1, <1>2
<1>5. CASE t \notin Elements(units)
  <2>1. ASSUME NEW x PROVE x \in Queued(t)' <=> x \in Queued(t)
    BY <1>1, <1>3, <1>4, <1>5
  <2> QED
    BY <1>5, <2>1
<1>6. CASE t \in Elements(units) /\ Queued(t) = {}
  <2>1. ASSUME NEW e \in DOMAIN queue, t \in Elements(e) PROVE FALSE
    <3>1. 1 \in 1..queue[e]
      BY <1>2
    <3>2. <<e, 1>> \in Queued(t)
      BY <1>3, <2>1, <3>1
    <3> QED
      BY <1>6, <3>2
  <2>2. units \notin DOMAIN queue /\ queue'[units] = k
    BY <1>1, <1>6, <2>1
  <2>3. ASSUME NEW x PROVE x \in Queued(t)' <=> x \in {units} \X (1..k)
    BY <1>1, <1>3, <1>6, <2>1, <2>2
  <2> QED
    BY <1>6, <2>3
<1> QED
  BY <1>5, <1>6

\* What a step may do to the copies of the tasks.
CopiesEffect ==
    \/ faults' # 0
    \/ UNCHANGED queue /\ \A n \in Nodes : \A t \in Tasks : Holds(n, t)' => Holds(n, t)
    \/ ScheduleWorkset
    \/ \E n \in Nodes : Claim(n) \/ DropStopped(n)

\* Every step has one of these effects.
LEMMA CopiesMove ==
    ASSUME JobsInv, [Next]_vars
    PROVE  CopiesEffect
<1>a. node \in [Nodes -> NodeRecord] /\ faults \in Nat
  BY JobsAssumption DEF JobsInv, TypeInv, TypeOK
<1>0. UNCHANGED <<queue, node>> => CopiesEffect
  BY DEF CopiesEffect, Holds
<1>k. ASSUME NEW n \in Nodes, UNCHANGED queue, NEW r,
             node' = [node EXCEPT ![n] = r],
             r.phase \in Holding => node[n].phase \in Holding /\ r.units \subseteq node[n].units
      PROVE  CopiesEffect
  <2>1. ASSUME NEW k \in Nodes, NEW t \in Tasks, Holds(k, t)' PROVE Holds(k, t)
    <3>1. CASE k = n
      BY <1>a, <1>k, <2>1, <3>1 DEF Holds
    <3>2. CASE k # n
      BY <1>a, <1>k, <2>1, <3>2 DEF Holds
    <3> QED
      BY <3>1, <3>2
  <2> QED
    BY <1>k, <2>1 DEF CopiesEffect
<1>e. \A p \in Phase : Empty(p).phase = p /\ Empty(p).units = {}
  BY DEF Empty
<1>c. \A n \in Nodes : Crashed(node[n]).phase = "Crashed"
  BY <1>a DEF Crashed, NodeRecord
<1>1. CASE Http
  BY <1>1, <1>0 DEF Http, CreateJob, DeleteJob, PostTask, CreateTask, DeleteTask, nodes
<1>2. CASE StartTimer \/ ExpireJob \/ QueryJobs \/ UpdateJob \/ JobStopped \/ QueryTasks
             \/ StopIfAllDone \/ StopNeverStartedJob
  BY <1>2, <1>0 DEF StartTimer, ExpireJob, QueryJobs, UpdateJob, JobStopped,
                       QueryTasks, StopIfAllDone, StopNeverStartedJob, nodes
<1>3. ASSUME NEW t \in Tasks,
             StopExpired(t) \/ StopListed(t) \/ InitTask(t) \/ StoppingTask(t)
               \/ CheckNodes(t) \/ StoppedTask(t) \/ DeleteQueue(t)
               \/ BuildWorkUnit(t) \/ FailNeverStarted(t)
      PROVE  CopiesEffect
  BY <1>3, <1>0 DEF StopExpired, StopListed, InitTask, StoppingTask, CheckNodes,
                       StoppedTask, DeleteQueue, BuildWorkUnit, FailNeverStarted, nodes
<1>4. CASE QuerySchedule \/ PickChunk \/ MarkScheduled \/ StopNeverStarted \/ EndTimer
  BY <1>4, <1>0 DEF QuerySchedule, PickChunk, MarkScheduled, StopNeverStarted, EndTimer, nodes
<1>5. CASE ScheduleNothing
  BY <1>5, <1>a, <1>0 DEF ScheduleNothing, Push, nodes, CopiesEffect
<1>6. CASE ScheduleWorkset
  BY <1>6 DEF CopiesEffect
<1>7. CASE AbortTimer
  BY <1>7, <1>a DEF AbortTimer, CopiesEffect
<1>8. ASSUME NEW n \in Nodes, Node(n) PROVE CopiesEffect
  <2>1. CASE Claim(n) \/ DropStopped(n)
    BY <2>1 DEF CopiesEffect
  <2>2. CASE NodeFaults(n)
    BY <2>2, <1>a DEF NodeFaults, LoseClaim, Crash, SilentDone, CopiesEffect
  <2>3. CASE SettingUpEvent(n)
    <3> DEFINE r == [node[n] EXCEPT !.phase = "SettingUp"]
    <3>1. UNCHANGED queue /\ node' = [node EXCEPT ![n] = r] /\ node[n].phase \in Holding
      BY <2>3 DEF SettingUpEvent, Holding
    <3>2. r.units = node[n].units
      BY <1>a DEF NodeRecord
    <3> HIDE DEF r
    <3> QED
      BY <1>k, <3>1, <3>2
  <2>4. CASE NodeDone(n)
    BY <2>4, <1>k, <1>e DEF NodeDone, Phase, Holding
  <2>5. ASSUME NEW t \in Tasks, RunningEvent(n, t) PROVE CopiesEffect
    <3> DEFINE r == [node[n] EXCEPT !.phase = "Busy", !.left = @ \ {t},
                                    !.running = @ \cup {t}]
    <3>1. UNCHANGED queue /\ node' = [node EXCEPT ![n] = r] /\ node[n].phase \in Holding
      BY <2>5, <1>a DEF RunningEvent, Holding
    <3>2. r.units = node[n].units
      BY <1>a DEF NodeRecord
    <3> HIDE DEF r
    <3> QED
      BY <1>k, <3>1, <3>2
  <2>6. ASSUME NEW t \in Tasks, CrashEvent(n, t) PROVE CopiesEffect
    <3> DEFINE r == [node[n] EXCEPT !.left = @ \ {t}]
    <3>1. UNCHANGED queue /\ node' = [node EXCEPT ![n] = r] /\ node[n].phase = "Crashed"
      BY <2>6 DEF CrashEvent, WorkerDone
    <3>2. r.phase = "Crashed"
      BY <1>a, <3>1 DEF NodeRecord
    <3> HIDE DEF r
    <3> QED
      BY <1>k, <3>1, <3>2 DEF Holding
  <2>7. ASSUME NEW t \in Tasks, DoneEvent(n, t) PROVE CopiesEffect
    <3> DEFINE r == [node[n] EXCEPT !.running = @ \ {t}]
    <3>1. UNCHANGED queue /\ node' = [node EXCEPT ![n] = r] /\ node[n].phase = "Busy"
      BY <2>7 DEF DoneEvent, WorkerDone
    <3>2. r.units = node[n].units
      BY <1>a DEF NodeRecord
    <3> HIDE DEF r
    <3> QED
      BY <1>k, <3>1, <3>2 DEF Holding
  <2>8. CASE Obey(n)
    <3>1. UNCHANGED queue
      BY <2>8 DEF Obey
    <3>2. CASE ObeyStop(n)
      BY <3>1, <3>2, <1>k, <1>e DEF ObeyStop, Phase, Holding
    <3>3. ASSUME NEW t \in Tasks, ObeyStopTask(n, t) PROVE CopiesEffect
      <4>1. \/ UNCHANGED node
            \/ node' = [node EXCEPT ![n] = Empty("Ending")]
            \/ node' = [node EXCEPT ![n] = Crashed(node[n])]
        BY <3>3 DEF ObeyStopTask
      <4> QED
        BY <1>0, <1>k, <1>e, <1>c, <3>1, <4>1 DEF Phase, Holding
    <3> QED
      BY <2>8, <3>2, <3>3 DEF Obey
  <2>9. CASE OtherStop(n)
    BY <2>9, <1>k, <1>e DEF OtherStop, Phase, Holding
  <2>10. CASE RemoveNode(n)
    BY <2>10, <1>k, <1>e DEF RemoveNode, Phase, Holding
  <2> QED
    BY <1>8, <2>1, <2>2, <2>3, <2>4, <2>5, <2>6, <2>7, <2>8, <2>9, <2>10 DEF Node, Events
<1>9. CASE UNCHANGED vars
  BY <1>9, <1>0 DEF vars, nodes
<1> QED
  BY <1>1, <1>2, <1>3, <1>4, <1>5, <1>6, <1>7, <1>8, <1>9 DEF Next, Timer

\* The steps of the nodes leave the timer function alone, and faults are counted.
LEMMA NodeMove ==
    ASSUME NEW n \in Nodes, Node(n)
    PROVE  UNCHANGED <<at, local>> /\ faults' \in {faults, faults + 1}
<1>1. CASE Claim(n) \/ DropStopped(n)
  BY <1>1 DEF Claim, DropStopped, Rest
<1>2. CASE SettingUpEvent(n)
  BY <1>2 DEF SettingUpEvent
<1>3. CASE NodeDone(n)
  BY <1>3 DEF NodeDone, Rest
<1>4. ASSUME NEW t \in Tasks, RunningEvent(n, t)
      PROVE  UNCHANGED <<at, local>> /\ faults' \in {faults, faults + 1}
  BY <1>4 DEF RunningEvent, Rest
<1>5. ASSUME NEW t \in Tasks, CrashEvent(n, t) \/ DoneEvent(n, t)
      PROVE  UNCHANGED <<at, local>> /\ faults' \in {faults, faults + 1}
  <2>1. \E success \in BOOLEAN : WorkerDone(n, t, success)
    BY <1>5 DEF CrashEvent, DoneEvent
  <2> QED
    BY <2>1 DEF WorkerDone, Rest
<1>6. CASE NodeFaults(n)
  BY <1>6 DEF NodeFaults, LoseClaim, Crash, SilentDone
<1>7. CASE Obey(n)
  BY <1>7 DEF Obey, Rest
<1>8. CASE OtherStop(n)
  BY <1>8 DEF OtherStop, Rest
<1>9. CASE RemoveNode(n)
  BY <1>9 DEF RemoveNode, Rest
<1> QED
  BY <1>1, <1>2, <1>3, <1>4, <1>5, <1>6, <1>7, <1>8, <1>9 DEF Node, Events

\* Only PickChunk makes a chunk.
LEMMA ChunkMove ==
    ASSUME [Next]_vars
    PROVE  /\ faults' \in {faults, faults + 1}
           /\ PickChunk \/ chunk' \in {chunk, {}}
<1>1. CASE Http
  BY <1>1 DEF Http, CreateJob, DeleteJob, PostTask, CreateTask, DeleteTask, local
<1>2. CASE StartTimer \/ ExpireJob \/ QueryJobs \/ UpdateJob \/ JobStopped \/ QueryTasks
             \/ StopIfAllDone \/ StopNeverStartedJob
  BY <1>2 DEF StartTimer, ExpireJob, QueryJobs, UpdateJob, JobStopped,
                       QueryTasks, StopIfAllDone, StopNeverStartedJob, local
<1>3. ASSUME NEW t \in Tasks,
             StopExpired(t) \/ StopListed(t) \/ InitTask(t) \/ StoppingTask(t)
               \/ CheckNodes(t) \/ StoppedTask(t) \/ DeleteQueue(t)
               \/ BuildWorkUnit(t) \/ FailNeverStarted(t)
      PROVE  faults' = faults /\ chunk' = chunk
  BY <1>3 DEF StopExpired, StopListed, InitTask, StoppingTask, CheckNodes,
                       StoppedTask, DeleteQueue, BuildWorkUnit, FailNeverStarted
<1>4. CASE QuerySchedule \/ MarkScheduled \/ StopNeverStarted \/ EndTimer
  BY <1>4 DEF QuerySchedule, MarkScheduled, StopNeverStarted, EndTimer, EndChunk, local
<1>5. CASE ScheduleNothing \/ ScheduleWorkset \/ AbortTimer
  BY <1>5 DEF ScheduleNothing, ScheduleWorkset, AbortTimer, EndChunk, local
<1>6. CASE PickChunk
  BY <1>6 DEF PickChunk
<1>7. ASSUME NEW n \in Nodes, Node(n)
      PROVE  faults' \in {faults, faults + 1} /\ chunk' = chunk
  BY <1>7, NodeMove DEF local
<1>8. CASE UNCHANGED vars
  BY <1>8 DEF vars, local
<1> QED
  BY <1>1, <1>2, <1>3, <1>4, <1>5, <1>6, <1>7, <1>8 DEF Next, Timer

\* A task that is not yet in work sets after a step was not before, and was not put into
\* one by it.
LEMMA UnscheduledBefore ==
    ASSUME JobsInv, [Next]_vars, faults' = 0, NEW t \in Tasks, Unscheduled(t)'
    PROVE  Unscheduled(t) /\ (ScheduleWorkset => t \notin Elements(units))
<1>a. /\ Fresh(t) \/ Created(t) \/ Stale(t) \/ SetUp(t) \/ Runs(t)
      /\ task[t] \in TaskRecord /\ faults \in Nat
  BY TaskStep, JobsAssumption DEF JobsInv, TypeInv, TypeOK, TaskEffect
<1>b. task'[t].state \in {"None", "Init", "Waiting"} =>
        \/ task'[t].state = task[t].state
        \/ task[t].state = "None"
        \/ /\ t \in DOMAIN snap /\ at = "Tasks" /\ snap[t].state = "Init"
           /\ task'[t].state = "Waiting"
  BY <1>a DEF Fresh, Stops, Created, Stale, Marked, Rewritten, SetUp, Runs
<1>0. ASSUME UNCHANGED <<at, local>> PROVE Unscheduled(t) /\ ~ScheduleWorkset
  <2>1. Unscheduled(t)
    BY <1>0, <1>b DEF Unscheduled, local, Working
  <2> QED
    BY <1>0, <2>1 DEF ScheduleWorkset
<1>s. at # "Build" => ~ScheduleWorkset
  BY DEF ScheduleWorkset
<1>1. CASE Http
  BY <1>1, <1>0 DEF Http, CreateJob, DeleteJob, PostTask, CreateTask, DeleteTask
<1>h. /\ at \in {"Idle", "Jobs"} => snap = NoSnap
      /\ at = "Stopping" /\ back # "Tasks" => snap = NoSnap
      /\ at = "Stopping" => back \in {"Expired", "Jobs", "Tasks", "Idle"}
  BY DEF JobsInv, TypeInv, TimerShape, SnapHeld, StopHeld
<1>2. CASE StartTimer \/ QueryJobs \/ QueryTasks
  BY <1>2, <1>b, <1>s DEF StartTimer, QueryJobs, QueryTasks, Unscheduled, tables, Working
<1>j. ASSUME UNCHANGED <<task, snap>>, at' = "Stopping",
             at \in Working \/ snap = NoSnap, at \notin {"Build", "Mark"}
      PROVE  Unscheduled(t) /\ ~ScheduleWorkset
  BY <1>j, <1>b, <1>s DEF Unscheduled, NoSnap, Working
<1>3. ASSUME NEW u \in Tasks, StopExpired(u) \/ StopListed(u) \/ InitTask(u)
      PROVE  Unscheduled(t) /\ ~ScheduleWorkset
  BY <1>3, <1>b, <1>s
     DEF StopExpired, StopListed, InitTask, Unscheduled, tables, Without, Working
<1>5. CASE ExpireJob \/ UpdateJob \/ StopIfAllDone \/ StopNeverStartedJob
  <2>1. CASE UNCHANGED <<at, task, snap>> /\ at = "Jobs"
    BY <2>1, <1>b, <1>s DEF Unscheduled, Working
  <2>2. CASE UNCHANGED <<task, snap>> /\ at' = "Stopping" /\ at \notin {"Build", "Mark"}
               /\ (at \in Working \/ snap = NoSnap)
    BY <2>2, <1>j
  <2> QED
    BY <1>5, <1>h, <2>1, <2>2
       DEF ExpireJob, UpdateJob, StopIfAllDone, StopNeverStartedJob, JobStopping, tables,
           Working
<1>13. CASE JobStopped
  <2>1. at = "Stopping" /\ at' = back /\ UNCHANGED <<task, snap>>
    BY <1>13 DEF JobStopped
  <2> QED
    BY <1>h, <1>s, <2>1 DEF Unscheduled, Working
<1>14. ASSUME NEW u \in Tasks, \/ StoppingTask(u) \/ CheckNodes(u) \/ StoppedTask(u)
                               \/ DeleteQueue(u) \/ FailNeverStarted(u)
       PROVE  Unscheduled(t) /\ ~ScheduleWorkset
  <2>1. /\ at' \in Working => at \in Working
        /\ at' \notin Scheduling /\ at \notin Scheduling
        /\ DOMAIN snap' \subseteq DOMAIN snap /\ \A v \in DOMAIN snap' : snap'[v] = snap[v]
    BY <1>14 DEF StoppingTask, CheckNodes, StoppedTask, DeleteQueue, FailNeverStarted,
                 Without, Working, Scheduling
  <2> QED
    BY <1>b, <1>s, <2>1 DEF Unscheduled, Scheduling, Working
<1>4. ASSUME NEW u \in Tasks, BuildWorkUnit(u)
      PROVE  Unscheduled(t) /\ ~ScheduleWorkset
  BY <1>4, <1>b DEF BuildWorkUnit, Unscheduled, ScheduleWorkset
<1>6. CASE QuerySchedule \/ PickChunk \/ StopNeverStarted \/ EndTimer
  BY <1>6, <1>b, <1>s
     DEF QuerySchedule, PickChunk, StopNeverStarted, EndTimer, Unscheduled, tables, local,
         Working
<1>7. CASE ScheduleWorkset
  <2>1. /\ at = "Build" /\ at' = "Mark" /\ UNCHANGED <<task, snap, chunk, units>>
    BY <1>7 DEF ScheduleWorkset, tables, local
  <2>2. Elements(units) \subseteq chunk /\ chunk \subseteq DOMAIN snap
    BY DEF JobsInv, TypeInv, TimerShape, ChunkHeld
  <2>3. \A u \in DOMAIN snap : task[u].state \notin {"None", "Init"}
    BY <2>1 DEF JobsInv, SnapShape, Behind, Scheduling
  <2> QED
    BY <2>1, <2>2, <2>3 DEF Unscheduled, Working
<1>8. CASE ScheduleNothing
  <2>1. /\ at = "Build" /\ at' = "Schedule" /\ DOMAIN snap' \subseteq DOMAIN snap
        /\ UNCHANGED task
    BY <1>8 DEF ScheduleNothing, EndChunk, tables
  <2> QED
    BY <2>1 DEF Unscheduled, ScheduleWorkset, Working
<1>9. CASE MarkScheduled
  <2> DEFINE h == Head(units)
             r == SetState(snap[h], "Scheduled")
  <2>0. /\ at = "Mark" /\ task' = [task EXCEPT ![h] = r] /\ units' = Tail(units)
        /\ units \in Seq(Tasks) /\ units # <<>> /\ Elements(units) \subseteq DOMAIN snap
        /\ \A u \in DOMAIN snap : u \in Tasks /\ snap[u] \in TaskRecord
        /\ task \in Table
    BY <1>9 DEF MarkScheduled, JobsInv, TypeInv, TypeOK, TimerShape, ChunkHeld, Table
  <2>1. /\ h \in DOMAIN snap /\ h \in Tasks /\ snap[h] \in TaskRecord
        /\ Elements(units) \subseteq {h} \cup Elements(Tail(units))
        /\ Len(units) = 1 => Elements(Tail(units)) = {}
    <3>1. Elements(units) \subseteq {h} \cup Elements(Tail(units))
      <4>1. /\ DOMAIN units = 1..Len(units) /\ DOMAIN Tail(units) = 1..(Len(units) - 1)
            /\ \A i \in 1..(Len(units) - 1) : Tail(units)[i] = units[i + 1]
            /\ Len(units) \in Nat /\ Len(units) > 0 /\ h = units[1]
        BY <2>0
      <4>2. ASSUME NEW i \in 1..Len(units), i # 1 PROVE units[i] \in Elements(Tail(units))
        <5>1. i - 1 \in 1..(Len(units) - 1) /\ (i - 1) + 1 = i
          BY <4>1, <4>2
        <5>2. Tail(units)[i - 1] = units[i]
          BY <4>1, <5>1
        <5> QED
          BY <4>1, <5>1, <5>2 DEF Elements
      <4> QED
        BY <4>1, <4>2 DEF Elements
    <3> QED
      BY <2>0, <3>1, ElementsFacts
  <2> HIDE DEF h
  <2>2. r.state = "Scheduled"
    BY <2>1, SetStateFacts DEF TaskState, AvailableTask
  <2> HIDE DEF r
  <2>3. task'[h].state = "Scheduled" /\ \A u \in Tasks \ {h} : task'[u] = task[u]
    BY <2>0, <2>1, <2>2 DEF Table
  <2>4. CASE Len(units) = 1
    <3>1. at' = "Schedule" /\ DOMAIN snap' = DOMAIN snap \ chunk
      BY <1>9, <2>4 DEF MarkScheduled, EndChunk
    <3> QED
      BY <2>0, <2>1, <2>3, <2>4, <3>1, <1>s DEF Unscheduled, Working
  <2>5. CASE Len(units) # 1
    <3>1. UNCHANGED <<at, snap, chunk>>
      BY <1>9, <2>5 DEF MarkScheduled
    <3> QED
      BY <2>0, <2>1, <2>3, <3>1, <1>s DEF Unscheduled, Working
  <2> QED
    BY <2>4, <2>5
<1>10. CASE AbortTimer
  BY <1>10, <1>a DEF AbortTimer
<1>11. ASSUME NEW n \in Nodes, Node(n) PROVE Unscheduled(t) /\ ~ScheduleWorkset
  BY <1>11, <1>0, NodeMove
<1>12. CASE UNCHANGED vars
  BY <1>12, <1>0 DEF vars
<1> QED
  BY <1>1, <1>2, <1>3, <1>4, <1>5, <1>6, <1>7, <1>8, <1>9, <1>10, <1>11, <1>12,
     <1>13, <1>14
     DEF Next, Timer

\* The chunk that is being scheduled is of one bucket.
LEMMA ChunkStep ==
    ASSUME JobsInv, CopiesInv, [Next]_vars
    PROVE  (\A t, u \in chunk : Bucket[t] = Bucket[u])'
<1>0. \A t, u \in chunk : Bucket[t] = Bucket[u]
  BY DEF CopiesInv
<1>1. CASE PickChunk
  <2>1. \E b : \A t \in chunk' : Bucket[t] = b
    BY <1>1 DEF PickChunk
  <2> QED
    BY <2>1
<1>2. CASE ~PickChunk
  <2>1. chunk' \in {chunk, {}}
    BY <1>2, ChunkMove
  <2> QED
    BY <1>0, <2>1
<1> QED
  BY <1>1, <1>2

\* Copies move from the queue to nodes and end there; only the timer function adds some,
\* and only of tasks that have none.
LEMMA RationedStep ==
    ASSUME JobsInv, CopiesInv, [Next]_vars, faults' = 0, NEW t \in Tasks
    PROVE  Rationed(t)'
<1>a. /\ faults = 0 /\ Rationed(t) /\ QueueOK(queue) /\ Count[t] \in Nat /\ Count[t] > 0
      /\ node \in [Nodes -> NodeRecord]
  <2>1. faults \in Nat /\ QueueOK(queue) /\ node \in [Nodes -> NodeRecord]
    BY JobsAssumption DEF JobsInv, TypeInv, TypeOK, QueueOK
  <2>2. faults' \in {faults, faults + 1}
    BY ChunkMove
  <2>3. faults = 0
    BY <2>1, <2>2
  <2> QED
    BY <2>1, <2>3, JobsAssumption DEF CopiesInv, JobsAssumption
<1>b. /\ IsFiniteSet(Queued(t)) /\ IsFiniteSet(Holders(t))
      /\ Cardinality(Queued(t)) \in Nat /\ Cardinality(Holders(t)) \in Nat
      /\ Cardinality(Queued(t)) + Cardinality(Holders(t)) <= Count[t]
      /\ Unscheduled(t) => Queued(t) = {} /\ Holders(t) = {}
  BY <1>a, FS_CardinalityType DEF Rationed, Copies
<1>c. Unscheduled(t)' => Unscheduled(t) /\ (ScheduleWorkset => t \notin Elements(units))
  BY UnscheduledBefore
<1>d. Holders(t) = {n \in Nodes : Holds(n, t)} /\ Holders(t)' = {n \in Nodes : Holds(n, t)'}
  BY DEF Holders, Holds, Holding
<1>e. ASSUME Queued(t)' \subseteq Queued(t), Holders(t)' \subseteq Holders(t),
             Unscheduled(t)' => Unscheduled(t)
      PROVE  Rationed(t)'
  <2>1. /\ IsFiniteSet(Queued(t)') /\ Cardinality(Queued(t)') <= Cardinality(Queued(t))
        /\ IsFiniteSet(Holders(t)') /\ Cardinality(Holders(t)') <= Cardinality(Holders(t))
    BY <1>b, <1>e, FS_Subset
  <2>2. Cardinality(Queued(t)') \in Nat /\ Cardinality(Holders(t)') \in Nat
    BY <2>1, FS_CardinalityType
  <2>3. Cardinality(Queued(t)') + Cardinality(Holders(t)') <= Count[t]
    BY <1>a, <1>b, <2>1, <2>2
  <2> QED
    BY <1>b, <1>e, <2>1, <2>3 DEF Rationed, Copies
<1>1. CASE UNCHANGED queue /\ \A n \in Nodes : \A u \in Tasks : Holds(n, u)' => Holds(n, u)
  <2>1. Queued(t)' = Queued(t) /\ Holders(t)' \subseteq Holders(t)
    BY <1>1, <1>d DEF Queued
  <2> QED
    BY <1>c, <1>e, <2>1
<1>2. CASE ScheduleWorkset
  <2> DEFINE k == Count[Head(units)]
  <2>0. /\ units \in Seq(Tasks) /\ units # <<>> /\ Push(k) /\ UNCHANGED node
        /\ at = "Build" /\ Elements(units) \subseteq chunk /\ chunk \subseteq DOMAIN snap
    BY <1>2 DEF ScheduleWorkset, nodes, JobsInv, TypeInv, TypeOK, TimerShape, ChunkHeld
  <2>1. Head(units) \in Elements(units) /\ Head(units) \in Tasks
    BY <2>0, ElementsFacts
  <2>2. k \in Nat \ {0}
    BY <2>1, JobsAssumption DEF JobsAssumption
  <2>3. Holders(t)' = Holders(t)
    BY <2>0 DEF Holders
  <2>4. CASE t \notin Elements(units)
    <3>1. Queued(t)' = Queued(t)
      BY <1>a, <2>0, <2>2, <2>4, PushCopies
    <3> QED
      BY <1>c, <1>e, <2>3, <3>1
  <2>5. CASE t \in Elements(units)
    <3>1. Unscheduled(t)
      BY <2>0, <2>5 DEF Unscheduled
    <3>2. Queued(t) = {} /\ Holders(t) = {}
      BY <1>b, <3>1
    <3>3. Queued(t)' = {units} \X (1..k)
      BY <1>a, <2>0, <2>2, <2>5, <3>2, PushCopies
    <3>4. k = Count[t]
      <4>1. Bucket[t] = Bucket[Head(units)]
        BY <2>0, <2>1, <2>5 DEF CopiesInv
      <4> QED
        BY <2>1, <4>1, JobsAssumption DEF JobsAssumption
    <3> HIDE DEF k
    <3>5. IsFiniteSet({units}) /\ Cardinality({units}) = 1
      BY FS_Singleton
    <3>6. IsFiniteSet(1..k) /\ Cardinality(1..k) = k
      BY <2>2, FS_Interval
    <3>7. IsFiniteSet({units} \X (1..k)) /\ Cardinality({units} \X (1..k)) = k
      <4>1. /\ IsFiniteSet({units} \X (1..k))
            /\ Cardinality({units} \X (1..k)) = Cardinality({units}) * Cardinality(1..k)
        BY <3>5, <3>6, FS_Product, Zenon
      <4> QED
        BY <2>2, <3>5, <3>6, <4>1
    <3>8. Cardinality(Queued(t)') + Cardinality(Holders(t)') <= Count[t]
      BY <2>2, <2>3, <3>2, <3>3, <3>4, <3>7, FS_EmptySet
    <3> QED
      BY <1>2, <1>b, <1>c, <2>3, <2>5, <3>3, <3>7, <3>8 DEF Rationed, Copies
  <2> QED
    BY <2>4, <2>5
<1>3. ASSUME NEW n \in Nodes, DropStopped(n) PROVE Rationed(t)'
  <2>1. PICK m \in DOMAIN queue : queue' = queue (-) SetToBag({m})
    BY <1>3 DEF DropStopped
  <2>2. UNCHANGED node
    BY <1>3 DEF DropStopped, nodes
  <2>3. Queued(t)' \subseteq Queued(t)
    BY <1>a, <2>1, TakeCopies
  <2>4. Holders(t)' = Holders(t)
    BY <2>2 DEF Holders
  <2> QED
    BY <1>c, <1>e, <2>3, <2>4
<1>4. ASSUME NEW n \in Nodes, Claim(n) PROVE Rationed(t)'
  <2>1. PICK m \in DOMAIN queue :
          /\ queue' = queue (-) SetToBag({m})
          /\ node' = [node EXCEPT ![n] =
                 [phase |-> "Claimed", units |-> Elements(m), left |-> Elements(m),
                  running |-> {}]]
    BY <1>4 DEF Claim
  <2>2. node[n].phase = "Free" /\ n \notin Holders(t)
    BY <1>4 DEF Claim, Holders
  <2>3. /\ node'[n].phase = "Claimed" /\ node'[n].units = Elements(m)
        /\ \A k \in Nodes \ {n} : node'[k] = node[k]
    BY <1>a, <2>1
  <2>4. Holders(t)' = IF t \in Elements(m) THEN Holders(t) \cup {n} ELSE Holders(t)
    <3>1. ASSUME NEW k \in Nodes \ {n} PROVE Holds(k, t)' <=> Holds(k, t)
      BY <2>3, <3>1 DEF Holds
    <3>2. Holds(n, t)' <=> t \in Elements(m)
      BY <2>3 DEF Holds, Holding
    <3> QED
      BY <1>d, <2>2, <3>1, <3>2
  <2>5. CASE t \notin Elements(m)
    <3>1. Queued(t)' = Queued(t)
      BY <1>a, <2>1, <2>5, TakeCopies
    <3> QED
      BY <1>c, <1>e, <2>4, <2>5, <3>1
  <2>6. CASE t \in Elements(m)
    <3>1. <<m, queue[m]>> \in Queued(t) /\ Queued(t)' = Queued(t) \ {<<m, queue[m]>>}
      BY <1>a, <2>1, <2>6, TakeCopies
    <3>2. IsFiniteSet(Queued(t)') /\ Cardinality(Queued(t)') = Cardinality(Queued(t)) - 1
      <4> DEFINE c == <<m, queue[m]>>
      <4>1. c \in Queued(t) /\ Queued(t)' = Queued(t) \ {c}
        BY <3>1
      <4> HIDE DEF c
      <4> QED
        BY <1>b, <4>1, FS_RemoveElement
    <3>3. IsFiniteSet(Holders(t)') /\ Cardinality(Holders(t)') = Cardinality(Holders(t)) + 1
      BY <1>b, <2>2, <2>4, <2>6, FS_AddElement
    <3>4. ~Unscheduled(t)
      BY <1>b, <3>1
    <3>5. Cardinality(Queued(t)') + Cardinality(Holders(t)') <= Count[t]
      BY <1>a, <1>b, <3>2, <3>3
    <3> QED
      BY <1>c, <3>2, <3>3, <3>4, <3>5 DEF Rationed, Copies
  <2> QED
    BY <2>5, <2>6
<1> QED
  BY <1>1, <1>2, <1>3, <1>4, CopiesMove DEF CopiesEffect

\* In the first state nothing is queued and no node has work.
LEMMA CopiesInit == Init => CopiesInv
<1> SUFFICES ASSUME Init, NEW t \in Tasks PROVE chunk = {} /\ Rationed(t)
  BY DEF CopiesInv, Init
<1>1. DOMAIN queue = {}
  BY DEF Init, EmptyBag, SetToBag
<1>2. Queued(t) = {}
  BY <1>1 DEF Queued
<1>3. Holders(t) = {}
  BY DEF Init, Holders, Empty
<1>4. Count[t] \in Nat
  BY JobsAssumption DEF JobsAssumption
<1>5. Copies(t) = 0
  BY <1>2, <1>3, FS_EmptySet DEF Copies
<1> QED
  BY <1>2, <1>3, <1>4, <1>5, FS_EmptySet DEF Init, Rationed

\* The table of tasks, the pool's queue and the nodes agree on what is to run
\* (TaskOperations.cs:342, Scheduler.cs:40): no node works on a stopped task that it has
\* announced, unless it did so between the timer's check of the nodes and its write of
\* Stopped; and as long as no fault has happened no task is queued and on nodes more often
\* than it asks for, although the timer function schedules from records that may be stale.
THEOREM NodesAgreeWithTasks == Spec => []NodesMatchTasks
<1>1. JobsInv /\ CopiesInv /\ [Next]_vars => CopiesInv'
  BY ChunkStep, RationedStep DEF CopiesInv
<1>2. JobsInv /\ CopiesInv => NodesMatchTasks
  BY DEF JobsInv, NodeShape, StoppedMeansIdle, CopiesInv, Rationed, NoDoubleScheduling,
         NodesMatchTasks
<1> QED
  BY <1>1, <1>2, CopiesInit, JobsInvariant, PTL DEF Spec
=============================================================================
