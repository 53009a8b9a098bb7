---------------------------- MODULE AgentProofs ----------------------------
(***************************************************************************)
(* Proofs about Agent, for every set of tasks and work sets, managed or    *)
(* not, and every number of deaths.                                        *)
(***************************************************************************)
EXTENDS Agent, TLAPS

\* What the memory of the process looks like at each point of its program.
Shape ==
    /\ pc \in {"Down", "LoadReboot"} => sched = "Free" /\ work = None
    /\ pc \in {"CheckWork", "EmitInit"} \cup Reporting =>
         sched = "Free" /\ work = None
    /\ pc = "ResetWork" => sched \in {"Free", "Ready"}
    /\ sched = "Free" => work = None
    /\ sched \in {"SettingUp", "PendingReboot", "Ready", "Busy"} =>
         work \in WorkSets
    /\ pc = "RunSetup" => sched = "SettingUp"
    /\ pc = "Reboot" => sched = "PendingReboot"
    /\ pc = "EmitEvents" => sched \in {"Busy", "Done"}
    /\ pc = "EmitDone" => sched = "Done"
    /\ pc = "Body" => sched # "Done"

TypeInv == TypeOK /\ Shape

\* The type invariant, made inductive by the shape of the process's memory:
\* Init establishes it.
LEMMA TypeInit == Init => TypeInv
<1> SUFFICES ASSUME Init PROVE TypeInv
  OBVIOUS
<1>1. /\ deaths \in 0..MaxDeaths
      /\ outbox \in SUBSET WorkerEvent
      /\ diedAt \in SUBSET [at : PC, in : SchedulerKind]
  BY AgentAssumption DEF Init
<1>2. /\ proc \in [Tasks -> ProcState]
      /\ workers \in [Tasks -> Slot]
      /\ taskView \in [Tasks -> {"None", "Running", "DoneOk", "DoneErr",
                                 "Crashed"}]
  BY DEF Init, NoWorkers, Slot, ProcState
<1>3. reset \in BOOLEAN /\ doneLock \in BOOLEAN /\ stopNode \in BOOLEAN
  BY DEF Init
<1>4. TypeOK
  BY <1>1, <1>2, <1>3 DEF Init, TypeOK, PC, SchedulerKind, DoneCause, NodeState
<1>5. Shape
  BY DEF Init, Shape, Reporting
<1> QED
  BY <1>4, <1>5 DEF TypeInv

\* What the end of the process does to the variables it assigns.
LEMMA FailType ==
    ASSUME TypeOK, Fail
    PROVE  /\ pc' = "Down" /\ sched' = "Free" /\ work' = None
           /\ reset' \in BOOLEAN
           /\ cause' \in DoneCause \cup {"None"}
           /\ workers' \in [Tasks -> Slot]
           /\ prev' \in NodeState
           /\ lastPoll' \in {"Ok", "RequestFailed", "ClaimFailed"}
           /\ outbox' \in SUBSET WorkerEvent
           /\ ipc' \in SUBSET Tasks
           /\ diedAt' \in SUBSET [at : PC, in : SchedulerKind]
<1>1. diedAt' \in SUBSET [at : PC, in : SchedulerKind]
  BY DEF Fail, TypeOK
<1>2. workers' \in [Tasks -> Slot]
  BY DEF Fail, LoseMemory, NoWorkers, Slot
<1>3. reset' \in BOOLEAN
  BY DEF Fail, LoseMemory
<1> QED
  BY <1>1, <1>2, <1>3 DEF Fail, LoseMemory, NodeState, DoneCause

\* Every step keeps the type invariant.
LEMMA TypeStep == TypeInv /\ [Next]_vars => TypeInv'
<1> SUFFICES ASSUME TypeInv, [Next]_vars PROVE TypeInv'
  OBVIOUS
<1> USE AgentAssumption DEF TypeInv, TypeOK, Shape, PC, Starting, Reporting,
        Looping, SchedulerKind, NodeState, DoneCause, Slot, ProcState, Exited,
        WorkerEvent, NoWorkers, memory, files, procs, service, history
<1>1. CASE Start
  <2>1. reset' \in BOOLEAN /\ doneLock' \in BOOLEAN
    BY <1>1 DEF Start
  <2>2. /\ pc' = "LoadReboot"
        /\ UNCHANGED <<sched, cause, work, workers, prev, lastPoll, outbox,
                       rebootCtx, workCtx, procs, service, history>>
    BY <1>1 DEF Start
  <2> QED
    BY <1>1, <2>1, <2>2 DEF Start
<1>2. CASE LoadReboot
  BY <1>2 DEF LoadReboot
<1>3. CASE ResetWork
  BY <1>3 DEF ResetWork
<1>4. CASE CheckWork
  BY <1>4 DEF CheckWork
<1>5. CASE ReportUnit
  BY <1>5 DEF ReportUnit
<1>6. CASE ReportDone
  BY <1>6 DEF ReportDone
<1>7. CASE ReportLock
  BY <1>7, FailType DEF ReportLock
<1>8. CASE EmitInit
  BY <1>8 DEF EmitInit
<1>9. CASE ExecuteCommand
  <2>1. CASE StopNow
    BY <1>9, <2>1 DEF ExecuteCommand, StopNow
  <2>2. CASE \E t \in Tasks : StopTask(t)
    BY <1>9, <2>2 DEF ExecuteCommand, StopTask, StopSlots
  <2>3. CASE IgnoreCommand
    BY <1>9, <2>3 DEF ExecuteCommand, IgnoreCommand
  <2> QED
    BY <1>9, <2>1, <2>2, <2>3 DEF ExecuteCommand
<1>10. CASE NoCommand
  BY <1>10 DEF NoCommand
<1>11. CASE CommandFailed
  BY <1>11, FailType DEF CommandFailed
<1>12. CASE EmitStateUpdate
  BY <1>12 DEF EmitStateUpdate, StateOf
<1>13. CASE FreeNoWork
  BY <1>13 DEF FreeNoWork, InBody
<1>14. CASE FreeClaim
  BY <1>14 DEF FreeClaim, InBody
<1>15. CASE SaveContext
  BY <1>15 DEF SaveContext, InBody
<1>16. CASE SetupError
  BY <1>16 DEF SetupError, InBody
<1>17. CASE FinishSetup
  BY <1>17 DEF FinishSetup
<1>18. CASE SaveReboot
  BY <1>18 DEF SaveReboot, InBody
<1>19. CASE Reboot
  BY <1>19, FailType DEF Reboot
<1>20. CASE RunWorkers
  BY <1>20 DEF RunWorkers, InBody
<1>21. CASE UpdateWorkers
  <2>1. \A t \in Tasks : Updated(t) \in Slot
    BY DEF Updated
  <2>2. \A t \in Tasks : EventOf(t) \in WorkerEvent
    BY DEF EventOf
  <2> QED
    BY <1>21, <2>1, <2>2 DEF UpdateWorkers, InBody, Changed
<1>22. CASE StartFailed
  BY <1>22, FailType DEF StartFailed, InBody
<1>23. CASE UpdatePanic
  BY <1>23, FailType DEF UpdatePanic, InBody
<1>24. CASE EmitWorkerEvent
  BY <1>24 DEF EmitWorkerEvent
<1>25. CASE EndUpdate
  BY <1>25 DEF EndUpdate
<1>26. CASE SetDoneLock
  BY <1>26 DEF SetDoneLock, InHandler
<1>27. CASE EmitDone
  BY <1>27 DEF EmitDone, LoseMemory
<1>28. CASE TaskExits
  BY <1>28 DEF TaskExits
<1>29. CASE TaskShutsDown
  BY <1>29 DEF TaskShutsDown
<1>30. CASE Die
  BY <1>30, FailType DEF Die
<1>31. CASE UNCHANGED vars
  BY <1>31 DEF vars
<1>32. CASE StartHangs
  BY <1>32 DEF StartHangs, InBody
<1> QED
  BY <1>1, <1>2, <1>3, <1>4, <1>5, <1>6, <1>7, <1>8, <1>9, <1>10, <1>11, <1>12,
     <1>13, <1>14, <1>15, <1>16, <1>17, <1>18, <1>19, <1>20, <1>21, <1>22,
     <1>23, <1>24, <1>25, <1>26, <1>27, <1>28, <1>29, <1>30, <1>31, <1>32
  DEF Next, Boot, Commands, Handlers, TaskProcess

\* The variables of the agent keep their types: the state machine of the
\* Scheduler, the slots, the files and the events stay within their enums.
THEOREM TypeCorrect == Spec => []TypeOK
<1>1. TypeInv => TypeOK
  BY DEF TypeInv
<1> QED
  BY <1>1, TypeInit, TypeStep, PTL DEF Spec

----------------------------------------------------------------------------
(* The done lock and setup                                                 *)

\* Where the process can be when the done lock exists, and what it has said
\* when it is about to write it at the end of a crash report.
LockShape ==
    /\ doneLock => pc \in {"Down", "EmitDone"}
    /\ pc = "EmitDone" => doneLock
    /\ pc = "ReportLock" => view = "DoneError"

\* SilentOnlyIfCut is not inductive alone: that the lock is only ever set in
\* the done handler or after a crash report is what rules out other windows.
SafeInv == TypeInv /\ LockShape /\ SilentOnlyIfCut /\ SetupBeforeRun

\* The lock is free, and nothing is set up, initially.
LEMMA SafeInit == Init => SafeInv
BY TypeInit DEF Init, SafeInv, LockShape, SilentOnlyIfCut, SetupBeforeRun

\* Every step keeps the lock to the two places that set it.
LEMMA SilentStep ==
    TypeInv /\ LockShape /\ SilentOnlyIfCut /\ [Next]_vars
      => LockShape' /\ SilentOnlyIfCut'
<1> SUFFICES ASSUME TypeInv, LockShape, SilentOnlyIfCut, [Next]_vars
             PROVE  LockShape' /\ SilentOnlyIfCut'
  OBVIOUS
<1> USE DEF TypeInv, Shape, LockShape, SilentOnlyIfCut, memory, files, procs,
        service, history
<1>1. CASE Start
  BY <1>1 DEF Start
<1>2. CASE LoadReboot
  BY <1>2 DEF LoadReboot
<1>3. CASE ResetWork
  BY <1>3 DEF ResetWork
<1>4. CASE CheckWork
  BY <1>4 DEF CheckWork
<1>5. CASE ReportUnit
  BY <1>5 DEF ReportUnit
<1>6. CASE ReportDone
  BY <1>6 DEF ReportDone
<1>7. CASE ReportLock
  BY <1>7 DEF ReportLock, Fail, LoseMemory, InBody
<1>8. CASE EmitInit
  BY <1>8 DEF EmitInit
<1>9. CASE ExecuteCommand
  BY <1>9 DEF ExecuteCommand, StopNow, StopTask, IgnoreCommand
<1>10. CASE NoCommand
  BY <1>10 DEF NoCommand
<1>11. CASE CommandFailed
  BY <1>11 DEF CommandFailed, Fail, LoseMemory, InBody
<1>12. CASE EmitStateUpdate
  BY <1>12 DEF EmitStateUpdate
<1>13. CASE FreeNoWork
  BY <1>13 DEF FreeNoWork, InBody
<1>14. CASE FreeClaim
  BY <1>14 DEF FreeClaim, InBody
<1>15. CASE SaveContext
  BY <1>15 DEF SaveContext, InBody
<1>16. CASE SetupError
  BY <1>16 DEF SetupError, InBody
<1>17. CASE FinishSetup
  BY <1>17 DEF FinishSetup
<1>18. CASE SaveReboot
  BY <1>18 DEF SaveReboot, InBody
<1>19. CASE Reboot
  BY <1>19 DEF Reboot, Fail, LoseMemory, InBody
<1>20. CASE RunWorkers
  BY <1>20 DEF RunWorkers, InBody
<1>21. CASE UpdateWorkers
  BY <1>21 DEF UpdateWorkers, InBody
<1>22. CASE StartFailed
  BY <1>22 DEF StartFailed, Fail, LoseMemory, InBody
<1>23. CASE UpdatePanic
  BY <1>23 DEF UpdatePanic, Fail, LoseMemory, InBody
<1>24. CASE EmitWorkerEvent
  BY <1>24 DEF EmitWorkerEvent
<1>25. CASE EndUpdate
  BY <1>25 DEF EndUpdate
<1>26. CASE SetDoneLock
  BY <1>26 DEF SetDoneLock, InHandler
<1>27. CASE EmitDone
  BY <1>27 DEF EmitDone, LoseMemory
<1>28. CASE TaskExits
  BY <1>28 DEF TaskExits
<1>29. CASE TaskShutsDown
  BY <1>29 DEF TaskShutsDown
<1>30. CASE Die
  <2>1. LockShape'
    BY <1>30 DEF Die, Fail, LoseMemory
  <2>2. CASE pc = "EmitDone"
    <3>1. [at |-> pc, in |-> sched] \in diedAt'
      BY <1>30 DEF Die, Fail
    <3> QED
      BY <2>1, <2>2, <3>1
  <2>3. CASE pc # "EmitDone"
    BY <1>30, <2>1, <2>3 DEF Die, Fail
  <2> QED
    BY <2>2, <2>3
<1>31. CASE UNCHANGED vars
  BY <1>31 DEF vars
<1>32. CASE StartHangs
  BY <1>32 DEF StartHangs, InBody
<1> QED
  BY <1>1, <1>2, <1>3, <1>4, <1>5, <1>6, <1>7, <1>8, <1>9, <1>10, <1>11,
     <1>12, <1>13, <1>14, <1>15, <1>16, <1>17, <1>18, <1>19, <1>20, <1>21,
     <1>22, <1>23, <1>24, <1>25, <1>26, <1>27, <1>28, <1>29, <1>30, <1>31, <1>32
  DEF Next, Boot, Commands, Handlers, TaskProcess

\* Every step keeps workers behind a setup that succeeded.
LEMMA SetupStep ==
    TypeInv /\ SetupBeforeRun /\ [Next]_vars => SetupBeforeRun'
<1> SUFFICES ASSUME TypeInv, SetupBeforeRun, [Next]_vars
             PROVE  SetupBeforeRun'
  OBVIOUS
<1> USE DEF TypeInv, Shape, SetupBeforeRun, memory, files, procs, service,
        history
<1>1. CASE Start
  BY <1>1 DEF Start
<1>2. CASE LoadReboot
  BY <1>2 DEF LoadReboot
<1>3. CASE ResetWork
  BY <1>3 DEF ResetWork
<1>4. CASE CheckWork
  BY <1>4 DEF CheckWork
<1>5. CASE ReportUnit
  BY <1>5 DEF ReportUnit
<1>6. CASE ReportDone
  BY <1>6 DEF ReportDone
<1>7. CASE ReportLock
  BY <1>7 DEF ReportLock, Fail, LoseMemory, InBody
<1>8. CASE EmitInit
  BY <1>8 DEF EmitInit
<1>9. CASE ExecuteCommand
  BY <1>9 DEF ExecuteCommand, StopNow, StopTask, IgnoreCommand
<1>10. CASE NoCommand
  BY <1>10 DEF NoCommand
<1>11. CASE CommandFailed
  BY <1>11 DEF CommandFailed, Fail, LoseMemory, InBody
<1>12. CASE EmitStateUpdate
  BY <1>12 DEF EmitStateUpdate
<1>13. CASE FreeNoWork
  BY <1>13 DEF FreeNoWork, InBody
<1>14. CASE FreeClaim
  BY <1>14 DEF FreeClaim, InBody
<1>15. CASE SaveContext
  BY <1>15 DEF SaveContext, InBody
<1>16. CASE SetupError
  BY <1>16 DEF SetupError, InBody
<1>17. CASE FinishSetup
  BY <1>17 DEF FinishSetup
<1>18. CASE SaveReboot
  BY <1>18 DEF SaveReboot, InBody
<1>19. CASE Reboot
  BY <1>19 DEF Reboot, Fail, LoseMemory, InBody
<1>20. CASE RunWorkers
  BY <1>20 DEF RunWorkers, InBody
<1>21. CASE UpdateWorkers
  BY <1>21 DEF UpdateWorkers, InBody
<1>22. CASE StartFailed
  BY <1>22 DEF StartFailed, Fail, LoseMemory, InBody
<1>23. CASE UpdatePanic
  BY <1>23 DEF UpdatePanic, Fail, LoseMemory, InBody
<1>24. CASE EmitWorkerEvent
  BY <1>24 DEF EmitWorkerEvent
<1>25. CASE EndUpdate
  BY <1>25 DEF EndUpdate
<1>26. CASE SetDoneLock
  BY <1>26 DEF SetDoneLock, InHandler
<1>27. CASE EmitDone
  BY <1>27 DEF EmitDone, LoseMemory
<1>28. CASE TaskExits
  BY <1>28 DEF TaskExits
<1>29. CASE TaskShutsDown
  BY <1>29 DEF TaskShutsDown
<1>30. CASE Die
  BY <1>30 DEF Die, Fail, LoseMemory
<1>31. CASE UNCHANGED vars
  BY <1>31 DEF vars
<1>32. CASE StartHangs
  BY <1>32 DEF StartHangs, InBody
<1> QED
  BY <1>1, <1>2, <1>3, <1>4, <1>5, <1>6, <1>7, <1>8, <1>9, <1>10, <1>11,
     <1>12, <1>13, <1>14, <1>15, <1>16, <1>17, <1>18, <1>19, <1>20, <1>21,
     <1>22, <1>23, <1>24, <1>25, <1>26, <1>27, <1>28, <1>29, <1>30, <1>31, <1>32
  DEF Next, Boot, Commands, Handlers, TaskProcess

\* Both hold in every reachable state.
LEMMA Safe == Spec => []SafeInv
<1>1. SafeInv /\ [Next]_vars => SafeInv'
  BY TypeStep, SilentStep, SetupStep DEF SafeInv
<1> QED
  BY <1>1, SafeInit, PTL DEF Spec

\* Whatever the node, its work sets and the deaths of its agent: an agent that
\* is locked and has not reported it died between set_done_lock and emit_event.
THEOREM SilentOnlyInOneWindow == Spec => []SilentOnlyIfCut
<1>1. SafeInv => SilentOnlyIfCut
  BY DEF SafeInv
<1> QED
  BY <1>1, Safe, PTL

\* A worker exists only for a work set whose setup has succeeded, across
\* reboots, deaths and resets.
THEOREM NoWorkerBeforeSetup == Spec => []SetupBeforeRun
<1>1. SafeInv => SetupBeforeRun
  BY DEF SafeInv
<1> QED
  BY <1>1, Safe, PTL

\* An unmanaged node keeps both, although it may be started with --reset_lock, which
\* removes the done lock and the work set context of the life before.
THEOREM SafeWithoutService == ~Managed => (Spec => []UnmanagedSafe)
<1>1. SafeInv => UnmanagedSafe
  BY DEF SafeInv, UnmanagedSafe
<1> QED
  BY <1>1, Safe, PTL

----------------------------------------------------------------------------
(* What a managed node keeps on disk, what its task processes do and what  *)
(* the service has heard: its work is tracked, what it says at the end is  *)
(* true, and it implements NodeContract.                                   *)


Over == {"Done", "DoneError"}
InLoop == {"Top", "Update", "Body"}

\* Where the process can be in each state of its Scheduler.
PcShape ==
    /\ sched = "SettingUp" => pc \in InLoop \cup {"RunSetup"}
    /\ sched = "PendingReboot" => pc \in InLoop \cup {"Reboot"}
    /\ sched = "Ready" => pc \in InLoop \cup {"ResetWork"}
    /\ sched = "Busy" => pc \in InLoop \cup {"EmitEvents", "Hung"}
    /\ sched = "Done" => /\ pc \in {"Top", "Update", "EmitEvents", "EmitDone"}
                         /\ cause # "None"
    /\ pc = "Hung" => sched = "Busy"
    /\ pc = "EmitEvents" /\ sched = "Done" => cause = "WorkersDone"
    /\ outbox # {} => pc \in {"ReportUnits", "EmitEvents"}

\* Workers of a work set that is under execution.
Executing == sched = "Busy" \/ (sched = "Done" /\ cause = "WorkersDone")

\* The files, the claim and the memory of a managed node: the work set context
\* is the last claim, a reboot context is only there around the reboot, and a
\* loop that is free or setting up has no context yet.
DiskShape ==
    /\ ~reset
    /\ doneLock => pc \in {"Down", "EmitDone"}
    /\ pc = "EmitDone" => doneLock
    /\ rebootCtx # None => pc \in {"Reboot", "Down", "LoadReboot"}
                           /\ rebootCtx = workCtx
    /\ workCtx # None => workCtx = claimed
    /\ pc \in InLoop \cup {"EmitInit"} /\ sched \in {"Free", "SettingUp"} =>
         workCtx = None
    /\ pc \in Reporting => workCtx # None
    /\ sched = "SettingUp" => work = claimed
    /\ pc = "RunSetup" \/ sched \in {"PendingReboot", "Ready"} \/ Executing =>
         workCtx = work /\ work \in WorkSets

\* A claim that is neither on disk nor closed is in the memory of a process that
\* has not saved it, or was there when the process died.
ClaimShape ==
    claimed # None =>
      \/ workCtx = claimed
      \/ doneLock
      \/ sched = "SettingUp"
      \/ sched = "Done" /\ pc \in {"Top", "Update"}
      \/ \E d \in diedAt : /\ d.in \in {"SettingUp", "Done"}
                           /\ d.at \in {"Top", "Update", "Body"}

\* Workers, processes and events belong to the work set on disk; what the
\* service has heard of a task lags behind its slot by the events not yet sent.
TaskShape ==
    /\ \A t \in Tasks :
         /\ workers[t] # "Absent" => Executing /\ t \in TasksOf[workCtx]
         /\ Executing /\ t \in TasksOf[workCtx] => workers[t] # "Absent"
         /\ sched = "Done" => workers[t] \in {"Absent", "Done"}
         /\ proc[t] # "none" => workCtx # None /\ t \in TasksOf[workCtx]
         /\ \/ workCtx = None \/ rebootCtx # None
            \/ sched \in {"SettingUp", "PendingReboot", "Ready"}
            => proc[t] = "none" /\ taskView[t] = "None"
         /\ pc # "Hung" /\ workers[t] = "Ready" => proc[t] = "none"
         /\ workers[t] = "Ready" => taskView[t] = "None"
         /\ workers[t] = "Running" =>
              \/ taskView[t] = "Running"
              \/ /\ taskView[t] = "None"
                 /\ [task |-> t, kind |-> "Running"] \in outbox
         /\ workers[t] = "Done" =>
              \/ taskView[t] \in {"DoneOk", "DoneErr"}
              \/ t \in stopTasks
              \/ [task |-> t, kind |-> "DoneOk"] \in outbox
              \/ [task |-> t, kind |-> "DoneErr"] \in outbox
         /\ taskView[t] = "DoneOk" => proc[t] = "ok"
         /\ taskView[t] = "DoneErr" => proc[t] = "err"
    /\ pc = "EmitEvents" => \A e \in outbox :
         \/ /\ e.kind = "Running"
            /\ workers[e.task] = "Running" /\ taskView[e.task] = "None"
         \/ /\ e.kind \in {"DoneOk", "DoneErr"}
            /\ workers[e.task] = "Done" /\ taskView[e.task] = "Running"
            /\ e.kind = "DoneOk" => proc[e.task] = "ok"
            /\ e.kind = "DoneErr" => proc[e.task] = "err"
    /\ sched = "Done" /\ cause = "Stopped" => stopNode

\* The pairs of a previous state and a state with which an update begins, and
\* what the service has heard by then.
LoopView ==
    \/ prev = "Init" /\ sched = "Free" /\ view = "Init"
    \/ prev = "Init" /\ sched = "Ready" /\ view = "Rebooting"
    \/ prev = "Free" /\ sched \in {"Free", "SettingUp"} /\ view = "Free"
    \/ /\ prev = "SettingUp" /\ sched \in {"PendingReboot", "Ready"}
       /\ view = "SettingUp"
    \/ prev = "Ready" /\ sched = "Busy" /\ view = "Ready"
    \/ prev = "Busy" /\ sched = "Busy" /\ view = "Busy"
    \/ sched = "Done" /\ view \notin Over

\* What the service has heard of the node, at each point of the program.
ViewShape ==
    /\ pc \in {"Down", "EmitInit"} \cup Starting \cup Reporting => prev = "Init"
    /\ pc \in {"Top", "Update"} => LoopView
    /\ pc = "Body" => view = StateOf(sched)
    /\ pc = "RunSetup" => view = "SettingUp"
    /\ pc = "Reboot" \/ rebootCtx # None => view = "Rebooting"
    /\ pc = "ResetWork" /\ work # None => view = "Rebooting"
    /\ pc = "EmitEvents" => view = "Busy"
    /\ pc \in {"EmitDone", "EmitInit", "Hung"} => view \notin Over
    /\ view = "Done" => doneLock /\ pc = "Down"
    /\ view = "DoneError" /\ ~doneLock =>
         /\ workCtx # None /\ rebootCtx = None
         /\ pc \in {"Down"} \cup Starting \cup Reporting

\* The reports of a crash: what is still to be said, and what has been said.
CrashShape ==
    /\ pc = "ReportUnits" =>
         /\ outbox # {}
         /\ \A e \in outbox : e.task \in TasksOf[workCtx]
         /\ \A t \in TasksOf[workCtx] :
              taskView[t] = "Crashed" \/ \E e \in outbox : e.task = t
    /\ pc \in {"ReportDone", "ReportLock"} =>
         \A t \in TasksOf[workCtx] : taskView[t] = "Crashed"

ManagedInv ==
    Managed =>
      /\ DiskShape /\ ClaimShape /\ TaskShape /\ ViewShape /\ CrashShape
      /\ CleanDone

AgentInv == PcShape /\ ManagedInv
\* Every step keeps the process where its Scheduler can be.
LEMMA PcStep ==
    ASSUME TypeInv, PcShape, [Next]_vars
    PROVE  PcShape'
<1> USE AgentAssumption DEF TypeInv, TypeOK, Shape, PcShape, InLoop, Starting,
        Reporting, SchedulerKind, memory, files, procs, service, history
<1>1. CASE Start
  BY <1>1 DEF Start
<1>2. CASE LoadReboot
  BY <1>2 DEF LoadReboot
<1>3. CASE ResetWork
  BY <1>3 DEF ResetWork
<1>4. CASE CheckWork
  BY <1>4 DEF CheckWork
<1>5. CASE ReportUnit
  BY <1>5 DEF ReportUnit
<1>6. CASE ReportDone
  BY <1>6 DEF ReportDone
<1>7. CASE ReportLock
  BY <1>7 DEF ReportLock, Fail, LoseMemory
<1>8. CASE EmitInit
  BY <1>8 DEF EmitInit
<1>9. CASE ExecuteCommand
  <2>1. CASE StopNow
    BY <1>9, <2>1 DEF ExecuteCommand, StopNow
  <2>2. CASE \E t \in Tasks : StopTask(t)
    BY <1>9, <2>2 DEF ExecuteCommand, StopTask, StopSlots
  <2>3. CASE IgnoreCommand
    BY <1>9, <2>3 DEF ExecuteCommand, IgnoreCommand
  <2> QED
    BY <1>9, <2>1, <2>2, <2>3 DEF ExecuteCommand
<1>10. CASE NoCommand
  BY <1>10 DEF NoCommand
<1>11. CASE CommandFailed
  BY <1>11 DEF CommandFailed, Fail, LoseMemory
<1>12. CASE EmitStateUpdate
  BY <1>12 DEF EmitStateUpdate, StateOf
<1>13. CASE FreeNoWork
  BY <1>13 DEF FreeNoWork, InBody
<1>14. CASE FreeClaim
  BY <1>14 DEF FreeClaim, InBody
<1>15. CASE SaveContext
  BY <1>15 DEF SaveContext, InBody
<1>16. CASE SetupError
  BY <1>16 DEF SetupError, InBody
<1>17. CASE FinishSetup
  BY <1>17 DEF FinishSetup
<1>18. CASE SaveReboot
  BY <1>18 DEF SaveReboot, InBody
<1>19. CASE Reboot
  BY <1>19 DEF Reboot, Fail, LoseMemory
<1>20. CASE RunWorkers
  BY <1>20 DEF RunWorkers, InBody
<1>21. CASE UpdateWorkers
  BY <1>21 DEF UpdateWorkers, InBody, AllWorkersDone
<1>22. CASE StartFailed
  BY <1>22 DEF StartFailed, InBody, Fail, LoseMemory
<1>23. CASE StartHangs
  BY <1>23 DEF StartHangs, InBody
<1>24. CASE UpdatePanic
  BY <1>24 DEF UpdatePanic, InBody, Fail, LoseMemory
<1>25. CASE EmitWorkerEvent
  BY <1>25 DEF EmitWorkerEvent
<1>26. CASE EndUpdate
  BY <1>26 DEF EndUpdate
<1>27. CASE SetDoneLock
  BY <1>27 DEF SetDoneLock, InHandler
<1>28. CASE EmitDone
  BY <1>28 DEF EmitDone, LoseMemory
<1>29. CASE TaskExits
  BY <1>29 DEF TaskExits
<1>30. CASE TaskShutsDown
  BY <1>30 DEF TaskShutsDown
<1>31. CASE Die
  BY <1>31 DEF Die, Fail, LoseMemory
<1>32. CASE UNCHANGED vars
  BY <1>32 DEF vars
<1> QED
  BY <1>1, <1>2, <1>3, <1>4, <1>5, <1>6, <1>7, <1>8, <1>9, <1>10, <1>11,
     <1>12, <1>13, <1>14, <1>15, <1>16, <1>17, <1>18, <1>19, <1>20, <1>21,
     <1>22, <1>23, <1>24, <1>25, <1>26, <1>27, <1>28, <1>29, <1>30, <1>31,
     <1>32 DEF Next, Boot, Commands, Handlers, TaskProcess

\* Every step of a managed node keeps its files in step with its memory.
LEMMA DiskStep ==
    ASSUME Managed, TypeInv, PcShape, DiskShape, [Next]_vars
    PROVE  DiskShape'
<1> USE AgentAssumption DEF TypeInv, TypeOK, Shape, PcShape, DiskShape,
        Executing, InLoop, Starting, Reporting, SchedulerKind, memory, files,
        procs, service, history
<1>1. CASE Start
  BY <1>1 DEF Start
<1>2. CASE LoadReboot
  BY <1>2 DEF LoadReboot
<1>3. CASE ResetWork
  BY <1>3 DEF ResetWork
<1>4. CASE CheckWork
  BY <1>4 DEF CheckWork
<1>5. CASE ReportUnit
  BY <1>5 DEF ReportUnit
<1>6. CASE ReportDone
  BY <1>6 DEF ReportDone
<1>7. CASE ReportLock
  BY <1>7 DEF ReportLock, Fail, LoseMemory
<1>8. CASE EmitInit
  BY <1>8 DEF EmitInit
<1>9. CASE ExecuteCommand
  <2>1. CASE StopNow
    BY <1>9, <2>1 DEF ExecuteCommand, StopNow
  <2>2. CASE \E t \in Tasks : StopTask(t)
    BY <1>9, <2>2 DEF ExecuteCommand, StopTask, StopSlots
  <2>3. CASE IgnoreCommand
    BY <1>9, <2>3 DEF ExecuteCommand, IgnoreCommand
  <2> QED
    BY <1>9, <2>1, <2>2, <2>3 DEF ExecuteCommand
<1>10. CASE NoCommand
  BY <1>10 DEF NoCommand
<1>11. CASE CommandFailed
  BY <1>11 DEF CommandFailed, Fail, LoseMemory
<1>12. CASE EmitStateUpdate
  BY <1>12 DEF EmitStateUpdate, StateOf
<1>13. CASE FreeNoWork
  BY <1>13 DEF FreeNoWork, InBody
<1>14. CASE FreeClaim
  BY <1>14 DEF FreeClaim, InBody
<1>15. CASE SaveContext
  BY <1>15 DEF SaveContext, InBody
<1>16. CASE SetupError
  BY <1>16 DEF SetupError, InBody
<1>17. CASE FinishSetup
  BY <1>17 DEF FinishSetup
<1>18. CASE SaveReboot
  BY <1>18 DEF SaveReboot, InBody
<1>19. CASE Reboot
  BY <1>19 DEF Reboot, Fail, LoseMemory
<1>20. CASE RunWorkers
  BY <1>20 DEF RunWorkers, InBody
<1>21. CASE UpdateWorkers
  BY <1>21 DEF UpdateWorkers, InBody, AllWorkersDone
<1>22. CASE StartFailed
  BY <1>22 DEF StartFailed, InBody, Fail, LoseMemory
<1>23. CASE StartHangs
  BY <1>23 DEF StartHangs, InBody
<1>24. CASE UpdatePanic
  BY <1>24 DEF UpdatePanic, InBody, Fail, LoseMemory
<1>25. CASE EmitWorkerEvent
  BY <1>25 DEF EmitWorkerEvent
<1>26. CASE EndUpdate
  BY <1>26 DEF EndUpdate
<1>27. CASE SetDoneLock
  BY <1>27 DEF SetDoneLock, InHandler
<1>28. CASE EmitDone
  BY <1>28 DEF EmitDone, LoseMemory
<1>29. CASE TaskExits
  BY <1>29 DEF TaskExits
<1>30. CASE TaskShutsDown
  BY <1>30 DEF TaskShutsDown
<1>31. CASE Die
  BY <1>31 DEF Die, Fail, LoseMemory
<1>32. CASE UNCHANGED vars
  BY <1>32 DEF vars
<1> QED
  BY <1>1, <1>2, <1>3, <1>4, <1>5, <1>6, <1>7, <1>8, <1>9, <1>10, <1>11,
     <1>12, <1>13, <1>14, <1>15, <1>16, <1>17, <1>18, <1>19, <1>20, <1>21,
     <1>22, <1>23, <1>24, <1>25, <1>26, <1>27, <1>28, <1>29, <1>30, <1>31,
     <1>32 DEF Next, Boot, Commands, Handlers, TaskProcess

\* A process that ends with a claim neither on disk nor closed leaves a trace of
\* where it was.
LEMMA FailClaim ==
    ASSUME TypeInv, PcShape, DiskShape, ClaimShape, Fail,
           UNCHANGED <<doneLock, workCtx, claimed>>
    PROVE  ClaimShape'
<1>1. diedAt' = diedAt \cup {[at |-> pc, in |-> sched]}
  BY DEF Fail
<1>2. SUFFICES ASSUME claimed # None, workCtx # claimed, ~doneLock
               PROVE  \E d \in diedAt' : /\ d.in \in {"SettingUp", "Done"}
                                         /\ d.at \in {"Top", "Update", "Body"}
  BY DEF ClaimShape
<1>3. CASE \E d \in diedAt : /\ d.in \in {"SettingUp", "Done"}
                             /\ d.at \in {"Top", "Update", "Body"}
  BY <1>1, <1>3
<1>4. CASE sched = "SettingUp" \/ (sched = "Done" /\ pc \in {"Top", "Update"})
  <2>1. pc \in {"Top", "Update", "Body"} /\ sched \in {"SettingUp", "Done"}
    BY <1>2, <1>4 DEF PcShape, DiskShape, InLoop
  <2>2. [at |-> pc, in |-> sched] \in diedAt'
    BY <1>1
  <2> QED
    BY <2>1, <2>2
<1> QED
  BY <1>2, <1>3, <1>4 DEF ClaimShape

\* Every step of a managed node keeps track of the last claim.
LEMMA ClaimStep ==
    ASSUME Managed, TypeInv, PcShape, DiskShape, ClaimShape, [Next]_vars
    PROVE  ClaimShape'
<1> USE AgentAssumption DEF TypeInv, TypeOK, Shape, PcShape, DiskShape,
        ClaimShape, Executing, InLoop, Starting, Reporting, SchedulerKind,
        memory, files, procs, service, history
<1>1. CASE Start
  BY <1>1 DEF Start
<1>2. CASE LoadReboot
  BY <1>2 DEF LoadReboot
<1>3. CASE ResetWork
  BY <1>3 DEF ResetWork
<1>4. CASE CheckWork
  BY <1>4 DEF CheckWork
<1>5. CASE ReportUnit
  BY <1>5 DEF ReportUnit
<1>6. CASE ReportDone
  BY <1>6 DEF ReportDone
<1>7. CASE ReportLock
  BY <1>7 DEF ReportLock, Fail, LoseMemory
<1>8. CASE EmitInit
  BY <1>8 DEF EmitInit
<1>9. CASE ExecuteCommand
  <2>1. CASE StopNow
    BY <1>9, <2>1 DEF ExecuteCommand, StopNow
  <2>2. CASE \E t \in Tasks : StopTask(t)
    BY <1>9, <2>2 DEF ExecuteCommand, StopTask, StopSlots
  <2>3. CASE IgnoreCommand
    BY <1>9, <2>3 DEF ExecuteCommand, IgnoreCommand
  <2> QED
    BY <1>9, <2>1, <2>2, <2>3 DEF ExecuteCommand
<1>10. CASE NoCommand
  BY <1>10 DEF NoCommand
<1>11. CASE CommandFailed
  BY <1>11, FailClaim DEF CommandFailed
<1>12. CASE EmitStateUpdate
  BY <1>12 DEF EmitStateUpdate, StateOf
<1>13. CASE FreeNoWork
  BY <1>13 DEF FreeNoWork, InBody
<1>14. CASE FreeClaim
  BY <1>14 DEF FreeClaim, InBody
<1>15. CASE SaveContext
  BY <1>15 DEF SaveContext, InBody
<1>16. CASE SetupError
  BY <1>16 DEF SetupError, InBody
<1>17. CASE FinishSetup
  BY <1>17 DEF FinishSetup
<1>18. CASE SaveReboot
  BY <1>18 DEF SaveReboot, InBody
<1>19. CASE Reboot
  BY <1>19 DEF Reboot, Fail, LoseMemory
<1>20. CASE RunWorkers
  BY <1>20 DEF RunWorkers, InBody
<1>21. CASE UpdateWorkers
  BY <1>21 DEF UpdateWorkers, InBody, AllWorkersDone
<1>22. CASE StartFailed
  BY <1>22 DEF StartFailed, InBody, Fail, LoseMemory
<1>23. CASE StartHangs
  BY <1>23 DEF StartHangs, InBody
<1>24. CASE UpdatePanic
  BY <1>24 DEF UpdatePanic, InBody, Fail, LoseMemory
<1>25. CASE EmitWorkerEvent
  BY <1>25 DEF EmitWorkerEvent
<1>26. CASE EndUpdate
  BY <1>26 DEF EndUpdate
<1>27. CASE SetDoneLock
  BY <1>27 DEF SetDoneLock, InHandler
<1>28. CASE EmitDone
  BY <1>28 DEF EmitDone, LoseMemory
<1>29. CASE TaskExits
  BY <1>29 DEF TaskExits
<1>30. CASE TaskShutsDown
  BY <1>30 DEF TaskShutsDown
<1>31. CASE Die
  BY <1>31, FailClaim DEF Die
<1>32. CASE UNCHANGED vars
  BY <1>32 DEF vars
<1> QED
  BY <1>1, <1>2, <1>3, <1>4, <1>5, <1>6, <1>7, <1>8, <1>9, <1>10, <1>11,
     <1>12, <1>13, <1>14, <1>15, <1>16, <1>17, <1>18, <1>19, <1>20, <1>21,
     <1>22, <1>23, <1>24, <1>25, <1>26, <1>27, <1>28, <1>29, <1>30, <1>31,
     <1>32 DEF Next, Boot, Commands, Handlers, TaskProcess

\* The event of a worker says what has become of its slot and of its process.
LEMMA EventKind ==
    ASSUME NEW t \in Tasks
    PROVE  /\ EventOf(t).task = t
           /\ workers[t] = "Ready" /\ proc[t] # "ok" =>
                EventOf(t) = [task |-> t, kind |-> "Running"]
           /\ workers[t] # "Ready" /\ proc[t] = "ok" =>
                EventOf(t) = [task |-> t, kind |-> "DoneOk"]
           /\ workers[t] # "Ready" /\ proc[t] # "ok" =>
                EventOf(t) = [task |-> t, kind |-> "DoneErr"]
<1> DEFINE k == CASE workers[t] = "Ready" -> "Running"
                  [] proc[t] = "ok" -> "DoneOk"
                  [] OTHER -> "DoneErr"
<1>1. EventOf(t) = [task |-> t, kind |-> k]
  BY DEF EventOf
<1>2. /\ workers[t] = "Ready" /\ proc[t] # "ok" => k = "Running"
      /\ workers[t] # "Ready" /\ proc[t] = "ok" => k = "DoneOk"
      /\ workers[t] # "Ready" /\ proc[t] # "ok" => k = "DoneErr"
  OBVIOUS
<1> HIDE DEF k
<1> QED
  BY <1>1, <1>2
\* A process that ends leaves its tasks' processes as they are, or as its last
\* step has changed them.
LEMMA FailTask ==
    ASSUME TypeInv, PcShape, DiskShape, TaskShape, LoseMemory,
           UNCHANGED <<workCtx, rebootCtx, taskView>>,
           \A u \in Tasks :
             \/ proc'[u] = proc[u]
             \/ proc[u] = "alive" /\ proc'[u] \in Exited
             \/ /\ proc[u] = "none" /\ taskView[u] = "None" /\ proc'[u] = "alive"
                /\ u \in TasksOf[workCtx] /\ sched = "Busy"
    PROVE  TaskShape'
<1>1. \A u \in Tasks : workers'[u] = "Absent"
  BY DEF LoseMemory, NoWorkers
<1>2. sched' = "Free" /\ pc' = "Down" /\ outbox' = {}
  BY DEF LoseMemory
<1>3. sched = "Busy" => workCtx # None /\ rebootCtx = None
  BY AgentAssumption DEF DiskShape, Executing, PcShape, InLoop
<1>4. ASSUME NEW t \in Tasks
      PROVE  /\ proc'[t] # "none" => workCtx # None /\ t \in TasksOf[workCtx]
             /\ workCtx = None \/ rebootCtx # None =>
                  proc'[t] = "none" /\ taskView[t] = "None"
             /\ taskView[t] = "DoneOk" => proc'[t] = "ok"
             /\ taskView[t] = "DoneErr" => proc'[t] = "err"
  BY <1>3 DEF TaskShape, Exited
<1> QED
  BY <1>1, <1>2, <1>4 DEF TaskShape, Executing

\* Every step of a managed node keeps workers, processes and events together.
LEMMA TaskStep ==
    ASSUME Managed, TypeInv, PcShape, DiskShape, TaskShape, [Next]_vars
    PROVE  TaskShape'
<1> USE AgentAssumption DEF TypeInv, TypeOK, Shape, PcShape, DiskShape,
        TaskShape, Executing, InLoop, Starting, Reporting, SchedulerKind,
        WorkerEvent, NoWorkers, Exited, memory, files, procs, service, history
<1>1. CASE Start
  BY <1>1 DEF Start
<1>2. CASE LoadReboot
  BY <1>2 DEF LoadReboot
<1>3. CASE ResetWork
  BY <1>3 DEF ResetWork
<1>4. CASE CheckWork
  BY <1>4 DEF CheckWork
<1>5. CASE ReportUnit
  BY <1>5 DEF ReportUnit
<1>6. CASE ReportDone
  BY <1>6 DEF ReportDone
<1>7. CASE ReportLock
  BY <1>7 DEF ReportLock, Fail, LoseMemory
<1>8. CASE EmitInit
  BY <1>8 DEF EmitInit
<1>9. CASE ExecuteCommand
  <2>1. CASE StopNow
    BY <1>9, <2>1 DEF ExecuteCommand, StopNow
  <2>2. CASE \E t \in Tasks : StopTask(t)
    <3>1. PICK t \in Tasks : StopTask(t)
      BY <2>2
    <3>2. /\ UNCHANGED <<sched, cause, stopNode, taskView, workCtx, rebootCtx>>
          /\ pc = "Top" /\ pc' = "Update" /\ outbox' = outbox
          /\ outbox = {} /\ sched = "Busy"
          /\ stopTasks' = stopTasks \cup {t}
      BY <1>9, <3>1 DEF ExecuteCommand, StopTask
    <3>3. \A u \in Tasks :
            /\ workers[u] = "Absent" <=> workers'[u] = "Absent"
            /\ workers'[u] \in {"Absent", "Done", "Dropped"}
            /\ workers'[u] = "Done" => u = t
      BY <1>9, <3>1 DEF ExecuteCommand, StopTask, StopSlots
    <3>4. \A u \in Tasks : \/ proc'[u] = proc[u]
                           \/ proc[u] = "alive" /\ proc'[u] \in Exited
      BY <1>9, <3>1 DEF ExecuteCommand, StopTask
    <3> QED
      BY <3>2, <3>3, <3>4
  <2>3. CASE IgnoreCommand
    BY <1>9, <2>3 DEF ExecuteCommand, IgnoreCommand
  <2> QED
    BY <1>9, <2>1, <2>2, <2>3 DEF ExecuteCommand
<1>10. CASE NoCommand
  BY <1>10 DEF NoCommand
<1>11. CASE CommandFailed
  <2>1. \A u \in Tasks : \/ proc'[u] = proc[u]
                         \/ proc[u] = "alive" /\ proc'[u] = "err"
    BY <1>11 DEF CommandFailed
  <2> QED
    BY <1>11, <2>1, FailTask DEF CommandFailed, Fail
<1>12. CASE EmitStateUpdate
  BY <1>12 DEF EmitStateUpdate, StateOf
<1>13. CASE FreeNoWork
  BY <1>13 DEF FreeNoWork, InBody
<1>14. CASE FreeClaim
  BY <1>14 DEF FreeClaim, InBody
<1>15. CASE SaveContext
  BY <1>15 DEF SaveContext, InBody
<1>16. CASE SetupError
  BY <1>16 DEF SetupError, InBody
<1>17. CASE FinishSetup
  BY <1>17 DEF FinishSetup
<1>18. CASE SaveReboot
  BY <1>18 DEF SaveReboot, InBody
<1>19. CASE Reboot
  BY <1>19 DEF Reboot, Fail, LoseMemory
<1>20. CASE RunWorkers
  BY <1>20 DEF RunWorkers, InBody
<1>21. CASE UpdateWorkers
  <2>1. /\ pc = "Body" /\ sched = "Busy" /\ outbox = {} /\ pc' = "EmitEvents"
        /\ UNCHANGED <<workCtx, rebootCtx, taskView, stopTasks, stopNode>>
        /\ workers' = [t \in Tasks |-> Updated(t)]
        /\ proc' = [t \in Tasks |-> IF workers[t] = "Ready" THEN "alive"
                                    ELSE proc[t]]
        /\ outbox' = {EventOf(t) : t \in Changed}
    BY <1>21 DEF UpdateWorkers, InBody
  <2>2. Executing'
    BY <1>21, <2>1 DEF UpdateWorkers, InBody
  <2>3. sched' = "Done" =>
          cause' = "WorkersDone" /\ \A t \in Tasks : workers'[t] \in {"Absent", "Done"}
    BY <1>21, <2>1 DEF UpdateWorkers, InBody, AllWorkersDone
  <2>4. \A t \in Tasks :
          \/ /\ workers[t] = "Ready" /\ workers'[t] = "Running"
             /\ proc'[t] = "alive" /\ taskView[t] = "None"
             /\ [task |-> t, kind |-> "Running"] \in outbox'
          \/ /\ workers[t] = "Running" /\ workers'[t] = "Done"
             /\ proc'[t] = proc[t] /\ proc[t] \in Exited /\ taskView[t] = "Running"
             /\ \/ [task |-> t, kind |-> "DoneOk"] \in outbox'
                \/ [task |-> t, kind |-> "DoneErr"] \in outbox'
          \/ /\ workers'[t] = workers[t] /\ workers[t] # "Ready"
             /\ proc'[t] = proc[t]
             /\ workers[t] = "Running" => /\ taskView[t] = "Running"
                                          /\ proc[t] \notin Exited
    <3> SUFFICES ASSUME NEW t \in Tasks
                 PROVE  <2>4!(t)
      OBVIOUS
    <3>1. CASE workers[t] = "Ready"
      <4>1. Updated(t) = "Running"
        BY <3>1 DEF Updated
      <4>2. EventOf(t) = [task |-> t, kind |-> "Running"]
        BY <2>1, <3>1, EventKind
      <4> QED
        BY <2>1, <3>1, <4>1, <4>2 DEF Changed
    <3>2. CASE workers[t] = "Running" /\ proc[t] \in Exited
      <4>1. Updated(t) = "Done"
        BY <3>2 DEF Updated
      <4>2. \/ EventOf(t) = [task |-> t, kind |-> "DoneOk"]
            \/ EventOf(t) = [task |-> t, kind |-> "DoneErr"]
        BY <3>2, EventKind
      <4> QED
        BY <2>1, <3>2, <4>1, <4>2 DEF Changed
    <3>3. CASE workers[t] # "Ready" /\ ~(workers[t] = "Running" /\ proc[t] \in Exited)
      <4>1. Updated(t) = workers[t]
        BY <3>3 DEF Updated
      <4> QED
        BY <2>1, <3>3, <4>1
    <3> QED
      BY <3>1, <3>2, <3>3
  <2>5. \A e \in outbox' :
          \/ /\ e.kind = "Running"
             /\ workers'[e.task] = "Running" /\ taskView'[e.task] = "None"
          \/ /\ e.kind \in {"DoneOk", "DoneErr"}
             /\ workers'[e.task] = "Done" /\ taskView'[e.task] = "Running"
             /\ e.kind = "DoneOk" => proc'[e.task] = "ok"
             /\ e.kind = "DoneErr" => proc'[e.task] = "err"
    <3> SUFFICES ASSUME NEW e \in outbox'
                 PROVE  <2>5!(e)
      OBVIOUS
    <3>1. PICK t \in Tasks : t \in Changed /\ e = EventOf(t)
      BY <2>1 DEF Changed
    <3>2. CASE workers[t] = "Ready"
      <4>1. e.task = t /\ e.kind = "Running"
        BY <2>1, <3>1, <3>2, EventKind
      <4> QED
        BY <2>1, <2>4, <3>2, <4>1
    <3>3. CASE workers[t] # "Ready"
      <4>1. workers[t] = "Running" /\ proc[t] \in Exited
        BY <3>1, <3>3 DEF Changed, Updated
      <4>2. /\ e.task = t /\ e.kind \in {"DoneOk", "DoneErr"}
            /\ e.kind = "DoneOk" => proc[t] = "ok"
            /\ e.kind = "DoneErr" => proc[t] = "err"
        BY <3>1, <3>3, <4>1, EventKind
      <4> QED
        BY <2>1, <2>4, <4>1, <4>2
    <3> QED
      BY <3>2, <3>3
  <2>6. \A t \in Tasks : t \in TasksOf[workCtx] <=> workers'[t] # "Absent"
    BY <2>1, <2>4
  <2> QED
    BY <2>1, <2>2, <2>3, <2>4, <2>5, <2>6
<1>22. CASE StartFailed
  <2>1. \A u \in Tasks : \/ proc'[u] = proc[u]
                         \/ workers[u] = "Ready" /\ proc'[u] = "alive"
    BY <1>22 DEF StartFailed
  <2>2. \A u \in Tasks : \/ proc'[u] = proc[u]
                         \/ /\ proc[u] = "none" /\ taskView[u] = "None"
                            /\ proc'[u] = "alive"
                            /\ u \in TasksOf[workCtx] /\ sched = "Busy"
    BY <1>22, <2>1 DEF StartFailed, InBody
  <2> QED
    BY <1>22, <2>2, FailTask DEF StartFailed, Fail
<1>23. CASE StartHangs
  BY <1>23 DEF StartHangs, InBody
<1>24. CASE UpdatePanic
  BY <1>24 DEF UpdatePanic, InBody, Fail, LoseMemory
<1>25. CASE EmitWorkerEvent
  BY <1>25 DEF EmitWorkerEvent
<1>26. CASE EndUpdate
  BY <1>26 DEF EndUpdate
<1>27. CASE SetDoneLock
  BY <1>27 DEF SetDoneLock, InHandler
<1>28. CASE EmitDone
  BY <1>28 DEF EmitDone, LoseMemory
<1>29. CASE TaskExits
  BY <1>29 DEF TaskExits
<1>30. CASE TaskShutsDown
  BY <1>30 DEF TaskShutsDown
<1>31. CASE Die
  BY <1>31 DEF Die, Fail, LoseMemory
<1>32. CASE UNCHANGED vars
  BY <1>32 DEF vars
<1> QED
  BY <1>1, <1>2, <1>3, <1>4, <1>5, <1>6, <1>7, <1>8, <1>9, <1>10, <1>11,
     <1>12, <1>13, <1>14, <1>15, <1>16, <1>17, <1>18, <1>19, <1>20, <1>21,
     <1>22, <1>23, <1>24, <1>25, <1>26, <1>27, <1>28, <1>29, <1>30, <1>31,
     <1>32 DEF Next, Boot, Commands, Handlers, TaskProcess

\* Every step of a managed node keeps what the service has heard in step with the
\* node.
LEMMA ViewStep ==
    ASSUME Managed, TypeInv, PcShape, DiskShape, ViewShape, [Next]_vars
    PROVE  ViewShape'
<1> USE AgentAssumption DEF TypeInv, TypeOK, Shape, PcShape, DiskShape,
        ViewShape, LoopView, StateOf, Over, Executing, InLoop, Starting,
        Reporting, SchedulerKind, memory, files, procs, service, history
<1>1. CASE Start
  BY <1>1 DEF Start
<1>2. CASE LoadReboot
  BY <1>2 DEF LoadReboot
<1>3. CASE ResetWork
  BY <1>3 DEF ResetWork
<1>4. CASE CheckWork
  BY <1>4 DEF CheckWork
<1>5. CASE ReportUnit
  BY <1>5 DEF ReportUnit
<1>6. CASE ReportDone
  BY <1>6 DEF ReportDone
<1>7. CASE ReportLock
  BY <1>7 DEF ReportLock, Fail, LoseMemory
<1>8. CASE EmitInit
  BY <1>8 DEF EmitInit
<1>9. CASE ExecuteCommand
  <2>1. CASE StopNow
    BY <1>9, <2>1 DEF ExecuteCommand, StopNow
  <2>2. CASE \E t \in Tasks : StopTask(t)
    BY <1>9, <2>2 DEF ExecuteCommand, StopTask, StopSlots
  <2>3. CASE IgnoreCommand
    BY <1>9, <2>3 DEF ExecuteCommand, IgnoreCommand
  <2> QED
    BY <1>9, <2>1, <2>2, <2>3 DEF ExecuteCommand
<1>10. CASE NoCommand
  BY <1>10 DEF NoCommand
<1>11. CASE CommandFailed
  BY <1>11 DEF CommandFailed, Fail, LoseMemory
<1>12. CASE EmitStateUpdate
  BY <1>12 DEF EmitStateUpdate, StateOf
<1>13. CASE FreeNoWork
  BY <1>13 DEF FreeNoWork, InBody
<1>14. CASE FreeClaim
  BY <1>14 DEF FreeClaim, InBody
<1>15. CASE SaveContext
  BY <1>15 DEF SaveContext, InBody
<1>16. CASE SetupError
  BY <1>16 DEF SetupError, InBody
<1>17. CASE FinishSetup
  BY <1>17 DEF FinishSetup
<1>18. CASE SaveReboot
  BY <1>18 DEF SaveReboot, InBody
<1>19. CASE Reboot
  BY <1>19 DEF Reboot, Fail, LoseMemory
<1>20. CASE RunWorkers
  BY <1>20 DEF RunWorkers, InBody
<1>21. CASE UpdateWorkers
  BY <1>21 DEF UpdateWorkers, InBody, AllWorkersDone
<1>22. CASE StartFailed
  BY <1>22 DEF StartFailed, InBody, Fail, LoseMemory
<1>23. CASE StartHangs
  BY <1>23 DEF StartHangs, InBody
<1>24. CASE UpdatePanic
  BY <1>24 DEF UpdatePanic, InBody, Fail, LoseMemory
<1>25. CASE EmitWorkerEvent
  BY <1>25 DEF EmitWorkerEvent
<1>26. CASE EndUpdate
  BY <1>26 DEF EndUpdate
<1>27. CASE SetDoneLock
  BY <1>27 DEF SetDoneLock, InHandler
<1>28. CASE EmitDone
  BY <1>28 DEF EmitDone, LoseMemory
<1>29. CASE TaskExits
  BY <1>29 DEF TaskExits
<1>30. CASE TaskShutsDown
  BY <1>30 DEF TaskShutsDown
<1>31. CASE Die
  BY <1>31 DEF Die, Fail, LoseMemory
<1>32. CASE UNCHANGED vars
  BY <1>32 DEF vars
<1> QED
  BY <1>1, <1>2, <1>3, <1>4, <1>5, <1>6, <1>7, <1>8, <1>9, <1>10, <1>11,
     <1>12, <1>13, <1>14, <1>15, <1>16, <1>17, <1>18, <1>19, <1>20, <1>21,
     <1>22, <1>23, <1>24, <1>25, <1>26, <1>27, <1>28, <1>29, <1>30, <1>31,
     <1>32 DEF Next, Boot, Commands, Handlers, TaskProcess

\* Every step of a managed node keeps the account of its crash reports.
LEMMA CrashStep ==
    ASSUME Managed, TypeInv, PcShape, DiskShape, CrashShape, [Next]_vars
    PROVE  CrashShape'
<1> USE AgentAssumption DEF TypeInv, TypeOK, Shape, PcShape, DiskShape,
        CrashShape, Executing, InLoop, Starting, Reporting, SchedulerKind,
        WorkerEvent, memory, files, procs, service, history
<1>1. CASE Start
  BY <1>1 DEF Start
<1>2. CASE LoadReboot
  BY <1>2 DEF LoadReboot
<1>3. CASE ResetWork
  BY <1>3 DEF ResetWork
<1>4. CASE CheckWork
  <2>1. CASE workCtx = None
    BY <1>4, <2>1 DEF CheckWork
  <2>2. CASE workCtx # None
    <3>1. /\ TasksOf[workCtx] # {} /\ pc' = "ReportUnits" /\ workCtx' = workCtx
          /\ outbox' = {[task |-> t, kind |-> "DoneErr"] : t \in TasksOf[workCtx]}
      BY <1>4, <2>2 DEF CheckWork
    <3>2. /\ \A e \in outbox' : e.task \in TasksOf[workCtx]
          /\ \A t \in TasksOf[workCtx] :
               [task |-> t, kind |-> "DoneErr"] \in outbox'
      BY <3>1
    <3>3. \A t \in TasksOf[workCtx] : \E e \in outbox' : e.task = t
      BY <3>2
    <3> QED
      BY <3>1, <3>2, <3>3
  <2> QED
    BY <2>1, <2>2
<1>5. CASE ReportUnit
  BY <1>5 DEF ReportUnit
<1>6. CASE ReportDone
  BY <1>6 DEF ReportDone
<1>7. CASE ReportLock
  BY <1>7 DEF ReportLock, Fail, LoseMemory
<1>8. CASE EmitInit
  BY <1>8 DEF EmitInit
<1>9. CASE ExecuteCommand
  <2>1. CASE StopNow
    BY <1>9, <2>1 DEF ExecuteCommand, StopNow
  <2>2. CASE \E t \in Tasks : StopTask(t)
    BY <1>9, <2>2 DEF ExecuteCommand, StopTask, StopSlots
  <2>3. CASE IgnoreCommand
    BY <1>9, <2>3 DEF ExecuteCommand, IgnoreCommand
  <2> QED
    BY <1>9, <2>1, <2>2, <2>3 DEF ExecuteCommand
<1>10. CASE NoCommand
  BY <1>10 DEF NoCommand
<1>11. CASE CommandFailed
  BY <1>11 DEF CommandFailed, Fail, LoseMemory
<1>12. CASE EmitStateUpdate
  BY <1>12 DEF EmitStateUpdate, StateOf
<1>13. CASE FreeNoWork
  BY <1>13 DEF FreeNoWork, InBody
<1>14. CASE FreeClaim
  BY <1>14 DEF FreeClaim, InBody
<1>15. CASE SaveContext
  BY <1>15 DEF SaveContext, InBody
<1>16. CASE SetupError
  BY <1>16 DEF SetupError, InBody
<1>17. CASE FinishSetup
  BY <1>17 DEF FinishSetup
<1>18. CASE SaveReboot
  BY <1>18 DEF SaveReboot, InBody
<1>19. CASE Reboot
  BY <1>19 DEF Reboot, Fail, LoseMemory
<1>20. CASE RunWorkers
  BY <1>20 DEF RunWorkers, InBody
<1>21. CASE UpdateWorkers
  BY <1>21 DEF UpdateWorkers, InBody, AllWorkersDone
<1>22. CASE StartFailed
  BY <1>22 DEF StartFailed, InBody, Fail, LoseMemory
<1>23. CASE StartHangs
  BY <1>23 DEF StartHangs, InBody
<1>24. CASE UpdatePanic
  BY <1>24 DEF UpdatePanic, InBody, Fail, LoseMemory
<1>25. CASE EmitWorkerEvent
  BY <1>25 DEF EmitWorkerEvent
<1>26. CASE EndUpdate
  BY <1>26 DEF EndUpdate
<1>27. CASE SetDoneLock
  BY <1>27 DEF SetDoneLock, InHandler
<1>28. CASE EmitDone
  BY <1>28 DEF EmitDone, LoseMemory
<1>29. CASE TaskExits
  BY <1>29 DEF TaskExits
<1>30. CASE TaskShutsDown
  BY <1>30 DEF TaskShutsDown
<1>31. CASE Die
  BY <1>31 DEF Die, Fail, LoseMemory
<1>32. CASE UNCHANGED vars
  BY <1>32 DEF vars
<1> QED
  BY <1>1, <1>2, <1>3, <1>4, <1>5, <1>6, <1>7, <1>8, <1>9, <1>10, <1>11,
     <1>12, <1>13, <1>14, <1>15, <1>16, <1>17, <1>18, <1>19, <1>20, <1>21,
     <1>22, <1>23, <1>24, <1>25, <1>26, <1>27, <1>28, <1>29, <1>30, <1>31,
     <1>32 DEF Next, Boot, Commands, Handlers, TaskProcess

\* Every step of a managed node keeps a clean Done event true.
LEMMA CleanStep ==
    ASSUME Managed, TypeInv, PcShape, DiskShape, TaskShape, ViewShape,
           CleanDone, [Next]_vars
    PROVE  CleanDone'
<1> USE AgentAssumption DEF TypeInv, TypeOK, Shape, PcShape, DiskShape,
        TaskShape, ViewShape, Executing, CleanDone, InLoop, Starting, Reporting,
        SchedulerKind, DoneCause, memory, files, procs, service, history
<1>1. CASE Start
  BY <1>1 DEF Start
<1>2. CASE LoadReboot
  BY <1>2 DEF LoadReboot
<1>3. CASE ResetWork
  BY <1>3 DEF ResetWork
<1>4. CASE CheckWork
  BY <1>4 DEF CheckWork
<1>5. CASE ReportUnit
  BY <1>5 DEF ReportUnit
<1>6. CASE ReportDone
  BY <1>6 DEF ReportDone
<1>7. CASE ReportLock
  BY <1>7 DEF ReportLock, Fail, LoseMemory
<1>8. CASE EmitInit
  BY <1>8 DEF EmitInit
<1>9. CASE ExecuteCommand
  <2>1. CASE StopNow
    BY <1>9, <2>1 DEF ExecuteCommand, StopNow
  <2>2. CASE \E t \in Tasks : StopTask(t)
    BY <1>9, <2>2 DEF ExecuteCommand, StopTask, StopSlots
  <2>3. CASE IgnoreCommand
    BY <1>9, <2>3 DEF ExecuteCommand, IgnoreCommand
  <2> QED
    BY <1>9, <2>1, <2>2, <2>3 DEF ExecuteCommand
<1>10. CASE NoCommand
  BY <1>10 DEF NoCommand
<1>11. CASE CommandFailed
  BY <1>11 DEF CommandFailed, Fail, LoseMemory
<1>12. CASE EmitStateUpdate
  BY <1>12 DEF EmitStateUpdate, StateOf
<1>13. CASE FreeNoWork
  BY <1>13 DEF FreeNoWork, InBody
<1>14. CASE FreeClaim
  BY <1>14 DEF FreeClaim, InBody
<1>15. CASE SaveContext
  BY <1>15 DEF SaveContext, InBody
<1>16. CASE SetupError
  BY <1>16 DEF SetupError, InBody
<1>17. CASE FinishSetup
  BY <1>17 DEF FinishSetup
<1>18. CASE SaveReboot
  BY <1>18 DEF SaveReboot, InBody
<1>19. CASE Reboot
  BY <1>19 DEF Reboot, Fail, LoseMemory
<1>20. CASE RunWorkers
  BY <1>20 DEF RunWorkers, InBody
<1>21. CASE UpdateWorkers
  BY <1>21 DEF UpdateWorkers, InBody, AllWorkersDone
<1>22. CASE StartFailed
  BY <1>22 DEF StartFailed, InBody, Fail, LoseMemory
<1>23. CASE StartHangs
  BY <1>23 DEF StartHangs, InBody
<1>24. CASE UpdatePanic
  BY <1>24 DEF UpdatePanic, InBody, Fail, LoseMemory
<1>25. CASE EmitWorkerEvent
  BY <1>25 DEF EmitWorkerEvent
<1>26. CASE EndUpdate
  BY <1>26 DEF EndUpdate
<1>27. CASE SetDoneLock
  BY <1>27 DEF SetDoneLock, InHandler
<1>28. CASE EmitDone
  BY <1>28 DEF EmitDone, LoseMemory
<1>29. CASE TaskExits
  BY <1>29 DEF TaskExits
<1>30. CASE TaskShutsDown
  BY <1>30 DEF TaskShutsDown
<1>31. CASE Die
  BY <1>31 DEF Die, Fail, LoseMemory
<1>32. CASE UNCHANGED vars
  BY <1>32 DEF vars
<1> QED
  BY <1>1, <1>2, <1>3, <1>4, <1>5, <1>6, <1>7, <1>8, <1>9, <1>10, <1>11,
     <1>12, <1>13, <1>14, <1>15, <1>16, <1>17, <1>18, <1>19, <1>20, <1>21,
     <1>22, <1>23, <1>24, <1>25, <1>26, <1>27, <1>28, <1>29, <1>30, <1>31,
     <1>32 DEF Next, Boot, Commands, Handlers, TaskProcess

\* The initial state has nothing to keep track of.
LEMMA InvInit == Init => TypeInv /\ AgentInv
<1> SUFFICES ASSUME Init PROVE AgentInv
  BY TypeInit
<1> USE DEF Init, NoWorkers
<1>1. PcShape
  BY DEF PcShape
<1>2. DiskShape /\ ClaimShape
  BY DEF DiskShape, ClaimShape, Executing, InLoop, Reporting
<1>3. TaskShape
  BY DEF TaskShape, Executing
<1>4. ViewShape
  BY DEF ViewShape
<1>5. CrashShape /\ CleanDone
  BY DEF CrashShape, CleanDone
<1> QED
  BY <1>1, <1>2, <1>3, <1>4, <1>5 DEF AgentInv, ManagedInv

\* Every step keeps the invariant.
LEMMA InvStep == TypeInv /\ AgentInv /\ [Next]_vars => TypeInv' /\ AgentInv'
<1> SUFFICES ASSUME TypeInv, AgentInv, [Next]_vars PROVE AgentInv'
  BY TypeStep
<1>1. PcShape'
  BY PcStep DEF AgentInv
<1>2. ASSUME Managed PROVE ManagedInv'
  <2>1. /\ PcShape /\ DiskShape /\ ClaimShape /\ TaskShape /\ ViewShape
        /\ CrashShape /\ CleanDone
    BY <1>2 DEF AgentInv, ManagedInv
  <2>2. DiskShape' /\ ClaimShape'
    BY <1>2, <2>1, DiskStep, ClaimStep
  <2>3. TaskShape' /\ ViewShape'
    BY <1>2, <2>1, TaskStep, ViewStep
  <2>4. CrashShape' /\ CleanDone'
    BY <1>2, <2>1, CrashStep, CleanStep
  <2> QED
    BY <2>2, <2>3, <2>4 DEF ManagedInv
<1> QED
  BY <1>1, <1>2 DEF AgentInv, ManagedInv

\* The invariant holds in every reachable state.
LEMMA AgentInvariant == Spec => [](TypeInv /\ AgentInv)
<1>1. Init => TypeInv /\ AgentInv
  BY InvInit
<1>2. TypeInv /\ AgentInv /\ [Next]_vars => (TypeInv /\ AgentInv)'
  BY InvStep
<1> QED
  BY <1>1, <1>2, PTL DEF Spec

\* On a managed node everything that runs tasks is backed by the work set context
\* on disk (main.rs:251 reports it after a death), and a claimed work set is
\* forgotten only by a death before the context is saved (work.rs:214,
\* setup.rs:70) or between a stop of such a work set and the done lock.
THEOREM NodeTracksWork == Spec => []WorkTracked
<1>1. TypeInv /\ AgentInv => WorkTracked
  <2> SUFFICES ASSUME TypeInv, AgentInv, Managed PROVE WorkTracked
    BY DEF WorkTracked, ContextBacksWork, ClaimTracked
  <2> USE DEF AgentInv, ManagedInv
  <2>1. ContextBacksWork
    BY DEF ContextBacksWork, DiskShape, TaskShape, Executing
  <2>2. ClaimTracked
    BY DEF ClaimTracked, ClaimShape, DiskShape
  <2> QED
    BY <2>1, <2>2 DEF WorkTracked
<1> QED
  BY <1>1, AgentInvariant, PTL

\* On a managed node a Done event without an error means that every task has been
\* reported done or was stopped by a command, and the exit status reported of a
\* task is that of its process, which has exited (worker.rs:292).
THEOREM NodeTellsTruth == Spec => []DoneIsTrue
<1>1. TypeInv /\ AgentInv => DoneIsTrue
  BY DEF AgentInv, ManagedInv, DoneIsTrue, CleanDone, DoneMeansExited, TaskShape
<1> QED
  BY <1>1, AgentInvariant, PTL

\* What the contract's definitions say of the agent's variables.
LEMMA ContractInit == Init => Contract!Init
  BY DEF Init, Contract!Init

\* Every step of a managed node is a step of the contract, or none of its variables
\* changes.
LEMMA ContractStep ==
    ASSUME Managed, TypeInv, AgentInv, [Next]_vars
    PROVE  [Contract!Next]_(Contract!cvars)
<1> USE AgentAssumption DEF TypeInv, TypeOK, Shape, AgentInv, ManagedInv,
        PcShape, DiskShape, ViewShape, LoopView, StateOf, Over, Executing,
        InLoop, Starting, Reporting, memory, files, procs, service, history,
        Contract!Next, Contract!cvars, Contract!Over
<1>1. CASE Start
  BY <1>1 DEF Start
<1>2. CASE LoadReboot
  BY <1>2 DEF LoadReboot
<1>3. CASE ResetWork
  BY <1>3 DEF ResetWork
<1>4. CASE CheckWork
  BY <1>4 DEF CheckWork
<1>5. CASE ReportUnit
  BY <1>5 DEF ReportUnit, CrashShape, Contract!ReportCrash
<1>6. CASE ReportDone
  BY <1>6 DEF ReportDone, CrashShape, Contract!Finish
<1>7. CASE ReportLock
  BY <1>7 DEF ReportLock, Contract!Close
<1>8. CASE EmitInit
  BY <1>8 DEF EmitInit, Contract!Announce
<1>9. CASE ExecuteCommand
  BY <1>9 DEF ExecuteCommand
<1>10. CASE NoCommand
  BY <1>10 DEF NoCommand
<1>11. CASE CommandFailed
  BY <1>11 DEF CommandFailed
<1>12. CASE EmitStateUpdate
  BY <1>12 DEF EmitStateUpdate, Contract!Announce, Contract!Advance
<1>13. CASE FreeNoWork
  BY <1>13 DEF FreeNoWork, InBody
<1>14. CASE FreeClaim
  BY <1>14 DEF FreeClaim, InBody
<1>15. CASE SaveContext
  BY <1>15 DEF SaveContext, InBody, Contract!Commit
<1>16. CASE SetupError
  BY <1>16 DEF SetupError, InBody
<1>17. CASE FinishSetup
  BY <1>17 DEF FinishSetup
<1>18. CASE SaveReboot
  BY <1>18 DEF SaveReboot, InBody
<1>19. CASE Reboot
  BY <1>19 DEF Reboot
<1>20. CASE RunWorkers
  BY <1>20 DEF RunWorkers, InBody
<1>21. CASE UpdateWorkers
  BY <1>21 DEF UpdateWorkers
<1>22. CASE StartFailed
  BY <1>22 DEF StartFailed
<1>23. CASE StartHangs
  BY <1>23 DEF StartHangs
<1>24. CASE UpdatePanic
  BY <1>24 DEF UpdatePanic
<1>25. CASE EmitWorkerEvent
  <2>1. PICK e \in outbox : taskView' = [taskView EXCEPT ![e.task] = e.kind]
    BY <1>25 DEF EmitWorkerEvent
  <2>2. /\ pc = "EmitEvents" /\ UNCHANGED <<view, workCtx, doneLock>>
        /\ e.task \in Tasks
    BY <1>25 DEF EmitWorkerEvent, WorkerEvent
  <2>3. workCtx # None /\ ~doneLock /\ view = "Busy" /\ Executing
    BY <2>2
  <2>4. /\ e.task \in TasksOf[workCtx]
        /\ \/ taskView[e.task] = "None" /\ e.kind = "Running"
           \/ taskView[e.task] = "Running" /\ e.kind \in {"DoneOk", "DoneErr"}
    BY <2>2, <2>3 DEF TaskShape
  <2>5. Contract!TaskEvent
    BY <2>1, <2>2, <2>3, <2>4 DEF Contract!TaskEvent
  <2> QED
    BY <2>5
<1>26. CASE EndUpdate
  BY <1>26 DEF EndUpdate
<1>27. CASE SetDoneLock
  BY <1>27 DEF SetDoneLock, InHandler, Contract!Close
<1>28. CASE EmitDone
  BY <1>28 DEF EmitDone, Contract!Finish
<1>29. CASE TaskExits
  BY <1>29 DEF TaskExits
<1>30. CASE TaskShutsDown
  BY <1>30 DEF TaskShutsDown
<1>31. CASE Die
  BY <1>31 DEF Die
<1>32. CASE UNCHANGED vars
  BY <1>32 DEF vars
<1> QED
  BY <1>1, <1>2, <1>3, <1>4, <1>5, <1>6, <1>7, <1>8, <1>9, <1>10, <1>11,
     <1>12, <1>13, <1>14, <1>15, <1>16, <1>17, <1>18, <1>19, <1>20, <1>21,
     <1>22, <1>23, <1>24, <1>25, <1>26, <1>27, <1>28, <1>29, <1>30, <1>31,
     <1>32 DEF Next, Boot, Commands, Handlers, TaskProcess

\* The detailed agent implements the contract of a managed node image: the order in
\* which its announcements, its task events and its done lock can appear, through
\* deaths, restarts, reboots and stop commands (Contract is NodeContract with the
\* work set context as the committed work set and the done lock as its end).
THEOREM NodeKeepsContract == Managed => (Spec => ImplementsContract)
<1> SUFFICES ASSUME Managed PROVE Spec => Contract!Spec
  BY DEF ImplementsContract
<1>1. Init => Contract!Init
  BY ContractInit
<1>2. TypeInv /\ AgentInv /\ [Next]_vars => [Contract!Next]_(Contract!cvars)
  BY ContractStep
<1> QED
  BY <1>1, <1>2, AgentInvariant, PTL DEF Spec, Contract!Spec
=============================================================================
