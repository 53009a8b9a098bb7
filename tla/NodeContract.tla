---------------------------- MODULE NodeContract ----------------------------
(***************************************************************************)
(* What the service may rely on from one managed node image: the order in  *)
(* which the events of a node and of its tasks can arrive, whatever the    *)
(* agent goes through (deaths, restarts, reboots, stop commands).          *)
(***************************************************************************)
CONSTANTS Tasks, WorkSets, TasksOf, None

VARIABLES
    view,      \* the last state the node has announced
    taskView,  \* the last thing announced of each task
    committed, \* the work set the node answers for
    closed     \* the node will never take work again

cvars == <<view, taskView, committed, closed>>

Over == {"Done", "DoneError"}

Init ==
    /\ view = "None"
    /\ taskView = [t \in Tasks |-> "None"]
    /\ committed = None
    /\ closed = FALSE

\* A node with no work set to answer for says that it is there and free, as
\* often as its agent is started, and says when it takes a work set.
Announce ==
    /\ committed = None /\ ~closed /\ view \notin Over
    /\ \/ view' = "Init"
       \/ view \in {"Init", "Free"} /\ view' = "Free"
       \/ view = "Free" /\ view' = "SettingUp"
    /\ UNCHANGED <<taskView, committed, closed>>

\* The work set on disk: the only one the image will ever answer for.
Commit ==
    /\ committed = None /\ ~closed
    /\ view = "SettingUp"
    /\ \E w \in WorkSets : committed' = w
    /\ UNCHANGED <<view, taskView, closed>>

\* The announced states of a work set follow one another without a way back.
Advance ==
    /\ committed # None /\ ~closed
    /\ \/ view = "SettingUp" /\ view' \in {"Rebooting", "Ready"}
       \/ view = "Rebooting" /\ view' = "Ready"
       \/ view = "Ready" /\ view' = "Busy"
    /\ UNCHANGED <<taskView, committed, closed>>

\* A task of the work set starts, then ends.
TaskEvent ==
    /\ committed # None /\ ~closed
    /\ view = "Busy"
    /\ \E t \in TasksOf[committed] :
         \/ taskView[t] = "None" /\ taskView' = [taskView EXCEPT ![t] = "Running"]
         \/ /\ taskView[t] = "Running"
            /\ \E k \in {"DoneOk", "DoneErr"} :
                 taskView' = [taskView EXCEPT ![t] = k]
    /\ UNCHANGED <<view, committed, closed>>

\* The agent died: its tasks are reported as failed before the node is.
ReportCrash ==
    /\ committed # None /\ ~closed
    /\ view # "Done"
    /\ \E t \in TasksOf[committed] :
         taskView' = [taskView EXCEPT ![t] = "Crashed"]
    /\ UNCHANGED <<view, committed, closed>>

\* The node is done: after the lock, or before it when a crash is reported, in
\* which case every task of the work set has been reported.
Finish ==
    /\ view \notin Over
    /\ \/ closed /\ view' \in Over
       \/ /\ committed # None
          /\ \A t \in TasksOf[committed] : taskView[t] = "Crashed"
          /\ view' = "DoneError"
    /\ UNCHANGED <<taskView, committed, closed>>

Close ==
    /\ ~closed
    /\ closed' = TRUE
    /\ UNCHANGED <<view, taskView, committed>>

Next == Announce \/ Commit \/ Advance \/ TaskEvent \/ ReportCrash
            \/ Finish \/ Close

Spec == Init /\ [][Next]_cvars
=============================================================================
