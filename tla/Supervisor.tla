----------------------------- MODULE Supervisor -----------------------------
(***************************************************************************)
(* The supervisor task (onefuzz-task, fuzz/supervisor.rs): it runs a       *)
(* fuzzer the user supplies, such as AFL, and looks after it with several  *)
(* futures of one try_join!; the heartbeats are collected by the task and  *)
(* sent by a background task of their own (heartbeat.rs).                  *)
(*                                                                         *)
(* The directory monitors are in ResultMonitor, the reports it picks up in *)
(* CrashReports; here they are futures that may fail.                      *)
(***************************************************************************)
EXTENDS Naturals

CONSTANTS WaitForFiles,     \* whether wait_for_files is set
          MaxAlive          \* bound: heartbeats

SupervisorAssumption == WaitForFiles \in BOOLEAN /\ MaxAlive \in Nat

VARIABLES phase,     \* "setup", "wait", "start", "run" or "failed"
          inputs,    \* whether the local inputs have files
          remote,    \* whether the container has files
          child,     \* "none", "running", "ok", "bad" or "waited"
          permit,    \* of stopped, a Notify
          timer,     \* the delay of is_notified has passed
          hb,        \* heartbeat_process: "off", "waiting" or "ended"
          alive,     \* heartbeats so far
          late,      \* history: heartbeats after the supervisor was waited for
          stats,     \* the statistics file: "absent", "whole" or "torn"
          pending,   \* pending_messages holds TaskAlive
          client,    \* the background task: "off", "delay", "loop", "done"
          cancelled  \* its Notify has a permit

vars == <<phase, inputs, remote, child, permit, timer, hb, alive, late, stats, pending, client, cancelled>>

TypeOK ==
    /\ phase \in {"setup", "wait", "start", "run", "failed"}
    /\ inputs \in BOOLEAN /\ remote \in BOOLEAN
    /\ child \in {"none", "running", "ok", "bad", "waited"}
    /\ permit \in BOOLEAN /\ timer \in BOOLEAN
    /\ hb \in {"off", "waiting", "ended"}
    /\ alive \in 0..MaxAlive /\ late \in 0..MaxAlive
    /\ stats \in {"absent", "whole", "torn"}
    /\ pending \in BOOLEAN /\ client \in {"off", "delay", "loop", "done"} /\ cancelled \in BOOLEAN
    /\ (hb # "off" => client # "off")

Init ==
    /\ phase = "setup" /\ inputs = FALSE /\ remote \in BOOLEAN
    /\ child = "none" /\ permit = FALSE /\ timer = FALSE
    /\ hb = "off" /\ alive = 0 /\ late = 0 /\ stats = "absent"
    /\ pending = FALSE /\ client = "off" /\ cancelled = FALSE

process == <<child, permit>>
beats == <<timer, hb, alive, late, pending, client, cancelled>>

(* An error of a joined future: all are dropped, the child is killed and   *)
(* the program ends.                                                       *)
Abort ==
    /\ phase' = "failed"
    /\ UNCHANGED <<inputs, remote, process, stats, beats>>

-----------------------------------------------------------------------------
(* spawn: tools, crashes, coverage and reports are initialised.            *)
SetUp ==
    /\ phase = "setup"
    /\ \/ /\ phase' = IF WaitForFiles THEN "wait" ELSE "start"
          /\ UNCHANGED <<inputs, remote, process, stats, beats>>
       \/ Abort

(* One turn of the loop that pulls until has_files.                        *)
PullUntilFiles ==
    /\ phase = "wait"
    /\ \/ /\ inputs' = remote
          /\ phase' = IF remote THEN "start" ELSE "wait"
          /\ UNCHANGED <<remote, process, stats, beats>>
       \/ Abort

(* start_supervisor and init_heartbeat.                                    *)
StartSupervisor ==
    /\ phase = "start"
    /\ \/ /\ phase' = "run" /\ child' = "running"
          /\ client' = "delay" /\ hb' = "waiting"
          /\ UNCHANGED <<inputs, remote, permit, stats, timer, alive, late, pending, cancelled>>
       \/ Abort

SupervisorExits ==
    /\ phase = "run" /\ child = "running"
    /\ child' \in {"ok", "bad"}
    /\ UNCHANGED <<phase, inputs, remote, permit, stats, beats>>

(* wait_process: stopped is notified, then a bad status is an error.       *)
WaitProcess ==
    /\ phase = "run" /\ child \in {"ok", "bad"}
    /\ child' = "waited" /\ permit' = TRUE
    /\ phase' = IF child = "bad" THEN "failed" ELSE "run"
    /\ UNCHANGED <<inputs, remote, stats, beats>>

(* monitor_process: a bad end of the process does not wait for its output. *)
MonitorProcess == WaitProcess

(* monitor_stream, the directory monitors, the pulls and pushes may fail.  *)
OtherFutureFails == phase = "run" /\ Abort

-----------------------------------------------------------------------------
DelayPasses ==
    /\ phase = "run" /\ hb = "waiting" /\ ~timer
    /\ timer' = TRUE
    /\ UNCHANGED <<phase, inputs, remote, process, stats, hb, alive, late, pending, client, cancelled>>

(* HeartbeatClient::drop                                                   *)
DropClient == hb' = "ended" /\ cancelled' = TRUE

(* alive: the set of pending messages holds TaskAlive.                     *)
SendAlive == pending' = TRUE /\ alive' = alive + 1

(* heartbeat_process, polled when the delay has passed or the permit is    *)
(* there; select! takes either branch if both are ready.  A permit that    *)
(* stays is found by the next is_notified at once.                         *)
HeartbeatProcess ==
    /\ phase = "run" /\ hb = "waiting"
    /\ \/ /\ permit /\ permit' = FALSE
          /\ DropClient
          /\ UNCHANGED <<alive, late, pending, timer>>
       \/ /\ timer /\ alive < MaxAlive
          /\ SendAlive /\ timer' = FALSE
          /\ late' = IF child = "waited" THEN late + 1 ELSE late
          /\ permit' = FALSE
          /\ IF permit THEN DropClient ELSE UNCHANGED <<hb, cancelled>>
    /\ UNCHANGED <<phase, inputs, remote, child, stats, client>>

(* The flush of init_task_heartbeat: the message set is drained, and lost  *)
(* if the queue cannot be reached.                                         *)
Flush == pending' = FALSE

(* The background task of init_heartbeat: a random delay, a flush for each *)
(* period, a last flush when the client is dropped.                        *)
ClientStep ==
    /\ client \in {"delay", "loop"} /\ phase # "failed"
    /\ \/ client = "delay" /\ client' = "loop" /\ UNCHANGED cancelled
       \/ client = "loop" /\ ~cancelled /\ UNCHANGED <<client, cancelled>>
       \/ client = "loop" /\ cancelled /\ cancelled' = FALSE /\ client' = "done"
    /\ Flush
    /\ UNCHANGED <<phase, inputs, remote, process, stats, timer, hb, alive, late>>

-----------------------------------------------------------------------------
(* The supervisor writes its statistics; a reader may find half a line.    *)
WriteStats ==
    /\ phase = "run" /\ child = "running"
    /\ stats' \in {"whole", "torn"} \ {stats}
    /\ UNCHANGED <<phase, inputs, remote, process, beats>>

(* read_stats fails if there is no file, and unwraps the value of every    *)
(* line: half a line has none.                                             *)
ReadStats == CASE stats = "absent" -> "error" [] stats = "whole" -> "events" [] stats = "torn" -> "panic"

(* monitor_stats ignores an error; a panic is the end of the program.      *)
MonitorStats ==
    /\ phase = "run"
    /\ IF ReadStats = "panic" THEN Abort ELSE UNCHANGED vars

(* Somebody uploads inputs.                                                *)
InputsArrive ==
    /\ ~remote /\ remote' = TRUE
    /\ UNCHANGED <<phase, inputs, process, stats, beats>>

Ended == phase = "failed" /\ UNCHANGED vars

Next ==
    \/ SetUp \/ PullUntilFiles \/ StartSupervisor \/ SupervisorExits \/ MonitorProcess
    \/ OtherFutureFails \/ DelayPasses \/ HeartbeatProcess \/ ClientStep
    \/ WriteStats \/ MonitorStats \/ InputsArrive \/ Ended

(* Futures that are ready are polled, delays pass.                         *)
Fairness ==
    /\ WF_vars(WaitProcess) /\ WF_vars(HeartbeatProcess) /\ WF_vars(ClientStep)

Spec == Init /\ [][Next]_vars /\ Fairness

-----------------------------------------------------------------------------
(* After the supervisor has been waited for at most one more heartbeat     *)
(* says that the task is alive: the permit of the notification is kept     *)
(* until heartbeat_process looks (wait_process, is_notified).              *)
OneLateHeartbeat == late <= 1

(* The last heartbeat is not left behind: when the background task ends,   *)
(* nothing is pending (init_heartbeat).                                    *)
LastFlush == client = "done" => ~pending

(* When the supervisor has ended, so have the heartbeats, or the task.     *)
StopHeard == child \in {"ok", "bad", "waited"} => client = "done" \/ phase = "failed"
=============================================================================
