---------------------------- MODULE TaskProcess ----------------------------
(***************************************************************************)
(* One worker of the agent and the onefuzz-task process it supervises:     *)
(* the start of the process and the two IPC connections it must make, the  *)
(* threads that tail its output streams, the polling of its exit status,   *)
(* the stop of the worker, and on the other side the three futures that    *)
(* the process selects on (the task itself, the memory check, the          *)
(* listener that waits for the agent to close the channel).                *)
(*                                                                         *)
(* Both programs run on a tokio Runtime that is dropped when they return;  *)
(* the drop waits for every call that was given to spawn_blocking.         *)
(***************************************************************************)
EXTENDS Naturals, Sequences

CONSTANTS
    Streams,          \* the redirected output streams
    MaxOut,           \* bound: what is written to one stream
    MaxTail,          \* MAX_TAIL_LEN, the capacity of a TailBuffer
    MaxOomErrors,     \* MAX_OOM_QUERY_ERRORS
    MinMemory         \* min_available_memory_mb: 0 switches the check off

TaskProcessAssumption ==
    /\ Streams # {}
    /\ MaxOut \in Nat /\ MaxTail \in Nat /\ MaxOomErrors \in Nat /\ MinMemory \in Nat

VARIABLES
    w,        \* the worker: Worker, and where the agent is inside try_wait
    ret,      \* what a try_wait that is joining the streams leads to
    out,      \* Done.output
    stopped,  \* the worker has been stopped by a command
    accept1,  \* the thread that blocks in from_agent_to_task_server.accept()
    accept2,  \* the thread that blocks in from_task_to_agent_server.accept()
    chan,     \* where the sending end of the channel agent -> task is
    chan2,    \* where the receiving end of the channel task -> agent is
    p,        \* where the process is
    result,   \* its result
    listener, \* shutdown_listener
    oom,      \* check_oom is still polled
    errors,   \* consecutive_query_errors
    low,      \* the memory has fallen below the minimum
    heir,     \* a child of the task, with inherited output streams, is alive
    written,  \* all that has been written to a stream
    pipe,     \* what its reader thread has not read yet
    tail,     \* its TailBuffer
    reader    \* the reader thread: "reading", or it has returned its buffer

agent == <<w, ret, out, stopped, accept1, accept2>>
ipc == <<chan, chan2>>
task == <<p, result, listener, oom, errors, low, heir>>
streams == <<written, pipe, tail, reader>>
vars == <<agent, ipc, task, streams>>

Alive == {"Boot", "Connected", "Main", "DropRuntime"}

TypeOK ==
    /\ w \in {"Ready", "Accept1", "Accept2", "Running", "Stopping", "Join",
              "Done", "Failed", "Gone"}
    /\ ret \in {"None", "Done", "Failed"}
    /\ stopped \in BOOLEAN
    /\ accept1 \in {"none", "blocked", "returned"}
    /\ accept2 \in {"none", "blocked", "returned"}
    /\ chan \in {"none", "sent", "held", "closed"}
    /\ chan2 \in {"none", "sent", "held", "closed"}
    /\ p \in {"none", "Exited"} \cup Alive
    /\ result \in {"none", "ok", "err"}
    /\ listener \in {"none", "recv", "ended", "broken"}
    /\ oom \in BOOLEAN /\ low \in BOOLEAN /\ heir \in BOOLEAN
    /\ errors \in 0..MaxOomErrors + 1
    /\ written \in [Streams -> 0..MaxOut]
    /\ pipe \in [Streams -> Seq(1..MaxOut)]
    /\ tail \in [Streams -> Seq(1..MaxOut)]
    /\ \A s \in Streams : Len(tail[s]) <= MaxTail
    /\ reader \in [Streams -> {"none", "reading", "returned"}]

Init ==
    /\ w = "Ready" /\ ret = "None" /\ stopped = FALSE
    /\ out = [s \in Streams |-> <<>>]
    /\ accept1 = "none" /\ accept2 = "none"
    /\ chan = "none" /\ chan2 = "none"
    /\ p = "none" /\ result = "none" /\ listener = "none"
    /\ oom = (MinMemory # 0) /\ errors = 0 /\ low = FALSE /\ heir = FALSE
    /\ written = [s \in Streams |-> 0]
    /\ pipe = [s \in Streams |-> <<>>]
    /\ tail = [s \in Streams |-> <<>>]
    /\ reader = [s \in Streams |-> "none"]

----------------------------------------------------------------------------
(* The agent: worker.rs                                                    *)

\* The worker and what it owns are dropped: the ends of the channels close.
CloseIpc ==
    /\ chan' = IF chan = "held" THEN "closed" ELSE chan
    /\ chan2' = IF chan2 = "held" THEN "closed" ELSE chan2

\* WorkerRunner::run: the configuration is written and the process spawned, with
\* a reader thread for each stream; the first accept starts to block.
Spawn ==
    /\ w = "Ready"
    /\ w' = "Accept1"
    /\ accept1' = "blocked"
    /\ p' = "Boot"
    /\ reader' = [s \in Streams |-> "reading"]
    /\ UNCHANGED <<ret, out, stopped, accept2, ipc, result, listener, oom, errors,
                   low, heir, written, pipe, tail>>

SpawnFails ==
    /\ w = "Ready"
    /\ w' = "Failed"
    /\ UNCHANGED <<ret, out, stopped, accept1, accept2, ipc, task, streams>>

\* A blocked accept returns with what the task has sent.  The worker takes it
\* when it is still waiting; after a timeout nobody does and it is dropped.
Accept1Returns ==
    /\ accept1 = "blocked" /\ chan = "sent"
    /\ accept1' = "returned"
    /\ IF w = "Accept1"
       THEN w' = "Accept2" /\ accept2' = "blocked" /\ chan' = "held"
       ELSE chan' = "closed" /\ UNCHANGED <<w, accept2>>
    /\ UNCHANGED <<ret, out, stopped, chan2, task, streams>>

Accept2Returns ==
    /\ accept2 = "blocked" /\ chan2 = "sent"
    /\ accept2' = "returned"
    /\ IF w = "Accept2"
       THEN w' = "Running" /\ chan2' = "held"
       ELSE chan2' = "closed" /\ UNCHANGED w
    /\ UNCHANGED <<ret, out, stopped, accept1, chan, task, streams>>

\* RedirectedChild::try_wait on a process that has exited: the calling thread
\* joins the reader threads before it looks at anything else.
TryWait(then) ==
    /\ p = "Exited"
    /\ w' = "Join" /\ ret' = then

\* 30 seconds have passed: the exit status is looked at for the log, and the
\* error ends the agent.
AcceptTimeout ==
    /\ w \in {"Accept1", "Accept2"}
    /\ \/ TryWait("Failed") /\ UNCHANGED ipc
       \/ p # "Exited" /\ w' = "Failed" /\ CloseIpc /\ UNCHANGED ret
    /\ UNCHANGED <<out, stopped, accept1, accept2, task, streams>>

\* State<Running>::wait
Wait ==
    /\ w = "Running"
    /\ TryWait("Done")
    /\ UNCHANGED <<out, stopped, accept1, accept2, ipc, task, streams>>

\* StreamReaderThreads::join
Joined(s) == reader[s] = "returned"

JoinReturns ==
    /\ w = "Join"
    /\ \A s \in Streams : Joined(s)
    /\ out' = tail
    /\ w' = ret
    /\ CloseIpc
    /\ UNCHANGED <<ret, stopped, accept1, accept2, task, streams>>

\* State<Running>::stop keeps the child and drops the rest.
Stop ==
    /\ w = "Running"
    /\ w' = "Stopping"
    /\ stopped' = TRUE
    /\ CloseIpc
    /\ UNCHANGED <<ret, out, accept1, accept2, task, streams>>

\* State<Stopping>::kill: one of its polls
StopWait ==
    /\ w = "Stopping"
    /\ TryWait("Done")
    /\ UNCHANGED <<out, stopped, accept1, accept2, ipc, task, streams>>

\* RedirectedChild::kill: the process is suspended, then killed; errors of both
\* are ignored.
Kill == p' = "Exited" /\ result' = "err"

\* State<Stopping>::kill after 90 seconds: the process is suspended and killed,
\* and the error ends the agent.
StopTimeout ==
    /\ w = "Stopping" /\ p \in Alive
    /\ Kill
    /\ w' = "Failed"
    /\ UNCHANGED <<ret, out, stopped, accept1, accept2, ipc, listener, oom, errors,
                   low, heir, streams>>

\* main.rs: the error leaves run, whose Runtime is dropped; the drop waits for
\* the calls that block in accept.
AgentEnds ==
    /\ w = "Failed"
    /\ accept1 # "blocked" /\ accept2 # "blocked"
    /\ w' = "Gone"
    /\ UNCHANGED <<ret, out, stopped, accept1, accept2, ipc, task, streams>>

----------------------------------------------------------------------------
(* The threads that tail the streams                                       *)

\* buffer.rs: TailBuffer::write
TailBuffer(b, new) ==
    LET all == b \o new
    IN IF Len(all) > MaxTail
       THEN SubSeq(all, Len(all) - MaxTail + 1, Len(all))
       ELSE all

\* A read returns part of what is in the pipe.
Read(s) ==
    /\ reader[s] = "reading"
    /\ \E n \in 1..Len(pipe[s]) :
         /\ tail' = [tail EXCEPT ![s] = TailBuffer(@, SubSeq(pipe[s], 1, n))]
         /\ pipe' = [pipe EXCEPT ![s] = SubSeq(@, n + 1, Len(@))]
    /\ UNCHANGED <<agent, ipc, task, written, reader>>

\* Mutant of ReadEnd(s): the thread stops with the task, not with the pipe.
ReadEnd_WithTask(s) ==
    /\ reader[s] = "reading"
    /\ pipe[s] = <<>> /\ p = "Exited"
    /\ reader' = [reader EXCEPT ![s] = "returned"]
    /\ UNCHANGED <<agent, ipc, task, written, pipe, tail>>

\* The pipe ends when no process holds its writing end any more.
ReadEnd(s) ==
    /\ reader[s] = "reading"
    /\ pipe[s] = <<>> /\ p = "Exited" /\ ~heir
    /\ reader' = [reader EXCEPT ![s] = "returned"]
    /\ UNCHANGED <<agent, ipc, task, written, pipe, tail>>

----------------------------------------------------------------------------
(* The process: onefuzz-task/src/main.rs and managed/cmd.rs                *)

\* The configuration cannot be read, or the task is killed from outside.
Killed ==
    /\ p \in Alive
    /\ p' = "Exited" /\ result' = "err"
    /\ UNCHANGED <<agent, ipc, listener, oom, errors, low, heir, streams>>

\* The sending end is sent to the agent, whose first server exists as long as
\* its accept has not returned.
Connect1 ==
    /\ p = "Boot"
    /\ p' = "Connected" /\ chan' = "sent"
    /\ UNCHANGED <<agent, chan2, result, listener, oom, errors, low, heir, streams>>

\* The second server is dropped when the worker gives up before it blocks on it.
Server2 == w \in {"Accept1", "Accept2"} \/ accept2 = "blocked"

Connect2 ==
    /\ p = "Connected"
    /\ IF Server2
       THEN /\ chan2' = "sent" /\ listener' = "recv" /\ p' = "Main"
            /\ UNCHANGED result
       ELSE /\ p' = "Exited" /\ result' = "err"
            /\ UNCHANGED <<chan2, listener>>
    /\ UNCHANGED <<agent, chan, oom, errors, low, heir, streams>>

\* shutdown_listener: recv fails when the agent has closed the channel
Listen ==
    /\ listener = "recv" /\ p \in Alive
    /\ chan = "closed"
    /\ listener' = "ended"
    /\ UNCHANGED <<agent, ipc, p, result, oom, errors, low, heir, streams>>

\* recv fails for another reason: a message that cannot be decoded, or an I/O error
ReceiveFails ==
    /\ listener = "recv" /\ p \in Alive
    /\ listener' = "broken"
    /\ UNCHANGED <<agent, ipc, p, result, oom, errors, low, heir, streams>>

\* The select! of run: its first branch that completes gives the result.
Select(r) ==
    /\ p = "Main"
    /\ p' = "DropRuntime" /\ result' = r
    /\ UNCHANGED <<agent, ipc, listener, oom, errors, low, heir, streams>>

TaskEnds == \E r \in {"ok", "err"} : Select(r)
OutOfMemory == oom /\ low /\ Select("err")
Shutdown == listener \in {"ended", "broken"} /\ Select("ok")

\* out_of_memory: a query of the memory that fails or finds enough
QueryMemory ==
    /\ p = "Main" /\ oom /\ ~low
    /\ \/ /\ errors' = errors + 1
          /\ oom' = (errors' <= MaxOomErrors)
       \/ /\ errors # 0 /\ errors' = 0
          /\ UNCHANGED oom
    /\ UNCHANGED <<agent, ipc, p, result, listener, low, heir, streams>>

MemoryFalls ==
    /\ p = "Main" /\ ~low
    /\ low' = TRUE
    /\ UNCHANGED <<agent, ipc, p, result, listener, oom, errors, heir, streams>>

\* main returns: the Runtime is dropped, which waits for shutdown_listener.
Exit ==
    /\ p = "DropRuntime"
    /\ listener \in {"ended", "broken"}
    /\ p' = "Exited"
    /\ UNCHANGED <<agent, ipc, result, listener, oom, errors, low, heir, streams>>

\* Output of the task or of a child of it.
Write(s) ==
    /\ p \in Alive \/ heir
    /\ written[s] < MaxOut
    /\ written' = [written EXCEPT ![s] = @ + 1]
    /\ pipe' = [pipe EXCEPT ![s] = Append(@, written'[s])]
    /\ UNCHANGED <<agent, ipc, task, tail, reader>>

\* report/dotnet/common.rs: collect_dump starts the target with the streams of
\* the task, and nothing ends it when the task ends.
CollectDump ==
    /\ p = "Main" /\ ~heir
    /\ heir' = TRUE
    /\ UNCHANGED <<agent, ipc, p, result, listener, oom, errors, low, streams>>

HeirExits ==
    /\ heir
    /\ heir' = FALSE
    /\ UNCHANGED <<agent, ipc, p, result, listener, oom, errors, low, streams>>

Worker == \/ Spawn \/ SpawnFails \/ Accept1Returns \/ Accept2Returns \/ AcceptTimeout
          \/ Wait \/ JoinReturns \/ StopWait \/ StopTimeout \/ AgentEnds
Readers == \E s \in Streams : Read(s) \/ ReadEnd(s)
Runtime == \/ Connect1 \/ Connect2 \/ Listen \/ OutOfMemory \/ Shutdown \/ Exit
Environment == \/ Killed \/ ReceiveFails \/ TaskEnds \/ QueryMemory \/ MemoryFalls
               \/ CollectDump \/ HeirExits \/ (\E s \in Streams : Write(s))

Next == Worker \/ Stop \/ Readers \/ Runtime \/ Environment

Spec == Init /\ [][Next]_vars

\* The agent's loop and its threads keep running.  Nothing is asked of the task while
\* the agent lives; the runtime of a task that the agent has left polls its futures.
Left(A) == w \in {"Failed", "Gone"} /\ A
Fairness ==
    /\ WF_vars(Worker) /\ WF_vars(StopTimeout) /\ WF_vars(Readers)
    /\ WF_vars(Left(Connect1 \/ Connect2)) /\ WF_vars(Left(Listen))
    /\ WF_vars(Left(OutOfMemory)) /\ WF_vars(Left(Shutdown)) /\ WF_vars(Left(Exit))
FairSpec == Spec /\ Fairness

----------------------------------------------------------------------------
(* Properties                                                              *)

Last(n, k) == [i \in 1..(IF n < k THEN n ELSE k) |-> (IF n < k THEN 0 ELSE n - k) + i]

\* The output reported with the end of a task is the end of everything the task
\* and its children have written to the stream, whatever the reads looked like
\* and whoever held the stream last (worker.rs:637, buffer.rs:25).
OutputIsTail ==
    w = "Done" => \A s \in Streams : out[s] = Last(written[s], MaxTail)

\* A worker that is done has no process, and its channel is closed: nothing of
\* the task survives the end that the service is told of.
DoneIsOver == w = "Done" => p = "Exited" /\ ~heir /\ chan # "held"

\* Outside of a stop, a task is told to shut down by its channel only when the agent itself is
\* ending or the worker has given up on the connection (worker.rs:316, 327).
ShutdownMeant ==
    listener = "ended" => stopped \/ w \in {"Failed", "Gone"}

\* What the service is told of a task that is done is true of its process.
ProcessAccounted == TypeOK /\ OutputIsTail /\ DoneIsOver /\ ShutdownMeant

\* A worker that was told to stop has ended, or the agent has, even when the task does
\* not react, unless a child of the task keeps the streams open: try_wait then blocks
\* the agent in join and its timeout of 90 seconds never fires.
StopEnds == stopped => w \in {"Done", "Gone"} \/ heir

\* A task does not outlive an agent that failed: the closed channel, or the missing
\* server, ends it (managed/cmd.rs:79).
OrphanEnds == w = "Gone" => p \in {"none", "Exited"}
=============================================================================
