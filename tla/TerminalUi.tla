------------------------------ MODULE TerminalUi ------------------------------
(***************************************************************************)
(* The terminal of onefuzz-task local (tui.rs): tasks and a thread that     *)
(* send events to one loop, which owns the state of the screen, and a       *)
(* broadcast that cancels them.  The command whose progress is shown sends  *)
(* the directories to count; its telemetry comes through the broadcast      *)
(* channel of onefuzz-telemetry, which forgets its oldest events when a     *)
(* receiver is slow.                                                        *)
(***************************************************************************)
EXTENDS Integers, Sequences, FiniteSets

CONSTANTS
    Announced,         \* the directories that the command announces, one after the other
    Kinds,             \* the kinds of telemetry that filter_event lets through
    LOGS_BUFFER_SIZE,
    LogBatch,          \* the logs that a refresh takes: 10
    Capacity,          \* of the broadcast channel: 5000
    Senders,           \* the senders that run: "tick", "keyboard", "commands", "telemetry", "timeout"
    MaxKeys, MaxFiles, MaxStats, MaxLogs,  \* what user and command do
    None

Dirs == {Announced[i] : i \in DOMAIN Announced}

TerminalUiAssumption ==
    /\ Announced \in Seq(Dirs) /\ None \notin Nat \cup {"wait", "read", "ended"}
    /\ LOGS_BUFFER_SIZE \in Nat \ {0} /\ LogBatch \in Nat \ {0} /\ Capacity \in Nat \ {0}
    /\ MaxKeys \in Nat /\ MaxFiles \in Nat /\ MaxStats \in Nat /\ MaxLogs \in Nat
    /\ Senders \subseteq {"tick", "keyboard", "commands", "telemetry", "timeout"}

VARIABLES
    raw,        \* the terminal is in raw mode, on the alternate screen
    cancelled,  \* the broadcast was sent, or its sender dropped
    senders,    \* those of Senders that have not ended
    loop,       \* ui_loop, and TerminalUi::run with it: "run", "ok", "error"; "returned" once all have ended
    cut,        \* run has failed, or the command ended before it
    announced,  \* UiEvents that read_commands has yet to take
    events,     \* the TerminalEvents under way
    counting,   \* file_monitors: None, "wait", "read", "ended"
    dirs,       \* the directories of the command: whether they exist, and their files
    counts,     \* file_count: the number shown
    selected,   \* file_count_state
    telemetry,  \* the broadcast channel: what is in it for the listener
    lagged,     \* the listener is to be told that it missed events
    sent,       \* the last value of each kind
    missed,     \* history: the kinds whose last event was forgotten
    stats,      \* events of UiLoopState
    written, taken, logs,  \* log messages so far; those taken; those shown, the newest first
    keys

screen == <<raw, cancelled, loop, cut>>
listing == <<dirs, counts, counting>>
stat == <<telemetry, lagged, sent, missed>>
log == <<written, taken, logs>>
vars == <<screen, senders, announced, events, listing, selected, stat, stats, log, keys>>

Init ==
    /\ raw = TRUE /\ cancelled = FALSE /\ loop = "run" /\ cut = FALSE
    /\ senders = Senders
    /\ announced = Announced /\ events = <<>>
    /\ counting = [d \in Dirs |-> None] /\ counts = [d \in Dirs |-> None]
    /\ dirs = [d \in Dirs |-> None] /\ selected = None
    /\ telemetry = <<>> /\ lagged = FALSE /\ missed = {}
    /\ sent = [k \in Kinds |-> 0] /\ stats = [k \in Kinds |-> 0]
    /\ written = 0 /\ taken = 0 /\ logs = <<>> /\ keys = 0

Open == loop = "run"
Ev(t, x, n) == [type |-> t, of |-> x, value |-> n]

\* Sending to the loop: while it has not ended, since it owns the receiver.
Send(e) == Open /\ events' = Append(events, e)

\* Bound: a timer does not overtake the loop.
Taken(t, x) == \A i \in DOMAIN events : ~(events[i].type = t /\ events[i].of = x)

----------------------------------------------------------------------------
(* What the command does, as long as there is somebody to see it.           *)

CreateFile(d) ==
    /\ Open
    /\ dirs' = [dirs EXCEPT ![d] = IF @ = None THEN 0 ELSE @ + 1]
    /\ dirs'[d] <= MaxFiles
    /\ UNCHANGED <<screen, senders, announced, events, counting, counts, selected, stat, stats, log, keys>>

\* try_broadcast_event: the oldest event makes room for the new one.
Broadcast(k) ==
    /\ Open /\ sent[k] < MaxStats
    /\ LET n == sent[k] + 1
           full == Len(telemetry) = Capacity
           kept == IF full THEN Tail(telemetry) ELSE telemetry IN
       /\ sent' = [sent EXCEPT ![k] = n]
       /\ telemetry' = Append(kept, Ev("stat", k, n))
       /\ lagged' = (lagged \/ full)
       /\ missed' = {j \in (missed \ {k}) \cup (IF full THEN {Head(telemetry).of} ELSE {}) :
                       \A i \in DOMAIN telemetry' : telemetry'[i].of # j}
    /\ UNCHANGED <<screen, senders, announced, events, listing, selected, stats, log, keys>>

WriteLog ==
    /\ Open /\ written < MaxLogs /\ written' = written + 1
    /\ UNCHANGED <<screen, senders, announced, events, listing, selected, stat, stats, taken, logs, keys>>

----------------------------------------------------------------------------
(* The tasks.  Each looks for the cancellation before every turn, and ends  *)
(* when the loop is gone.                                                   *)

Ends(s) ==
    /\ s \in senders /\ cancelled /\ senders' = senders \ {s}
    /\ UNCHANGED <<screen, announced, events, listing, selected, stat, stats, log, keys>>

Ticking ==
    /\ "tick" \in senders /\ Taken("tick", None) /\ Send(Ev("tick", None, 0))
    /\ UNCHANGED <<screen, senders, announced, listing, selected, stat, stats, log, keys>>

\* A thread, which nobody joins.
ReadKeyboard ==
    /\ "keyboard" \in senders /\ keys < MaxKeys /\ keys' = keys + 1
    /\ \E key \in {"q", "down", "up"} : Send(Ev("key", key, 0))
    /\ UNCHANGED <<screen, senders, announced, listing, selected, stat, stats, log>>

ReadCommands ==
    /\ "commands" \in senders /\ announced # <<>>
    /\ Send(Ev("monitor", Head(announced), 0)) /\ announced' = Tail(announced)
    /\ UNCHANGED <<screen, senders, listing, selected, stat, stats, log, keys>>

\* Lagged only says so; the next event is the oldest one that is left.
ListenTelemetry ==
    /\ "telemetry" \in senders
    /\ \/ lagged /\ lagged' = FALSE /\ UNCHANGED <<telemetry, events>>
       \/ /\ ~lagged /\ telemetry # <<>>
          /\ Send(Head(telemetry)) /\ telemetry' = Tail(telemetry) /\ UNCHANGED lagged
    /\ UNCHANGED <<screen, senders, announced, listing, selected, sent, missed, stats, log, keys>>

TimeoutPasses ==
    /\ "timeout" \in senders /\ senders' = senders \ {"timeout"}
    /\ IF Open THEN Send(Ev("quit", None, 0)) ELSE UNCHANGED events
    /\ UNCHANGED <<screen, announced, listing, selected, stat, stats, log, keys>>

\* spawn_file_count_monitor: wait_for_dir, whose ten seconds may be over, and then a count
\* every five seconds.  Its end is noticed by nobody.
CountFiles(d) ==
    /\ \/ /\ counting[d] = "wait"
          /\ \/ dirs[d] # None /\ counting' = [counting EXCEPT ![d] = "read"]
             \/ dirs[d] = None /\ counting' = [counting EXCEPT ![d] = "ended"]
          /\ UNCHANGED events
       \/ /\ counting[d] = "read" /\ ~cancelled /\ Taken("count", d)
          /\ Send(Ev("count", d, dirs[d])) /\ UNCHANGED counting
       \/ /\ counting[d] = "read" /\ cancelled /\ counting' = [counting EXCEPT ![d] = "ended"]
          /\ UNCHANGED events
    /\ UNCHANGED <<screen, senders, announced, dirs, counts, selected, stat, stats, log, keys>>

----------------------------------------------------------------------------
(* ui_loop: one event after the other.  What is under way when it ends is   *)
(* dropped with the receiver, and all else when the process ends.           *)

Has(t) == Open /\ events # <<>> /\ Head(events).type = t
Receives(t) == Has(t) /\ events' = Tail(events)
Event == Head(events)

\* take_available_logs: push_front on a buffer that drops its back when it is full.
Least(a, b) == IF a < b THEN a ELSE b
PushFront(buffer, n) == SubSeq(<<n>> \o buffer, 1, Least(Len(buffer) + 1, LOGS_BUFFER_SIZE))
TakeLogs(n) ==
    LET pushed[i \in 0..n] == IF i = 0 THEN logs ELSE PushFront(pushed[i - 1], taken + i)
    IN pushed[n]

\* The drawing may fail: the loop ends, and the terminal stays as it is.
RefreshUi ==
    /\ Has("tick")
    /\ LET n == Least(LogBatch, written - taken) IN taken' = taken + n /\ logs' = TakeLogs(n)
    /\ \/ events' = Tail(events) /\ UNCHANGED screen
       \/ events' = <<>> /\ loop' = "error" /\ cancelled' = TRUE /\ UNCHANGED <<raw, cut>>
    /\ UNCHANGED <<senders, announced, listing, selected, stat, stats, written, keys>>

Count == Cardinality({d \in Dirs : counts[d] # None})

\* on_key_down and on_key_up: around the list of directories.
OnKey(key, delta) ==
    /\ Receives("key") /\ Event.of = key
    /\ selected' = IF selected = None \/ Count = 0 THEN 0
                   ELSE (selected + Count + delta) % Count
    /\ UNCHANGED <<screen, senders, announced, listing, stat, stats, log, keys>>

\* on_quit: first the cancellation, then the terminal, which may fail.
OnQuit ==
    /\ Has("quit") \/ (Has("key") /\ Event.of = "q")
    /\ cancelled' = TRUE /\ events' = <<>>
    /\ \/ loop' = "ok" /\ raw' = FALSE
       \/ loop' = "error" /\ UNCHANGED raw
    /\ UNCHANGED <<cut, senders, announced, listing, selected, stat, stats, log, keys>>

OnFileCount ==
    /\ Receives("count") /\ counts' = [counts EXCEPT ![Event.of] = Event.value]
    /\ UNCHANGED <<screen, senders, announced, dirs, counting, selected, stat, stats, log, keys>>

OnMonitorDir ==
    /\ Receives("monitor")
    /\ counting' = [counting EXCEPT ![Event.of] = IF @ = None THEN "wait" ELSE @]
    /\ UNCHANGED <<screen, senders, announced, dirs, counts, selected, stat, stats, log, keys>>

OnTelemetry ==
    /\ Receives("stat") /\ stats' = [stats EXCEPT ![Event.of] = Event.value]
    /\ UNCHANGED <<screen, senders, announced, listing, selected, stat, log, keys>>

Exit ==
    /\ loop' = "returned" /\ senders' = {} /\ announced' = <<>> /\ events' = <<>>
    /\ counting' = [d \in Dirs |-> None] /\ counts' = [d \in Dirs |-> None]
    /\ selected' = None /\ telemetry' = <<>> /\ lagged' = FALSE /\ missed' = {}
    /\ sent' = [k \in Kinds |-> 0] /\ stats' = [k \in Kinds |-> 0]
    /\ written' = 0 /\ taken' = 0 /\ logs' = <<>>
    /\ UNCHANGED <<raw, cancelled, dirs, keys>>

\* try_wait_all_join_handles: the loop's error at once, or the end of the three tasks and the
\* loop.
Return ==
    /\ \/ loop = "error" /\ cut' = TRUE
       \/ /\ loop = "ok" /\ UNCHANGED cut
          /\ senders \cap {"tick", "commands", "telemetry"} = {}
    /\ Exit

\* select! of cmd::run: the command ends first, and the process with it.
CommandEnds == cut' = TRUE /\ Exit

----------------------------------------------------------------------------
UiLoop ==
    \/ RefreshUi \/ OnKey("down", 1) \/ OnKey("up", -1) \/ OnQuit \/ OnFileCount
    \/ OnMonitorDir \/ OnTelemetry \/ Return

Running == loop # "returned"

\* What each thread, task or monitor does when it can.
Thread(s) ==
    /\ Running
    /\ \/ s = "loop" /\ UiLoop
       \/ s \in Senders \ {"timeout"} /\ Ends(s)
       \/ s = "tick" /\ Ticking
       \/ s = "commands" /\ ReadCommands
       \/ s = "telemetry" /\ ListenTelemetry
       \/ s \in Dirs /\ CountFiles(s)

\* The threads that need nobody else to go on.
Threads == (Senders \ {"timeout"}) \cup Dirs \cup {"loop"}

Next ==
    \/ \E s \in Threads : Thread(s)
    \/ /\ Running
       /\ \/ \E d \in Dirs : CreateFile(d)
          \/ \E k \in Kinds : Broadcast(k)
          \/ WriteLog \/ ReadKeyboard \/ TimeoutPasses \/ CommandEnds
----------------------------------------------------------------------------
TypeOK ==
    /\ raw \in BOOLEAN /\ cancelled \in BOOLEAN /\ cut \in BOOLEAN
    /\ loop \in {"run", "ok", "error", "returned"} /\ senders \subseteq Senders
    /\ counting \in [Dirs -> {None, "wait", "read", "ended"}]
    /\ Len(telemetry) <= Capacity
    /\ missed \subseteq Kinds /\ keys \in 0..MaxKeys

\* The selection is an entry of the list, whatever was pressed while the list grew.
SelectionInList == selected # None => selected = 0 \/ selected < Count

\* The logs shown are the last ones taken, the newest first and none left out.
LogsInOrder ==
    logs = [i \in 1..Least(taken, LOGS_BUFFER_SIZE) |-> taken + 1 - i]

\* The terminal is given back when the user or the timeout ends the program.
TerminalRestored == loop \in {"ok", "returned"} /\ ~cut => ~raw

\* What is shown catches up: the numbers of files, of each directory whose monitor has not
\* given up, and the last statistics, except those that the channel has forgotten.
ShownIsCurrent ==
    Open => /\ \A d \in Dirs : counting[d] # "ended" => counts[d] = dirs[d]
            /\ \A k \in Kinds \ missed : stats[k] = sent[k]
            /\ taken = written

\* When it is told to end, it ends.
QuitEnds == cancelled => loop = "returned"
=============================================================================
