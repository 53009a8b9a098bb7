--------------------------- MODULE WindowsDebugger ---------------------------
(***************************************************************************)
(* The Windows debugger (the debugger crate): the event loop of Debugger,  *)
(* and Target, which disables a breakpoint that is hit, lets the thread    *)
(* step over the original instruction while every other thread is          *)
(* suspended, and enables it again.  Several threads can run into          *)
(* breakpoints at the same time: the events that are not handled yet stay  *)
(* queued while the debugger resumes the target.                           *)
(*                                                                         *)
(* Left out: a stepped instruction that itself raises an exception         *)
(* (handle_exception_event passes it on, and the step stays open until the *)
(* thread's next trap).                                                    *)
(***************************************************************************)
EXTENDS Naturals, FiniteSets

CONSTANTS
    Thread, Addr,
    Kind,      \* BreakpointType of the breakpoint at each address
    None,
    MaxCount   \* where the u32 counters saturate

\* A breakpoint is the event of its address.
Events == {"create", "exit", "single_step"} \cup Addr

DebuggerAssumption ==
    /\ Kind \in [Addr -> {"Counter", "OneTime"}]
    /\ None \notin Thread \cup Events /\ MaxCount \in Nat \ {0}
    /\ {"create", "exit", "single_step"} \cap Addr = {}

\* The breakpoints of a client that asks for all of them to be restored.
Counters == [a \in Addr |-> "Counter"]

VARIABLES
    event,        \* the debug event each thread has raised and waits on, or None
    pc,           \* the breakpoint address a thread executes next, if any
    trap,         \* the trap flag of each thread
    thread_info,  \* Target::thread_info: the state of the threads known
    breakpoints,  \* ResolvedBreakpoint: disabled, and whether 0xcc is written
    single_step,  \* Target::single_step: RestoreBreakpointAfterStep { pc }
    restore_pc,   \* Target::restore_breakpoint_pc
    exited,       \* Target::exited
    reported,     \* history: addresses whose breakpoint was reported to the client
    executed,     \* history: addresses executed
    missed        \* history: a Counter breakpoint was passed without a report

os == <<event, pc, trap>>
tgt == <<thread_info, breakpoints, single_step, restore_pc, exited>>
history == <<reported, executed, missed>>
vars == <<os, tgt, history>>

TypeOK ==
    /\ event \in [Thread -> Events \cup {None}]
    /\ pc \in [Thread -> Addr \cup {None}] /\ trap \in [Thread -> BOOLEAN]
    /\ thread_info \in [Thread -> {"Unknown", "Runnable", "Suspended", "Exited"}]
    /\ breakpoints \in [Addr -> [disabled : 0..MaxCount, applied : BOOLEAN]]
    /\ single_step \in [Thread -> Addr \cup {None}]
    /\ restore_pc \in Addr \cup {None} /\ exited \in BOOLEAN
    /\ reported \subseteq Addr /\ executed \subseteq Addr /\ missed \in BOOLEAN

\* After the initial break: one thread, every breakpoint resolved and applied.
Init ==
    /\ event = [t \in Thread |-> None]
    /\ pc = [t \in Thread |-> None] /\ trap = [t \in Thread |-> FALSE]
    /\ \E t \in Thread :
         thread_info = [u \in Thread |-> IF u = t THEN "Runnable" ELSE "Unknown"]
    /\ breakpoints = [a \in Addr |-> [disabled |-> 0, applied |-> TRUE]]
    /\ single_step = [t \in Thread |-> None]
    /\ restore_pc = None /\ exited = FALSE
    /\ reported = {} /\ executed = {} /\ missed = FALSE

-----------------------------------------------------------------------------
(* The target process, between two calls of the debugger.                   *)

Running(t) == ~exited /\ thread_info[t] = "Runnable" /\ event[t] = None

\* A thread executes the instruction at a: 0xcc raises an event; the original
\* instruction raises one when the trap flag is set.
Execute(t) ==
    /\ Running(t)
    /\ \E a \in IF pc[t] = None THEN Addr ELSE {pc[t]} :
         IF breakpoints[a].applied
         THEN /\ event' = [event EXCEPT ![t] = a]
              /\ UNCHANGED <<pc, trap, executed, missed>>
         ELSE /\ event' = [event EXCEPT ![t] = IF trap[t] THEN "single_step" ELSE None]
              /\ trap' = [trap EXCEPT ![t] = FALSE]
              /\ pc' = [pc EXCEPT ![t] = None]
              /\ executed' = executed \cup {a}
              /\ missed' = (missed \/ (Kind[a] = "Counter" /\ single_step[t] # a))
    /\ UNCHANGED <<tgt, reported>>

CreateThread ==
    /\ \E t \in Thread : Running(t)
    /\ \E t \in Thread : /\ thread_info[t] = "Unknown" /\ event[t] = None
                         /\ event' = [event EXCEPT ![t] = "create"]
    /\ UNCHANGED <<pc, trap, tgt, history>>

\* A thread ends between two instructions with a breakpoint.
EndThread(t) ==
    /\ Running(t) /\ pc[t] = None
    /\ event' = [event EXCEPT ![t] = "exit"]
    /\ UNCHANGED <<pc, trap, tgt, history>>

-----------------------------------------------------------------------------
(* ThreadInfo and ResolvedBreakpoint.                                       *)

\* resume_thread, suspend_thread: either call fails on a thread that the
\* system has ended, whose event the debugger has not seen yet.
Resumed_Skip(t) == thread_info[t]
Resumed(t) == IF thread_info[t] = "Runnable" THEN "Runnable"
              ELSE IF event[t] = "exit" THEN "Exited" ELSE "Runnable"
Suspended(t) == IF thread_info[t] = "Suspended" THEN "Suspended"
                ELSE IF event[t] = "exit" THEN "Exited" ELSE "Suspended"

Disable(b) == [disabled |-> IF b.disabled = MaxCount THEN MaxCount ELSE b.disabled + 1,
               applied |-> FALSE]

Enable(b) == [disabled |-> IF b.disabled = 0 THEN 0 ELSE b.disabled - 1,
              applied |-> TRUE]

-----------------------------------------------------------------------------
(* The debugger handles the event of one thread and resumes the target.     *)

Known(info) == {u \in Thread : info[u] # "Unknown"}

\* prepare_to_resume: with threads to step, all are suspended and one of these
\* is resumed, chosen at random.
ResumedAll(info) == [u \in Thread |-> IF u \in Known(info) THEN Resumed(u) ELSE "Unknown"]
PrepareToResume_All(info, step, restore) ==
    /\ thread_info' = ResumedAll(info)
    /\ IF \A u \in Thread : step[u] = None THEN restore_pc' = restore
       ELSE restore_pc' \in {step[u] : u \in Thread} \ {None}
PrepareToResume(info, step, restore) ==
    LET stepping == {u \in Thread : step[u] # None}
    IN  IF stepping = {}
        THEN thread_info' = ResumedAll(info) /\ restore_pc' = restore
        ELSE \E s \in stepping :
               /\ thread_info' = [u \in Thread |->
                    IF u \notin Known(info) THEN "Unknown"
                    ELSE IF u = s THEN "Runnable" ELSE Suspended(u)]
               /\ restore_pc' = step[s]

Handled(t) == event' = [event EXCEPT ![t] = None]

\* dispatch_event for the creation of a thread, and for its end.
OnCreateThread(t) ==
    /\ ~exited /\ event[t] = "create" /\ Handled(t)
    /\ PrepareToResume([thread_info EXCEPT ![t] = "Runnable"], single_step, restore_pc)
    /\ UNCHANGED <<pc, trap, breakpoints, single_step, exited, history>>

OnExitThread(t) ==
    /\ ~exited /\ event[t] = "exit" /\ Handled(t)
    /\ PrepareToResume([thread_info EXCEPT ![t] = "Unknown"], single_step, restore_pc)
    /\ UNCHANGED <<pc, trap, breakpoints, single_step, exited, history>>

DisabledAt(a) == [breakpoints EXCEPT ![a] = Disable(@)]

\* handle_breakpoint, reported to the client by on_breakpoint: the thread goes
\* back to the instruction, and steps when the breakpoint is to be restored.
HandleBreakpoint(t) ==
    LET a == event[t]
        step == IF Kind[a] = "Counter" THEN [single_step EXCEPT ![t] = a] ELSE single_step
    IN  /\ ~exited /\ a \in Addr /\ Handled(t)
        /\ breakpoints' = DisabledAt(a)
        /\ pc' = [pc EXCEPT ![t] = a]
        /\ trap' = [trap EXCEPT ![t] = @ \/ Kind[a] = "Counter"]
        /\ single_step' = step
        /\ PrepareToResume(thread_info, step, restore_pc)
        /\ reported' = reported \cup {a}
        /\ UNCHANGED <<exited, executed, missed>>

\* complete_single_step: the breakpoint in restore_breakpoint_pc is enabled.
CompleteSingleStep(t) ==
    LET step == [single_step EXCEPT ![t] = None]
    IN  /\ ~exited /\ event[t] = "single_step" /\ Handled(t)
        /\ breakpoints' = IF restore_pc = None THEN breakpoints
                          ELSE [breakpoints EXCEPT ![restore_pc] = Enable(@)]
        /\ single_step' = step
        /\ PrepareToResume(thread_info, step, None)
        /\ UNCHANGED <<pc, trap, exited, history>>

\* The process exits, or quit_debugging terminates it; run ends.
ExitProcess ==
    /\ ~exited /\ exited' = TRUE
    /\ UNCHANGED <<os, thread_info, breakpoints, single_step, restore_pc, history>>

Next ==
    \/ \E t \in Thread : \/ Execute(t) \/ EndThread(t)
                         \/ OnCreateThread(t) \/ OnExitThread(t)
                         \/ HandleBreakpoint(t) \/ CompleteSingleStep(t)
    \/ CreateThread \/ ExitProcess

\* The loop of Debugger::run handles every event in turn, and a thread that is
\* neither suspended nor stopped at an event executes.
\* What the debug loop does with an event of a thread.
Handle(t) == OnCreateThread(t) \/ OnExitThread(t) \/ HandleBreakpoint(t) \/ CompleteSingleStep(t)

Fairness == \A t \in Thread : WF_vars(Execute(t)) /\ WF_vars(Handle(t))

Spec == Init /\ [][Next]_vars /\ Fairness

-----------------------------------------------------------------------------
(* Properties.                                                             *)

\* The debugger remembers one breakpoint to restore, and a second one that is hit
\* meanwhile takes its place.  What it promises of Counter breakpoints holds as long as
\* there is at most one of them; every other breakpoint is OneTime, as all those of the
\* coverage recorder are.
OneCounter ==
    \A a, b \in Addr : Kind[a] = "Counter" /\ Kind[b] = "Counter" => a = b

\* target.rs, prepare_to_resume: "Thread B cannot miss the breakpoint when
\* thread A is resumed."  A Counter breakpoint is only ever passed by a thread
\* that has been reported at it and steps over it.
NeverMissed == ~missed

\* The code of a breakpoint is never executed before the client has been told
\* of it, with several threads at the breakpoint and others stepping.
ReportedBeforeExecuted == executed \subseteq reported

\* When no thread steps over a breakpoint, every Counter breakpoint is in place
\* again: none is lost by an interleaving of stops and steps.  One address is
\* remembered: "1 is sufficient because we can only hit a single breakpoint between
\* calls to where we restore the breakpoint" (target.rs:185).
CounterRestored ==
    (\A t \in Thread : single_step[t] = None) =>
        \A a \in Addr : Kind[a] = "Counter" => breakpoints[a].applied

\* No breakpoint is missed, none is passed before it is reported, none is lost.
BreakpointsKept == NeverMissed /\ ReportedBeforeExecuted /\ CounterRestored

\* A thread suspended for the step of another one is resumed (to hold again and again).
NotSuspended(t) == thread_info[t] # "Suspended" \/ exited
=============================================================================
