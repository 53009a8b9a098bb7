------------------------------ MODULE MCTesters ------------------------------
(***************************************************************************)
(* The debugger and the two testers of inputs as one instance for TLC, with *)
(* the fairness of the debug loop.  part says which one runs; the others    *)
(* stay as they are.                                                        *)
(***************************************************************************)
EXTENDS Naturals, Sequences

\* The tests are functions from names to records, one field for each constant of the module.
CONSTANTS
    None,
    Thread, Addr, Kind, MaxCount,  \* WindowsDebugger
    InputTests,                    \* the tests of one input (InputTester)
    TargetTests                    \* the tests of a directory or a file (TargetTester)

VARIABLES
    part,
    event, pc, trap, thread_info, breakpoints, single_step, restore_pc, exited,
    reported, executed, missed, opt, attempt, target, ended, crash_log, error, shown,
    ignore, phase, pos, run, results, summary, buckets

vars == <<part, event, pc, trap, thread_info, breakpoints, single_step, restore_pc,
          exited, reported, executed, missed, opt, attempt, target, ended, crash_log,
          error, shown, ignore, phase, pos, run, results, summary, buckets>>

Debugger == INSTANCE WindowsDebugger

Input(cfg) == INSTANCE InputTester WITH
    Windows <- cfg.Windows, Threads <- cfg.Threads, Main <- cfg.Main, MaxRetries <- cfg.MaxRetries,
    MaxSignals <- cfg.MaxSignals

Target(cfg) == INSTANCE TargetTester WITH
    Inputs <- cfg.Inputs, Content <- cfg.Content, Ext <- cfg.Ext, Threads <- cfg.Threads,
    Codes <- cfg.Codes, Throws <- cfg.Throws, MaxSamples <- cfg.MaxSamples,
    MaxEvents <- cfg.MaxEvents

\* The breakpoints and tests that TLC uses; three of four inputs have the same bytes, two
\* of them under the same extension.
OneOfEach == [a |-> "Counter", b |-> "OneTime"]
InputConfigs ==
    [linux |-> [Windows |-> FALSE, Threads |-> {"main", "other"}, Main |-> "main",
                MaxRetries |-> 2, MaxSignals |-> 2],
     windows |-> [Windows |-> TRUE, Threads |-> {"main", "other"}, Main |-> "main",
                  MaxRetries |-> 2, MaxSignals |-> 1]]
TargetConfigs ==
    [file |-> [Inputs |-> <<"f1">>, Content |-> [f1 |-> "x1"], Ext |-> [f1 |-> "a"], Threads |-> {"t1", "t2"},
               Codes |-> {"av", "cpp"}, Throws |-> {"cpp"}, MaxSamples |-> 1,
               MaxEvents |-> 5],
     dir |-> [Inputs |-> <<"f1", "f2", "f3", "f4">>,
              Content |-> [f1 |-> "x1", f2 |-> "x1", f3 |-> "x1", f4 |-> "x2"],
              Ext |-> [f1 |-> "a", f2 |-> "a", f3 |-> "b", f4 |-> "a"], Threads |-> {"t1"},
              Codes |-> {"av"}, Throws |-> {}, MaxSamples |-> 2, MaxEvents |-> 1]]

\* What the components assume of their constants.
ASSUME TestersAssumption ==
    /\ Debugger!DebuggerAssumption /\ Debugger!OneCounter
    /\ \A k \in DOMAIN InputTests : Input(InputTests[k])!TesterAssumption
    /\ \A k \in DOMAIN TargetTests : Target(TargetTests[k])!TargetTesterAssumption

DebuggerIdle ==
    /\ opt = None /\ attempt = None /\ target = None /\ ended = None
    /\ crash_log = None /\ error = None /\ shown = None /\ ignore = None
    /\ phase = None /\ pos = None /\ run = None /\ results = None /\ summary = None
    /\ buckets = None
DebuggerOthers == <<part, opt, attempt, target, ended, crash_log, error, shown,
    ignore, phase, pos, run, results, summary, buckets>>

InputIdle ==
    /\ event = None /\ trap = None /\ thread_info = None /\ breakpoints = None
    /\ single_step = None /\ restore_pc = None /\ exited = None /\ reported = None
    /\ executed = None /\ missed = None /\ ignore = None /\ phase = None /\ pos = None
    /\ run = None /\ results = None /\ summary = None /\ buckets = None
InputOthers == <<part, event, trap, thread_info, breakpoints, single_step, restore_pc,
    exited, reported, executed, missed, ignore, phase, pos, run, results, summary,
    buckets>>

TargetIdle ==
    /\ event = None /\ pc = None /\ trap = None /\ thread_info = None
    /\ breakpoints = None /\ single_step = None /\ restore_pc = None /\ exited = None
    /\ executed = None /\ missed = None /\ opt = None /\ attempt = None
    /\ target = None /\ ended = None /\ crash_log = None /\ error = None
    /\ shown = None
TargetOthers == <<part, event, pc, trap, thread_info, breakpoints, single_step,
    restore_pc, exited, executed, missed, opt, attempt, target, ended, crash_log,
    error, shown>>

Init ==
    \/ part = <<"debugger">> /\ Debugger!Init /\ DebuggerIdle
    \/ \E k \in DOMAIN InputTests :
         part = <<"input", k>> /\ Input(InputTests[k])!Init /\ InputIdle
    \/ \E k \in DOMAIN TargetTests :
         part = <<"target", k>> /\ Target(TargetTests[k])!Init /\ TargetIdle

RunDebugger == part = <<"debugger">> /\ Debugger!Next /\ UNCHANGED DebuggerOthers
RunInput(k) ==
    part = <<"input", k>> /\ Input(InputTests[k])!Next /\ UNCHANGED InputOthers
RunTarget(k) ==
    part = <<"target", k>> /\ Target(TargetTests[k])!Next /\ UNCHANGED TargetOthers

Next ==
    \/ RunDebugger
    \/ part[1] = "input" /\ \E k \in DOMAIN InputTests : RunInput(k)
    \/ part[1] = "target" /\ \E k \in DOMAIN TargetTests : RunTarget(k)

\* A thread that can go on does, a debug event is handled, and the testers poll.  The
\* target owes nothing.
Fairness ==
    /\ \A t \in Thread :
         /\ WF_vars(part = <<"debugger">> /\ Debugger!Execute(t) /\ UNCHANGED DebuggerOthers)
         /\ WF_vars(part = <<"debugger">> /\ Debugger!Handle(t) /\ UNCHANGED DebuggerOthers)
    /\ \A k \in DOMAIN InputTests :
         /\ WF_vars(part = <<"input", k>> /\ Input(InputTests[k])!TesterStep /\ UNCHANGED InputOthers)
         /\ WF_vars(part = <<"input", k>> /\ Input(InputTests[k])!EndKilled /\ UNCHANGED InputOthers)
    /\ \A k \in DOMAIN TargetTests :
         /\ WF_vars(part = <<"target", k>> /\ Target(TargetTests[k])!TesterStep /\ UNCHANGED TargetOthers)
         /\ WF_vars(part = <<"target", k>> /\ Target(TargetTests[k])!EndTerminated /\ UNCHANGED TargetOthers)

Spec == Init /\ [][Next]_vars /\ Fairness

\* The type invariants of the components.
TypeOK ==
    /\ part = <<"debugger">> => Debugger!TypeOK
    /\ part[1] = "input" => \A k \in DOMAIN InputTests :
         part = <<"input", k>> => Input(InputTests[k])!TypeOK
    /\ part[1] = "target" => \A k \in DOMAIN TargetTests :
         part = <<"target", k>> => Target(TargetTests[k])!TypeOK

\* Debugger: a Counter breakpoint is passed only by a thread that has been reported at
\* it and steps over it ("Thread B cannot miss the breakpoint when thread A is resumed",
\* prepare_to_resume); the code of a breakpoint is never executed before the client has
\* been told of it; and when no thread steps, every Counter breakpoint is in place again.
\* One breakpoint is a Counter (MCDebugger has two) and one is OneTime.
BreakpointsKept == part = <<"debugger">> => Debugger!BreakpointsKept

\* Testers: a crash that some run showed is reported, whatever the order of the checks,
\* the retries and later failing runs (test_input), and names the bucket of its input,
\* once for each content and extension; the target is dead or killed before its traces are
\* read and before the next run starts (unless the Windows debugger fails); "no crash and
\* no error" is only said of a run that went to its end, or that the time limit of the
\* Windows debugger ended; the unsigned subtraction of Summary::update never underflows.
CrashFound ==
    /\ TypeOK
    /\ part[1] = "input" => \A k \in DOMAIN InputTests :
         part = <<"input", k>> => /\ Input(InputTests[k])!CrashFound
                                  /\ Input(InputTests[k])!TargetGone
                                  /\ Input(InputTests[k])!CleanMeansRan
    /\ part[1] = "target" => \A k \in DOMAIN TargetTests :
         part = <<"target", k>> => /\ Target(TargetTests[k])!CrashBucketed
                                   /\ Target(TargetTests[k])!NoUnderflow
                                   /\ Target(TargetTests[k])!ReportedOnce

\* A thread suspended for the step of another one is resumed; a target that hangs in every
\* run hangs neither the test of its input nor that of a directory.
TestsEnd ==
    /\ \A t \in Thread : []<>(part = <<"debugger">> => Debugger!NotSuspended(t))
    /\ <>[](/\ part[1] = "input" => \A k \in DOMAIN InputTests :
                 part = <<"input", k>> => Input(InputTests[k])!TestEnds
            /\ part[1] = "target" => \A k \in DOMAIN TargetTests :
                 part = <<"target", k>> => Target(TargetTests[k])!TestDirEnds)
=============================================================================
