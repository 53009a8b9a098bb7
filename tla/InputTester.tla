---------------------------- MODULE InputTester ----------------------------
(***************************************************************************)
(* Tester::test_input of the onefuzz crate: one input is run up to         *)
(* 1 + check_retry_count times, under a debugger (the ptrace triage, or    *)
(* test_process on Windows) or as a plain child, with a time limit, and    *)
(* each run is searched for a crash: the debugger's report first, then an  *)
(* ASAN log in the temporary directory, then an ASAN log on standard       *)
(* error.  The target, its threads and the sanitizer's runtime take steps  *)
(* of their own while the tester waits.                                    *)
(*                                                                         *)
(* Left out: the arguments and the environment, the text of stacks and     *)
(* logs.  The parser of stacktrace-parser is a verdict: a complete ASAN    *)
(* log parses, one cut short by the death of the target may or may not.    *)
(***************************************************************************)
EXTENDS Naturals, Sequences

CONSTANTS Windows,          \* target_family = "windows"
          Threads,          \* the threads of the target
          Main,             \* the one whose id is the process id
          MaxRetries,       \* bound: check_retry_count
          MaxSignals        \* bound: crash signals of one run of the target

TesterAssumption == Windows \in BOOLEAN /\ Main \in Threads /\ MaxRetries \in Nat /\ MaxSignals \in Nat

VARIABLES opt,        \* the options set on the Tester
          pc,         \* where test_input is
          attempt,    \* runs of the target begun
          target,     \* the process of the current run
          ended,      \* how the current run ended
          crash_log,  \* result.crash_log
          error,      \* result.error is Some
          shown       \* history: some run showed a crash the options look for

vars == <<opt, pc, attempt, target, ended, crash_log, error, shown>>

NoCrash == [kind |-> "none"]
NoTarget == [alive |-> FALSE, signals |-> <<>>, log |-> "none", killed |-> FALSE]

TypeOK ==
    /\ opt \in [check_debugger : BOOLEAN, check_asan_log : BOOLEAN,
                check_asan_stderr : BOOLEAN, check_retry_count : 0..MaxRetries]
    /\ pc \in {"setup", "attempt", "pid", "running", "check", "done", "failed"}
    /\ attempt \in 0..(1 + opt.check_retry_count)
    /\ target.alive \in BOOLEAN /\ target.killed \in BOOLEAN
    /\ target.signals \in Seq(Threads) /\ Len(target.signals) <= MaxSignals
    /\ target.log \in {"none", "partial", "complete"}
    /\ ended \in {"none", "exit", "triage", "debugger", "timeout", "spawn"}
    /\ crash_log = NoCrash \/ crash_log \in [kind : {"signal"}, thread : Threads]
                        \/ crash_log \in [kind : {"log", "stderr"}]
    /\ error \in BOOLEAN /\ shown \in BOOLEAN

\* The run is under test_process, or under the triage.
TestProcess == Windows /\ opt.check_debugger
Triage == ~Windows /\ opt.check_debugger

-----------------------------------------------------------------------------
(* The setters of the builder: any combination of the options.             *)
Init ==
    /\ opt \in [check_debugger : BOOLEAN, check_asan_log : BOOLEAN,
                check_asan_stderr : BOOLEAN, check_retry_count : 0..MaxRetries]
    /\ pc = "setup" /\ attempt = 0 /\ target = NoTarget /\ ended = "none"
    /\ crash_log = NoCrash /\ error = FALSE /\ shown = FALSE

(* The temporary directory, the expansion of the arguments and the         *)
(* environment: any of them may fail, and then so does test_input.         *)
Setup ==
    /\ pc = "setup"
    /\ pc' \in {"attempt", "failed"}
    /\ UNCHANGED <<opt, attempt, target, ended, crash_log, error, shown>>

(* One more run: run_cmd or Debugger::init spawns the child, or the        *)
(* blocking task of the triage spawns it stopped at its execve.            *)
StartAttempt ==
    /\ pc = "attempt"
    /\ attempt' = attempt + 1
    /\ \/ /\ target' = [NoTarget EXCEPT !.alive = TRUE]
          /\ pc' = IF Triage THEN "pid" ELSE "running"
          /\ ended' = "none"
       \/ /\ target' = NoTarget
          /\ pc' = "check"
          /\ ended' = "spawn"
    /\ UNCHANGED <<opt, crash_log, error, shown>>

(* The process id arrives on the channel, or the sender is dropped because *)
(* the target died before its execve.                                      *)
ReceivePid ==
    /\ pc = "pid"
    /\ \/ pc' = "running" /\ UNCHANGED <<target, ended>>
       \/ pc' = "check" /\ target' = [target EXCEPT !.alive = FALSE] /\ ended' = "spawn"
    /\ UNCHANGED <<opt, attempt, crash_log, error, shown>>

-----------------------------------------------------------------------------
Running == pc = "running" /\ target.alive /\ ~target.killed

(* A crash signal for thread t, after which the target goes on (it has a   *)
(* handler) or dies.  test_process ignores exceptions that are handled,    *)
(* ends the target at one that is not, and loses it when the stack cannot  *)
(* be walked.                                                              *)
Signal(t) ==
    /\ Running
    /\ Len(target.signals) < MaxSignals
    /\ \E dies, kept \in BOOLEAN :
          /\ IF TestProcess THEN dies ELSE kept
          /\ target' = [target EXCEPT !.signals = IF kept THEN Append(@, t) ELSE @,
                                     !.alive = ~dies]
          /\ ended' = IF dies THEN "exit" ELSE ended
    /\ UNCHANGED <<opt, pc, attempt, crash_log, error, shown>>

(* Crash::new cannot unwind the target: run returns the error, and         *)
(* dropping the TriageCommand kills the process.                           *)
TriageFails ==
    /\ Running
    /\ Triage
    /\ target' = [target EXCEPT !.alive = FALSE]
    /\ ended' = "triage"
    /\ UNCHANGED <<opt, pc, attempt, crash_log, error, shown>>

(* Debugger::run fails and so does test_process: nothing ends the target,  *)
(* which stays stopped at its last debug event.                            *)
DebuggerFails ==
    /\ Running
    /\ TestProcess
    /\ ended' = "debugger"
    /\ pc' = "check"
    /\ UNCHANGED <<opt, attempt, target, crash_log, error, shown>>

(* The sanitizer's runtime writes its report, to the file of log_path when *)
(* there is one and to standard error otherwise.                           *)
WriteReport ==
    /\ Running
    /\ target.log # "complete"
    /\ target' = [target EXCEPT !.log = IF @ = "none" THEN "partial" ELSE "complete"]
    /\ UNCHANGED <<opt, pc, attempt, ended, crash_log, error, shown>>

ExitTarget ==
    /\ Running
    /\ target' = [target EXCEPT !.alive = FALSE]
    /\ ended' = "exit"
    /\ UNCHANGED <<opt, pc, attempt, crash_log, error, shown>>

-----------------------------------------------------------------------------
(* The timer wins the race against the blocking task, whether or not the   *)
(* target has just ended: the process is killed, and the tester does not   *)
(* wait for its end.  on_poll of test_process terminates it and stays in   *)
(* the debug loop.                                                         *)
Timeout ==
    /\ pc = "running" /\ ~target.killed
    /\ target' = [target EXCEPT !.killed = TRUE]
    /\ ended' = "timeout"
    /\ pc' = IF TestProcess THEN "running" ELSE "check"
    /\ UNCHANGED <<opt, attempt, crash_log, error, shown>>

(* A process that was killed ends, at once or later.                       *)
EndKilled ==
    /\ target.killed /\ target.alive
    /\ target' = [target EXCEPT !.alive = FALSE]
    /\ UNCHANGED <<opt, pc, attempt, ended, crash_log, error, shown>>

(* The blocking task has ended in time: its output is collected.           *)
Joined ==
    /\ pc = "running"
    /\ ~target.alive
    /\ pc' = "check"
    /\ UNCHANGED <<opt, attempt, target, ended, crash_log, error, shown>>

(* The run is an error: everything but the end of the target, except that  *)
(* test_process makes no error of its time limit.                          *)
RunError == ended # "exit" /\ ~(TestProcess /\ ended = "timeout")

(* Crash::new of a stop: its caller hands it the id of the process,        *)
(* whichever thread was signalled.  An exception has its own thread.       *)
NewCrash == [kind |-> "signal",
             thread |-> IF Windows THEN target.signals[Len(target.signals)] ELSE Main]

(* TriageCommand::run, test_process: a crash for each signal; the last one *)
(* is used.                                                                *)
DebuggerCrash ==
    IF opt.check_debugger /\ ~RunError /\ target.signals # <<>>
    THEN NewCrash ELSE NoCrash

LogFile == opt.check_asan_log /\ target.log # "none"

CheckAsanPath_InTime ==
    CASE ~LogFile \/ RunError               -> {"none"}
      [] ~RunError /\ LogFile /\ target.log = "complete" -> {"log"}
      [] ~RunError /\ LogFile /\ target.log = "partial"  -> {"log", "error"}

(* What check_asan_path makes of the directory: a log, nothing, or an      *)
(* error that ends the whole test.                                         *)
CheckAsanPath ==
    CASE ~LogFile                          -> {"none"}
      [] LogFile /\ target.log = "complete" -> {"log"}
      [] LogFile /\ target.log = "partial"  -> {"log", "error"}

(* check_asan_string never fails; there is output only of a plain child    *)
(* that ended in time.                                                     *)
CheckAsanString ==
    IF opt.check_asan_stderr /\ ~opt.check_debugger /\ ~RunError /\ ~opt.check_asan_log
    THEN CASE target.log = "none"     -> {"none"}
           [] target.log = "partial"  -> {"stderr", "none"}
           [] target.log = "complete" -> {"stderr"}
    ELSE {"none"}

(* A crash of this run that the options look for and can see.              *)
Evidence ==
    \/ Triage /\ ended = "exit" /\ target.signals # <<>>
    \/ TestProcess /\ ended \in {"exit", "timeout"} /\ target.signals # <<>>
    \/ opt.check_asan_log /\ target.log = "complete"
    \/ /\ opt.check_asan_stderr /\ ~opt.check_asan_log /\ ~opt.check_debugger
       /\ ended = "exit" /\ target.log = "complete"

(* The checks of the loop's body in their order; then the test is over or *)
(* the target is run again.                                                *)
Examine(last) ==
    \E path \in CheckAsanPath, string \in CheckAsanString :
       IF DebuggerCrash # NoCrash
       THEN crash_log' = DebuggerCrash /\ pc' = "done"
       ELSE IF path = "error"
       THEN crash_log' = NoCrash /\ pc' = "failed"
       ELSE LET found == IF path # "none" THEN path ELSE string IN
            /\ crash_log' = [kind |-> found]
            /\ pc' = IF found # "none" \/ last THEN "done" ELSE "attempt"

Check ==
    /\ pc = "check"
    /\ shown' = (shown \/ Evidence)
    /\ error' = RunError
    /\ Examine(attempt = 1 + opt.check_retry_count)
    /\ UNCHANGED <<opt, attempt, target, ended>>

Finished == pc \in {"done", "failed"} /\ UNCHANGED vars

TargetStep == WriteReport \/ ExitTarget \/ TriageFails \/ DebuggerFails
                \/ \E t \in Threads : Signal(t)
TesterStep == Setup \/ StartAttempt \/ ReceivePid \/ Timeout \/ Joined \/ Check

Next == TesterStep \/ TargetStep \/ EndKilled \/ Finished

(* The tester's task is scheduled and its timer fires, and what is killed  *)
(* ends; nothing else is asked of the target.                              *)
Fairness == WF_vars(TesterStep) /\ WF_vars(EndKilled)
Spec == Init /\ [][Next]_vars /\ Fairness

-----------------------------------------------------------------------------
(* A crash that some run showed, in a place the options look at, is        *)
(* reported: the order of the checks, the retries and a later run that     *)
(* fails never lose it (input_tester.rs:351, "order of operations for      *)
(* checking for crashes").  What the debugger could not take down (an      *)
(* exception of an unreadable stack on Windows) was not shown.             *)
CrashFound == (pc = "done" /\ shown) => crash_log # NoCrash

(* Whatever way a run ends (by itself, by the timer, by an error of the    *)
(* triage), the target is dead or has been killed before its traces are    *)
(* read and before the next run starts: test_input and the KillOnDrop of   *)
(* the triage.  The one exception is a Windows debugger that fails, which  *)
(* leaves the target behind.                                               *)
TargetGone ==
    pc \in {"attempt", "check", "done", "failed"} =>
        ~target.alive \/ target.killed \/ (TestProcess /\ ended = "debugger")

(* The verdict "no crash and no error" is only given for a run that went   *)
(* to its end by itself: one that was cut short is an error in             *)
(* TestResult::error, whatever an earlier run did.  Under the Windows      *)
(* debugger it is given for a run that was cut short, too: its time limit  *)
(* is no error (input_tester.rs:139).                                      *)
CleanMeansRan ==
    (pc = "done" /\ crash_log = NoCrash /\ ~error) =>
        \/ ended = "exit" /\ ~target.killed
        \/ TestProcess /\ ended = "timeout"

(* A target that hangs in every run does not hang the test.                *)
TestEnds == pc \in {"done", "failed"}
=============================================================================
