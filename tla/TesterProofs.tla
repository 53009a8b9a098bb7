----------------------------- MODULE TesterProofs -----------------------------
(***************************************************************************)
(* Proofs about MCTesters: the debugger for any number of threads and      *)
(* addresses, and the testers for any threads, retries, inputs, contents   *)
(* and exception codes.                                                    *)
(*                                                                         *)
(* The debugger.                                                           *)
(* A breakpoint that is not written into the code has been reported; this  *)
(* needs nothing else.  That a Counter breakpoint is never missed rests on *)
(* three facts: when it is not in the code, some thread steps over it;     *)
(* while some thread steps, only stepping threads are runnable; and while  *)
(* some thread steps, the address to restore is that of the one Counter.   *)
(*                                                                         *)
(* test_input: a run that showed a crash ends the test, so nothing shown is*)
(* left for a later run to lose; and a killed run has ended by the timer.  *)
(*                                                                         *)
(* test_dir: an exception nobody handled terminates the target and is the  *)
(* last one of its run, and filtering, which is a recursion over the       *)
(* exceptions, drops first chances only and never the last.  So it is the  *)
(* one second chance of the result: it names the bucket, and no code has   *)
(* more second chances than first ones.  Facts about the recursion are     *)
(* proved by induction in the form of a least counterexample.              *)
(***************************************************************************)
EXTENDS MCTesters, Integers, FiniteSets, FiniteSetTheorems, WellFoundedInduction,
        TLAPS

\* A breakpoint missing from the code has been reported.
RemovedReported == \A a \in Addr : ~breakpoints[a].applied => a \in reported

Steps == \E t \in Thread : single_step[t] # None

\* Only Counter breakpoints are stepped over; a thread with the trap flag steps, and
\* so does one whose step is over but not yet handled, without the flag.
StepShape ==
    \A t \in Thread :
        /\ single_step[t] # None => Kind[single_step[t]] = "Counter"
        /\ trap[t] => single_step[t] # None
        /\ event[t] = "single_step" => single_step[t] # None /\ ~trap[t]

\* The Counter breakpoint that is missing is being stepped over.
RemovedStepped ==
    \A a \in Addr : Kind[a] = "Counter" /\ ~breakpoints[a].applied => Steps

\* While some thread steps, the others are held and the breakpoint to restore is known.
StepAlone ==
    Steps =>
        /\ \A t \in Thread : thread_info[t] = "Runnable" => single_step[t] # None
        /\ restore_pc # None /\ Kind[restore_pc] = "Counter"

DebuggerInv ==
    /\ Debugger!TypeOK
    /\ RemovedReported /\ executed \subseteq reported

CounterInv ==
    /\ DebuggerInv
    /\ StepShape /\ RemovedStepped /\ StepAlone
    /\ ~missed

-----------------------------------------------------------------------------
(* prepare_to_resume.                                                      *)

\* prepare_to_resume keeps the types of what it sets; if threads step, only one of
\* them is runnable afterwards and its breakpoint is the one to restore.
LEMMA PrepareFacts ==
    ASSUME NEW info \in [Thread -> {"Unknown", "Runnable", "Suspended", "Exited"}],
           NEW step \in [Thread -> Addr \cup {None}],
           NEW restore \in Addr \cup {None},
           Debugger!TypeOK, None \notin Addr,
           Debugger!PrepareToResume(info, step, restore)
    PROVE  /\ thread_info' \in [Thread -> {"Unknown", "Runnable", "Suspended", "Exited"}]
           /\ restore_pc' \in Addr \cup {None}
           /\ (\E t \in Thread : step[t] # None) =>
                \E s \in Thread :
                    /\ step[s] # None /\ restore_pc' = step[s]
                    /\ \A t \in Thread : thread_info'[t] = "Runnable" => t = s
PROOF
<1>1. CASE {u \in Thread : step[u] # None} = {}
  BY <1>1 DEF Debugger!PrepareToResume, Debugger!ResumedAll, Debugger!Resumed,
              Debugger!Known, Debugger!TypeOK
<1>2. CASE {u \in Thread : step[u] # None} # {}
  <2>1. PICK s \in Thread :
          /\ step[s] # None /\ restore_pc' = step[s]
          /\ thread_info' = [u \in Thread |->
               IF u \notin Debugger!Known(info) THEN "Unknown"
               ELSE IF u = s THEN "Runnable" ELSE Debugger!Suspended(u)]
    BY <1>2 DEF Debugger!PrepareToResume
  <2>2. \A u \in Thread : Debugger!Suspended(u) \in {"Suspended", "Exited"}
    BY DEF Debugger!Suspended
  <2>. QED  BY <2>1, <2>2
<1>. QED  BY <1>1, <1>2
-----------------------------------------------------------------------------
(* What holds for any breakpoints.                                         *)

\* No breakpoint's code runs before the client has been told of the breakpoint.
LEMMA DebuggerStep ==
    ASSUME Debugger!DebuggerAssumption, DebuggerInv, [Debugger!Next]_Debugger!vars
    PROVE  DebuggerInv'
PROOF
<1>. USE DEF DebuggerInv
<1>t. Debugger!TypeOK /\ RemovedReported /\ executed \subseteq reported
  OBVIOUS
<1>n. None \notin Addr /\ Kind \in [Addr -> {"Counter", "OneTime"}] /\ MaxCount \in Nat
  BY DEF Debugger!DebuggerAssumption, Debugger!Events
<1>1. ASSUME NEW t \in Thread, Debugger!Execute(t) PROVE DebuggerInv'
  <2>1. PICK a \in Addr :
         IF breakpoints[a].applied
         THEN /\ event' = [event EXCEPT ![t] = a]
              /\ UNCHANGED <<pc, trap, executed, missed>>
         ELSE /\ event' = [event EXCEPT ![t] = IF trap[t] THEN "single_step" ELSE None]
              /\ trap' = [trap EXCEPT ![t] = FALSE]
              /\ pc' = [pc EXCEPT ![t] = None]
              /\ executed' = executed \cup {a}
              /\ missed' = (missed \/ (Kind[a] = "Counter" /\ single_step[t] # a))
    BY <1>1, <1>n DEF Debugger!Execute, Debugger!TypeOK
  <2>2. UNCHANGED <<Debugger!tgt, reported>>
    BY <1>1 DEF Debugger!Execute
  <2>3. CASE breakpoints[a].applied
    BY <2>1, <2>2, <2>3, <1>t DEF Debugger!TypeOK, RemovedReported, Debugger!tgt,
                                  Debugger!Events
  <2>4. CASE ~breakpoints[a].applied
    <3>1. a \in reported
      BY <2>4 DEF RemovedReported
    <3>2. missed' \in BOOLEAN
      BY <2>1, <2>4, <1>t DEF Debugger!TypeOK
    <3>3. event' \in [Thread -> Debugger!Events \cup {None}]
      BY <2>1, <2>4 DEF Debugger!TypeOK, Debugger!Events
    <3>. QED  BY <2>1, <2>2, <2>4, <3>1, <3>2, <3>3 DEF Debugger!TypeOK, RemovedReported,
                                                        Debugger!tgt
  <2>. QED  BY <2>3, <2>4
<1>2. CASE Debugger!CreateThread
  BY <1>2 DEF Debugger!CreateThread, Debugger!TypeOK, RemovedReported, Debugger!tgt,
              Debugger!history, Debugger!Events
<1>3. ASSUME NEW t \in Thread, Debugger!EndThread(t) PROVE DebuggerInv'
  BY <1>3 DEF Debugger!EndThread, Debugger!TypeOK, RemovedReported, Debugger!tgt,
              Debugger!history, Debugger!Events
<1>4. ASSUME NEW t \in Thread, Debugger!OnCreateThread(t) \/ Debugger!OnExitThread(t)
      PROVE  DebuggerInv'
  <2>1. PICK w \in {"Runnable", "Unknown"} :
          Debugger!PrepareToResume([thread_info EXCEPT ![t] = w], single_step, restore_pc)
    BY <1>4 DEF Debugger!OnCreateThread, Debugger!OnExitThread
  <2>2. [thread_info EXCEPT ![t] = w]
          \in [Thread -> {"Unknown", "Runnable", "Suspended", "Exited"}]
    BY DEF Debugger!TypeOK
  <2>3. /\ thread_info' \in [Thread -> {"Unknown", "Runnable", "Suspended", "Exited"}]
        /\ restore_pc' \in Addr \cup {None}
    BY <2>1, <2>2, <1>n, PrepareFacts DEF Debugger!TypeOK
  <2>. QED
    BY <1>4, <2>3 DEF Debugger!OnCreateThread, Debugger!OnExitThread, Debugger!Handled,
                      Debugger!TypeOK, RemovedReported, Debugger!history
<1>5. ASSUME NEW t \in Thread, Debugger!HandleBreakpoint(t) PROVE DebuggerInv'
  <2>. DEFINE a == event[t]
              step == IF Kind[a] = "Counter" THEN [single_step EXCEPT ![t] = a]
                      ELSE single_step
  <2>1. /\ a \in Addr /\ Debugger!Handled(t) /\ breakpoints' = Debugger!DisabledAt(a)
        /\ pc' = [pc EXCEPT ![t] = a]
        /\ trap' = [trap EXCEPT ![t] = @ \/ Kind[a] = "Counter"]
        /\ single_step' = step /\ Debugger!PrepareToResume(thread_info, step, restore_pc)
        /\ reported' = reported \cup {a} /\ UNCHANGED <<exited, executed, missed>>
    BY <1>5 DEF Debugger!HandleBreakpoint
  <2>2. step \in [Thread -> Addr \cup {None}]
    BY <2>1 DEF Debugger!TypeOK
  <2>. HIDE DEF step, a
  <2>3. /\ thread_info' \in [Thread -> {"Unknown", "Runnable", "Suspended", "Exited"}]
        /\ restore_pc' \in Addr \cup {None}
    BY <2>1, <2>2, <1>n, PrepareFacts DEF Debugger!TypeOK
  <2>4. breakpoints' \in [Addr -> [disabled : 0..MaxCount, applied : BOOLEAN]]
    <3>1. breakpoints[a] \in [disabled : 0..MaxCount, applied : BOOLEAN]
      BY <2>1 DEF Debugger!TypeOK
    <3>2. Debugger!Disable(breakpoints[a]) \in [disabled : 0..MaxCount, applied : BOOLEAN]
      BY <3>1, <1>n DEF Debugger!Disable
    <3>. QED  BY <2>1, <3>2 DEF Debugger!DisabledAt, Debugger!TypeOK
  <2>5. \A b \in Addr : b # a => breakpoints'[b] = breakpoints[b]
    BY <2>1 DEF Debugger!DisabledAt, Debugger!TypeOK
  <2>6. RemovedReported'
    BY <2>1, <2>5 DEF RemovedReported
  <2>7. trap' \in [Thread -> BOOLEAN]
    BY <2>1, Zenon DEF Debugger!TypeOK
  <2>. QED
    BY <2>1, <2>2, <2>3, <2>4, <2>6, <2>7 DEF Debugger!Handled, Debugger!TypeOK
<1>6. ASSUME NEW t \in Thread, Debugger!CompleteSingleStep(t) PROVE DebuggerInv'
  <2>. DEFINE step == [single_step EXCEPT ![t] = None]
  <2>1. step \in [Thread -> Addr \cup {None}]
    BY DEF Debugger!TypeOK
  <2>2. /\ thread_info' \in [Thread -> {"Unknown", "Runnable", "Suspended", "Exited"}]
        /\ restore_pc' \in Addr \cup {None}
    BY <1>6, <2>1, <1>n, PrepareFacts DEF Debugger!CompleteSingleStep, Debugger!TypeOK
  <2>3. /\ breakpoints' \in [Addr -> [disabled : 0..MaxCount, applied : BOOLEAN]]
        /\ \A b \in Addr : ~breakpoints'[b].applied => ~breakpoints[b].applied
    BY <1>6, <1>n DEF Debugger!CompleteSingleStep, Debugger!Enable, Debugger!TypeOK
  <2>. QED
    BY <1>6, <2>1, <2>2, <2>3
       DEF Debugger!CompleteSingleStep, Debugger!Handled, Debugger!TypeOK, RemovedReported,
           Debugger!history
<1>7. CASE Debugger!ExitProcess
  BY <1>7 DEF Debugger!ExitProcess, Debugger!TypeOK, RemovedReported, Debugger!os,
              Debugger!history
<1>8. CASE UNCHANGED Debugger!vars
  BY <1>8 DEF Debugger!vars, Debugger!os, Debugger!tgt, Debugger!history, Debugger!TypeOK,
              RemovedReported
<1>. QED  BY <1>1, <1>2, <1>3, <1>4, <1>5, <1>6, <1>7, <1>8 DEF Debugger!Next

\* Nothing is executed before the first stop.
LEMMA DebuggerInit ==
    ASSUME Debugger!DebuggerAssumption, Debugger!Init
    PROVE  DebuggerInv
PROOF
<1>1. MaxCount \in Nat
  BY DEF Debugger!DebuggerAssumption
<1>2. breakpoints \in [Addr -> [disabled : 0..MaxCount, applied : BOOLEAN]]
  BY <1>1 DEF Debugger!Init
<1>3. thread_info \in [Thread -> {"Unknown", "Runnable", "Suspended", "Exited"}]
  <2>1. PICK t \in Thread :
          thread_info = [u \in Thread |-> IF u = t THEN "Runnable" ELSE "Unknown"]
    BY DEF Debugger!Init
  <2>. QED  BY <2>1
<1>4. Debugger!TypeOK
  BY <1>2, <1>3 DEF Debugger!Init, Debugger!TypeOK
<1>. QED  BY <1>4 DEF Debugger!Init, DebuggerInv, RemovedReported

\* Whatever threads stop, step and are resumed in whatever order, and with any number of
\* breakpoints of either kind, the code at a breakpoint is not executed before
\* on_breakpoint has told the client of it.
THEOREM ToldFirst == Debugger!DebuggerAssumption =>
  (Debugger!Spec => []Debugger!ReportedBeforeExecuted)
PROOF
<1>1. Debugger!DebuggerAssumption /\ Debugger!Init => DebuggerInv
  BY DebuggerInit
<1>2. Debugger!DebuggerAssumption /\ DebuggerInv /\ [Debugger!Next]_Debugger!vars =>
        DebuggerInv'
  BY DebuggerStep
<1>3. DebuggerInv => Debugger!ReportedBeforeExecuted
  BY DEF DebuggerInv, Debugger!ReportedBeforeExecuted
<1>4. SUFFICES ASSUME Debugger!DebuggerAssumption
               PROVE  Debugger!Spec => []Debugger!ReportedBeforeExecuted
  OBVIOUS
<1>. QED  BY <1>1, <1>2, <1>3, <1>4, PTL DEF Debugger!Spec
-----------------------------------------------------------------------------
(* What holds with at most one Counter breakpoint.                         *)

\* A handler that ends in prepare_to_resume leaves stepping threads alone runnable.
LEMMA ResumeStepsAlone ==
    ASSUME NEW info \in [Thread -> {"Unknown", "Runnable", "Suspended", "Exited"}],
           NEW restore \in Addr \cup {None},
           Debugger!TypeOK, Debugger!TypeOK', None \notin Addr, StepShape',
           Debugger!PrepareToResume(info, single_step', restore)
    PROVE  StepAlone'
PROOF
<1>1. single_step' \in [Thread -> Addr \cup {None}]
  BY DEF Debugger!TypeOK
<1>2. (\E t \in Thread : single_step'[t] # None) =>
        \E s \in Thread :
            /\ single_step'[s] # None /\ restore_pc' = single_step'[s]
            /\ \A t \in Thread : thread_info'[t] = "Runnable" => t = s
  BY <1>1, PrepareFacts
<1>. QED  BY <1>2 DEF StepAlone, Steps, StepShape

\* A Counter breakpoint that is not in the code is stepped over by every thread that
\* can run, so that none misses it.
LEMMA CounterStep ==
    ASSUME Debugger!DebuggerAssumption, Debugger!OneCounter, CounterInv, [Debugger!Next]_Debugger!vars
    PROVE  CounterInv'
PROOF
<1>. USE DEF CounterInv
<1>t. Debugger!TypeOK /\ Debugger!TypeOK' /\ DebuggerInv'
  BY DebuggerStep DEF DebuggerInv
<1>s. StepShape /\ RemovedStepped /\ StepAlone /\ missed = FALSE
  OBVIOUS
<1>n. /\ None \notin Addr /\ None # "single_step" /\ "single_step" \notin Addr
      /\ Kind \in [Addr -> {"Counter", "OneTime"}]
  BY DEF Debugger!DebuggerAssumption, Debugger!Events
<1>1. ASSUME NEW t \in Thread, Debugger!Execute(t) PROVE CounterInv'
  <2>1. PICK a \in Addr :
         IF breakpoints[a].applied
         THEN /\ event' = [event EXCEPT ![t] = a]
              /\ UNCHANGED <<pc, trap, executed, missed>>
         ELSE /\ event' = [event EXCEPT ![t] = IF trap[t] THEN "single_step" ELSE None]
              /\ trap' = [trap EXCEPT ![t] = FALSE]
              /\ pc' = [pc EXCEPT ![t] = None]
              /\ executed' = executed \cup {a}
              /\ missed' = (missed \/ (Kind[a] = "Counter" /\ single_step[t] # a))
    BY <1>1, <1>t DEF Debugger!Execute, Debugger!TypeOK
  <2>2. UNCHANGED <<Debugger!tgt, reported>> /\ thread_info[t] = "Runnable"
    BY <1>1 DEF Debugger!Execute, Debugger!Running
  <2>3. RemovedStepped' /\ StepAlone'
    BY <2>2, <1>s DEF RemovedStepped, StepAlone, Steps, Debugger!tgt
  <2>4. CASE breakpoints[a].applied
    <3>1. StepShape'
      BY <2>1, <2>2, <2>4, <1>s, <1>t, <1>n DEF StepShape, Debugger!TypeOK, Debugger!tgt
    <3>. QED  BY <2>1, <2>3, <2>4, <3>1, <1>s, <1>t
  <2>5. CASE ~breakpoints[a].applied
    <3>1. StepShape'
      BY <2>1, <2>2, <2>5, <1>s, <1>t, <1>n DEF StepShape, Debugger!TypeOK, Debugger!tgt
    <3>2. ASSUME Kind[a] = "Counter" PROVE single_step[t] = a
      <4>1. single_step[t] # None
        BY <2>2, <2>5, <3>2, <1>s DEF RemovedStepped, StepAlone
      <4>2. single_step[t] \in Addr
        BY <4>1, <1>t DEF Debugger!TypeOK
      <4>. QED  BY <4>1, <4>2, <3>2, <1>s DEF StepShape, Debugger!OneCounter
    <3>. QED  BY <2>1, <2>3, <2>5, <3>1, <3>2, <1>s, <1>t
  <2>. QED  BY <2>4, <2>5
<1>2. CASE Debugger!CreateThread
  <2>1. PICK t \in Thread : event' = [event EXCEPT ![t] = "create"]
    BY <1>2 DEF Debugger!CreateThread
  <2>2. UNCHANGED <<pc, trap, Debugger!tgt, Debugger!history>>
    BY <1>2 DEF Debugger!CreateThread
  <2>. QED
    BY <2>1, <2>2, <1>s, <1>t, <1>n
       DEF Debugger!TypeOK, StepShape, RemovedStepped, StepAlone, Steps, Debugger!tgt,
           Debugger!history
<1>3. ASSUME NEW t \in Thread, Debugger!EndThread(t) PROVE CounterInv'
  BY <1>3, <1>s, <1>t, <1>n
     DEF Debugger!EndThread, Debugger!TypeOK, StepShape, RemovedStepped, StepAlone, Steps,
         Debugger!tgt, Debugger!history
<1>4. ASSUME NEW t \in Thread, Debugger!OnCreateThread(t) \/ Debugger!OnExitThread(t)
      PROVE  CounterInv'
  <2>0. /\ event' = [event EXCEPT ![t] = None]
        /\ UNCHANGED <<pc, trap, breakpoints, single_step, exited, Debugger!history>>
    BY <1>4 DEF Debugger!OnCreateThread, Debugger!OnExitThread, Debugger!Handled
  <2>1. PICK w \in {"Runnable", "Unknown"} :
          Debugger!PrepareToResume([thread_info EXCEPT ![t] = w], single_step, restore_pc)
    BY <1>4 DEF Debugger!OnCreateThread, Debugger!OnExitThread
  <2>2. [thread_info EXCEPT ![t] = w]
          \in [Thread -> {"Unknown", "Runnable", "Suspended", "Exited"}]
    BY <1>t DEF Debugger!TypeOK
  <2>3. StepShape'
    BY <2>0, <1>s, <1>t, <1>n DEF StepShape, Debugger!TypeOK
  <2>4. StepAlone'
    <3>1. single_step' = single_step /\ restore_pc \in Addr \cup {None}
      BY <2>0, <1>t DEF Debugger!TypeOK
    <3>. QED  BY <2>1, <2>2, <2>3, <3>1, <1>n, <1>t, ResumeStepsAlone
  <2>. QED
    BY <2>0, <2>3, <2>4, <1>s, <1>t DEF RemovedStepped, Steps, Debugger!history
<1>5. ASSUME NEW t \in Thread, Debugger!HandleBreakpoint(t) PROVE CounterInv'
  <2>. DEFINE a == event[t]
              step == IF Kind[a] = "Counter" THEN [single_step EXCEPT ![t] = a]
                      ELSE single_step
  <2>1. /\ a \in Addr /\ event' = [event EXCEPT ![t] = None]
        /\ breakpoints' = Debugger!DisabledAt(a)
        /\ trap' = [trap EXCEPT ![t] = @ \/ Kind[a] = "Counter"]
        /\ single_step' = step /\ Debugger!PrepareToResume(thread_info, step, restore_pc)
        /\ UNCHANGED <<exited, executed, missed>>
    BY <1>5 DEF Debugger!HandleBreakpoint, Debugger!Handled
  <2>2. \A u \in Thread : u # t => /\ event'[u] = event[u] /\ trap'[u] = trap[u]
                                   /\ single_step'[u] = single_step[u]
    BY <2>1, <1>t DEF Debugger!TypeOK
  <2>3. \A b \in Addr : b # a => breakpoints'[b] = breakpoints[b]
    BY <2>1, <1>t DEF Debugger!DisabledAt, Debugger!TypeOK
  <2>4. CASE Kind[a] = "Counter"
    <3>1. single_step'[t] = a /\ event'[t] = None
      BY <2>1, <2>4, <1>t DEF Debugger!TypeOK
    <3>2. StepShape'
      BY <2>1, <2>2, <2>4, <3>1, <1>s, <1>n DEF StepShape
    <3>3. RemovedStepped'
      BY <2>1, <3>1, <1>n DEF RemovedStepped, Steps
    <3>. QED
      <4>1. StepAlone'
        BY <2>1, <3>2, <1>t, <1>n, ResumeStepsAlone DEF Debugger!TypeOK
      <4>. QED  BY <2>1, <3>2, <3>3, <4>1, <1>s, <1>t
  <2>5. CASE Kind[a] # "Counter"
    <3>1. single_step' = single_step /\ event'[t] = None
      BY <2>1, <2>5, <1>t DEF Debugger!TypeOK
    <3>2. trap'[t] = trap[t]
      BY <2>1, <2>5, <1>t DEF Debugger!TypeOK
    <3>3. StepShape'
      BY <2>2, <3>1, <3>2, <1>s, <1>n DEF StepShape
    <3>4. RemovedStepped'
      BY <2>3, <2>5, <3>1, <1>s DEF RemovedStepped, Steps
    <3>. QED
      <4>1. StepAlone'
        BY <2>1, <3>3, <1>t, <1>n, ResumeStepsAlone DEF Debugger!TypeOK
      <4>. QED  BY <2>1, <3>3, <3>4, <4>1, <1>s, <1>t
  <2>. QED  BY <2>4, <2>5
<1>6. ASSUME NEW t \in Thread, Debugger!CompleteSingleStep(t) PROVE CounterInv'
  <2>. DEFINE step == [single_step EXCEPT ![t] = None]
  <2>1. /\ event[t] = "single_step" /\ event' = [event EXCEPT ![t] = None]
        /\ breakpoints' = IF restore_pc = None THEN breakpoints
                          ELSE [breakpoints EXCEPT ![restore_pc] = Debugger!Enable(@)]
        /\ single_step' = step /\ Debugger!PrepareToResume(thread_info, step, None)
        /\ UNCHANGED <<pc, trap, exited, Debugger!history>>
    BY <1>6 DEF Debugger!CompleteSingleStep, Debugger!Handled
  <2>2. restore_pc \in Addr /\ Kind[restore_pc] = "Counter"
    BY <2>1, <1>s, <1>t DEF StepShape, StepAlone, Steps, Debugger!TypeOK
  <2>3. breakpoints'[restore_pc].applied
    BY <2>1, <2>2, <1>t, <1>n DEF Debugger!Enable, Debugger!TypeOK
  <2>4. RemovedStepped'
    BY <2>2, <2>3 DEF RemovedStepped, Debugger!OneCounter
  <2>5. StepShape'
    BY <2>1, <1>s, <1>t, <1>n DEF StepShape, Debugger!TypeOK
  <2>6. StepAlone'
    BY <2>1, <2>5, <1>t, <1>n, ResumeStepsAlone DEF Debugger!TypeOK
  <2>. QED  BY <2>1, <2>4, <2>5, <2>6, <1>s, <1>t DEF Debugger!history
<1>7. CASE Debugger!ExitProcess
  BY <1>7, <1>s, <1>t
     DEF Debugger!ExitProcess, StepShape, RemovedStepped, StepAlone, Steps, Debugger!os,
         Debugger!history
<1>8. CASE UNCHANGED Debugger!vars
  BY <1>8, <1>s, <1>t
     DEF Debugger!vars, StepShape, RemovedStepped, StepAlone, Steps, Debugger!os,
         Debugger!tgt, Debugger!history
<1>. QED  BY <1>1, <1>2, <1>3, <1>4, <1>5, <1>6, <1>7, <1>8 DEF Debugger!Next

\* The invariant holds initially.
LEMMA CounterInit ==
    ASSUME Debugger!DebuggerAssumption, Debugger!Init
    PROVE  CounterInv
PROOF
<1>1. DebuggerInv
  BY DebuggerInit
<1>s. /\ \A t \in Thread : single_step[t] = None /\ ~trap[t] /\ event[t] # "single_step"
      /\ \A a \in Addr : breakpoints[a].applied
  BY DEF Debugger!DebuggerAssumption, Debugger!Events, Debugger!Init
<1>2. StepShape /\ RemovedStepped
  BY <1>s, Zenon DEF StepShape, RemovedStepped
<1>4. StepAlone
  BY <1>s, Zenon DEF StepAlone, Steps
<1>3. ~missed
  BY DEF Debugger!Init
<1>. QED  BY <1>1, <1>2, <1>3, <1>4 DEF CounterInv

\* The parts differ, and so do the tests of one kind.
LEMMA OnePart ==
    ASSUME NEW a, NEW b, NEW c, NEW d
    PROVE  /\ <<a, b>> = <<c, d>> => a = c /\ b = d
           /\ <<a, b>> # <<c>> /\ <<a, b>>[1] = a /\ <<c>>[1] = c
OBVIOUS

\* A step of the testers is one of the debugger when that runs, or leaves it as it is.
LEMMA DebuggerPart ==
    ASSUME [Next]_vars
    PROVE  part' = part /\ (part = <<"debugger">> => [Debugger!Next]_Debugger!vars)
PROOF
<1>1. CASE UNCHANGED vars
  BY <1>1 DEF vars, Debugger!vars, Debugger!os, Debugger!tgt, Debugger!history
<1>2. CASE RunDebugger
  BY <1>2 DEF RunDebugger, DebuggerOthers
<1>3. ASSUME NEW k, RunInput(k)
      PROVE  part' = part /\ part # <<"debugger">>
  BY <1>3, OnePart DEF RunInput, InputOthers
<1>4. ASSUME NEW k, RunTarget(k)
      PROVE  part' = part /\ part # <<"debugger">>
  BY <1>4, OnePart DEF RunTarget, TargetOthers
<1>. QED  BY <1>1, <1>2, <1>3, <1>4 DEF Next

\* With one Counter breakpoint among any number of OneTime ones and any number of
\* threads, handle_breakpoint, prepare_to_resume and complete_single_step lose no
\* breakpoint: none is passed by a thread that was not reported at it, and the Counter
\* is in place again when no thread steps.
THEOREM CounterKept == Spec => []BreakpointsKept
PROOF
<1>. DEFINE Inv == part = <<"debugger">> => CounterInv
<1>a. Debugger!DebuggerAssumption /\ Debugger!OneCounter
  BY TestersAssumption
<1>1. Init => Inv
  BY <1>a, CounterInit DEF Init
<1>2. Inv /\ [Next]_vars => Inv'
  <2>. SUFFICES ASSUME Inv, [Next]_vars PROVE Inv'
    OBVIOUS
  <2>1. part' = part /\ (part = <<"debugger">> => [Debugger!Next]_Debugger!vars)
    BY DebuggerPart
  <2>. QED  BY <1>a, <2>1, CounterStep
<1>3. Inv => BreakpointsKept
  BY DEF CounterInv, DebuggerInv, BreakpointsKept, Debugger!BreakpointsKept,
         Debugger!NeverMissed, Debugger!ReportedBeforeExecuted,
         Debugger!CounterRestored, RemovedStepped, Steps
<1>. QED  BY <1>1, <1>2, <1>3, PTL DEF Spec
-----------------------------------------------------------------------------
(* Tester::test_input.                                                     *)

\* A run that was killed has ended so; the target is alive only while a run is waited for,
\* when it was killed, or when the Windows debugger has failed; nothing was shown that is not reported; runs are left until the last one is checked.
InputInv(cfg) ==
    /\ Input(cfg)!TypeOK
    /\ target \in [alive : BOOLEAN, signals : Seq(cfg.Threads),
                   log : {"none", "partial", "complete"}, killed : BOOLEAN]
    /\ target.killed => ended = "timeout"
    /\ target.alive => \/ pc \in {"pid", "running"} \/ target.killed
                       \/ Input(cfg)!TestProcess /\ ended = "debugger"
    /\ pc = "pid" => ~target.killed
    /\ shown => pc = "done" /\ crash_log # Input(cfg)!NoCrash
    /\ pc = "done" => error = Input(cfg)!RunError
    /\ pc \in {"setup", "attempt"} => attempt <= opt.check_retry_count

\* The options are set, and no target was started.
LEMMA InputInit ==
    ASSUME NEW cfg, Input(cfg)!TesterAssumption, Input(cfg)!Init
    PROVE  InputInv(cfg)
<1>0. <<>> \in Seq(cfg.Threads) /\ Len(<<>>) = 0 /\ cfg.MaxRetries \in Nat /\ cfg.MaxSignals \in Nat
  BY DEF Input!TesterAssumption
<1>1. target = [alive |-> FALSE, signals |-> <<>>, log |-> "none", killed |-> FALSE]
  BY DEF Input!Init, Input!NoTarget
<1>2. opt.check_retry_count \in 0..cfg.MaxRetries
  BY DEF Input!Init
<1>3. Input(cfg)!TypeOK
  <2>1. /\ target.alive \in BOOLEAN /\ target.killed \in BOOLEAN
        /\ target.signals \in Seq(cfg.Threads) /\ Len(target.signals) <= cfg.MaxSignals
        /\ target.log \in {"none", "partial", "complete"}
    BY <1>0, <1>1
  <2>2. attempt \in 0..(1 + opt.check_retry_count)
    BY <1>0, <1>2 DEF Input!Init
  <2> QED
    BY <2>1, <2>2 DEF Input!Init, Input!TypeOK
<1> QED
  BY <1>0, <1>1, <1>2, <1>3 DEF Input!Init, InputInv

\* A step that leaves what the invariant speaks of.
LEMMA InputTyped ==
    ASSUME NEW cfg, InputInv(cfg), Input(cfg)!TesterAssumption
    PROVE  /\ target.alive \in BOOLEAN /\ target.signals \in Seq(cfg.Threads)
           /\ target.log \in {"none", "partial", "complete"} /\ target.killed \in BOOLEAN
           /\ opt.check_retry_count \in Nat /\ attempt \in Nat
           /\ opt.check_debugger \in BOOLEAN /\ opt.check_asan_log \in BOOLEAN
           /\ opt.check_asan_stderr \in BOOLEAN /\ cfg.MaxRetries \in Nat /\ cfg.MaxSignals \in Nat
<1>1. opt \in [check_debugger : BOOLEAN, check_asan_log : BOOLEAN,
               check_asan_stderr : BOOLEAN, check_retry_count : 0..cfg.MaxRetries]
  BY DEF InputInv, Input!TypeOK
<1>2. cfg.MaxRetries \in Nat /\ cfg.MaxSignals \in Nat
  BY DEF Input!TesterAssumption
<1>3. opt.check_retry_count \in Nat
  BY <1>1, <1>2
<1>4. attempt \in 0..(1 + opt.check_retry_count)
  BY DEF InputInv, Input!TypeOK
<1> QED
  BY <1>1, <1>2, <1>3, <1>4 DEF InputInv

\* The checks of a run: what it showed is reported, and ends the test.
LEMMA InputCheck ==
    ASSUME NEW cfg, Input(cfg)!TesterAssumption, InputInv(cfg), Input(cfg)!Check
    PROVE  InputInv(cfg)'
<1> DEFINE last == attempt = 1 + opt.check_retry_count
<1>0. /\ pc = "check" /\ ~shown
      /\ shown' = (shown \/ Input(cfg)!Evidence) /\ error' = Input(cfg)!RunError
      /\ Input(cfg)!Examine(last) /\ UNCHANGED <<opt, attempt, target, ended>>
  BY DEF Input!Check, InputInv
<1>t. /\ target.signals \in Seq(cfg.Threads) /\ target.log \in {"none", "partial", "complete"}
      /\ opt.check_debugger \in BOOLEAN /\ opt.check_asan_log \in BOOLEAN
      /\ opt.check_asan_stderr \in BOOLEAN /\ opt.check_retry_count \in Nat /\ attempt \in Nat
  BY InputTyped
<1>1. PICK path \in Input(cfg)!CheckAsanPath, string \in Input(cfg)!CheckAsanString :
        IF Input(cfg)!DebuggerCrash # Input(cfg)!NoCrash
        THEN crash_log' = Input(cfg)!DebuggerCrash /\ pc' = "done"
        ELSE IF path = "error"
        THEN crash_log' = Input(cfg)!NoCrash /\ pc' = "failed"
        ELSE LET f == IF path # "none" THEN path ELSE string IN
             /\ crash_log' = [kind |-> f]
             /\ pc' = IF f # "none" \/ last THEN "done" ELSE "attempt"
  BY <1>0 DEF Input!Examine
<1>2. path \in {"none", "log", "error"} /\ string \in {"none", "stderr"}
  <2>1. Input(cfg)!CheckAsanPath \subseteq {"none", "log", "error"}
    BY <1>t DEF Input!CheckAsanPath, Input!LogFile
  <2>2. Input(cfg)!CheckAsanString \subseteq {"none", "stderr"}
    BY <1>t DEF Input!CheckAsanString
  <2> QED
    BY <2>1, <2>2
<1>3. /\ \A x : [kind |-> x].kind = x
      /\ Input(cfg)!NoCrash.kind = "none" /\ Input(cfg)!NoCrash = [kind |-> "none"]
      /\ Input(cfg)!NewCrash.kind = "signal"
  BY DEF Input!NoCrash, Input!NewCrash
<1>4. ASSUME Input(cfg)!Evidence PROVE pc' = "done" /\ crash_log' # Input(cfg)!NoCrash
  <2>1. CASE Input(cfg)!DebuggerCrash # Input(cfg)!NoCrash
    BY <1>1, <2>1
  <2>2. CASE Input(cfg)!DebuggerCrash = Input(cfg)!NoCrash
    <3>1. ~(/\ target.signals # <<>>
            /\ \/ Input(cfg)!Triage /\ ended = "exit"
               \/ Input(cfg)!TestProcess /\ ended \in {"exit", "timeout"})
      BY <1>3, <2>2 DEF Input!DebuggerCrash, Input!RunError, Input!Triage, Input!TestProcess
    <3>2. CASE opt.check_asan_log /\ target.log = "complete"
      <4>1. path = "log"
        <5>1. Input(cfg)!CheckAsanPath = {"log"}
          BY <3>2 DEF Input!CheckAsanPath, Input!LogFile
        <5> QED
          BY <5>1
      <4> QED
        BY <1>1, <1>3, <2>2, <4>1
    <3>3. CASE /\ opt.check_asan_stderr /\ ~opt.check_asan_log /\ ~opt.check_debugger
               /\ ended = "exit" /\ target.log = "complete"
      <4>1. Input(cfg)!CheckAsanPath = {"none"}
        BY <3>3 DEF Input!CheckAsanPath, Input!LogFile
      <4>2. Input(cfg)!CheckAsanString = {"stderr"}
        BY <3>3 DEF Input!CheckAsanString, Input!RunError
      <4>3. path = "none" /\ string = "stderr"
        BY <4>1, <4>2
      <4> QED
        BY <1>1, <1>3, <2>2, <4>3
    <3> QED
      BY <1>4, <3>1, <3>2, <3>3 DEF Input!Evidence
  <2> QED
    BY <2>1, <2>2
<1>5. pc' \in {"done", "failed", "attempt"} /\ (pc' = "attempt" => ~last)
  BY <1>1
<1>6. \/ crash_log' = Input(cfg)!NoCrash
      \/ crash_log' \in [kind : {"signal"}, thread : cfg.Threads]
      \/ crash_log' \in [kind : {"log", "stderr"}]
  <2>1. CASE Input(cfg)!DebuggerCrash # Input(cfg)!NoCrash
    <3> DEFINE u == IF cfg.Windows THEN target.signals[Len(target.signals)] ELSE cfg.Main
    <3>1. Input(cfg)!DebuggerCrash = [kind |-> "signal", thread |-> u] /\ target.signals # <<>>
      BY <2>1 DEF Input!DebuggerCrash, Input!NewCrash
    <3>2. cfg.Main \in cfg.Threads /\ target.signals[Len(target.signals)] \in cfg.Threads
      BY <1>t, <3>1 DEF Input!TesterAssumption
    <3>3. u \in cfg.Threads
      BY <3>2
    <3> HIDE DEF u
    <3> QED
      BY <1>1, <2>1, <3>1, <3>3
  <2>2. CASE Input(cfg)!DebuggerCrash = Input(cfg)!NoCrash
    BY <1>1, <1>2, <1>3, <2>2
  <2> QED
    BY <2>1, <2>2
<1>7. attempt <= 1 + opt.check_retry_count
  BY <1>t DEF InputInv, Input!TypeOK
<1>8. pc' = "attempt" => attempt <= opt.check_retry_count
  BY <1>t, <1>5, <1>7
<1>9. shown' = Input(cfg)!Evidence /\ shown' \in BOOLEAN /\ error' \in BOOLEAN
  BY <1>0 DEF Input!Evidence, Input!RunError
<1>a. Input(cfg)!RunError' = Input(cfg)!RunError /\ Input(cfg)!TestProcess' = Input(cfg)!TestProcess
  BY <1>0 DEF Input!RunError, Input!TestProcess
<1>10. Input(cfg)!TypeOK'
  BY <1>0, <1>5, <1>6, <1>9 DEF InputInv, Input!TypeOK, Input!NoCrash
<1> QED
  BY <1>0, <1>4, <1>5, <1>8, <1>9, <1>10, <1>a DEF InputInv, Input!NoCrash

\* Every step of the test keeps the invariant.
LEMMA InputSteps ==
    ASSUME NEW cfg, Input(cfg)!TesterAssumption, InputInv(cfg),
           [Input(cfg)!Next]_(Input(cfg)!vars)
    PROVE  InputInv(cfg)'
<1>t. /\ target.alive \in BOOLEAN /\ target.signals \in Seq(cfg.Threads)
      /\ target.log \in {"none", "partial", "complete"} /\ target.killed \in BOOLEAN
      /\ opt.check_retry_count \in Nat /\ attempt \in Nat
      /\ target \in [alive : BOOLEAN, signals : Seq(cfg.Threads),
                     log : {"none", "partial", "complete"}, killed : BOOLEAN]
      /\ <<>> \in Seq(cfg.Threads) /\ Len(<<>>) = 0 /\ cfg.MaxSignals \in Nat
  BY InputTyped DEF InputInv
<1>u. UNCHANGED Input(cfg)!vars => InputInv(cfg)'
  BY DEF Input!vars, InputInv, Input!TypeOK, Input!NoCrash, Input!RunError, Input!TestProcess
<1>1. CASE Input(cfg)!Setup
  BY <1>1, <1>t DEF Input!Setup, InputInv, Input!TypeOK, Input!NoCrash, Input!RunError,
                    Input!TestProcess
<1>2. CASE Input(cfg)!StartAttempt
  <2>1. target' \in [alive : BOOLEAN, signals : Seq(cfg.Threads),
                     log : {"none", "partial", "complete"}, killed : BOOLEAN]
        /\ target'.signals = <<>> /\ target'.killed = FALSE
        /\ (target'.alive => pc' \in {"pid", "running"})
    <3>1. CASE /\ target' = [Input(cfg)!NoTarget EXCEPT !.alive = TRUE]
               /\ pc' = IF Input(cfg)!Triage THEN "pid" ELSE "running"
      BY <3>1, <1>t DEF Input!NoTarget
    <3>2. CASE target' = Input(cfg)!NoTarget
      BY <3>2, <1>t DEF Input!NoTarget
    <3> QED
      BY <1>2, <3>1, <3>2 DEF Input!StartAttempt
  <2>2. /\ pc' \in {"pid", "running", "check"} /\ ended' \in {"none", "spawn"}
        /\ UNCHANGED <<opt, crash_log, error, shown>> /\ pc = "attempt"
        /\ attempt' = attempt + 1
    BY <1>2 DEF Input!StartAttempt
  <2>3. ~shown /\ attempt' \in 0..(1 + opt.check_retry_count)
    BY <1>t, <2>2 DEF InputInv
  <2>4. Input(cfg)!TypeOK'
    BY <1>t, <2>1, <2>2, <2>3 DEF InputInv, Input!TypeOK, Input!NoCrash
  <2> QED
    BY <2>1, <2>2, <2>3, <2>4 DEF InputInv
<1> DEFINE Same == UNCHANGED <<opt, attempt, crash_log, error, shown>>
           Ends == {"none", "exit", "triage", "debugger", "timeout", "spawn"}
<1>s. ASSUME Same, pc \in {"pid", "running"}, pc' \in {"running", "check"},
             target' \in [alive : BOOLEAN, signals : Seq(cfg.Threads),
                          log : {"none", "partial", "complete"}, killed : BOOLEAN],
             Len(target'.signals) <= cfg.MaxSignals, ended' \in Ends,
             target'.killed => ended' = "timeout",
             target'.alive => \/ pc' = "running" \/ target'.killed
                              \/ Input(cfg)!TestProcess /\ ended' = "debugger"
      PROVE  InputInv(cfg)'
  <2>1. ~shown
    BY <1>s DEF InputInv
  <2>2. /\ target'.alive \in BOOLEAN /\ target'.signals \in Seq(cfg.Threads)
        /\ target'.log \in {"none", "partial", "complete"} /\ target'.killed \in BOOLEAN
    BY <1>s
  <2>3. Input(cfg)!TypeOK'
    BY <1>s, <2>2 DEF InputInv, Input!TypeOK, Input!NoCrash
  <2>4. Input(cfg)!TestProcess' = Input(cfg)!TestProcess
    BY <1>s DEF Input!TestProcess
  <2> QED
    BY <1>s, <2>1, <2>3, <2>4 DEF InputInv
<1>3. CASE Input(cfg)!ReceivePid
  <2>1. Same /\ pc = "pid" /\ pc' \in {"running", "check"} /\ ~target.killed /\ ended \in Ends
    BY <1>3 DEF Input!ReceivePid, InputInv, Input!TypeOK
  <2>2. /\ target' \in [alive : BOOLEAN, signals : Seq(cfg.Threads),
                        log : {"none", "partial", "complete"}, killed : BOOLEAN]
        /\ target'.signals = target.signals /\ ~target'.killed
        /\ (target'.alive => pc' = "running") /\ ended' \in Ends
    BY <1>3, <1>t, <2>1 DEF Input!ReceivePid
  <2> QED
    BY <1>s, <2>1, <2>2 DEF InputInv, Input!TypeOK
<1>4. ASSUME NEW t \in cfg.Threads, Input(cfg)!Signal(t) PROVE InputInv(cfg)'
  <2>1. PICK dies \in BOOLEAN, kept \in BOOLEAN :
          /\ target' = [target EXCEPT !.signals = IF kept THEN Append(@, t) ELSE @,
                                     !.alive = ~dies]
          /\ ended' = IF dies THEN "exit" ELSE ended
    BY <1>4, Zenon DEF Input!Signal
  <2>2. /\ Same /\ pc = "running" /\ pc' = pc /\ ~target.killed /\ ended \in Ends
        /\ Len(target.signals) < cfg.MaxSignals
    BY <1>4 DEF Input!Signal, Input!Running, InputInv, Input!TypeOK
  <2>3. /\ Append(target.signals, t) \in Seq(cfg.Threads)
        /\ Len(Append(target.signals, t)) = Len(target.signals) + 1 /\ Len(target.signals) \in Nat
    BY <1>t
  <2>4. PICK q \in Seq(cfg.Threads) :
          q = (IF kept THEN Append(target.signals, t) ELSE target.signals)
    BY <1>t, <2>3
  <2>5. Len(q) <= cfg.MaxSignals
    BY <1>t, <2>2, <2>3, <2>4
  <2>6. target' = [target EXCEPT !.signals = q, !.alive = ~dies]
    BY <2>1, <2>4
  <2>7. /\ target' \in [alive : BOOLEAN, signals : Seq(cfg.Threads),
                        log : {"none", "partial", "complete"}, killed : BOOLEAN]
        /\ target'.signals = q /\ target'.killed = target.killed
    BY <1>t, <2>6
  <2>8. ended' \in Ends
    BY <2>1, <2>2
  <2> QED
    BY <1>s, <2>2, <2>5, <2>7, <2>8
<1>5. CASE Input(cfg)!TriageFails \/ Input(cfg)!ExitTarget
  <2>1. Same /\ pc = "running" /\ pc' = pc /\ ended' \in Ends /\ ~target.killed
    BY <1>5 DEF Input!TriageFails, Input!ExitTarget, Input!Running, InputInv
  <2>2. target' = [target EXCEPT !.alive = FALSE]
    BY <1>5 DEF Input!TriageFails, Input!ExitTarget
  <2>3. /\ target' \in [alive : BOOLEAN, signals : Seq(cfg.Threads),
                        log : {"none", "partial", "complete"}, killed : BOOLEAN]
        /\ target'.signals = target.signals /\ target'.killed = target.killed
    BY <1>t, <2>2
  <2> QED
    BY <1>s, <2>1, <2>3 DEF InputInv, Input!TypeOK
<1>5a. CASE Input(cfg)!DebuggerFails
  <2>1. /\ Same /\ pc = "running" /\ pc' = "check" /\ ended' = "debugger" /\ target' = target
        /\ ~target.killed /\ Input(cfg)!TestProcess
    BY <1>5a DEF Input!DebuggerFails, Input!Running
  <2> QED
    BY <1>s, <1>t, <2>1 DEF InputInv, Input!TypeOK
<1>6. CASE Input(cfg)!WriteReport
  <2>1. Same /\ pc = "running" /\ pc' = pc /\ ended' = ended /\ ended \in Ends /\ ~target.killed
    BY <1>6 DEF Input!WriteReport, Input!Running, InputInv, Input!TypeOK
  <2>2. target' = [target EXCEPT !.log = IF @ = "none" THEN "partial" ELSE "complete"]
    BY <1>6 DEF Input!WriteReport
  <2>3. /\ target' \in [alive : BOOLEAN, signals : Seq(cfg.Threads),
                        log : {"none", "partial", "complete"}, killed : BOOLEAN]
        /\ target'.signals = target.signals /\ target'.killed = target.killed
    BY <1>t, <2>2
  <2> QED
    BY <1>s, <2>1, <2>3 DEF InputInv, Input!TypeOK
<1>7. CASE Input(cfg)!Timeout
  <2>1. Same /\ pc = "running" /\ pc' \in {"running", "check"} /\ ended' = "timeout"
        /\ target' = [target EXCEPT !.killed = TRUE]
    BY <1>7 DEF Input!Timeout
  <2>2. /\ target' \in [alive : BOOLEAN, signals : Seq(cfg.Threads),
                        log : {"none", "partial", "complete"}, killed : BOOLEAN]
        /\ target'.signals = target.signals /\ target'.killed
    BY <1>t, <2>1
  <2> QED
    BY <1>s, <2>1, <2>2 DEF InputInv, Input!TypeOK
<1>8. CASE Input(cfg)!Joined
  <2>1. Same /\ pc = "running" /\ pc' = "check" /\ target' = target /\ ~target.alive
        /\ ended' = ended /\ ended \in Ends /\ (target.killed => ended = "timeout")
    BY <1>8 DEF Input!Joined, InputInv, Input!TypeOK
  <2> QED
    BY <1>s, <1>t, <2>1 DEF InputInv, Input!TypeOK
<1>8a. CASE Input(cfg)!EndKilled
  <2>1. /\ Same /\ pc' = pc /\ ended' = ended /\ target.killed
        /\ target' = [target EXCEPT !.alive = FALSE]
    BY <1>8a DEF Input!EndKilled
  <2>2. /\ target' \in [alive : BOOLEAN, signals : Seq(cfg.Threads),
                        log : {"none", "partial", "complete"}, killed : BOOLEAN]
        /\ target'.signals = target.signals /\ ~target'.alive /\ target'.killed
        /\ target'.log = target.log
    BY <1>t, <2>1
  <2>3. Input(cfg)!TypeOK'
    BY <2>1, <2>2 DEF InputInv, Input!TypeOK, Input!NoCrash
  <2>4. Input(cfg)!RunError' = Input(cfg)!RunError
    BY <2>1 DEF Input!RunError, Input!TestProcess
  <2> QED
    BY <2>1, <2>2, <2>3, <2>4 DEF InputInv, Input!NoCrash
<1>9. CASE Input(cfg)!Check
  BY <1>9, InputCheck
<1>10. CASE Input(cfg)!Finished
  BY <1>10, <1>u DEF Input!Finished
<1> QED
  BY <1>u, <1>1, <1>2, <1>3, <1>4, <1>5, <1>5a, <1>6, <1>7, <1>8, <1>8a, <1>9, <1>10
     DEF Input!Next, Input!TesterStep, Input!TargetStep

-----------------------------------------------------------------------------
(* Induction over numbers, as a fact about sets of them.                   *)

\* Every nonempty set of natural numbers has a least one.
LEMMA LeastNumber ==
    ASSUME NEW T, T \subseteq Nat, T # {}
    PROVE  \E x \in T : \A y \in T : x <= y
<1> DEFINE R == OpToRel(<, Nat)
<1>1. PICK x \in T : \A y \in T : ~(<<y, x>> \in R)
  BY NatLessThanWellFounded, WFMin, Zenon
<1>2. \A m, n \in Nat : <<n, m>> \in R <=> n < m
  BY DEF OpToRel
<1> HIDE DEF R
<1>3. \A y \in T : ~(y < x)
  BY <1>1, <1>2
<1>4. \A y \in T : x <= y
  BY <1>3
<1> QED
  BY <1>4

\* A set of numbers with 0 and the successor of each of its elements has all.
LEMMA Induction ==
    ASSUME NEW T, T \subseteq Nat, 0 \in T, \A n \in T : n + 1 \in T
    PROVE  T = Nat
<1> SUFFICES ASSUME Nat \ T # {} PROVE FALSE
  OBVIOUS
<1>1. PICK x \in Nat \ T : \A y \in Nat \ T : x <= y
  BY LeastNumber
<1>2. x - 1 \in T
  BY <1>1
<1>3. x - 1 + 1 \in T
  BY <1>2
<1> QED
  BY <1>1, <1>3

-----------------------------------------------------------------------------
(* The input-tester: the exceptions of one run.                            *)

Exceptions(cfg) == [code : cfg.Codes, first : BOOLEAN]
FirstChances(cfg) == [code : cfg.Codes, first : {TRUE}]

\* What a run has collected: an exception without a handler ends it, and is its last.
RunInv(cfg, r) ==
    /\ r \in [alive : BOOLEAN, pending : [cfg.Threads -> Seq(cfg.Codes)], events : Nat,
              exceptions : Seq(Exceptions(cfg)), terminated : BOOLEAN, timed_out : BOOLEAN]
    /\ \A i \in DOMAIN r.exceptions :
          ~r.exceptions[i].first => i = Len(r.exceptions) /\ r.terminated

\* What filtering leaves of it: first chances, and the last exception in any case.
ResultInv(cfg, r) ==
    /\ r.input \in Target(cfg)!Files
    /\ r.exceptions \in Seq(Exceptions(cfg)) /\ r.raw \in Seq(Exceptions(cfg))
    /\ \A i \in DOMAIN r.raw : ~r.raw[i].first => i = Len(r.raw)
    /\ r.raw = <<>> => r.exceptions = <<>>
    /\ r.raw # <<>> => \E s \in Seq(FirstChances(cfg)) :
                          r.exceptions = Append(s, r.raw[Len(r.raw)])

\* on_exception keeps what a run has collected in order.
LEMMA OnExceptionKeeps ==
    ASSUME NEW cfg, NEW r, RunInv(cfg, r), ignore \in BOOLEAN,
           NEW c \in cfg.Codes, NEW first \in BOOLEAN, NEW walked \in BOOLEAN
    PROVE  /\ RunInv(cfg, Target(cfg)!OnException(r, c, first, walked))
           /\ Target(cfg)!OnException(r, c, first, walked).alive = r.alive
<1> DEFINE o == Target(cfg)!OnException(r, c, first, walked)
           e == [code |-> c, first |-> first]
           es == r.exceptions
<1>0. r \in [alive : BOOLEAN, pending : [cfg.Threads -> Seq(cfg.Codes)], events : Nat,
              exceptions : Seq(Exceptions(cfg)), terminated : BOOLEAN, timed_out : BOOLEAN]
  BY DEF RunInv
<1>1. CASE (first /\ ignore) \/ r.terminated
  BY <1>1 DEF Target!OnException
<1>2. CASE ~((first /\ ignore) \/ r.terminated)
  <2>1. o = [r EXCEPT !.exceptions = IF walked THEN Append(es, e) ELSE es,
                      !.terminated = ~first]
    BY <1>2 DEF Target!OnException
  <2>2. es \in Seq(Exceptions(cfg)) /\ ~r.terminated /\ e \in Exceptions(cfg)
        /\ e.first = first
    BY <1>0, <1>2 DEF Exceptions
  <2>3. \A i \in DOMAIN es : es[i].first
    BY <2>2 DEF RunInv
  <2> DEFINE new == IF walked THEN Append(es, e) ELSE es
  <2>4. new \in Seq(Exceptions(cfg)) /\ \A i \in DOMAIN new : ~new[i].first => i = Len(new) /\ ~first
    <3>1. CASE walked
      <4>1. /\ Append(es, e) \in Seq(Exceptions(cfg)) /\ Len(Append(es, e)) = Len(es) + 1
            /\ DOMAIN Append(es, e) = 1..(Len(es) + 1)
            /\ \A i \in 1..Len(es) : Append(es, e)[i] = es[i]
            /\ Append(es, e)[Len(es) + 1] = e
        BY <2>2
      <4>2. ASSUME NEW i \in 1..(Len(es) + 1), ~Append(es, e)[i].first
            PROVE  i = Len(es) + 1 /\ ~first
        BY <2>2, <2>3, <4>1, <4>2
      <4> QED
        BY <3>1, <4>1, <4>2
    <3>2. CASE ~walked
      BY <2>2, <2>3, <3>2
    <3> QED
      BY <3>1, <3>2
  <2> HIDE DEF new, o
  <2>5. o = [r EXCEPT !.exceptions = new, !.terminated = ~first]
    BY <2>1 DEF new
  <2>6. /\ o \in [alive : BOOLEAN, pending : [cfg.Threads -> Seq(cfg.Codes)], events : Nat,
                  exceptions : Seq(Exceptions(cfg)), terminated : BOOLEAN, timed_out : BOOLEAN]
        /\ o.exceptions = new /\ o.terminated = ~first /\ o.alive = r.alive
    BY <1>0, <2>4, <2>5
  <2> QED
    BY <2>4, <2>6 DEF RunInv, o
<1> QED
  BY <1>1, <1>2

\* Sequences of exceptions that are raised and handled.
LEMMA PendingFacts ==
    ASSUME NEW S, NEW q \in Seq(S)
    PROVE  /\ \A e \in S : Append(q, e) \in Seq(S)
           /\ q # <<>> => SubSeq(q, 1, Len(q) - 1) \in Seq(S)
           /\ <<>> \in Seq(S)
OBVIOUS

\* The threads of the target: what they raise, and what is left to be handled.
LEMMA RunPending ==
    ASSUME NEW cfg, NEW r, RunInv(cfg, r), NEW t \in cfg.Threads
    PROVE  r.pending[t] \in Seq(cfg.Codes) /\ r.events \in Nat /\ r.events + 1 \in Nat
<1>1. r \in [alive : BOOLEAN, pending : [cfg.Threads -> Seq(cfg.Codes)], events : Nat,
              exceptions : Seq(Exceptions(cfg)), terminated : BOOLEAN, timed_out : BOOLEAN]
  BY DEF RunInv
<1>2. r.pending \in [cfg.Threads -> Seq(cfg.Codes)] /\ r.events \in Nat
  BY <1>1
<1> QED
  BY <1>2

Raised(r, t, n, p) == [r EXCEPT !.events = n, !.pending[t] = p]
Unraised(r, t, p) == [r EXCEPT !.pending[t] = p]

\* Neither disturbs what the run has collected.
LEMMA RunChanges ==
    ASSUME NEW cfg, NEW r, RunInv(cfg, r), NEW t \in cfg.Threads,
           NEW n \in Nat, NEW p \in Seq(cfg.Codes), NEW x,
           x = Raised(r, t, n, p) \/ x = Unraised(r, t, p)
    PROVE  RunInv(cfg, x) /\ x.alive = r.alive
<1>1. r \in [alive : BOOLEAN, pending : [cfg.Threads -> Seq(cfg.Codes)], events : Nat,
              exceptions : Seq(Exceptions(cfg)), terminated : BOOLEAN, timed_out : BOOLEAN]
  BY DEF RunInv
<1>2. [r.pending EXCEPT ![t] = p] \in [cfg.Threads -> Seq(cfg.Codes)]
  BY <1>1
<1> DEFINE q == [r.pending EXCEPT ![t] = p]
<1>3. x = [r EXCEPT !.events = n, !.pending = q] \/ x = [r EXCEPT !.pending = q]
  BY <1>1 DEF Raised, Unraised
<1> HIDE DEF q
<1>4. /\ x \in [alive : BOOLEAN, pending : [cfg.Threads -> Seq(cfg.Codes)], events : Nat,
              exceptions : Seq(Exceptions(cfg)), terminated : BOOLEAN, timed_out : BOOLEAN]
      /\ x.exceptions = r.exceptions /\ x.terminated = r.terminated /\ x.alive = r.alive
  BY <1>1, <1>2, <1>3 DEF q
<1> QED
  BY <1>4 DEF RunInv

\* The recursion of filter_uninteresting_exceptions.
FilterStep(cfg, es, f, i) ==
    IF i = 0 THEN <<>>
    ELSE IF Target(cfg)!Uninteresting(es, i) THEN f[i - 1] ELSE Append(f[i - 1], es[i])

IsFilter(cfg, es, n, f) == f = [i \in 0..n |-> FilterStep(cfg, es, f, i)]

\* Its value at a successor.
LEMMA FilterNext ==
    ASSUME NEW cfg, NEW es, NEW f, NEW k \in Nat
    PROVE  FilterStep(cfg, es, f, k + 1) =
             IF Target(cfg)!Uninteresting(es, k + 1) THEN f[k] ELSE Append(f[k], es[k + 1])
<1>1. k + 1 # 0 /\ k + 1 - 1 = k
  OBVIOUS
<1>2. \A j : j = k => FilterStep(cfg, es, f, k + 1) =
        IF Target(cfg)!Uninteresting(es, k + 1) THEN f[k] ELSE Append(f[k], es[k + 1])
  BY <1>1 DEF FilterStep
<1> QED
  BY <1>2

\* It has a solution for every length.
LEMMA FilterExists ==
    ASSUME NEW cfg, NEW es, NEW n \in Nat
    PROVE  \E f : IsFilter(cfg, es, n, f)
<1> DEFINE N == {m \in Nat : \E f : f = [i \in 0..m |-> FilterStep(cfg, es, f, i)]}
<1>1. 0 \in N
  <2> DEFINE g == [i \in 0..0 |-> <<>>]
  <2>1. \A i \in 0..0 : FilterStep(cfg, es, g, i) = <<>>
    BY DEF FilterStep
  <2>2. g = [i \in 0..0 |-> FilterStep(cfg, es, g, i)]
    BY <2>1
  <2> QED
    BY <2>2
<1>2. ASSUME NEW m \in N PROVE m + 1 \in N
  <2>1. PICK f : f = [i \in 0..m |-> FilterStep(cfg, es, f, i)]
    OBVIOUS
  <2> DEFINE g == [i \in 0..(m + 1) |-> FilterStep(cfg, es, f, i)]
  <2>2. \A i \in 0..m : g[i] = f[i]
    BY <2>1
  <2>3. \A i \in 0..(m + 1) : i # 0 => i - 1 \in 0..m
    OBVIOUS
  <2>4. \A i \in 0..(m + 1) : FilterStep(cfg, es, g, i) = FilterStep(cfg, es, f, i)
    <3> HIDE DEF g
    <3> QED
      BY <2>2, <2>3 DEF FilterStep
  <2>5. g = [i \in 0..(m + 1) |-> FilterStep(cfg, es, g, i)]
    BY <2>4
  <2> HIDE DEF g
  <2> QED
    BY <2>5
<1>3. N \subseteq Nat
  OBVIOUS
<1> HIDE DEF N
<1>4. N = Nat
  BY <1>1, <1>2, <1>3, Induction
<1> QED
  BY <1>4 DEF N, IsFilter

\* filter_uninteresting_exceptions drops first chances only, and never the last exception.
LEMMA FilterKeepsLast ==
    ASSUME NEW cfg, NEW es \in Seq(Exceptions(cfg)),
           \A i \in DOMAIN es : ~es[i].first => i = Len(es)
    PROVE  /\ es = <<>> => Target(cfg)!FilterUninteresting(es) = <<>>
           /\ es # <<>> => \E s \in Seq(FirstChances(cfg)) :
                 Target(cfg)!FilterUninteresting(es) = Append(s, es[Len(es)])
<1> DEFINE P(f) == IsFilter(cfg, es, Len(es), f)
           kept == CHOOSE f : P(f)
<1>0. Len(es) \in Nat /\ DOMAIN es = 1..Len(es)
  OBVIOUS
<1>1. P(kept)
  <2>1. \E f : P(f)
    BY <1>0, FilterExists
  <2> HIDE DEF P
  <2> QED
    BY <2>1, Zenon
<1>2. Target(cfg)!FilterUninteresting(es) = kept[Len(es)]
  BY DEF Target!FilterUninteresting, FilterStep, IsFilter
<1> HIDE DEF kept
<1>3. \A i \in 0..Len(es) : kept[i] = FilterStep(cfg, es, kept, i)
  BY <1>1 DEF IsFilter
<1>4. \A i \in 1..Len(es) : es[i] \in Exceptions(cfg) /\ (i < Len(es) => es[i] \in FirstChances(cfg))
  <2>1. ASSUME NEW i \in 1..Len(es) PROVE es[i] \in Exceptions(cfg)
    BY <1>0
  <2>2. ASSUME NEW i \in 1..Len(es), i < Len(es) PROVE es[i] \in FirstChances(cfg)
    <3>1. es[i].first
      BY <1>0, <2>2
    <3>2. es[i] \in [code : cfg.Codes, first : BOOLEAN]
      BY <2>1 DEF Exceptions
    <3> HIDE <1>1, <1>3
    <3> QED
      BY <3>1, <3>2 DEF FirstChances
  <2> QED
    BY <2>1, <2>2
<1> DEFINE T == {k \in Nat : k < Len(es) => kept[k] \in Seq(FirstChances(cfg))}
<1>5. T = Nat
  <2>1. 0 \in T
    <3>1. kept[0] = <<>>
      BY <1>0, <1>3 DEF FilterStep
    <3>2. <<>> \in Seq(FirstChances(cfg))
      OBVIOUS
    <3>3. kept[0] \in Seq(FirstChances(cfg))
      BY <3>1, <3>2, Zenon
    <3> QED
      BY <3>3
  <2>2. ASSUME NEW k \in T PROVE k + 1 \in T
    <3> SUFFICES ASSUME k + 1 < Len(es) PROVE kept[k + 1] \in Seq(FirstChances(cfg))
      OBVIOUS
    <3>1. kept[k] \in Seq(FirstChances(cfg)) /\ k + 1 \in 0..Len(es) /\ k + 1 # 0 /\ k + 1 - 1 = k
          /\ k \in Nat
      BY <1>0
    <3>2. es[k + 1] \in FirstChances(cfg)
      BY <1>0, <1>4, <3>1
    <3>3. kept[k + 1] = FilterStep(cfg, es, kept, k + 1)
      BY <1>3, <3>1
    <3>4. kept[k + 1] = kept[k] \/ kept[k + 1] = Append(kept[k], es[k + 1])
      <4>1. FilterStep(cfg, es, kept, k + 1) =
              IF Target(cfg)!Uninteresting(es, k + 1) THEN kept[k] ELSE Append(kept[k], es[k + 1])
        BY <3>1, FilterNext, Zenon
      <4> QED
        BY <3>3, <4>1, Zenon
    <3>5. ASSUME NEW s \in Seq(FirstChances(cfg)), NEW e \in FirstChances(cfg)
          PROVE  Append(s, e) \in Seq(FirstChances(cfg))
      OBVIOUS
    <3> QED
      BY <3>1, <3>2, <3>4, <3>5, Zenon
  <2> HIDE DEF T
  <2> QED
    BY <2>1, <2>2, Induction DEF T
<1>6. CASE es = <<>>
  <2>1. kept[0] = <<>>
    BY <1>0, <1>3 DEF FilterStep
  <2> QED
    BY <1>2, <1>6, <2>1
<1>7. CASE es # <<>>
  <2> DEFINE n == Len(es)
  <2>1. n \in Nat /\ n # 0 /\ n \in 0..Len(es) /\ n - 1 \in Nat /\ n - 1 < Len(es)
    BY <1>0, <1>7
  <2>2. ~Target(cfg)!Uninteresting(es, n)
    BY <1>0 DEF Target!Uninteresting
  <2>3. kept[n] = Append(kept[n - 1], es[n])
    BY <1>3, <2>1, <2>2 DEF FilterStep
  <2>4. kept[n - 1] \in Seq(FirstChances(cfg))
    BY <1>5, <2>1
  <2> QED
    BY <1>2, <1>7, <2>3, <2>4
<1> QED
  BY <1>6, <1>7

\* most_serious_exception is one of the exceptions.
LEMMA MostSeriousIsOne ==
    ASSUME NEW cfg, NEW es \in Seq(Exceptions(cfg)), es # <<>>
    PROVE  Target(cfg)!MostSerious(es) \in Exceptions(cfg)
<1>0. Len(es) \in Nat /\ DOMAIN es = 1..Len(es) /\ 1 \in DOMAIN es
      /\ \A i \in DOMAIN es : es[i] \in Exceptions(cfg)
  OBVIOUS
<1>1. ASSUME NEW S, S \subseteq DOMAIN es, S # {} PROVE Target(cfg)!First(S) \in S
  <2>1. \E i \in S : \A j \in S : i <= j
    BY <1>0, <1>1, LeastNumber
  <2> QED
    BY <2>1 DEF Target!First
<1> DEFINE U == {i \in DOMAIN es : ~es[i].first}
           T == {i \in DOMAIN es : es[i].code \in cfg.Throws}
<1>2. /\ U # {} => Target(cfg)!MostSerious(es) = es[Target(cfg)!First(U)]
      /\ U = {} /\ T # {} => Target(cfg)!MostSerious(es) = es[Target(cfg)!First(T)]
      /\ U = {} /\ T = {} => Target(cfg)!MostSerious(es) = es[1]
  BY DEF Target!MostSerious
<1>3. U \subseteq DOMAIN es /\ T \subseteq DOMAIN es
  OBVIOUS
<1> HIDE DEF U, T
<1> QED
  BY <1>0, <1>1, <1>2, <1>3

\* The bucket of a result exists.
LEMMA BucketExists ==
    ASSUME NEW cfg, NEW r, ResultInv(cfg, r)
    PROVE  Target(cfg)!Bucket(r) \in Target(cfg)!Buckets
<1>1. CASE r.exceptions # <<>>
  <2>1. Target(cfg)!MostSerious(r.exceptions) \in Exceptions(cfg)
    BY <1>1, MostSeriousIsOne DEF ResultInv
  <2>2. Target(cfg)!MostSerious(r.exceptions).code \in cfg.Codes
    BY <2>1 DEF Exceptions
  <2> QED
    BY <1>1, <2>2 DEF Target!Bucket, Target!AnyCrashes, Target!Buckets
<1>2. CASE r.exceptions = <<>>
  BY <1>2 DEF Target!Bucket, Target!AnyCrashes, Target!Buckets
<1> QED
  BY <1>1, <1>2

\* The exception nobody handled names the bucket of its input.
LEMMA UnhandledNames ==
    ASSUME NEW cfg, NEW r, ResultInv(cfg, r), NEW k \in DOMAIN r.raw, ~r.raw[k].first
    PROVE  Target(cfg)!Bucket(r) = r.raw[k].code
<1> DEFINE es == r.exceptions
           e == r.raw[k]
           U == {i \in DOMAIN es : ~es[i].first}
<1>1. k = Len(r.raw) /\ r.raw # <<>>
  BY DEF ResultInv
<1>2. PICK s \in Seq(FirstChances(cfg)) : es = Append(s, e)
  BY <1>1 DEF ResultInv
<1>3. /\ DOMAIN es = 1..(Len(s) + 1) /\ Len(s) \in Nat /\ es[Len(s) + 1] = e /\ es # <<>>
      /\ \A i \in 1..Len(s) : es[i] = s[i] /\ s[i] \in FirstChances(cfg)
  <2>1. /\ DOMAIN Append(s, e) = 1..(Len(s) + 1) /\ Len(s) \in Nat /\ Append(s, e)[Len(s) + 1] = e
        /\ Append(s, e) # <<>> /\ \A i \in 1..Len(s) : Append(s, e)[i] = s[i] /\ s[i] \in FirstChances(cfg)
    OBVIOUS
  <2> QED
    BY <1>2, <2>1
<1>4. \A i \in 1..Len(s) : es[i].first
  BY <1>3 DEF FirstChances
<1>5. ~e.first
  OBVIOUS
<1> HIDE DEF es, e
<1>6. U = {Len(s) + 1}
  BY <1>3, <1>4, <1>5
<1>7. Target(cfg)!First({Len(s) + 1}) = Len(s) + 1
  BY <1>3 DEF Target!First
<1>8. Target(cfg)!MostSerious(es) = es[Target(cfg)!First(U)]
  BY <1>6 DEF Target!MostSerious
<1>9. Target(cfg)!Bucket(r) = Target(cfg)!MostSerious(es).code
  BY <1>3 DEF Target!Bucket, Target!AnyCrashes, es
<1> QED
  BY <1>3, <1>6, <1>7, <1>8, <1>9 DEF e

\* A code has one second chance at most.
LEMMA OneSecondChance ==
    ASSUME NEW cfg, NEW r, ResultInv(cfg, r), NEW c
    PROVE  Target(cfg)!Count(r.exceptions, c, TRUE) > 0 =>
             Target(cfg)!Count(r.exceptions, c, TRUE) >= Target(cfg)!Count(r.exceptions, c, FALSE)
<1> DEFINE es == r.exceptions
           S(first) == {i \in DOMAIN es : es[i].code = c /\ es[i].first = first}
<1>1. /\ Target(cfg)!Count(es, c, TRUE) = Cardinality(S(TRUE))
      /\ Target(cfg)!Count(es, c, FALSE) = Cardinality(S(FALSE))
  BY Zenon DEF Target!Count, Target!Cardinality, Cardinality
<1>2. Len(es) \in Nat /\ DOMAIN es = 1..Len(es)
  BY DEF ResultInv
<1>3. IsFiniteSet(DOMAIN es)
  BY <1>2, FS_Interval
<1>4. S(TRUE) \subseteq DOMAIN es /\ S(FALSE) \subseteq DOMAIN es
  OBVIOUS
<1>5. \E n \in Nat : S(FALSE) \subseteq {n}
  <2>1. CASE r.raw = <<>>
    <3>1. es = <<>> /\ DOMAIN es = {}
      BY <2>1 DEF ResultInv
    <3> QED
      BY <3>1
  <2>2. CASE r.raw # <<>>
    <3>1. PICK s \in Seq(FirstChances(cfg)) : es = Append(s, r.raw[Len(r.raw)])
      BY <2>2 DEF ResultInv
    <3> DEFINE e == r.raw[Len(r.raw)]
    <3> HIDE DEF e
    <3>2. /\ DOMAIN Append(s, e) = 1..(Len(s) + 1) /\ Len(s) \in Nat
          /\ \A i \in 1..Len(s) : Append(s, e)[i] = s[i] /\ s[i] \in FirstChances(cfg)
      OBVIOUS
    <3>3. \A i \in 1..Len(s) : es[i].first = TRUE
      BY <3>1, <3>2 DEF FirstChances, e
    <3>4. DOMAIN es = 1..(Len(s) + 1)
      BY <3>1, <3>2 DEF e
    <3> HIDE DEF es
    <3>5. S(FALSE) \subseteq {Len(s) + 1}
      BY <3>2, <3>3, <3>4
    <3> QED
      BY <3>2, <3>5
  <2> QED
    BY <2>1, <2>2
<1> HIDE DEF S, es
<1>6. Cardinality(S(FALSE)) \in Nat /\ Cardinality(S(FALSE)) <= 1
  <2>1. PICK n \in Nat : S(FALSE) \subseteq {n}
    BY <1>5
  <2>2. IsFiniteSet({n}) /\ Cardinality({n}) = 1
    BY FS_Singleton
  <2>3. Cardinality(S(FALSE)) <= 1 /\ IsFiniteSet(S(FALSE))
    BY <2>1, <2>2, FS_Subset
  <2> QED
    BY <2>3, FS_CardinalityType
<1>7. Cardinality(S(TRUE)) \in Nat
  BY <1>3, <1>4, FS_Subset, FS_CardinalityType
<1>8. \A a, b \in Nat : b <= 1 /\ a > 0 => a >= b
  OBVIOUS
<1> QED
  BY <1>1, <1>6, <1>7, <1>8, Zenon DEF es

-----------------------------------------------------------------------------
(* The input-tester: a directory.                                          *)

Samples(cfg) == {Target(cfg)!Sample(f) : f \in Target(cfg)!Files}
Contents(cfg) == {cfg.Content[f] : f \in Target(cfg)!Files}

\* The directories of the buckets and what was reported from them.
BucketInv(cfg) ==
    /\ buckets \in [Target(cfg)!Buckets -> [samples : SUBSET Samples(cfg), logs : SUBSET Contents(cfg)]]
    /\ reported \in Seq([input : Target(cfg)!Files, bucket : Target(cfg)!Buckets \cup {"none"}])
    /\ Target(cfg)!ReportedOnce

\* The input at hand, the results there are at most, and what is reported of them.
PlaceInv(cfg) ==
    /\ phase \in {"test", "running", "prepare", "done"}
    /\ pos \in 1..(Len(cfg.Inputs) + 1)
    /\ run.alive <=> phase = "running"
    /\ phase = "running" => pos <= Len(cfg.Inputs)
    /\ phase \in {"test", "running"} => Len(results) < pos /\ reported = <<>>
    /\ phase \in {"prepare", "done"} => pos <= Len(results) + 1 /\ Len(reported) < pos
    /\ Len(results) <= Len(cfg.Inputs)

TargetInv(cfg) ==
    /\ ignore \in BOOLEAN
    /\ PlaceInv(cfg)
    /\ RunInv(cfg, run)
    /\ results \in Seq([input : Target(cfg)!Files, exceptions : Seq(Exceptions(cfg)),
                        timed_out : BOOLEAN, raw : Seq(Exceptions(cfg))])
    /\ \A i \in DOMAIN results : ResultInv(cfg, results[i])
    /\ BucketInv(cfg)

\* A new target, not yet started or already gone, has raised nothing.
LEMMA NewRun ==
    ASSUME NEW cfg
    PROVE  /\ RunInv(cfg, Target(cfg)!NoRun) /\ ~Target(cfg)!NoRun.alive
           /\ RunInv(cfg, [Target(cfg)!NoRun EXCEPT !.alive = TRUE])
           /\ [Target(cfg)!NoRun EXCEPT !.alive = TRUE].alive
<1> DEFINE Run == [alive : BOOLEAN, pending : [cfg.Threads -> Seq(cfg.Codes)], events : Nat,
              exceptions : Seq(Exceptions(cfg)), terminated : BOOLEAN, timed_out : BOOLEAN]
<1>1. <<>> \in Seq(cfg.Codes) /\ <<>> \in Seq(Exceptions(cfg)) /\ DOMAIN <<>> = {}
  OBVIOUS
<1>2. PICK es \in Seq(Exceptions(cfg)) : es = <<>> /\ DOMAIN es = {}
  BY <1>1
<1>3. [t \in cfg.Threads |-> <<>>] \in [cfg.Threads -> Seq(cfg.Codes)]
  BY <1>1
<1>4. PICK p \in [cfg.Threads -> Seq(cfg.Codes)] : p = [t \in cfg.Threads |-> <<>>]
  BY <1>3, Zenon
<1>5. Target(cfg)!NoRun = [alive |-> FALSE, pending |-> p, events |-> 0, exceptions |-> es,
                           terminated |-> FALSE, timed_out |-> FALSE]
  BY <1>2, <1>4, Zenon DEF Target!NoRun
<1>6. PICK x : x = Target(cfg)!NoRun
  OBVIOUS
<1>7. x = [alive |-> FALSE, pending |-> p, events |-> 0, exceptions |-> es,
           terminated |-> FALSE, timed_out |-> FALSE]
  BY <1>5, <1>6
<1>8. x \in Run /\ x.exceptions = es /\ ~x.alive
  <2> HIDE <1>5, <1>6
  <2> QED
    BY <1>7
<1>9. PICK y : y = [x EXCEPT !.alive = TRUE]
  OBVIOUS
<1>10. y \in Run /\ y.exceptions = es /\ y.alive
  BY <1>8, <1>9
<1>11. RunInv(cfg, x) /\ RunInv(cfg, y)
  BY <1>2, <1>8, <1>10 DEF RunInv
<1> QED
  BY <1>6, <1>8, <1>9, <1>10, <1>11

\* No input was run, and the buckets are empty.
LEMMA TargetInit ==
    ASSUME NEW cfg, Target(cfg)!TargetTesterAssumption, Target(cfg)!Init
    PROVE  TargetInv(cfg)
<1>0. /\ Len(cfg.Inputs) \in Nat /\ run = Target(cfg)!NoRun /\ results = <<>> /\ reported = <<>>
      /\ phase = "test" /\ pos = 1 /\ ignore \in BOOLEAN
      /\ buckets = [b \in Target(cfg)!Buckets |-> [samples |-> {}, logs |-> {}]]
  BY DEF Target!TargetTesterAssumption, Target!Init
<1>a. ~run.alive
  BY <1>0, NewRun
<1>b. Len(<<>>) = 0
  OBVIOUS
<1>1. PlaceInv(cfg)
  BY <1>0, <1>a, <1>b DEF PlaceInv
<1>2. RunInv(cfg, run)
  BY <1>0, NewRun
<1>3. BucketInv(cfg)
  <2>1. reported \in Seq([input : Target(cfg)!Files, bucket : Target(cfg)!Buckets \cup {"none"}])
        /\ DOMAIN reported = {}
    BY <1>0
  <2>2. Target(cfg)!ReportedOnce
    BY <2>1 DEF Target!ReportedOnce
  <2> QED
    BY <1>0, <2>1, <2>2 DEF BucketInv
<1>4. results \in Seq([input : Target(cfg)!Files, exceptions : Seq(Exceptions(cfg)),
                       timed_out : BOOLEAN, raw : Seq(Exceptions(cfg))])
      /\ DOMAIN results = {}
  BY <1>0
<1> QED
  BY <1>0, <1>1, <1>2, <1>3, <1>4 DEF TargetInv

\* A step of the running target: only the run changes.
LEMMA RunSteps ==
    ASSUME NEW cfg, TargetInv(cfg), RunInv(cfg, run)', run.alive' = run.alive,
           UNCHANGED <<ignore, phase, pos, results, summary, buckets, reported>>
    PROVE  TargetInv(cfg)'
<1>1. PlaceInv(cfg)'
  BY DEF TargetInv, PlaceInv
<1>2. BucketInv(cfg)'
  BY DEF TargetInv, BucketInv, Target!ReportedOnce
<1>3. (\A i \in DOMAIN results : ResultInv(cfg, results[i]))'
  BY DEF TargetInv, ResultInv
<1> QED
  BY <1>1, <1>2, <1>3 DEF TargetInv

\* The sample s and the logs L in bucket b.
Put(b, s, L) ==
    [buckets EXCEPT ![b] = [samples |-> buckets[b].samples \cup {s}, logs |-> buckets[b].logs \cup L]]

\* prepare_test_result: the sample of a new content and extension goes to its bucket, which has not been
\* reported with it.
LEMMA PrepareSteps ==
    ASSUME NEW cfg, Target(cfg)!TargetTesterAssumption, TargetInv(cfg), Target(cfg)!Prepare
    PROVE  TargetInv(cfg)'
<1> DEFINE B == Target(cfg)!Buckets
           Rep == [input : Target(cfg)!Files, bucket : B \cup {"none"}]
           Dirs == [samples : SUBSET Samples(cfg), logs : SUBSET Contents(cfg)]
<1>0. /\ phase = "prepare" /\ pos <= Len(results) /\ pos' = pos + 1 /\ pos \in Nat /\ pos >= 1
      /\ Len(cfg.Inputs) \in Nat /\ Len(results) \in Nat
      /\ UNCHANGED <<ignore, phase, run, results, summary>>
  <2>1. pos \in 1..(Len(cfg.Inputs) + 1) /\ Len(cfg.Inputs) \in Nat
    BY DEF TargetInv, PlaceInv, Target!TargetTesterAssumption
  <2>2. Len(results) \in Nat
    BY DEF TargetInv
  <2>3. /\ phase = "prepare" /\ pos <= Len(results) /\ pos' = pos + 1
        /\ UNCHANGED <<ignore, phase, run, results, summary>>
    BY DEF Target!Prepare
  <2> QED
    BY <2>1, <2>2, <2>3
<1>1. PICK r : r = results[pos]
  OBVIOUS
<1>2. PICK b : b = Target(cfg)!Bucket(r)
  OBVIOUS
<1>3. PICK c, s : c = cfg.Content[r.input] /\ s = Target(cfg)!Sample(r.input)
  OBVIOUS
<1>4. ResultInv(cfg, r) /\ b \in B /\ r.input \in Target(cfg)!Files 
      /\ s \in Samples(cfg) /\ c \in Contents(cfg)
  <2>1. pos \in DOMAIN results
    BY <1>0 DEF TargetInv
  <2>2. ResultInv(cfg, r)
    BY <1>1, <2>1 DEF TargetInv
  <2>3. r.input \in Target(cfg)!Files
    BY <2>2 DEF ResultInv
  <2> QED
    BY <1>2, <1>3, <2>2, <2>3, BucketExists DEF Samples, Contents
<1>5. \/ reported' = Append(reported, [input |-> r.input, bucket |-> "none"]) /\ UNCHANGED buckets
      \/ UNCHANGED <<buckets, reported>>
      \/ /\ s \notin buckets[b].samples
         /\ buckets' = Put(b, s, {c})
         /\ reported' = Append(reported, [input |-> r.input, bucket |-> b])
      \/ \E logs \in {{}, {c}} :
           /\ buckets' = Put(b, s, logs)
           /\ UNCHANGED reported
  <2>1. Target(cfg)!Copied(b, r) => s \notin buckets[b].samples
    BY <1>3 DEF Target!Copied
  <2> QED
    BY <1>1, <1>2, <1>3, <2>1, Zenon DEF Target!Prepare, Put
<1>6. /\ buckets \in [B -> Dirs] /\ reported \in Seq(Rep) /\ Target(cfg)!ReportedOnce
      /\ Len(reported) \in Nat /\ DOMAIN reported = 1..Len(reported)
  BY DEF TargetInv, BucketInv
<1>7. ASSUME NEW x \in Rep, reported' = Append(reported, x)
      PROVE  /\ reported' \in Seq(Rep) /\ DOMAIN reported' = 1..(Len(reported) + 1)
             /\ Len(reported') = Len(reported) + 1
             /\ \A i \in 1..Len(reported) : reported'[i] = reported[i]
             /\ reported'[Len(reported) + 1] = x
  BY <1>6, <1>7
<1>8. ASSUME NEW L \in {{}, {c}},
             buckets' = Put(b, s, L)
      PROVE  /\ buckets' \in [B -> Dirs]
             /\ \A d \in B : /\ buckets[d].samples \subseteq buckets'[d].samples
                             /\ buckets[d].logs \subseteq buckets'[d].logs
             /\ buckets'[b].samples = buckets[b].samples \cup {s}
             /\ buckets'[b].logs = buckets[b].logs \cup L
  <2>1. PICK x : x = [samples |-> buckets[b].samples \cup {s}, logs |-> buckets[b].logs \cup L]
    OBVIOUS
  <2>2. buckets[b] \in Dirs
    BY <1>4, <1>6
  <2>3. x \in Dirs
    BY <1>4, <1>8, <2>1, <2>2
  <2>4. buckets' = [buckets EXCEPT ![b] = x]
    BY <1>8, <2>1 DEF Put
  <2>5. x.samples = buckets[b].samples \cup {s} /\ x.logs = buckets[b].logs \cup L
    BY <2>1
  <2>6. buckets'[b] = x /\ \A d \in B : d # b => buckets'[d] = buckets[d]
    BY <1>4, <1>6, <2>4
  <2> QED
    BY <1>6, <2>3, <2>4, <2>5, <2>6
<1>9. \A i \in 1..Len(reported) : reported[i].bucket \in B \cup {"none"}
  <2> HIDE DEF Rep
  <2>1. \A i \in 1..Len(reported) : reported[i] \in Rep
    BY <1>6
  <2>2. \A x \in Rep : x.bucket \in B \cup {"none"}
    BY DEF Rep
  <2> QED
    BY <2>1, <2>2
<1>r. /\ \A i, j \in 1..Len(reported) :
          (i # j /\ reported[i].bucket # "none" /\ reported[i].bucket = reported[j].bucket)
              => Target(cfg)!Sample(reported[i].input) # Target(cfg)!Sample(reported[j].input)
      /\ \A i \in 1..Len(reported) : reported[i].bucket # "none" =>
           /\ Target(cfg)!Sample(reported[i].input) \in buckets[reported[i].bucket].samples
           /\ cfg.Content[reported[i].input] \in buckets[reported[i].bucket].logs
  BY <1>6 DEF Target!ReportedOnce
<1> HIDE DEF B, Rep, Dirs
<1>10. BucketInv(cfg)' /\ Len(reported') \in Nat /\ Len(reported') <= Len(reported) + 1
  <2>1. CASE reported' = Append(reported, [input |-> r.input, bucket |-> "none"]) /\ UNCHANGED buckets
    <3>1. [input |-> r.input, bucket |-> "none"] \in Rep
      BY <1>4 DEF Rep
    <3>2. PICK x \in Rep : x = [input |-> r.input, bucket |-> "none"]
      BY <3>1
    <3>3. /\ reported' \in Seq(Rep) /\ DOMAIN reported' = 1..(Len(reported) + 1)
          /\ Len(reported') = Len(reported) + 1
          /\ \A i \in 1..Len(reported) : reported'[i] = reported[i]
          /\ reported'[Len(reported) + 1] = x
      BY <1>7, <2>1, <3>2
    <3>4. x.bucket = "none"
      BY <3>2
    <3>5. \A i \in 1..(Len(reported) + 1) : reported'[i].bucket # "none" => i \in 1..Len(reported)
      BY <1>6, <3>3, <3>4
    <3>6. Target(cfg)!ReportedOnce'
      <4>1. \A i \in DOMAIN reported' : reported'[i].bucket # "none" =>
               i \in 1..Len(reported) /\ reported'[i] = reported[i]
        BY <3>3, <3>5
      <4> QED
        BY <1>r, <2>1, <4>1 DEF Target!ReportedOnce
    <3> QED
      BY <1>6, <2>1, <3>3, <3>6 DEF BucketInv, Rep, B, Dirs
  <2>2. CASE UNCHANGED <<buckets, reported>>
    BY <1>6, <2>2 DEF TargetInv, BucketInv, Target!ReportedOnce
  <2>3. CASE /\ s \notin buckets[b].samples
             /\ buckets' = Put(b, s, {c})
             /\ reported' = Append(reported, [input |-> r.input, bucket |-> b])
    <3>1. [input |-> r.input, bucket |-> b] \in Rep
      BY <1>4 DEF Rep
    <3>2. PICK x \in Rep : x = [input |-> r.input, bucket |-> b]
      BY <3>1
    <3>3. /\ reported' \in Seq(Rep) /\ DOMAIN reported' = 1..(Len(reported) + 1)
          /\ Len(reported') = Len(reported) + 1
          /\ \A i \in 1..Len(reported) : reported'[i] = reported[i]
          /\ reported'[Len(reported) + 1] = x
      BY <1>7, <2>3, <3>2
    <3>4. x.bucket = b /\ cfg.Content[x.input] = c /\ Target(cfg)!Sample(x.input) = s
      BY <1>3, <3>2
    <3>5. /\ buckets' \in [B -> Dirs]
          /\ \A d \in B : /\ buckets[d].samples \subseteq buckets'[d].samples
                          /\ buckets[d].logs \subseteq buckets'[d].logs
          /\ buckets'[b].samples = buckets[b].samples \cup {s}
          /\ buckets'[b].logs = buckets[b].logs \cup {c}
      BY <1>8, <2>3
    <3>6. \A i \in 1..Len(reported) : reported[i].bucket # "none" =>
            /\ Target(cfg)!Sample(reported[i].input) \in buckets'[reported[i].bucket].samples
            /\ cfg.Content[reported[i].input] \in buckets'[reported[i].bucket].logs
      BY <1>9, <1>r, <3>5
    <3>7. \A i \in 1..Len(reported) : reported[i].bucket # "none" /\ reported[i].bucket = b
            => Target(cfg)!Sample(reported[i].input) # s
      BY <1>r, <2>3
    <3>8. Target(cfg)!ReportedOnce'
      <4>1. ASSUME NEW i \in DOMAIN reported', reported'[i].bucket # "none"
            PROVE  /\ Target(cfg)!Sample(reported'[i].input) \in buckets'[reported'[i].bucket].samples
                   /\ cfg.Content[reported'[i].input] \in buckets'[reported'[i].bucket].logs
        <5>1. CASE i \in 1..Len(reported)
          BY <3>3, <3>6, <4>1, <5>1
        <5>2. CASE i = Len(reported) + 1
          BY <3>3, <3>4, <3>5, <5>2
        <5> QED
          BY <1>6, <3>3, <5>1, <5>2
      <4>2. ASSUME NEW i \in DOMAIN reported', NEW j \in DOMAIN reported', i # j,
                   reported'[i].bucket # "none", reported'[i].bucket = reported'[j].bucket
            PROVE  Target(cfg)!Sample(reported'[i].input) # Target(cfg)!Sample(reported'[j].input)
        <5>1. CASE i \in 1..Len(reported) /\ j \in 1..Len(reported)
          BY <1>r, <3>3, <4>2, <5>1
        <5>2. CASE i \in 1..Len(reported) /\ j = Len(reported) + 1
          BY <3>3, <3>4, <3>7, <4>2, <5>2
        <5>3. CASE i = Len(reported) + 1 /\ j \in 1..Len(reported)
          BY <3>3, <3>4, <3>7, <4>2, <5>3
        <5> QED
          BY <1>6, <3>3, <4>2, <5>1, <5>2, <5>3
      <4> QED
        BY <4>1, <4>2 DEF Target!ReportedOnce
    <3> QED
      BY <1>6, <3>3, <3>5, <3>8 DEF BucketInv, Rep, B, Dirs
  <2>4. ASSUME NEW L \in {{}, {c}},
               buckets' = Put(b, s, L),
               UNCHANGED reported
        PROVE  BucketInv(cfg)'
    <3>1. /\ buckets' \in [B -> Dirs]
          /\ \A d \in B : /\ buckets[d].samples \subseteq buckets'[d].samples
                          /\ buckets[d].logs \subseteq buckets'[d].logs
      BY <1>8, <2>4
    <3>2. \A i \in 1..Len(reported) : reported[i].bucket # "none" =>
            /\ Target(cfg)!Sample(reported[i].input) \in buckets'[reported[i].bucket].samples
            /\ cfg.Content[reported[i].input] \in buckets'[reported[i].bucket].logs
      BY <1>9, <1>r, <3>1
    <3>3. Target(cfg)!ReportedOnce'
      BY <1>6, <1>r, <2>4, <3>2 DEF Target!ReportedOnce
    <3> QED
      BY <1>6, <2>4, <3>1, <3>3 DEF BucketInv, Rep, B, Dirs
  <2> QED
    BY <1>5, <1>6, <2>1, <2>2, <2>3, <2>4
<1>11. PlaceInv(cfg)'
  <2>1. Len(reported) < pos /\ Len(results) <= Len(cfg.Inputs) /\ (run.alive <=> phase = "running")
    BY <1>0 DEF TargetInv, PlaceInv
  <2>2. Len(reported') < pos' /\ pos' \in 1..(Len(cfg.Inputs) + 1) /\ pos' <= Len(results) + 1
    BY <1>0, <1>6, <1>10, <2>1
  <2> QED
    BY <1>0, <2>1, <2>2 DEF PlaceInv
<1>12. (\A i \in DOMAIN results : ResultInv(cfg, results[i]))'
  BY <1>0 DEF TargetInv, ResultInv
<1> QED
  BY <1>0, <1>10, <1>11, <1>12 DEF TargetInv, RunInv

\* Every step of the input-tester keeps the invariant.
LEMMA TargetSteps ==
    ASSUME NEW cfg, Target(cfg)!TargetTesterAssumption, TargetInv(cfg),
           [Target(cfg)!Next]_(Target(cfg)!vars)
    PROVE  TargetInv(cfg)'
<1> DEFINE Others == UNCHANGED <<ignore, phase, pos, results, summary, buckets, reported>>
<1>0. /\ RunInv(cfg, run) /\ ignore \in BOOLEAN /\ PlaceInv(cfg) /\ BucketInv(cfg)
      /\ Len(cfg.Inputs) \in Nat /\ Len(results) \in Nat /\ pos \in Nat
      /\ \A i \in DOMAIN results : ResultInv(cfg, results[i])
  <2>1. Len(cfg.Inputs) \in Nat /\ Len(results) \in Nat
    BY DEF TargetInv, Target!TargetTesterAssumption
  <2>2. pos \in 1..(Len(cfg.Inputs) + 1)
    BY DEF TargetInv, PlaceInv
  <2>3. pos \in Nat
    BY <2>1, <2>2
  <2> QED
    BY <2>1, <2>3 DEF TargetInv
<1>r. run \in [alive : BOOLEAN, pending : [cfg.Threads -> Seq(cfg.Codes)], events : Nat,
               exceptions : Seq(Exceptions(cfg)), terminated : BOOLEAN, timed_out : BOOLEAN]
  BY <1>0 DEF RunInv
<1>b. UNCHANGED <<buckets, reported>> => BucketInv(cfg)'
  BY <1>0 DEF BucketInv, Target!ReportedOnce
<1>c. UNCHANGED results => (\A i \in DOMAIN results : ResultInv(cfg, results[i]))'
  BY <1>0 DEF ResultInv
<1>u. UNCHANGED Target(cfg)!vars => TargetInv(cfg)'
  <2> SUFFICES ASSUME UNCHANGED Target(cfg)!vars PROVE TargetInv(cfg)'
    OBVIOUS
  <2>1. Others /\ run' = run
    BY DEF Target!vars
  <2> QED
    BY <1>0, <2>1, RunSteps DEF RunInv
<1>1. CASE Target(cfg)!StartTest
  <2>1. /\ phase = "test" /\ pos <= Len(cfg.Inputs)
        /\ UNCHANGED <<ignore, results, buckets, reported>>
    BY <1>1 DEF Target!StartTest
  <2>2. \/ RunInv(cfg, run)' /\ run'.alive /\ phase' = "running" /\ pos' = pos
        \/ RunInv(cfg, run)' /\ ~run'.alive /\ phase' = phase /\ pos' = pos + 1
    <3>1. \/ run' = [Target(cfg)!NoRun EXCEPT !.alive = TRUE] /\ phase' = "running" /\ pos' = pos
          \/ run' = Target(cfg)!NoRun /\ pos' = pos + 1 /\ phase' = phase
      BY <1>1 DEF Target!StartTest
    <3> QED
      BY <3>1, NewRun
  <2>3. PlaceInv(cfg)'
    BY <1>0, <2>1, <2>2 DEF PlaceInv
  <2> QED
    BY <1>b, <1>c, <2>1, <2>2, <2>3 DEF TargetInv
<1>2. ASSUME NEW t \in cfg.Threads, NEW c \in cfg.Codes, Target(cfg)!Raise(t, c)
      PROVE  TargetInv(cfg)'
  <2>1. PICK walked \in BOOLEAN :
          run' = [Target(cfg)!OnException(run, c, TRUE, walked) EXCEPT
                      !.events = @ + 1, !.pending[t] = Append(@, c)]
    BY <1>2, Zenon DEF Target!Raise
  <2>2. PICK o : o = Target(cfg)!OnException(run, c, TRUE, walked)
    OBVIOUS
  <2>3. RunInv(cfg, o) /\ o.alive = run.alive
    BY <1>0, <2>2, OnExceptionKeeps
  <2>4. o.pending[t] \in Seq(cfg.Codes) /\ o.events + 1 \in Nat
    BY <2>3, RunPending
  <2>5. Append(o.pending[t], c) \in Seq(cfg.Codes)
    BY <2>4, PendingFacts
  <2>6. run' = [o EXCEPT !.events = o.events + 1, !.pending[t] = Append(o.pending[t], c)]
    BY <2>1, <2>2
  <2>7. RunInv(cfg, run)' /\ run'.alive = run.alive
    <3>1. PICK n \in Nat, p \in Seq(cfg.Codes) : run' = Raised(o, t, n, p)
      BY <2>4, <2>5, <2>6, Zenon DEF Raised
    <3>2. PICK x : x = run' /\ x = Raised(o, t, n, p)
      BY <3>1
    <3>3. RunInv(cfg, x) /\ x.alive = o.alive
      BY <2>3, <3>2, RunChanges
    <3> QED
      BY <2>3, <3>2, <3>3 DEF RunInv
  <2> QED
    BY <1>2, <2>7, RunSteps DEF Target!Raise
<1>3. ASSUME NEW t \in cfg.Threads, Target(cfg)!Handled(t) PROVE TargetInv(cfg)'
  <2>1. run.pending[t] \in Seq(cfg.Codes) /\ run.pending[t] # <<>>
    BY <1>0, <1>3, RunPending DEF Target!Handled
  <2>2. PICK p : p = SubSeq(run.pending[t], 1, Len(run.pending[t]) - 1)
    OBVIOUS
  <2>3. p \in Seq(cfg.Codes)
    BY <2>1, <2>2, PendingFacts
  <2>4. run' = [run EXCEPT !.pending[t] = p]
    BY <1>3, <2>2 DEF Target!Handled
  <2>5. RunInv(cfg, run)' /\ run'.alive = run.alive
    <3>1. PICK x : x = run' /\ x = Unraised(run, t, p)
      BY <2>4 DEF Unraised
    <3>2. RunInv(cfg, x) /\ x.alive = run.alive
      <4>1. 0 \in Nat
        OBVIOUS
      <4> QED
        BY <1>0, <2>3, <3>1, <4>1, RunChanges
    <3> QED
      BY <3>1, <3>2 DEF RunInv
  <2> QED
    BY <1>3, <2>5, RunSteps DEF Target!Handled
<1>4. ASSUME NEW t \in cfg.Threads, Target(cfg)!SecondChance(t) PROVE TargetInv(cfg)'
  <2>1. PICK walked \in BOOLEAN, c \in cfg.Codes :
          run' = [Target(cfg)!OnException(run, c, FALSE, walked) EXCEPT
                      !.events = @ + 1, !.pending[t] = <<>>]
    BY <1>4, Zenon DEF Target!SecondChance
  <2>2. PICK o : o = Target(cfg)!OnException(run, c, FALSE, walked)
    OBVIOUS
  <2>3. RunInv(cfg, o) /\ o.alive = run.alive
    BY <1>0, <2>2, OnExceptionKeeps
  <2>4. o.pending[t] \in Seq(cfg.Codes)
    BY <2>3, RunPending
  <2>5. o.events + 1 \in Nat
    BY <2>3, RunPending
  <2>6. PICK p \in Seq(cfg.Codes) : p = <<>>
    BY <2>4, PendingFacts, Zenon
  <2>7. run' = [o EXCEPT !.events = o.events + 1, !.pending[t] = p]
    BY <2>1, <2>2, <2>6, Zenon
  <2>8. RunInv(cfg, run)' /\ run'.alive = run.alive
    <3>1. PICK x : x = run' /\ x = Raised(o, t, o.events + 1, p)
      BY <2>7 DEF Raised
    <3>2. RunInv(cfg, x) /\ x.alive = o.alive
      BY <2>3, <2>5, <3>1, RunChanges
    <3> QED
      BY <2>3, <3>1, <3>2 DEF RunInv
  <2> QED
    BY <1>4, <2>8, RunSteps DEF Target!SecondChance
<1>5. CASE Target(cfg)!PollTimeout
  <2>1. run' = [run EXCEPT !.timed_out = TRUE, !.terminated = TRUE]
    BY <1>5 DEF Target!PollTimeout
  <2>2. /\ run' \in [alive : BOOLEAN, pending : [cfg.Threads -> Seq(cfg.Codes)], events : Nat,
               exceptions : Seq(Exceptions(cfg)), terminated : BOOLEAN, timed_out : BOOLEAN]
        /\ run'.exceptions = run.exceptions /\ run'.terminated = TRUE /\ run'.alive = run.alive
    BY <1>r, <2>1
  <2>3. RunInv(cfg, run)'
    BY <1>0, <2>2 DEF RunInv
  <2> QED
    BY <1>5, <2>2, <2>3, RunSteps DEF Target!PollTimeout
<1>6. CASE Target(cfg)!EndTest
  <2> DEFINE Res == [input : Target(cfg)!Files, exceptions : Seq(Exceptions(cfg)),
                     timed_out : BOOLEAN, raw : Seq(Exceptions(cfg))]
  <2>1. PICK f : f = Target(cfg)!FilterUninteresting(run.exceptions)
    OBVIOUS
  <2>2. PICK r : r = [input |-> cfg.Inputs[pos], exceptions |-> f,
                      timed_out |-> run.timed_out, raw |-> run.exceptions]
    OBVIOUS
  <2>3. /\ run.alive /\ results' = Append(results, r) /\ run' = Target(cfg)!NoRun
        /\ phase' = "test" /\ pos' = pos + 1 /\ UNCHANGED <<ignore, buckets, reported>>
    BY <1>6, <2>1, <2>2 DEF Target!EndTest
  <2>4. /\ phase = "running" /\ pos <= Len(cfg.Inputs) /\ pos >= 1
        /\ Len(results) < pos /\ reported = <<>>
    BY <1>0, <2>3 DEF PlaceInv
  <2>5. cfg.Inputs[pos] \in Target(cfg)!Files
    BY <1>0, <2>4 DEF Target!TargetTesterAssumption
  <2>6. PICK es \in Seq(Exceptions(cfg)) : es = run.exceptions
    BY <1>r
  <2>7. \A i \in DOMAIN es : ~es[i].first => i = Len(es)
    BY <1>0, <2>6 DEF RunInv
  <2>8. /\ es = <<>> => f = <<>>
        /\ es # <<>> => \E s \in Seq(FirstChances(cfg)) : f = Append(s, es[Len(es)])
    BY <2>1, <2>6, <2>7, FilterKeepsLast
  <2>9. f \in Seq(Exceptions(cfg))
    <3>1. CASE es = <<>>
      BY <2>8, <3>1
    <3>2. CASE es # <<>>
      <4>1. PICK s \in Seq(FirstChances(cfg)) : f = Append(s, es[Len(es)])
        BY <2>8, <3>2
      <4>2. FirstChances(cfg) \subseteq Exceptions(cfg)
        BY DEF FirstChances, Exceptions
      <4>3. s \in Seq(Exceptions(cfg))
        BY <4>2
      <4>4. es[Len(es)] \in Exceptions(cfg)
        BY <3>2
      <4> QED
        BY <4>1, <4>3, <4>4
    <3> QED
      BY <3>1, <3>2
  <2>10. /\ r.input = cfg.Inputs[pos] /\ r.exceptions = f /\ r.raw = es
         /\ r \in Res
    BY <1>r, <2>2, <2>5, <2>6, <2>9
  <2>11. ResultInv(cfg, r)
    BY <2>5, <2>7, <2>8, <2>9, <2>10 DEF ResultInv
  <2> HIDE DEF Res
  <2>12. results \in Seq(Res)
    BY DEF TargetInv, Res
  <2>13. /\ results' \in Seq(Res) /\ DOMAIN results' = 1..(Len(results) + 1)
         /\ Len(results') = Len(results) + 1 /\ results'[Len(results) + 1] = r
         /\ \A i \in 1..Len(results) : results'[i] = results[i]
    BY <2>3, <2>10, <2>12
  <2>14. ASSUME NEW i \in DOMAIN results' PROVE ResultInv(cfg, results'[i])
    <3>1. CASE i \in 1..Len(results)
      BY <1>0, <2>12, <2>13, <3>1
    <3>2. CASE i = Len(results) + 1
      BY <2>11, <2>13, <3>2
    <3> QED
      BY <1>0, <2>13, <3>1, <3>2
  <2>15. (\A i \in DOMAIN results : ResultInv(cfg, results[i]))'
    BY <2>14 DEF ResultInv
  <2>16. RunInv(cfg, run)' /\ ~run'.alive
    BY <2>3, NewRun
  <2>17. PlaceInv(cfg)'
    BY <1>0, <2>3, <2>4, <2>13, <2>16 DEF PlaceInv
  <2> QED
    BY <1>0, <1>b, <2>3, <2>13, <2>15, <2>16, <2>17 DEF TargetInv, Res
<1>7. CASE Target(cfg)!Summarize
  <2>1. /\ phase = "test" /\ phase' = "prepare" /\ pos' = 1
        /\ UNCHANGED <<ignore, run, results, buckets, reported>>
    BY <1>7 DEF Target!Summarize
  <2>2. Len(reported) = 0
    BY <1>0, <2>1 DEF PlaceInv
  <2>3. PlaceInv(cfg)'
    BY <1>0, <2>1, <2>2 DEF PlaceInv
  <2>4. RunInv(cfg, run)'
    BY <1>0, <2>1 DEF RunInv
  <2> QED
    BY <1>b, <1>c, <2>1, <2>3, <2>4 DEF TargetInv
<1>8. CASE Target(cfg)!Prepare
  BY <1>8, PrepareSteps
<1>9. CASE Target(cfg)!Return
  <2>1. /\ phase = "prepare" /\ phase' = "done" /\ pos' = pos
        /\ UNCHANGED <<ignore, run, results, buckets, reported>>
    BY <1>9 DEF Target!Return
  <2>2. PlaceInv(cfg)'
    BY <1>0, <2>1 DEF PlaceInv
  <2>3. RunInv(cfg, run)'
    BY <1>0, <2>1 DEF RunInv
  <2> QED
    BY <1>b, <1>c, <2>1, <2>2, <2>3 DEF TargetInv
<1>10. CASE Target(cfg)!Finished
  BY <1>10, <1>u DEF Target!Finished
<1> QED
  BY <1>u, <1>1, <1>2, <1>3, <1>4, <1>5, <1>6, <1>7, <1>8, <1>9, <1>10
     DEF Target!Next, Target!Target

\* What the invariant says of the test of a directory.
LEMMA TargetMeans ==
    ASSUME NEW cfg, Target(cfg)!TargetTesterAssumption, TargetInv(cfg)
    PROVE  /\ Target(cfg)!TypeOK /\ Target(cfg)!CrashBucketed
           /\ Target(cfg)!NoUnderflow /\ Target(cfg)!ReportedOnce
<1>1. Target(cfg)!CrashBucketed
  BY UnhandledNames DEF TargetInv, Target!CrashBucketed
<1>2. Target(cfg)!NoUnderflow
  BY OneSecondChance DEF TargetInv, Target!NoUnderflow
<1>3. Target(cfg)!ReportedOnce
  BY DEF TargetInv, BucketInv
<1>4. Target(cfg)!TypeOK
  <2>1. run.pending \in [cfg.Threads -> Seq(cfg.Codes)]
    BY DEF TargetInv, RunInv
  <2>2. \A i \in DOMAIN results : results[i].input \in Target(cfg)!Files
    BY DEF TargetInv, ResultInv
  <2>3. buckets \in [Target(cfg)!Buckets -> [samples : SUBSET Samples(cfg), logs : SUBSET Contents(cfg)]]
    BY DEF TargetInv, BucketInv
  <2>4. Len(reported) <= Len(results)
    <3>1. Len(reported) \in Nat /\ Len(results) \in Nat /\ Len(cfg.Inputs) \in Nat
      BY DEF TargetInv, BucketInv, Target!TargetTesterAssumption
    <3>2. pos \in Nat
      BY <3>1 DEF TargetInv, PlaceInv
    <3>3. reported = <<>> => Len(reported) = 0
      OBVIOUS
    <3> QED
      BY <3>1, <3>2, <3>3 DEF TargetInv, PlaceInv
  <2>5. /\ phase \in {"test", "running", "prepare", "done"}
        /\ pos \in 1..(Len(cfg.Inputs) + 1)
        /\ run.alive <=> phase = "running"
        /\ Len(results) <= Len(cfg.Inputs)
    BY DEF TargetInv, PlaceInv
  <2> QED
    BY <2>1, <2>2, <2>3, <2>4, <2>5 DEF Target!TypeOK, Samples, Contents
<1> QED
  BY <1>1, <1>2, <1>3, <1>4

-----------------------------------------------------------------------------
(* The debugger and the tests together.                                    *)

TestersInv ==
    /\ part = <<"debugger">> => Debugger!TypeOK /\ CounterInv
    /\ part[1] = "input" => \A k \in DOMAIN InputTests :
         part = <<"input", k>> => InputInv(InputTests[k])
    /\ part[1] = "target" => \A k \in DOMAIN TargetTests :
         part = <<"target", k>> => TargetInv(TargetTests[k])

\* A step is one of the part that runs.
LEMMA StepOfPart ==
    ASSUME [Next]_vars
    PROVE  /\ part' = part
           /\ part = <<"debugger">> => [Debugger!Next]_Debugger!vars
           /\ \A k : part = <<"input", k>> =>
                [Input(InputTests[k])!Next]_(Input(InputTests[k])!vars)
           /\ \A k : part = <<"target", k>> =>
                [Target(TargetTests[k])!Next]_(Target(TargetTests[k])!vars)
<1>1. CASE UNCHANGED vars
  BY <1>1 DEF vars, Debugger!vars, Debugger!os, Debugger!tgt, Debugger!history, Input!vars,
     Target!vars
<1>2. CASE RunDebugger
  BY <1>2, OnePart DEF RunDebugger, DebuggerOthers
<1>3. ASSUME NEW k, RunInput(k)
      PROVE  part' = part /\ part = <<"input", k>> /\ Input(InputTests[k])!Next
  BY <1>3 DEF RunInput, InputOthers
<1>4. ASSUME NEW k, RunTarget(k)
      PROVE  part' = part /\ part = <<"target", k>> /\ Target(TargetTests[k])!Next
  BY <1>4 DEF RunTarget, TargetOthers
<1> QED
  BY <1>1, <1>2, <1>3, <1>4, OnePart DEF Next

\* The part that runs starts in its invariant.
LEMMA TestersInit == Init => TestersInv
<1> SUFFICES ASSUME Init PROVE TestersInv
  OBVIOUS
<1>1. CASE part = <<"debugger">> /\ Debugger!Init
  <2>1. CounterInv /\ Debugger!TypeOK
    BY <1>1, TestersAssumption, CounterInit DEF CounterInv, DebuggerInv
  <2> QED
    BY <1>1, <2>1, OnePart DEF TestersInv
<1>2. ASSUME NEW k \in DOMAIN InputTests, part = <<"input", k>>, Input(InputTests[k])!Init
      PROVE  TestersInv
  <2>1. InputInv(InputTests[k])
    BY <1>2, TestersAssumption, InputInit
  <2> QED
    BY <1>2, <2>1, OnePart DEF TestersInv
<1>3. ASSUME NEW k \in DOMAIN TargetTests, part = <<"target", k>>, Target(TargetTests[k])!Init
      PROVE  TestersInv
  <2>1. TargetInv(TargetTests[k])
    BY <1>3, TestersAssumption, TargetInit
  <2> QED
    BY <1>3, <2>1, OnePart DEF TestersInv
<1> QED
  BY <1>1, <1>2, <1>3 DEF Init

\* Every step keeps the invariant of the part that runs.
LEMMA TestersStep == TestersInv /\ [Next]_vars => TestersInv'
<1> SUFFICES ASSUME TestersInv, [Next]_vars PROVE TestersInv'
  OBVIOUS
<1>0. part' = part
  BY StepOfPart
<1>1. ASSUME part = <<"debugger">> PROVE (Debugger!TypeOK /\ CounterInv)'
  <2>1. CounterInv /\ [Debugger!Next]_Debugger!vars
    BY <1>1, StepOfPart DEF TestersInv
  <2>2. CounterInv'
    BY <2>1, TestersAssumption, CounterStep
  <2> QED
    BY <2>2 DEF CounterInv, DebuggerInv
<1>2. ASSUME NEW k \in DOMAIN InputTests, part = <<"input", k>> PROVE InputInv(InputTests[k])'
  <2>1. InputInv(InputTests[k]) /\ [Input(InputTests[k])!Next]_(Input(InputTests[k])!vars)
    BY <1>2, StepOfPart, OnePart DEF TestersInv
  <2>2. Input(InputTests[k])!TesterAssumption
    BY TestersAssumption
  <2> QED
    BY <2>1, <2>2, InputSteps
<1>3. ASSUME NEW k \in DOMAIN TargetTests, part = <<"target", k>> PROVE TargetInv(TargetTests[k])'
  <2>1. TargetInv(TargetTests[k]) /\ [Target(TargetTests[k])!Next]_(Target(TargetTests[k])!vars)
    BY <1>3, StepOfPart, OnePart DEF TestersInv
  <2>2. Target(TargetTests[k])!TargetTesterAssumption
    BY TestersAssumption
  <2> QED
    BY <2>1, <2>2, TargetSteps
<1> QED
  BY <1>0, <1>1, <1>2, <1>3 DEF TestersInv

\* For any tests of inputs and directories, on Linux and on Windows, with any threads,
\* retries, exceptions, contents and extensions: test_input reports a crash that some run
\* showed, reads the traces of targets that are dead or killed (or that a failed Windows
\* debugger left stopped), and says "no crash and no error" only of a run that went to its
\* end or that reached the time limit of the Windows debugger; test_dir names the bucket of
\* an input after the exception nobody handled, reports a content with one extension once
\* in a bucket, and the unsigned subtraction of Summary::update does not underflow.
THEOREM CrashIsFound == Spec => []CrashFound
<1>1. TestersInv => CrashFound
  <2> SUFFICES ASSUME TestersInv PROVE CrashFound
    OBVIOUS
  <2>1. ASSUME NEW k \in DOMAIN InputTests, part[1] = "input", part = <<"input", k>>
        PROVE  /\ Input(InputTests[k])!TypeOK /\ Input(InputTests[k])!CrashFound
               /\ Input(InputTests[k])!TargetGone /\ Input(InputTests[k])!CleanMeansRan
    <3>1. InputInv(InputTests[k])
      BY <2>1 DEF TestersInv
    <3> QED
      BY <3>1 DEF InputInv, Input!TypeOK, Input!CrashFound, Input!TargetGone,
         Input!CleanMeansRan, Input!RunError
  <2>2. ASSUME NEW k \in DOMAIN TargetTests, part[1] = "target", part = <<"target", k>>
        PROVE  /\ Target(TargetTests[k])!TypeOK /\ Target(TargetTests[k])!CrashBucketed
               /\ Target(TargetTests[k])!NoUnderflow /\ Target(TargetTests[k])!ReportedOnce
    <3>1. TargetInv(TargetTests[k]) /\ Target(TargetTests[k])!TargetTesterAssumption
      BY <2>2, TestersAssumption DEF TestersInv
    <3> QED
      BY <3>1, TargetMeans
  <2>3. TypeOK
    BY <2>1, <2>2 DEF TypeOK, TestersInv
  <2> QED
    BY <2>1, <2>2, <2>3 DEF CrashFound
<1> QED
  BY <1>1, TestersInit, TestersStep, PTL DEF Spec
=============================================================================
