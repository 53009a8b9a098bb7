---------------------------- MODULE CrashReports ----------------------------
(***************************************************************************)
(* The crash report tasks of onefuzz-task (generic, libFuzzer and dotnet): *)
(* several nodes run the same task, first on the crashes they find in the  *)
(* container (batch_process), then on those the input queue announces      *)
(* (InputPoller::run), and save what they find with conditional uploads.   *)
(*                                                                         *)
(* A request is a step for each attempt: the server may execute it and its *)
(* answer be lost, in which case reqwest-retry repeats it.  The queue is   *)
(* the storage service's: a popped message is hidden, comes back when the  *)
(* visibility timeout expires, and can then only be deleted with the       *)
(* receipt of its last pop.  Error results leave InputPoller::run, and so  *)
(* end the task on that node.                                              *)
(***************************************************************************)
EXTENDS Naturals, FiniteSets

CONSTANTS
    Worker,      \* nodes that run the task
    Input,       \* crashing inputs, named by their digest
    Stack,       \* call stacks, named by their digest
    Msg,         \* messages of the input queue
    MsgInput,    \* the input a message names, BadUrl when it does not parse
    BadUrl, None,
    Kind,        \* which of the three report tasks
    Dirs,        \* the report containers that are configured
    CheckQueue,  \* Config::check_queue
    MaxRetry,    \* MAX_RETRY_ATTEMPTS
    MaxPops      \* bound on the deliveries of a message

Dir == {"unique", "reports", "no_repro"}

ReportsAssumption ==
    /\ MsgInput \in [Msg -> Input \cup {BadUrl}]
    /\ BadUrl \notin Input
    /\ None \notin Msg \cup Stack \cup Input
    /\ Kind \in {"generic", "libfuzzer", "dotnet"}
    /\ Dirs \subseteq Dir
    /\ CheckQueue \in BOOLEAN
    /\ MaxRetry \in Nat /\ MaxPops \in Nat

VARIABLES
    crashes,   \* the crashes container
    queue,     \* the input queue: state and last receipt of each message
    unique,    \* stacks in the unique_reports container
    reports,   \* the stack of the report of each input, or None
    noRepro,   \* inputs in the no_repro container
    pc,        \* where each worker is: the State of its poller, refined
    held,      \* the message it has popped, or None
    receipt,   \* the pop receipt it has for that message
    input,     \* the input it works on
    stack,     \* the stack of the crash it has reproduced, None for no repro
    batch,     \* the inputs in its local copy of the crashes container
    todo,      \* those that batch_process has not processed yet
    tries,     \* failed attempts of the request under way
    events,    \* history: how often each new_report event was sent
    swallowed  \* history: inputs whose result the task has failed to save

server == <<crashes, queue>>
saved == <<unique, reports, noRepro, events, swallowed>>
local == <<held, receipt, input, stack, batch, todo>>
vars == <<server, saved, local, pc, tries>>

\* The states of InputPoller (Ready, Polled, Parsed, Downloaded, Processed),
\* with the uploads that end the processing of an input, and the batch before.
State == {"start", "batch", "ready", "polled", "parsed", "downloaded"} \cup Dir
           \cup {"processed", "done", "failed"}

TypeOK ==
    /\ crashes \subseteq Input
    /\ queue \in [Msg -> [state : {"unsent", "visible", "hidden", "deleted"},
                          receipt : 0..MaxPops]]
    /\ unique \subseteq Stack
    /\ reports \in [Input -> Stack \cup {None}]
    /\ noRepro \subseteq Input
    /\ pc \in [Worker -> State]
    /\ held \in [Worker -> Msg \cup {None}]
    /\ receipt \in [Worker -> 0..MaxPops]
    /\ input \in [Worker -> Input \cup {None}]
    /\ stack \in [Worker -> Stack \cup {None}]
    /\ batch \in [Worker -> SUBSET Input]
    /\ todo \in [Worker -> SUBSET Input]
    /\ tries \in [Worker -> 0..MaxRetry]
    /\ events \in [Dir \X (Input \cup Stack) -> Nat]
    /\ swallowed \subseteq Input

Init ==
    /\ crashes = {}
    /\ queue = [m \in Msg |-> [state |-> "unsent", receipt |-> 0]]
    /\ unique = {} /\ reports = [i \in Input |-> None] /\ noRepro = {}
    /\ pc = [w \in Worker |-> "start"]
    /\ held = [w \in Worker |-> None]
    /\ receipt = [w \in Worker |-> 0]
    /\ input = [w \in Worker |-> None]
    /\ stack = [w \in Worker |-> None]
    /\ batch = [w \in Worker |-> {}] /\ todo = [w \in Worker |-> {}]
    /\ tries = [w \in Worker |-> 0]
    /\ events = [n \in Dir \X (Input \cup Stack) |-> 0]
    /\ swallowed = {}

-----------------------------------------------------------------------------
(* The environment: a fuzzing task uploads a crash, and the storage events *)
(* of the container put a message for it into the queue of this task.      *)

Found(i) ==
    /\ i \notin crashes
    /\ crashes' = crashes \cup {i}
    /\ UNCHANGED <<queue, saved, local, pc, tries>>

Announce(m) ==
    /\ queue[m].state = "unsent"
    /\ MsgInput[m] \in crashes \cup {BadUrl}
    /\ queue' = [queue EXCEPT ![m].state = "visible"]
    /\ UNCHANGED <<crashes, saved, local, pc, tries>>

\* The visibility timeout of a popped message.
Expire(m) ==
    /\ queue[m].state = "hidden" /\ queue[m].receipt < MaxPops
    /\ queue' = [queue EXCEPT ![m].state = "visible"]
    /\ UNCHANGED <<crashes, saved, local, pc, tries>>

-----------------------------------------------------------------------------
(* Requests with retries.                                                  *)

Goto(w, s) == pc' = [pc EXCEPT ![w] = s]

\* The attempt after max_retry more has failed is the last one.
RetryOrFail(w, failed) ==
    IF tries[w] >= MaxRetry
    THEN tries' = [tries EXCEPT ![w] = 0] /\ Goto(w, failed)
    ELSE tries' = [tries EXCEPT ![w] = @ + 1] /\ UNCHANGED pc

Answered(w, s) == tries' = [tries EXCEPT ![w] = 0] /\ Goto(w, s)

-----------------------------------------------------------------------------
(* The start of each task, up to the directory listing of batch_process.   *)

PullCrashes(w) ==
    /\ batch' = [batch EXCEPT ![w] = crashes]
    /\ todo' = [todo EXCEPT ![w] = crashes]
    /\ Goto(w, "batch")
    /\ UNCHANGED <<server, saved, held, receipt, input, stack, tries>>

StartFailed(w) == Goto(w, "failed") /\ UNCHANGED <<server, saved, local, tries>>

StartGeneric(w) ==
    /\ Kind = "generic" /\ pc[w] = "start"
    /\ PullCrashes(w) \/ StartFailed(w)

\* verify() runs the target before anything is pulled.
StartLibFuzzer(w) ==
    /\ Kind = "libfuzzer" /\ pc[w] = "start"
    /\ PullCrashes(w) \/ StartFailed(w)

\* Pulls the tools and initialises the containers first.
StartDotnet(w) ==
    /\ Kind = "dotnet" /\ pc[w] = "start"
    /\ PullCrashes(w) \/ StartFailed(w)

\* The next entry of the directory, or the end of the batch.
BatchNext(w) ==
    /\ pc[w] = "batch"
    /\ \/ \E i \in todo[w] :
            /\ todo' = [todo EXCEPT ![w] = @ \ {i}]
            /\ input' = [input EXCEPT ![w] = i]
            /\ Goto(w, "downloaded")
       \/ /\ todo[w] = {}
          /\ Goto(w, IF CheckQueue THEN "ready" ELSE "done")
          /\ UNCHANGED <<todo, input>>
    /\ UNCHANGED <<server, saved, held, receipt, stack, batch, tries>>

-----------------------------------------------------------------------------
(* The poller.                                                             *)

Hide(m) == [queue EXCEPT ![m] = [state |-> "hidden", receipt |-> @.receipt + 1]]

Poppable(m) == queue[m].state = "visible" /\ queue[m].receipt < MaxPops

PopAnswered(w) ==
    /\ pc[w] = "ready"
    /\ Answered(w, "polled")
    /\ \/ \E m \in Msg :
            /\ Poppable(m)
            /\ queue' = Hide(m)
            /\ held' = [held EXCEPT ![w] = m]
            /\ receipt' = [receipt EXCEPT ![w] = queue[m].receipt + 1]
       \/ /\ \A m \in Msg : ~Poppable(m)
          /\ held' = [held EXCEPT ![w] = None]
          /\ UNCHANGED <<queue, receipt>>
    /\ UNCHANGED <<crashes, saved, input, stack, batch, todo>>

\* An answer that does not arrive hides the message from everyone.
PopFailed(w) ==
    /\ pc[w] = "ready"
    /\ RetryOrFail(w, "failed")
    /\ queue' \in {queue} \cup {Hide(m) : m \in {n \in Msg : Poppable(n)}}
    /\ UNCHANGED <<crashes, saved, local>>

Parse(w) ==
    /\ pc[w] = "polled"
    /\ IF held[w] = None
       THEN Goto(w, "ready") /\ UNCHANGED input
       ELSE IF MsgInput[held[w]] = BadUrl
            THEN Goto(w, "failed") /\ UNCHANGED input
            ELSE /\ Goto(w, "parsed")
                 /\ input' = [input EXCEPT ![w] = MsgInput[held[w]]]
    /\ UNCHANGED <<server, saved, held, receipt, stack, batch, todo, tries>>

\* seen_in_batch: whether the file is in the local copy of the container.
SeenInBatch_Container(w) == input[w] \in crashes
SeenInBatch(w) == input[w] \in batch[w]

Download(w) ==
    /\ pc[w] = "parsed"
    /\ IF SeenInBatch(w)
       THEN Goto(w, "processed")
       ELSE Goto(w, "downloaded") \/ Goto(w, "failed")
    /\ UNCHANGED <<server, saved, local, tries>>

-----------------------------------------------------------------------------
(* Processing: reproduce the crash, then save its report.                  *)

\* Where a worker goes on when an input is processed.
AfterProcess(w) == IF held[w] = None THEN "batch" ELSE "processed"

\* CrashTestResult::save skips the containers that are not configured.
NextDir(w, d) ==
    IF d = "unique" /\ "reports" \in Dirs THEN "reports" ELSE AfterProcess(w)

FirstDir(w, s) ==
    CASE s = None /\ "no_repro" \in Dirs -> "no_repro"
      [] s = None /\ "no_repro" \notin Dirs -> AfterProcess(w)
      [] s # None /\ "unique" \in Dirs -> "unique"
      [] s # None /\ "unique" \notin Dirs -> NextDir(w, "unique")

\* The stack may differ from one run of the target to the next; an error of
\* test_input is propagated by all three processors.
TestInput(w) ==
    /\ pc[w] = "downloaded"
    /\ \/ \E s \in Stack \cup {None} :
            /\ stack' = [stack EXCEPT ![w] = s]
            /\ Goto(w, FirstDir(w, s))
       \/ Goto(w, "failed") /\ UNCHANGED stack
    /\ UNCHANGED <<server, saved, held, receipt, input, batch, todo, tries>>

\* The blob an upload names, and whether it exists (If-None-Match: *).
BlobName(w, d) == <<d, IF d = "unique" THEN stack[w] ELSE input[w]>>

Exists(w, d) ==
    CASE d = "unique" -> stack[w] \in unique
      [] d = "reports" -> reports[input[w]] # None
      [] d = "no_repro" -> input[w] \in noRepro

Put(w, d) ==
    IF Exists(w, d)
    THEN UNCHANGED <<unique, reports, noRepro>>
    ELSE /\ unique' = IF d = "unique" THEN unique \cup {stack[w]} ELSE unique
         /\ reports' = IF d = "reports" THEN [reports EXCEPT ![input[w]] = stack[w]]
                                        ELSE reports
         /\ noRepro' = IF d = "no_repro" THEN noRepro \cup {input[w]} ELSE noRepro

\* The answer is CREATED or CONFLICT; only the former is a new report.
UploadAnswered(w) ==
    /\ pc[w] \in Dir
    /\ Put(w, pc[w])
    /\ events' = IF Exists(w, pc[w]) THEN events
                 ELSE [events EXCEPT ![BlobName(w, pc[w])] = @ + 1]
    /\ Answered(w, NextDir(w, pc[w]))
    /\ UNCHANGED <<server, swallowed, local>>

\* GenericReportProcessor and the libFuzzer AsanProcessor return the error of
\* save; the dotnet AsanProcessor logs it and goes on.
AfterSaveError(w) == IF Kind = "dotnet" THEN AfterProcess(w) ELSE "failed"

\* The server may or may not have stored the report.
UploadFailed(w) ==
    /\ pc[w] \in Dir
    /\ Put(w, pc[w]) \/ UNCHANGED <<unique, reports, noRepro>>
    /\ RetryOrFail(w, AfterSaveError(w))
    /\ swallowed' = IF tries[w] >= MaxRetry /\ Kind = "dotnet"
                    THEN swallowed \cup {input[w]} ELSE swallowed
    /\ UNCHANGED <<server, events, local>>

-----------------------------------------------------------------------------
(* Finish: the message is deleted with the receipt of the pop.             *)

Deletable(w) ==
    /\ queue[held[w]].state \in {"visible", "hidden"}
    /\ queue[held[w]].receipt = receipt[w]

Delete(w) == queue' = [queue EXCEPT ![held[w]].state = "deleted"]

DeleteAnswered(w) ==
    /\ pc[w] = "processed" /\ Deletable(w)
    /\ Delete(w)
    /\ Answered(w, "ready")
    /\ UNCHANGED <<crashes, saved, local>>

\* A lost request, a lost answer, or 404 because the message is gone or has
\* been popped again: each is retried, and in the end ends the task.
DeleteFailed(w) ==
    /\ pc[w] = "processed"
    /\ UNCHANGED queue \/ (Deletable(w) /\ Delete(w))
    /\ RetryOrFail(w, "failed")
    /\ UNCHANGED <<crashes, saved, local>>

-----------------------------------------------------------------------------
Advance(w) ==
    \/ StartGeneric(w) \/ StartLibFuzzer(w) \/ StartDotnet(w)
    \/ BatchNext(w) \/ PopAnswered(w) \/ Parse(w) \/ Download(w)
    \/ TestInput(w) \/ UploadAnswered(w) \/ DeleteAnswered(w)

Fault(w) == PopFailed(w) \/ UploadFailed(w) \/ DeleteFailed(w)

Next ==
    \/ \E i \in Input : Found(i)
    \/ \E m \in Msg : Announce(m) \/ Expire(m)
    \/ \E w \in Worker : Advance(w) \/ Fault(w)

Spec == Init /\ [][Next]_vars

\* The tokio runtime keeps running each worker, an announced message stays in
\* the queue, and the storage service lets its visibility timeouts expire.
FairSpec ==
    /\ Spec
    /\ \A w \in Worker : WF_vars(Advance(w) \/ Fault(w))
    /\ \A m \in Msg : WF_vars(Expire(m))

-----------------------------------------------------------------------------
(* Properties.                                                             *)

\* A message leaves the queue only when the result of its input is saved:
\* delete comes after save, save errors end the task, and an input that
\* seen_in_batch skips was processed before the first pop.  Only the dotnet
\* task, which logs the errors of save, may lose the result.
AcknowledgedIsStored ==
    {"reports", "no_repro"} \subseteq Dirs =>
      \A m \in Msg : queue[m].state = "deleted" =>
        LET i == MsgInput[m]
        IN reports[i] # None \/ i \in noRepro \/ i \in swallowed

\* A report is saved after the unique report of its stack: whoever reads a
\* report finds the unique one, whatever worker died between the two.
ReportHasUnique ==
    "unique" \in Dirs =>
      \A i \in Input : reports[i] # None => reports[i] \in unique

\* Several workers that reproduce the same crash, and retries whose first
\* answer was lost, announce a new report at most once.
EventOnce == \A n \in DOMAIN events : events[n] <= 1

\* What is reported arrives whole and once.
ResultsArrive == EventOnce /\ ReportHasUnique

\* A saved report is never replaced by that of another worker or retry.
StoredStays ==
    \A i \in Input : reports[i] # None => reports'[i] = reports[i]

\* A message that was sent is processed and deleted, or the task has ended on every
\* worker, or the bound on deliveries is reached.
Settled(m) ==
    \/ queue[m].state = "unsent"
    \/ queue[m].state = "deleted"
    \/ \E n \in Msg : queue[n].receipt = MaxPops
    \/ \A w \in Worker : pc[w] \in {"failed", "done"}
=============================================================================
