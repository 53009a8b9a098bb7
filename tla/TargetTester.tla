---------------------------- MODULE TargetTester ----------------------------
(***************************************************************************)
(* The input-tester crate (Windows): test_dir runs every input of a        *)
(* directory under the debugger (crash_detector::test_process), collects   *)
(* the exceptions of the target, counts them (Summary) and keeps a sample  *)
(* of each failing input in a bucket directory named after its most        *)
(* serious exception (prepare_test_result).                                *)
(*                                                                         *)
(* An exception is its code; two exceptions of one code have one stack     *)
(* hash.  Left out: pipes, the text of the logs and the repro script,      *)
(* Application Verifier, the notifications of the Visual C++ runtime.      *)
(***************************************************************************)
EXTENDS Integers, Sequences, FiniteSets

CONSTANTS Inputs,          \* the files of the directory, as a sequence
          Content,         \* what is in a file
          Ext,             \* its extension
          Threads,         \* the threads of the target
          Codes,           \* exception codes
          Throws,          \* those of a throw statement
          MaxSamples,      \* MAX_CRASH_SAMPLES
          MaxEvents        \* bound: exceptions raised in one run

Files == {Inputs[i] : i \in DOMAIN Inputs}

TargetTesterAssumption ==
    /\ Inputs \in Seq(Files) /\ Throws \subseteq Codes
    /\ MaxSamples \in Nat /\ MaxEvents \in Nat

VARIABLES ignore,    \* ignore_first_chance_exceptions
          phase,     \* "test", "running", "summary", "prepare", "done"
          pos,       \* index of the input at hand
          run,       \* the event handler and the target of the current run
          results,   \* results of test_application, in order
          summary,   \* the Summary
          buckets,   \* bugs_found: samples and log directories per bucket
          reported   \* test_results

vars == <<ignore, phase, pos, run, results, summary, buckets, reported>>

Buckets == Codes \union {"timeout"}
NoRun == [alive |-> FALSE, pending |-> [t \in Threads |-> <<>>], events |-> 0,
          exceptions |-> <<>>, terminated |-> FALSE, timed_out |-> FALSE]

Init ==
    /\ ignore \in BOOLEAN
    /\ phase = "test" /\ pos = 1 /\ run = NoRun /\ results = <<>>
    /\ summary = [passes |-> 0, handled |-> 0, first |-> 0, crashes |-> 0, timeouts |-> 0]
    /\ buckets = [b \in Buckets |-> [samples |-> {}, logs |-> {}]]
    /\ reported = <<>>

-----------------------------------------------------------------------------
(* test_application: the target is started under the debugger, or that     *)
(* fails and the input has no result.                                      *)
StartTest ==
    /\ phase = "test" /\ pos <= Len(Inputs)
    /\ \/ run' = [NoRun EXCEPT !.alive = TRUE] /\ phase' = "running" /\ UNCHANGED pos
       \/ run' = NoRun /\ pos' = pos + 1 /\ UNCHANGED phase
    /\ UNCHANGED <<ignore, results, summary, buckets, reported>>

(* on_exception: kept unless it is a first chance to be ignored or the     *)
(* target is already being terminated; a second chance terminates it.      *)
OnException(r, c, first, walked) ==
    IF (first /\ ignore) \/ r.terminated
    THEN r
    ELSE [r EXCEPT !.exceptions = IF walked THEN Append(@, [code |-> c, first |-> first]) ELSE @,
                   !.terminated = ~first]

(* A thread raises c: the first chance goes to the debugger; the thread    *)
(* then looks for a handler.                                               *)
Raise(t, c) ==
    /\ run.alive /\ ~run.terminated /\ run.events < MaxEvents
    /\ \E walked \in BOOLEAN :
          run' = [OnException(run, c, TRUE, walked) EXCEPT
                      !.events = @ + 1, !.pending[t] = Append(@, c)]
    /\ UNCHANGED <<ignore, phase, pos, results, summary, buckets, reported>>

(* The newest exception of the thread is handled.                          *)
Handled(t) ==
    /\ run.alive /\ ~run.terminated /\ run.pending[t] # <<>>
    /\ run' = [run EXCEPT !.pending[t] = SubSeq(@, 1, Len(@) - 1)]
    /\ UNCHANGED <<ignore, phase, pos, results, summary, buckets, reported>>

(* Nothing handles it, or the thread fails fast without a first chance.    *)
(* A thread may get here while the target is already being terminated.     *)
SecondChance(t) ==
    /\ run.alive /\ run.events < MaxEvents
    /\ \E walked \in BOOLEAN, c \in Codes :
          /\ run.pending[t] # <<>> => c = run.pending[t][Len(run.pending[t])]
          /\ run' = [OnException(run, c, FALSE, walked) EXCEPT
                         !.events = @ + 1, !.pending[t] = <<>>]
    /\ UNCHANGED <<ignore, phase, pos, results, summary, buckets, reported>>

(* on_poll: the time is up.                                                *)
PollTimeout ==
    /\ run.alive /\ ~run.timed_out
    /\ run' = [run EXCEPT !.timed_out = TRUE, !.terminated = TRUE]
    /\ UNCHANGED <<ignore, phase, pos, results, summary, buckets, reported>>

(* filter_uninteresting_exceptions: an exception goes when it is a first   *)
(* chance and the next one has its code and stack.                         *)
Uninteresting(es, i) == i < Len(es) /\ es[i].first /\ es[i].code = es[i + 1].code
FilterUninteresting(es) ==
    LET kept[i \in 0..Len(es)] ==
          IF i = 0 THEN <<>>
          ELSE IF Uninteresting(es, i) THEN kept[i - 1] ELSE Append(kept[i - 1], es[i])
    IN  kept[Len(es)]

(* The target has exited: by itself, or because it was terminated.         *)
EndTest ==
    /\ run.alive
    /\ results' = Append(results,
           [input |-> Inputs[pos], exceptions |-> FilterUninteresting(run.exceptions),
            timed_out |-> run.timed_out, raw |-> run.exceptions])
    /\ run' = NoRun /\ phase' = "test" /\ pos' = pos + 1
    /\ UNCHANGED <<ignore, summary, buckets, reported>>

-----------------------------------------------------------------------------
AnyCrashes(r) == r.exceptions # <<>>
Failing(r) == AnyCrashes(r) \/ r.timed_out

Count(es, c, first) == Cardinality({i \in DOMAIN es : es[i].code = c /\ es[i].first = first})

(* first chance exceptions of a code that had no second chance.            *)
HandledIn(es) ==
    LET sum[S \in SUBSET Codes] ==
          IF S = {} THEN 0
          ELSE LET c == CHOOSE c \in S : TRUE IN
               sum[S \ {c}] + IF Count(es, c, TRUE) > 0
                              THEN Count(es, c, TRUE) - Count(es, c, FALSE) ELSE 0
    IN  sum[Codes]

Chances(es, first) == Cardinality({i \in DOMAIN es : es[i].first = first})

(* Summary::update.                                                        *)
Update(s, r) ==
    IF ~Failing(r)
    THEN [s EXCEPT !.passes = @ + 1]
    ELSE [s EXCEPT
             !.first    = @ + Chances(r.exceptions, TRUE),
             !.crashes  = @ + Chances(r.exceptions, FALSE),
             !.handled  = @ + HandledIn(r.exceptions),
             !.timeouts = @ + IF r.timed_out THEN 1 ELSE 0]

(* All results, one after the other.                                       *)
Totals ==
    LET total[i \in 0..Len(results)] ==
          IF i = 0 THEN summary ELSE Update(total[i - 1], results[i])
    IN  total[Len(results)]

Summarize ==
    /\ phase = "test" /\ pos > Len(Inputs)
    /\ summary' = Totals
    /\ phase' = "prepare" /\ pos' = 1
    /\ UNCHANGED <<ignore, run, results, buckets, reported>>

-----------------------------------------------------------------------------
First(S) == CHOOSE i \in S : \A j \in S : i <= j

(* most_serious_exception: the first unhandled one, or a throw, or the     *)
(* first.                                                                  *)
MostSerious(es) ==
    LET unhandled == {i \in DOMAIN es : ~es[i].first}
        throws    == {i \in DOMAIN es : es[i].code \in Throws}
    IN  CASE unhandled # {}                   -> es[First(unhandled)]
          [] unhandled = {} /\ throws # {}    -> es[First(throws)]
          [] unhandled = {} /\ throws = {}    -> es[1]

Bucket(r) == IF AnyCrashes(r) THEN MostSerious(r.exceptions).code ELSE "timeout"

(* is_bucket_full: directory entries, two for each sample.                 *)
IsFull(b) == (Cardinality(buckets[b].samples) + Cardinality(buckets[b].logs)) \div 2 >= MaxSamples

(* copy_input_file_result: the sample is named by the hash of its content  *)
(* and the extension of the input, and is not copied over another.  Its    *)
(* logs go to a directory named by the hash alone.                         *)
Sample(f) == <<Content[f], Ext[f]>>
Copied(b, r) == Sample(r.input) \notin buckets[b].samples

(* prepare_test_result of one result.  The copy of the sample or its log   *)
(* directory may fail; the error is logged and the next result taken.      *)
Prepare ==
    /\ phase = "prepare" /\ pos <= Len(results)
    /\ pos' = pos + 1
    /\ LET r == results[pos]
           b == Bucket(r)
           c == Content[r.input]
           put(logs) == buckets' = [buckets EXCEPT ![b] =
                                       [samples |-> @.samples \union {Sample(r.input)},
                                        logs |-> @.logs \union logs]]
       IN  IF ~Failing(r)
           THEN /\ reported' = Append(reported, [input |-> r.input, bucket |-> "none"])
                /\ UNCHANGED buckets
           ELSE IF IsFull(b) \/ ~Copied(b, r)
           THEN UNCHANGED <<buckets, reported>>
           ELSE \/ put({c}) /\ reported' = Append(reported, [input |-> r.input, bucket |-> b])
                \/ \E logs \in {{}, {c}} : put(logs) /\ UNCHANGED reported
                \/ UNCHANGED <<buckets, reported>>
    /\ UNCHANGED <<ignore, phase, run, results, summary>>

Return ==
    /\ phase = "prepare" /\ pos > Len(results)
    /\ phase' = "done"
    /\ UNCHANGED <<ignore, pos, run, results, summary, buckets, reported>>

Finished == phase = "done" /\ UNCHANGED vars

Target == \E t \in Threads : Handled(t) \/ SecondChance(t) \/ \E c \in Codes : Raise(t, c)

(* EndTest of a target that is not terminated is the target's own choice.  *)
Next == StartTest \/ Target \/ PollTimeout \/ EndTest \/ Summarize \/ Prepare \/ Return \/ Finished

(* The debugger polls, and a terminated target ends; nothing is asked of   *)
(* the target itself.                                                      *)
TesterStep == StartTest \/ PollTimeout \/ Summarize \/ Prepare \/ Return
\* A process that was terminated does end.
EndTerminated == run.terminated /\ EndTest
Fairness ==
    /\ WF_vars(TesterStep)
    /\ WF_vars(EndTerminated)

Spec == Init /\ [][Next]_vars /\ Fairness

-----------------------------------------------------------------------------
TypeOK ==
    /\ phase \in {"test", "running", "prepare", "done"}
    /\ pos \in 1..(Len(Inputs) + 1)
    /\ run.alive <=> phase = "running"
    /\ run.pending \in [Threads -> Seq(Codes)]
    /\ Len(results) <= Len(Inputs) /\ Len(reported) <= Len(results)
    /\ buckets \in [Buckets -> [samples : SUBSET {Sample(f) : f \in Files},
                               logs : SUBSET {Content[f] : f \in Files}]]
    /\ \A i \in DOMAIN results : results[i].input \in Files

(* The subtraction of Summary::update (summary.rs:105) is of unsigned      *)
(* numbers: whatever the threads raise, ignored or terminated, a code with *)
(* a first chance never has more second chances than first ones.           *)
NoUnderflow ==
    \A i \in DOMAIN results : LET es == results[i].exceptions IN
        \A c \in Codes : Count(es, c, TRUE) > 0 => Count(es, c, TRUE) >= Count(es, c, FALSE)

(* The first exception nobody handled names the bucket of its input, what  *)
(* other exceptions came before or after it and whatever filtering did.    *)
CrashBucketed ==
    \A i \in DOMAIN results : LET es == results[i].raw IN
        \A k \in DOMAIN es :
            ~es[k].first /\ (\A j \in 1..(k - 1) : es[j].first)
                => Bucket(results[i]) = es[k].code

(* An input with the content and the extension of one already reported in  *)
(* the bucket is not reported again, and what is reported has its sample   *)
(* and its logs.  (Equal bytes under two extensions are two reports that   *)
(* share a log directory, tester.rs:460, although "identical inputs" are   *)
(* to be seen once.)                                                       *)
ReportedOnce ==
    /\ \A i, j \in DOMAIN reported :
          (i # j /\ reported[i].bucket # "none" /\ reported[i].bucket = reported[j].bucket)
              => Sample(reported[i].input) # Sample(reported[j].input)
    /\ \A i \in DOMAIN reported : LET b == reported[i].bucket IN
          b # "none" => /\ Sample(reported[i].input) \in buckets[b].samples
                        /\ Content[reported[i].input] \in buckets[b].logs

(* A directory is worked through although inputs hang.                     *)
TestDirEnds == phase = "done"
=============================================================================
