---------------------------- MODULE RuntimeStats ----------------------------
(***************************************************************************)
(* The run-time statistics of a libFuzzer task (fuzz/libfuzzer/common.rs). *)
(* Every worker parses the progress lines of its fuzzer and sends them     *)
(* over one unbounded channel; a future adds them up.  A worker runs its   *)
(* fuzzer again and again, and each run counts from zero.                  *)
(***************************************************************************)
EXTENDS Integers, Sequences, FiniteSets, Functions

CONSTANTS Workers,
          MaxRuns,      \* bound: runs of a worker
          MaxIters,     \* bound: iterations of one run
          MaxQueue      \* bound: messages in the channel

StatsAssumption ==
    /\ IsFiniteSet(Workers)
    /\ MaxRuns \in Nat \ {0} /\ MaxIters \in Nat /\ MaxQueue \in Nat

VARIABLES run,       \* the number of the run of each worker, its run_id
          iters,     \* iterations of that run that were printed
          channel,   \* RuntimeStats on their way
          stats,     \* TotalStats::worker_stats
          count,     \* TotalStats::count
          reported   \* the count last reported

vars == <<run, iters, channel, stats, count, reported>>

Runs == 1..MaxRuns
Stats == [worker : Workers, run : Runs, count : 0..MaxIters]

TypeOK ==
    /\ run \in [Workers -> Runs]
    /\ iters \in [Workers -> [Runs -> 0..MaxIters]]
    /\ channel \in Seq(Stats)
    /\ DOMAIN stats \subseteq Workers
    /\ \A w \in DOMAIN stats : stats[w] \in Stats /\ stats[w].worker = w
    /\ count \in Nat /\ reported \in 0..count

Init ==
    /\ run = [w \in Workers |-> 1]
    /\ iters = [w \in Workers |-> [r \in Runs |-> 0]]
    /\ channel = <<>> /\ stats = [w \in {} |-> 0] /\ count = 0 /\ reported = 0

(* LibFuzzerLine::parse: the count of a progress line of the current run.  *)
ParsedCounts(w) == (iters[w][run[w]])..MaxIters

(* libFuzzer prints a progress line: try_report_iter_update parses and     *)
(* sends it.  A line that does not parse is logged, and lost.              *)
Progress(w) ==
    /\ Len(channel) < MaxQueue
    /\ \E n \in ParsedCounts(w) :
          /\ iters' = [iters EXCEPT ![w][run[w]] = n]
          /\ channel' = Append(channel, [worker |-> w, run |-> run[w], count |-> n])
    /\ UNCHANGED <<run, stats, count, reported>>

(* run_fuzzer starts over with a new run_id.                               *)
NewRun(w) ==
    /\ run[w] < MaxRuns
    /\ run' = [run EXCEPT ![w] = @ + 1]
    /\ UNCHANGED <<iters, channel, stats, count, reported>>

Minus(a, b) == IF a > b THEN a - b ELSE 0        \* saturating_sub

Increment_AnyRun(d) ==
    IF d.worker \in DOMAIN stats THEN Minus(d.count, stats[d.worker].count) ELSE d.count

(* What an update adds: the difference within a run, all of a new run.     *)
Increment(d) ==
    IF d.worker \in DOMAIN stats /\ stats[d.worker].run = d.run
    THEN Minus(d.count, stats[d.worker].count)
    ELSE d.count

(* TotalStats::update                                                      *)
Update(d) ==
    /\ count' = count + Increment(d)
    /\ stats' = [w \in DOMAIN stats \union {d.worker} |-> IF w = d.worker THEN d ELSE stats[w]]

(* report_runtime_stats: a message, ...                                    *)
Receive ==
    /\ channel # <<>>
    /\ channel' = Tail(channel)
    /\ Update(Head(channel))
    /\ reported' = count'
    /\ UNCHANGED <<run, iters>>

(* ... or the timer.                                                       *)
TimerReport ==
    /\ reported' = count
    /\ UNCHANGED <<run, iters, channel, stats, count>>

Next == Receive \/ TimerReport \/ \E w \in Workers : Progress(w) \/ NewRun(w)

Spec == Init /\ [][Next]_vars /\ WF_vars(Receive)

-----------------------------------------------------------------------------
(* What the workers have printed, over all their runs.                     *)
Printed == SumFunction([wr \in Workers \X Runs |-> iters[wr[1]][wr[2]]])

(* What the total knows of a run, and the messages of it on their way.     *)
Known(w, r) == IF w \in DOMAIN stats /\ stats[w].run = r THEN stats[w].count ELSE 0
Of(w, r) == {i \in DOMAIN channel : channel[i].worker = w /\ channel[i].run = r}

(* What the messages in the channel will still add, per run.               *)
Outstanding ==
    SumFunction([wr \in Workers \X Runs |->
        IF Of(wr[1], wr[2]) = {} THEN 0
        ELSE iters[wr[1]][wr[2]] - Known(wr[1], wr[2])])

(* No iteration is counted twice or missed: the total and what is on its   *)
(* way are the iterations of all runs of all workers, although workers     *)
(* repeat their counts, start over from zero and interleave                *)
(* (TotalStats::update).                                                   *)
CountExact == count + Outstanding = Printed
=============================================================================
