---------------------------- MODULE CoverageTask ----------------------------
(***************************************************************************)
(* The coverage task of onefuzz-task.  One node runs it (the task          *)
(* definition asks for exactly one VM): it resumes from the coverage file  *)
(* of the container, records the readonly inputs, then the inputs the      *)
(* queue announces, and rewrites the file as it goes.  The node may die at *)
(* any step and another node take over.                                    *)
(*                                                                         *)
(* Binary coverage maps a block to a count; the counts that matter are no  *)
(* entry (0), an entry that was not reached (1) and a reached one (2).     *)
(***************************************************************************)
EXTENDS Naturals, FiniteSets

CONSTANTS
    Input, Block,
    Known,        \* the blocks of the modules an input loads
    Hit,          \* those it reaches
    Corpus,       \* the inputs of the readonly_inputs directories
    Msg, MsgInput, None,
    Attempts,     \* MAX_COVERAGE_RECORDING_ATTEMPTS
    SaveEvery,    \* record_corpus saves after every 10 inputs
    MaxPops, MaxCrashes   \* bounds on deliveries and on node deaths

CoverageAssumption ==
    /\ Known \in [Input -> SUBSET Block] /\ Hit \in [Input -> SUBSET Block]
    /\ \A i \in Input : Hit[i] \subseteq Known[i]
    /\ Corpus \subseteq Input /\ IsFiniteSet(Corpus)
    /\ MsgInput \in [Msg -> Input] /\ None \notin Msg \cup Input
    /\ Attempts \in Nat \ {0} /\ SaveEvery \in Nat \ {0}
    /\ MaxPops \in Nat /\ MaxCrashes \in Nat

VARIABLES
    remote,    \* coverage.json in the container; everywhere 0 without a file
    queue, pc, held, receipt, input,
    coverage,  \* TaskContext::coverage
    attempt,   \* the attempt of record_input under way
    todo,      \* the corpus files not read yet
    count,     \* recorded corpus files
    ignored,   \* history: corpus inputs whose recording failed on this node
    crashes    \* node deaths so far

vars == <<remote, queue, pc, held, receipt, input, coverage, attempt, todo, count,
          ignored, crashes>>

Coverage == [Block -> 0..2]
Empty == [b \in Block |-> 0]
Reached(c) == {b \in Block : c[b] = 2}
Leq(c, d) == \A b \in Block : c[b] <= d[b]

\* BinaryCoverage::merge: an entry for every block of either, and the larger count.
Merge(c, d) == [b \in Block |-> IF c[b] >= d[b] THEN c[b] ELSE d[b]]

\* What CoverageRecorder::record returns for an input.
Recorded(i) == [b \in Block |-> IF b \in Hit[i] THEN 2 ELSE IF b \in Known[i] THEN 1 ELSE 0]

State == {"start", "corpus", "record", "save", "save_corpus", "poll", "save_input",
          "delete", "failed"}

TypeOK ==
    /\ remote \in Coverage /\ coverage \in Coverage
    /\ queue \in [Msg -> [state : {"unsent", "visible", "hidden", "deleted"},
                          receipt : 0..MaxPops]]
    /\ pc \in State
    /\ held \in Msg \cup {None} /\ receipt \in 0..MaxPops /\ input \in Input \cup {None}
    /\ attempt \in 1..Attempts /\ todo \subseteq Corpus /\ count \in 0..Cardinality(Corpus)
    /\ ignored \subseteq Corpus /\ crashes \in 0..MaxCrashes

Init ==
    /\ \E old \in SUBSET Input :
          remote = [b \in Block |-> IF \E i \in old : b \in Hit[i] THEN 2
                                    ELSE IF \E i \in old : b \in Known[i] THEN 1 ELSE 0]
    /\ queue = [m \in Msg |-> [state |-> "unsent", receipt |-> 0]]
    /\ pc = "start" /\ held = None /\ receipt = 0 /\ input = None
    /\ coverage = Empty /\ attempt = 1 /\ todo = {} /\ count = 0
    /\ ignored = {} /\ crashes = 0

-----------------------------------------------------------------------------
Enqueue(m) ==
    /\ \/ queue[m].state = "unsent"
       \/ queue[m].state = "hidden" /\ queue[m].receipt < MaxPops
    /\ queue' = [queue EXCEPT ![m].state = "visible"]
    /\ UNCHANGED <<remote, pc, held, receipt, input, coverage, attempt, todo, count, ignored, crashes>>

\* The node dies, or the task ended with an error; the task starts elsewhere.
Crash ==
    /\ crashes < MaxCrashes /\ crashes' = crashes + 1
    /\ pc' = "start" /\ held' = None /\ receipt' = 0 /\ input' = None
    /\ coverage' = Empty /\ attempt' = 1 /\ todo' = {} /\ count' = 0 /\ ignored' = {}
    /\ UNCHANGED <<remote, queue>>

Fail == pc' = "failed"

\* The coverage to start from: what the file of the container holds, and the default
\* when the container has none.  (run takes any error of reading the pulled file for
\* a file that is not there; a disk that cannot be read is not modelled.)
Resume_Default == Empty
Resume == remote

\* run: init_pull of the coverage and the inputs; the command line must use the
\* input; a file that does not parse is an error.
Start ==
    /\ pc = "start"
    /\ \/ pc' = "corpus" /\ coverage' = Resume /\ todo' = Corpus
       \/ Fail /\ UNCHANGED <<coverage, todo>>
    /\ UNCHANGED <<remote, queue, held, receipt, input, attempt, count, ignored, crashes>>

AfterCorpus == IF count > 0 THEN "save_corpus" ELSE "poll"

\* record_corpus takes the next file; after the last, run saves if any was
\* recorded.
NextFile ==
    /\ pc = "corpus"
    /\ \/ \E i \in todo : /\ input' = i /\ todo' = todo \ {i}
                          /\ pc' = "record" /\ attempt' = 1
       \/ /\ todo = {} /\ pc' = AfterCorpus
          /\ UNCHANGED <<input, todo, attempt>>
    /\ UNCHANGED <<remote, queue, held, receipt, coverage, count, ignored, crashes>>

\* record_input, after a success: the corpus is saved after every SaveEvery
\* inputs, an input of the queue always.
AfterRecord ==
    IF held # None THEN "save_input"
    ELSE IF (count + 1) % SaveEvery = 0 THEN "save" ELSE "corpus"

\* record_input, after the last failed attempt: record_corpus ignores the
\* error, process returns it and the task ends.
AfterGiveUp == IF held # None THEN "failed" ELSE "corpus"

\* try_record_input: the target may time out, crash or exit with an error, and
\* nothing is merged then.
TryRecord ==
    /\ pc = "record"
    /\ \/ /\ coverage' = Merge(coverage, Recorded(input))
          /\ count' = IF held = None THEN count + 1 ELSE count
          /\ pc' = AfterRecord /\ attempt' = 1 /\ UNCHANGED ignored
       \/ /\ attempt < Attempts /\ attempt' = attempt + 1
          /\ UNCHANGED <<coverage, count, pc, ignored>>
       \/ /\ attempt = Attempts /\ attempt' = 1
          /\ pc' = AfterGiveUp
          /\ ignored' = IF held = None THEN ignored \cup {input} ELSE ignored
          /\ UNCHANGED <<coverage, count>>
    /\ UNCHANGED <<remote, queue, held, receipt, input, todo, crashes>>

AfterSave ==
    CASE pc = "save" -> "corpus" [] pc = "save_corpus" -> "poll" [] OTHER -> "delete"

\* save_and_sync_coverage: the files are written from the coverage in memory,
\* then pushed; the push overwrites the file of the container.
Save ==
    /\ pc \in {"save", "save_corpus", "save_input"}
    /\ \/ remote' = coverage /\ pc' = AfterSave
       \/ Fail /\ UNCHANGED remote
    /\ UNCHANGED <<queue, held, receipt, input, coverage, attempt, todo, count, ignored, crashes>>

\* InputPoller: pop and download an input, then process it.
Pop ==
    /\ pc = "poll"
    /\ \E m \in Msg :
         /\ queue[m].state = "visible" /\ queue[m].receipt < MaxPops
         /\ queue' = [queue EXCEPT ![m] = [state |-> "hidden", receipt |-> @.receipt + 1]]
         /\ \/ /\ pc' = "record" /\ held' = m /\ receipt' = queue[m].receipt + 1
               /\ input' = MsgInput[m]
            \/ Fail /\ UNCHANGED <<held, receipt, input>>
    /\ UNCHANGED <<remote, coverage, attempt, todo, count, ignored, crashes>>

Delete ==
    LET mine == queue[held].state # "deleted" /\ queue[held].receipt = receipt
        gone == [queue EXCEPT ![held].state = "deleted"]
    IN  /\ pc = "delete"
        /\ \/ mine /\ queue' = gone /\ pc' = "poll" /\ held' = None
           \/ queue' \in {queue} \cup (IF mine THEN {gone} ELSE {}) /\ Fail /\ UNCHANGED held
        /\ UNCHANGED <<remote, receipt, input, coverage, attempt, todo, count, ignored, crashes>>

Next ==
    \/ \E m \in Msg : Enqueue(m)
    \/ Crash \/ Start \/ NextFile \/ TryRecord \/ Save \/ Pop \/ Delete

Spec == Init /\ [][Next]_vars

-----------------------------------------------------------------------------
(* Properties.                                                             *)

\* A message is deleted only when the blocks its input reaches are reached in
\* the file of the container, and no later save takes them away again: not
\* that of a node that has taken the task over.
AcknowledgedIsStored ==
    \A m \in Msg : queue[m].state = "deleted" => Hit[MsgInput[m]] \subseteq Reached(remote)

\* The file that is overwritten never loses a block nor a count, whatever the
\* node that pushes it has recorded and wherever its predecessor died.
StoredStays == Leq(remote, remote')

\* When the task polls the queue, the file has what every input of the corpus
\* reaches, except those whose recording failed.
ExistingHandled ==
    pc = "poll" => \A i \in Corpus \ ignored : Hit[i] \subseteq Reached(remote)
=============================================================================
