--------------------------- MODULE DotnetCoverage ---------------------------
(***************************************************************************)
(* The dotnet_coverage task of onefuzz-task.  dotnet-coverage writes one   *)
(* intermediate file for each input; a merge process folds the files that  *)
(* it finds into the coverage file, then removes them.  Merges are started *)
(* by two concurrent tasks: the directory monitor, for every file created, *)
(* and the queue's processor, after every input.                           *)
(***************************************************************************)
EXTENDS Naturals, FiniteSets

CONSTANTS
    Input,
    Corpus,      \* inputs of the readonly_inputs directories; the rest come by the queue
    None,
    Attempts     \* MAX_COVERAGE_RECORDING_ATTEMPTS

DotnetAssumption ==
    /\ Corpus \subseteq Input /\ None \notin Input /\ Attempts \in Nat \ {0}

Actor == {"main", "monitor"}

VARIABLES
    main,        \* where the main task is
    input, attempt, todo,
    watching,    \* "no", "yes", or "dead" once the monitor has returned
    events,      \* Create events of the monitor
    files,       \* the intermediate files, by the input they are about
    merging,     \* what each actor's merge does: "no", "read", "written"
    snapshot,    \* the coverage its merge has read
    found,       \* the files it has read
    cobertura,   \* inputs whose coverage is in the coverage file
    remote,      \* ... in the container's copy
    done,        \* inputs whose message was deleted
    folded,      \* history: inputs whose coverage was ever in the coverage file
    unwritten,   \* history: inputs whose recording left no file
    overlapped   \* history: one merge has written what the other had read before

merges == <<merging, snapshot, found>>
vars == <<main, input, attempt, todo, watching, events, files, merges, cobertura,
          remote, done, folded, unwritten, overlapped>>

TypeOK ==
    /\ main \in {"corpus", "record", "queue", "merge", "delete", "failed"}
    /\ input \in Input \cup {None} /\ attempt \in 1..Attempts /\ todo \subseteq Input
    /\ watching \in {"no", "yes", "dead"} /\ events \in SUBSET Input
    /\ files \subseteq Input
    /\ merging \in [Actor -> {"no", "read", "written", "push"}]
    /\ snapshot \in [Actor -> SUBSET Input] /\ found \in [Actor -> SUBSET Input]
    /\ cobertura \subseteq Input /\ remote \subseteq Input /\ done \subseteq Input
    /\ folded \subseteq Input /\ unwritten \subseteq Input /\ overlapped \in BOOLEAN

\* run, up to the tokio::spawn of the monitor.
Init ==
    /\ main = "corpus" /\ input = None /\ attempt = 1 /\ todo = Corpus
    /\ watching = "no" /\ events = {} /\ files = {}
    /\ merging = [a \in Actor |-> "no"]
    /\ snapshot = [a \in Actor |-> {}] /\ found = [a \in Actor |-> {}]
    /\ cobertura = {} /\ remote = {} /\ done = {} /\ folded = {} /\ unwritten = {}
    /\ overlapped = FALSE

-----------------------------------------------------------------------------
(* Recording.                                                              *)

NextFile ==
    /\ main = "corpus"
    /\ \/ \E i \in todo : input' = i /\ todo' = todo \ {i} /\ main' = "record"
       \/ todo = {} /\ main' = "queue" /\ UNCHANGED <<input, todo>>
    /\ UNCHANGED <<attempt, watching, events, files, merges, cobertura, remote, done,
                   folded, unwritten, overlapped>>

Pop ==
    /\ main = "queue"
    /\ \E i \in Input \ (Corpus \cup done) : input' = i
    /\ main' = "record"
    /\ UNCHANGED <<attempt, todo, watching, events, files, merges, cobertura, remote, done,
                   folded, unwritten, overlapped>>

\* Each recording writes a file of its own, named by a new UUID.
Write(i) == files' = files \cup {i}

\* try_record_input: the status of dotnet-coverage is not looked at, only the
\* timeout is an error, and the last one ends the task.
Record ==
    /\ main = "record"
    /\ \/ /\ Write(input)
          /\ events' = IF watching = "yes" THEN events \cup {input} ELSE events
          /\ main' = IF input \in Corpus THEN "corpus" ELSE "merge"
          /\ attempt' = 1 /\ UNCHANGED unwritten
       \/ /\ main' = IF input \in Corpus THEN "corpus" ELSE "merge"
          /\ attempt' = 1 /\ unwritten' = unwritten \cup {input}
          /\ UNCHANGED <<files, events>>
       \/ /\ IF attempt < Attempts THEN attempt' = attempt + 1 /\ UNCHANGED main
             ELSE attempt' = 1 /\ main' = "failed"
          /\ UNCHANGED <<files, events, unwritten>>
    /\ UNCHANGED <<input, todo, watching, merges, cobertura, remote, done, folded, overlapped>>

-----------------------------------------------------------------------------
(* The monitor and the merges.                                             *)

\* The spawned task creates its DirectoryMonitor.
Watch ==
    /\ watching = "no" /\ watching' \in {"yes", "dead"}
    /\ UNCHANGED <<main, input, attempt, todo, events, files, merges, cobertura, remote,
                   done, folded, unwritten, overlapped>>

Wants(a) ==
    IF a = "main" THEN main = "merge"
    ELSE watching = "yes" /\ events # {} /\ main # "failed"

\* dotnet-coverage merge reads the coverage file and the intermediate files,
\* writes the coverage file, and removes the files it has read.
MergeReads(a) ==
    /\ Wants(a) /\ merging[a] = "no"
    /\ merging' = [merging EXCEPT ![a] = "read"]
    /\ snapshot' = [snapshot EXCEPT ![a] = cobertura]
    /\ found' = [found EXCEPT ![a] = files]
    /\ events' = IF a = "monitor" THEN events \ {CHOOSE i \in events : TRUE} ELSE events
    /\ UNCHANGED <<main, input, attempt, todo, watching, files, cobertura, remote, done,
                   folded, unwritten, overlapped>>

MergeWrites(a) ==
    /\ merging[a] = "read"
    /\ merging' = [merging EXCEPT ![a] = "written"]
    /\ cobertura' = snapshot[a] \cup found[a]
    /\ folded' = folded \cup cobertura'
    /\ overlapped' = (overlapped \/ \E b \in Actor \ {a} : merging[b] = "read")
    /\ UNCHANGED <<main, input, attempt, todo, watching, events, files, snapshot, found,
                   remote, done, unwritten>>

MergeRemoves(a) ==
    /\ merging[a] = "written"
    /\ merging' = [merging EXCEPT ![a] = "push"]
    /\ files' = files \ found[a]
    /\ UNCHANGED <<main, input, attempt, todo, watching, events, snapshot, found,
                   cobertura, remote, done, folded, unwritten, overlapped>>

\* A merge that fails has an exit status nobody looks at.
MergeFails(a) ==
    /\ merging[a] = "read"
    /\ merging' = [merging EXCEPT ![a] = "push"]
    /\ UNCHANGED <<main, input, attempt, todo, watching, events, files, snapshot, found,
                   cobertura, remote, done, folded, unwritten, overlapped>>

\* What an error of save_and_sync_coverage ends: the task, or the monitor only.
MergeError(a) ==
    IF a = "main" THEN main' = "failed" /\ UNCHANGED watching
    ELSE watching' = "dead" /\ UNCHANGED main

\* The merge takes longer than the timeout and is killed, or the push fails.
MergeEndsInError(a) ==
    /\ merging[a] \in {"read", "written", "push"}
    /\ merging' = [merging EXCEPT ![a] = "no"] /\ MergeError(a)
    /\ UNCHANGED <<input, attempt, todo, events, files, snapshot, found, cobertura,
                   remote, done, folded, unwritten, overlapped>>

\* sync_push.
Push(a) ==
    /\ merging[a] = "push"
    /\ merging' = [merging EXCEPT ![a] = "no"]
    /\ remote' = cobertura
    /\ main' = IF a = "main" THEN "delete" ELSE main
    /\ UNCHANGED <<input, attempt, todo, watching, events, files, snapshot, found,
                   cobertura, done, folded, unwritten, overlapped>>

Delete ==
    /\ main = "delete"
    /\ done' = done \cup {input}
    /\ main' = "queue"
    /\ UNCHANGED <<input, attempt, todo, watching, events, files, merges, cobertura,
                   remote, folded, unwritten, overlapped>>

Next ==
    \/ NextFile \/ Pop \/ Record \/ Watch \/ Delete
    \/ \E a \in Actor : \/ MergeReads(a) \/ MergeWrites(a) \/ MergeRemoves(a)
                        \/ MergeFails(a) \/ MergeEndsInError(a) \/ Push(a)

Spec == Init /\ [][Next]_vars

-----------------------------------------------------------------------------
(* Properties.                                                             *)

\* The coverage of an input whose message was deleted is in the coverage file, or
\* its own file still waits to be merged, unless its recording wrote no file.  Two
\* merges that overlap may lose it: the one that read the coverage file first and
\* writes it last takes out what the other wrote, whose files are gone.  Once a
\* merge has written between the read and the write of the other, all that is
\* claimed is that the coverage was in the file at some time.
AcknowledgedIsStored ==
    /\ done \subseteq folded \cup files \cup unwritten
    /\ ~overlapped => done \subseteq cobertura \cup files \cup unwritten
=============================================================================
