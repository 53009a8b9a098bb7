------------------------------ MODULE FuzzTask ------------------------------
(***************************************************************************)
(* The libFuzzer fuzzing task (onefuzz-task, fuzz/libfuzzer): after the    *)
(* directories are pulled and the fuzzer is verified, several workers run  *)
(* libFuzzer again and again; each run writes crashes and new inputs to    *)
(* private temporary directories, and when it has exited they are moved to *)
(* the task's directories.  Two monitors upload what appears there, and    *)
(* the corpus is pulled every now and then.  All of them are futures of    *)
(* one try_join!: the first error drops the others.                        *)
(*                                                                         *)
(* A file is its name, which is the digest of its content; it is being     *)
(* written or complete.  A file renamed into a watched directory is taken  *)
(* to be reported as created (the notify crate, external).  The statistics *)
(* channel is in RuntimeStats.                                             *)
(***************************************************************************)
EXTENDS Naturals, FiniteSets

CONSTANTS Workers,              \* target_workers
          CrashFiles,           \* faulting inputs the target has
          InputFiles,           \* inputs with new coverage
          ExpectCrash,          \* expect_crash_on_failure
          MaxAttempts,          \* MAX_ATTEMPTS of LibFuzzer::verify
          MaxRuns               \* bound: runs of libFuzzer of one worker

FuzzAssumption == ExpectCrash \in BOOLEAN /\ MaxAttempts \in Nat \ {0} /\ MaxRuns \in Nat

VARIABLES phase,      \* of LibFuzzerFuzzTask::run
          attempts,   \* of the verification
          worker,     \* what start_fuzzer_monitor does
          runs,       \* runs begun, per worker
          temp,       \* temporary files of a worker: name -> state
          dir,        \* the local crashes and inputs directories
          watch,      \* the directories with a monitor
          events,     \* created files the monitor has not taken yet
          remote,     \* the two containers: name -> what was uploaded
          found,      \* history: crashes and inputs written to the end
          early,      \* history: files moved before the watch was set
          cut         \* history: files a fuzzer was killed in the middle of

vars == <<phase, attempts, worker, runs, temp, dir, watch, events, remote, found, early, cut>>

Dirs == {"crashes", "inputs"}
Files == CrashFiles \union InputFiles
Home(f) == IF f \in CrashFiles THEN "crashes" ELSE "inputs"
State == {"none", "partial", "complete"}

TypeOK ==
    /\ phase \in {"init", "setup", "verify", "run", "failed"}
    /\ attempts \in 1..MaxAttempts
    /\ worker \in [Workers -> {"idle", "running", "crashed", "exited", "moving"}]
    /\ runs \in [Workers -> 0..MaxRuns]
    /\ temp \in [Workers -> [Files -> State]]
    /\ dir \in [Files -> State]
    /\ watch \subseteq Dirs
    /\ events \subseteq Files
    /\ remote \in [Files -> State]
    /\ found \subseteq Workers \X Files
    /\ early \subseteq Files /\ cut \subseteq Files

Empty == [f \in Files |-> "none"]

(* Containers may hold inputs of other nodes.                              *)
Init ==
    /\ phase = "init" /\ attempts = 1
    /\ worker = [w \in Workers |-> "idle"] /\ runs = [w \in Workers |-> 0]
    /\ temp = [w \in Workers |-> Empty]
    /\ dir = Empty /\ watch = {} /\ events = {}
    /\ remote \in {r \in [Files -> {"none", "complete"}] : \A f \in CrashFiles : r[f] = "none"}
    /\ found = {} /\ early = {} /\ cut = {}

(* An error of any of the joined futures: the others are dropped, which    *)
(* kills the fuzzers and deletes the temporary directories.                *)
Abort ==
    /\ phase' = "failed"
    /\ worker' = [w \in Workers |-> "idle"]
    /\ temp' = [w \in Workers |-> Empty]
    /\ UNCHANGED <<attempts, runs, dir, watch, events, remote, found, early, cut>>

-----------------------------------------------------------------------------
(* init_directories: the corpora are pulled.                               *)
InitDirectories ==
    /\ phase = "init"
    /\ \/ /\ phase' = "setup"
          /\ dir' = [f \in Files |-> IF f \in InputFiles THEN remote[f] ELSE "none"]
          /\ UNCHANGED <<attempts, worker, runs, temp, watch, events, remote, found, early, cut>>
       \/ Abort

(* extra_setup: the .NET variant pulls its tools and instruments the       *)
(* target.                                                                 *)
ExtraSetup ==
    /\ phase = "setup"
    /\ \/ /\ phase' = "verify"
          /\ UNCHANGED <<attempts, worker, runs, temp, dir, watch, events, remote, found, early, cut>>
       \/ Abort

(* LibFuzzer::verify: a failure is tried again, MAX_ATTEMPTS times in all. *)
VerifyOnce ==
    /\ phase = "verify"
    /\ \/ phase' = "run" /\ UNCHANGED attempts
       \/ attempts < MaxAttempts /\ attempts' = attempts + 1 /\ UNCHANGED phase
       \/ attempts = MaxAttempts /\ phase' = "failed" /\ UNCHANGED attempts
    /\ UNCHANGED <<worker, runs, temp, dir, watch, events, remote, found, early, cut>>

(* DirectoryMonitor::new of monitor_results.                               *)
StartMonitor(d) ==
    /\ phase = "run" /\ d \notin watch
    /\ watch' = watch \union {d}
    /\ UNCHANGED <<phase, attempts, worker, runs, temp, dir, events, remote, found, early, cut>>

-----------------------------------------------------------------------------
Goto(w, s) == worker' = [worker EXCEPT ![w] = s]

(* run_fuzzer: a new crash directory, a new run of libFuzzer.              *)
RunFuzzer(w) ==
    /\ phase = "run" /\ worker[w] = "idle" /\ runs[w] < MaxRuns
    /\ \/ /\ Goto(w, "running")
          /\ runs' = [runs EXCEPT ![w] = @ + 1]
          /\ UNCHANGED <<phase, attempts, temp, dir, watch, events, remote, found, early, cut>>
       \/ Abort

(* libFuzzer writes a file to a temporary directory of its worker; after a *)
(* crash file it stops.  Inputs it read from the corpus are not new.       *)
WriteFile(w, f) ==
    /\ phase = "run" /\ worker[w] = "running"
    /\ temp[w][f] # "complete"
    /\ f \in InputFiles => dir[f] = "none"
    /\ temp' = [temp EXCEPT ![w][f] = IF @ = "none" THEN "partial" ELSE "complete"]
    /\ found' = IF temp[w][f] = "partial" THEN found \union {<<w, f>>} ELSE found
    /\ Goto(w, IF f \in CrashFiles /\ temp[w][f] = "partial" THEN "crashed" ELSE "running")
    /\ UNCHANGED <<phase, attempts, runs, dir, watch, events, remote, early, cut>>

Listed(w) == {f \in CrashFiles : temp[w][f] # "none"}

(* libFuzzer has exited and its output has been read to the end: by        *)
(* itself, killed in the middle of a file, or after a crash.  An exit with *)
(* an error and no crash file ends the task if crashes are expected.       *)
Exited(w) ==
    /\ phase = "run" /\ worker[w] \in {"running", "crashed"}
    /\ \E success \in IF worker[w] = "crashed" THEN {FALSE} ELSE BOOLEAN :
          IF Listed(w) = {} /\ ~success /\ ExpectCrash
          THEN Abort
          ELSE /\ Goto(w, "exited")
               /\ cut' = cut \union {f \in Files : temp[w][f] = "partial"}
               /\ UNCHANGED <<phase, attempts, runs, temp, dir, watch, events, remote, found, early>>

(* A rename into a directory of the task.  It replaces a file of the name. *)
Rename(w, f) ==
    /\ dir' = [dir EXCEPT ![f] = temp[w][f]]
    /\ temp' = [temp EXCEPT ![w][f] = "none"]
    /\ events' = IF Home(f) \in watch THEN events \union {f} ELSE events
    /\ early' = IF Home(f) \in watch THEN early ELSE early \union {f}

MoveCrash_Lax(w, f) ==
    /\ phase = "run" /\ worker[w] = "exited" /\ f \in Listed(w)
    /\ \/ Rename(w, f)
       \/ temp' = [temp EXCEPT ![w][f] = "none"] /\ UNCHANGED <<dir, events, early>>
    /\ UNCHANGED <<phase, attempts, worker, runs, watch, remote, found, cut>>

(* The crashes are moved one by one; a failure is fatal unless the         *)
(* destination exists, and then the file is dropped with the directory.    *)
MoveCrash(w, f) ==
    /\ phase = "run" /\ worker[w] = "exited" /\ f \in Listed(w)
    /\ \/ /\ Rename(w, f)
          /\ UNCHANGED <<phase, attempts, worker, runs, watch, remote, found, cut>>
       \/ /\ dir[f] # "none"
          /\ temp' = [temp EXCEPT ![w][f] = "none"]
          /\ UNCHANGED <<phase, attempts, worker, runs, dir, watch, events, remote, found, early, cut>>
       \/ dir[f] = "none" /\ Abort

CrashesMoved(w) ==
    /\ phase = "run" /\ worker[w] = "exited" /\ Listed(w) = {}
    /\ Goto(w, "moving")
    /\ UNCHANGED <<phase, attempts, runs, temp, dir, watch, events, remote, found, early, cut>>

(* start_fuzzer_monitor moves the new inputs of the run, then starts the   *)
(* next one.                                                               *)
MoveInput(w, f) ==
    /\ phase = "run" /\ worker[w] = "moving" /\ f \in InputFiles /\ temp[w][f] # "none"
    /\ \/ Rename(w, f) /\ UNCHANGED <<phase, attempts, worker, runs, watch, remote, found, cut>>
       \/ Abort

InputsMoved(w) ==
    /\ phase = "run" /\ worker[w] = "moving" /\ \A f \in InputFiles : temp[w][f] = "none"
    /\ Goto(w, "idle")
    /\ UNCHANGED <<phase, attempts, runs, temp, dir, watch, events, remote, found, early, cut>>

-----------------------------------------------------------------------------
(* file_monitor_event: the next created file is uploaded unless the        *)
(* container has it; an error that outlives the retries ends the task.     *)
Upload(f) ==
    /\ phase = "run" /\ f \in events
    /\ \/ /\ events' = events \ {f}
          /\ remote' = [remote EXCEPT ![f] = IF @ = "none" THEN dir[f] ELSE @]
          /\ UNCHANGED <<phase, attempts, worker, runs, temp, dir, watch, found, early, cut>>
       \/ Abort

(* continuous_sync_inputs: what the container has and the directory has    *)
(* not appears, and is created as far as the monitor can tell.             *)
SyncInputs ==
    /\ phase = "run"
    /\ LET new == {f \in InputFiles : remote[f] # "none" /\ dir[f] = "none"} IN
          /\ new # {}
          /\ dir' = [f \in Files |-> IF f \in new THEN remote[f] ELSE dir[f]]
          /\ events' = IF "inputs" \in watch THEN events \union new ELSE events
    /\ UNCHANGED <<phase, attempts, worker, runs, temp, watch, remote, found, early, cut>>

(* Another node uploads an input.                                          *)
OtherNode(f) ==
    /\ f \in InputFiles /\ remote[f] = "none"
    /\ remote' = [remote EXCEPT ![f] = "complete"]
    /\ UNCHANGED <<phase, attempts, worker, runs, temp, dir, watch, events, found, early, cut>>

Finished == UNCHANGED vars

Monitor(w) == \/ RunFuzzer(w) \/ CrashesMoved(w) \/ InputsMoved(w)
              \/ \E f \in Files : MoveCrash(w, f) \/ MoveInput(w, f)

Next ==
    \/ InitDirectories \/ ExtraSetup \/ VerifyOnce \/ SyncInputs \/ Finished
    \/ \E d \in Dirs : StartMonitor(d)
    \/ \E w \in Workers : Monitor(w) \/ Exited(w) \/ \E f \in Files : WriteFile(w, f)
    \/ \E f \in Files : Upload(f) \/ OtherNode(f)

(* The futures are polled; a fuzzer that crashed exits.                    *)
Fairness ==
    /\ \A w \in Workers : WF_vars(Monitor(w)) /\ WF_vars(worker[w] = "crashed" /\ Exited(w))
    /\ \A f \in Files : WF_vars(Upload(f))

Spec == Init /\ [][Next]_vars /\ Fairness

-----------------------------------------------------------------------------
(* While the task is up, a crash libFuzzer has written and an input it has *)
(* found are in the worker's temporary directory or in the task's: the     *)
(* moves, the collisions of names and the next run of the worker lose      *)
(* neither (run_fuzzer, start_fuzzer_monitor).  Only a copy that a killed  *)
(* fuzzer left unfinished may stand in its place.                          *)
FoundKept ==
    phase = "run" => \A wf \in found : LET f == wf[2] IN
        \/ temp[wf[1]][f] = "complete"
        \/ dir[f] = "complete"
        \/ f \in cut /\ dir[f] = "partial"

(* A file that appeared under the monitor's eyes is in the container or    *)
(* still to be uploaded: file_monitor_event never gives one up silently.   *)
NoneForgotten ==
    phase = "run" => \A f \in Files :
        dir[f] # "none" => (f \in early \/ f \in events \/ remote[f] # "none")

(* What is uploaded is complete, although nothing tells the monitor that a *)
(* file has been written to its end: unless a fuzzer was killed in the     *)
(* middle of it, the blob is the file.                                     *)
BlobComplete == \A f \in Files : remote[f] = "partial" => f \in cut

(* What a fuzzer found arrives, and arrives whole.                         *)
ResultsArrive == FoundKept /\ NoneForgotten /\ BlobComplete

(* A crash that was found is uploaded, or the task has failed, or it was   *)
(* moved before the monitor watched.                                       *)
CrashSettled ==
    \A wf \in found : wf[2] \in CrashFiles =>
        remote[wf[2]] # "none" \/ phase = "failed" \/ wf[2] \in early
=============================================================================
