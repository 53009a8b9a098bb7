------------------------------ MODULE Generator ------------------------------
(***************************************************************************)
(* The generator task (onefuzz-task, fuzz/generator.rs): a generator, such *)
(* as radamsa, fills a fresh directory with inputs, each is tested, and    *)
(* the ones that crash the target are moved to the crashes directory,      *)
(* which is monitored and uploaded.  Generators use the same file names    *)
(* again in every round.  Testing one input is in InputTester.             *)
(***************************************************************************)
EXTENDS Naturals, FiniteSets

CONSTANTS Corpora,        \* readonly_inputs
          Names,          \* file names the generator uses
          Contents,       \* inputs
          Crashing,       \* inputs that crash the target
          RenameOutput,   \* rename_output
          MaxRounds       \* bound: runs of the generator

NoContent == "none"

GeneratorAssumption ==
    /\ Crashing \subseteq Contents /\ RenameOutput \in BOOLEAN /\ MaxRounds \in Nat
    /\ IsFiniteSet(Corpora) /\ Corpora # {} /\ NoContent \notin Contents

VARIABLES phase,      \* "init", "generate", "test" or "failed"
          corpora,    \* corpora still to be used in this turn of the loop
          rounds,
          generated,  \* the temporary directory: name -> content
          untested,   \* entries of it read_dir has yet to return
          crashes,    \* the crashes directory: name -> content
          watched,    \* whether the monitor watches it
          events,     \* created files the monitor has not uploaded yet
          remote,     \* the crashes container
          found,      \* history: inputs that crashed the target
          early       \* history: names moved before the watch was set

vars == <<phase, corpora, rounds, generated, untested, crashes, watched, events, remote, found, early>>

(* A file is moved under its digest, which stands for its content, or      *)
(* under its own name.                                                     *)
Destination(n) == IF RenameOutput THEN generated[n] ELSE n

Targets == Names \union Contents

TypeOK ==
    /\ phase \in {"init", "generate", "test", "failed"}
    /\ corpora \subseteq Corpora /\ rounds \in 0..MaxRounds
    /\ generated \in [Names -> Contents \union {NoContent}]
    /\ untested \subseteq {n \in Names : generated[n] # NoContent}
    /\ crashes \in [Targets -> Contents \union {NoContent}]
    /\ watched \in BOOLEAN /\ events \subseteq Targets
    /\ remote \in [Targets -> Contents \union {NoContent}]
    /\ found \subseteq Crashing /\ early \subseteq Targets

Init ==
    /\ phase = "init" /\ corpora = Corpora /\ rounds = 0
    /\ generated = [n \in Names |-> NoContent] /\ untested = {}
    /\ crashes = [d \in Targets |-> NoContent] /\ watched = FALSE /\ events = {}
    /\ remote = [d \in Targets |-> NoContent] /\ found = {} /\ early = {}

Abort == /\ phase' = "failed"
         /\ UNCHANGED <<corpora, rounds, generated, untested, crashes, watched, events, remote, found, early>>

-----------------------------------------------------------------------------
(* run: the directories and the tools are pulled.                          *)
InitTask ==
    /\ phase = "init"
    /\ \/ /\ phase' = "generate"
          /\ UNCHANGED <<corpora, rounds, generated, untested, crashes, watched, events, remote, found, early>>
       \/ Abort

(* generate_inputs: the directory is reset and the generator fills it; a   *)
(* generator that fails ends the task.                                     *)
GenerateInputs(c) ==
    /\ phase = "generate" /\ c \in corpora /\ rounds < MaxRounds
    /\ \/ /\ rounds' = rounds + 1 /\ corpora' = corpora \ {c}
          /\ generated' \in [Names -> Contents \union {NoContent}]
          /\ untested' = {n \in Names : generated'[n] # NoContent}
          /\ phase' = "test"
          /\ UNCHANGED <<crashes, watched, events, remote, found, early>>
       \/ Abort

(* test_inputs: one entry is tested; a crash is renamed to its             *)
(* destination, which replaces a file of that name.                        *)
TestInput(n) ==
    /\ phase = "test" /\ n \in untested
    /\ \/ /\ untested' = untested \ {n}
          /\ IF generated[n] \in Crashing
             THEN LET d == Destination(n) IN
                  /\ crashes' = [crashes EXCEPT ![d] = generated[n]]
                  /\ generated' = [generated EXCEPT ![n] = NoContent]
                  /\ found' = found \union {generated[n]}
                  /\ events' = IF watched THEN events \union {d} ELSE events
                  /\ early' = IF watched THEN early ELSE early \union {d}
             ELSE UNCHANGED <<crashes, generated, found, events, early>>
          /\ UNCHANGED <<phase, corpora, rounds, watched, remote>>
       \/ Abort

(* The next corpus, or the loop from the start.                            *)
NextCorpus ==
    /\ phase = "test" /\ untested = {}
    /\ phase' = "generate"
    /\ corpora' = IF corpora = {} THEN Corpora ELSE corpora
    /\ generated' = [n \in Names |-> NoContent]
    /\ UNCHANGED <<rounds, untested, crashes, watched, events, remote, found, early>>

(* monitor_results: the watch, ...                                         *)
StartMonitor ==
    /\ phase \in {"generate", "test"} /\ ~watched
    /\ watched' = TRUE
    /\ UNCHANGED <<phase, corpora, rounds, generated, untested, crashes, events, remote, found, early>>

(* ... and the uploads, which keep a blob that exists.                     *)
Upload(d) ==
    /\ phase \in {"generate", "test"} /\ d \in events
    /\ \/ /\ events' = events \ {d}
          /\ remote' = [remote EXCEPT ![d] = IF @ = NoContent THEN crashes[d] ELSE @]
          /\ UNCHANGED <<phase, corpora, rounds, generated, untested, crashes, watched, found, early>>
       \/ Abort

Ended == phase = "failed" /\ UNCHANGED vars

Next ==
    \/ InitTask \/ NextCorpus \/ StartMonitor \/ Ended
    \/ \E c \in Corpora : GenerateInputs(c)
    \/ \E n \in Names : TestInput(n)
    \/ \E d \in Targets : Upload(d)

Spec == Init /\ [][Next]_vars /\ \A d \in Targets : WF_vars(Upload(d))

-----------------------------------------------------------------------------
(* A crash that was found and renamed stays in the crashes directory       *)
(* whatever later rounds produce under the same names (test_inputs);       *)
(* without rename_output the next file of its name replaces it.            *)
CrashKept == RenameOutput => \A c \in found : \E d \in Targets : crashes[d] = c

(* Every crash that was found is in the container, or the task has failed, *)
(* or one was written before the watch.                                    *)
CrashesInContainer ==
    phase = "failed" \/ early # {} \/ \A c \in found : \E d \in Targets : remote[d] = c
=============================================================================
