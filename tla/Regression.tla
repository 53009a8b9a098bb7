----------------------------- MODULE Regression -----------------------------
(***************************************************************************)
(* The regression task (onefuzz-task/src/tasks/regression): on each of its *)
(* nodes it tests the inputs of earlier crash reports and the inputs it is *)
(* given against a new build of the target, and saves one regression       *)
(* report for each test.                                                   *)
(*                                                                         *)
(* A blob's name is the hash of an input or the hash of a call stack, so a *)
(* name is <<"input", i>> or <<"stack", s>>.  What a test finds may differ *)
(* from one test to the next unless the target is deterministic.           *)
(***************************************************************************)
EXTENDS BlobUrl, FiniteSets

CONSTANTS
    Nodes,
    Inputs, Stacks,
    Files,     \* the files that each report container may hold
    Lists,     \* the values of report_list: None or a set of names
    Builds,    \* what the target does with each input: a stack, or None
    Flaky,     \* a test may miss the crash
    Scheme,    \* of the container URLs: "https", or "file" in local mode
    None

Names == ({"input"} \X Inputs) \cup ({"stack"} \X Stacks)
Results == Stacks \cup {None}

\* A regression report: the name it is saved under, what the test found, and the input.
Saved == [name : Names, result : Results, input : Inputs,
          blob : {None} \cup UNION {[1..k -> Inputs \cup {"crashes"}] : k \in 1..2}]

RegressionAssumption ==
    /\ None \notin Inputs \cup Stacks /\ EmptySegment \notin Inputs
    /\ None \notin Saved
    /\ \A d \in DOMAIN Files : \A f \in Files[d] :
         f.name \in Names /\ f.input \in Inputs \cup {None}
    /\ \A b \in Builds : b \in [Inputs -> Stacks \cup {None}]
    /\ Flaky \in BOOLEAN /\ Scheme \in {"https", "file"}

VARIABLES
    content,      \* the files in each of the report containers
    inputs,       \* the inputs in readonly_inputs, or None
    report_list, build,
    stored,       \* the regression reports, by name
    sent,         \* how often the event of each report was sent
    pc,           \* of each node
    dir,          \* the report container a node is at
    todo,         \* the files of it that read_dir has not returned yet
    task          \* what is being saved

config == <<content, inputs, report_list, build>>
out == <<stored, sent>>
vars == <<config, out, pc, dir, todo, task>>

\* reports, unique_reports and no_repro, in this order.
ReportDirs == <<"reports", "unique_reports", "no_repro">>

Init ==
    /\ content \in {c \in [{"reports", "unique_reports", "no_repro"} -> SUBSET UNION
                              {Files[d] : d \in DOMAIN Files}] :
                      \A d \in DOMAIN Files : c[d] \subseteq Files[d]}
    /\ inputs \in {None, Inputs} /\ report_list \in Lists /\ build \in Builds
    /\ stored = <<>> /\ sent = [m \in Names |-> 0]
    /\ pc = [n \in Nodes |-> "Start"]
    /\ dir = [n \in Nodes |-> 1]
    /\ todo = [n \in Nodes |-> {}]
    /\ task = [n \in Nodes |-> None]

Goto(n, p) == pc' = [pc EXCEPT ![n] = p]

\* Any error ends the node's task.
Fail(n) ==
    /\ Goto(n, "Failed")
    /\ UNCHANGED <<config, out, dir, todo, task>>

----------------------------------------------------------------------------
\* run, handle_crash_reports: the containers are pulled before they are read.
Pull(n) ==
    /\ pc[n] = "Start"
    /\ IF dir[n] <= Len(ReportDirs)
       THEN /\ Goto(n, "Reports")
            /\ todo' = [todo EXCEPT ![n] = content[ReportDirs[dir[n]]]]
       ELSE IF inputs = None
       THEN Goto(n, "Done") /\ UNCHANGED todo
       ELSE Goto(n, "Inputs") /\ todo' = [todo EXCEPT ![n] = inputs]
    /\ UNCHANGED <<config, out, dir, task>>

PullFails(n) == pc[n] = "Start" /\ Fail(n)

NextDir(n) ==
    /\ pc[n] = "Reports" /\ todo[n] = {}
    /\ dir' = [dir EXCEPT ![n] = @ + 1]
    /\ Goto(n, "Start")
    /\ UNCHANGED <<config, out, todo, task>>

Listed(f) == IF report_list = None THEN TRUE ELSE f.name \in report_list

Skip(n) ==
    /\ pc[n] = "Reports"
    /\ \E f \in todo[n] :
         /\ ~Listed(f)
         /\ todo' = [todo EXCEPT ![n] = @ \ {f}]
    /\ UNCHANGED <<config, out, pc, dir, task>>

\* parse_report_file fails, or the report names no input.
Unusable(f) == f.result = "garbage" \/ f.input = None

BadReport(n) ==
    /\ pc[n] = "Reports"
    /\ \E f \in todo[n] : Listed(f) /\ Unusable(f)
    /\ Fail(n)

\* InputBlob: the name of the blob that the input's URL denotes, if it denotes one.
InputBlob(url) == IF IsBlobUrl(url) THEN name(url) ELSE None

ContainerUrl(nm) ==
    IF Scheme = "file" THEN Url(Scheme, "none", <<"data", nm>>) ELSE Url(Scheme, "account", <<nm>>)

\* get_crash_result: what the target does with the input.
CrashResult(i) == {build[i]} \cup (IF Flaky THEN {None} ELSE {})

\* A test whose result is to be saved under a name.
Tested(n, i, f, result, nm, url) ==
    /\ todo' = [todo EXCEPT ![n] = @ \ {f}]
    /\ task' = [task EXCEPT ![n] =
                  [name |-> nm, result |-> result, input |-> i, blob |-> InputBlob(url)]]
    /\ UNCHANGED <<config, stored, sent, dir>>

\* A report's input is tested again; the result is saved under the report's name.
TestReport(n) ==
    /\ pc[n] = "Reports"
    /\ \E f \in todo[n] :
         /\ Listed(f) /\ ~Unusable(f)
         /\ \E r \in CrashResult(f.input) :
              Tested(n, f.input, f, r, f.name, ContainerUrl("crashes"))
    /\ Goto(n, "SaveReport")

\* An input of readonly_inputs; the result is saved under the hash of the stack or
\* of the input.
TestInput(n) ==
    /\ pc[n] = "Inputs"
    /\ \E i \in todo[n] : \E r \in CrashResult(i) :
         Tested(n, i, i, r, IF r = None THEN <<"input", i>> ELSE <<"stack", r>>,
                Join(ContainerUrl("inputs"), i))
    /\ Goto(n, "SaveInput")

\* The file is gone, or the target or the debugger cannot be run.
TestFails(n) ==
    /\ \/ pc[n] = "Reports" /\ \E f \in todo[n] : Listed(f) /\ ~Unusable(f)
       \/ pc[n] = "Inputs" /\ todo[n] # {}
    /\ Fail(n)

Exists(nm) == nm \in DOMAIN stored

AfterSave(n) ==
    /\ Goto(n, IF pc[n] = "SaveReport" THEN "Reports" ELSE "Inputs")
    /\ task' = [task EXCEPT ![n] = None]
    /\ UNCHANGED <<config, dir, todo>>

\* RegressionReport::save: the upload is refused when the blob exists, and the event
\* is sent only for a blob that it created.
Save(n) ==
    /\ pc[n] \in {"SaveReport", "SaveInput"}
    /\ LET nm == task[n].name IN
       IF Exists(nm) THEN UNCHANGED <<stored, sent>>
       ELSE /\ stored' = [m \in DOMAIN stored \cup {nm} |->
                            IF m = nm THEN task[n] ELSE stored[m]]
            /\ sent' = [sent EXCEPT ![nm] = @ + 1]
    /\ AfterSave(n)

\* The answer is lost: the retry finds the blob, which counts as a duplicate.
SaveAnswerLost(n) ==
    /\ pc[n] \in {"SaveReport", "SaveInput"} /\ ~Exists(task[n].name)
    /\ LET nm == task[n].name IN
       stored' = [m \in DOMAIN stored \cup {nm} |-> IF m = nm THEN task[n] ELSE stored[m]]
    /\ UNCHANGED sent
    /\ AfterSave(n)

SaveFails_Unnoticed(n) ==
    /\ pc[n] \in {"SaveReport", "SaveInput"}
    /\ AfterSave(n)
    /\ UNCHANGED <<stored, sent>>

SaveFails(n) == pc[n] \in {"SaveReport", "SaveInput"} /\ Fail(n)

InputsDone(n) ==
    /\ pc[n] = "Inputs" /\ todo[n] = {}
    /\ Goto(n, "Done")
    /\ UNCHANGED <<config, out, dir, todo, task>>

----------------------------------------------------------------------------
Next ==
    \E n \in Nodes :
        \/ Pull(n) \/ PullFails(n) \/ NextDir(n)
        \/ Skip(n) \/ BadReport(n) \/ TestReport(n) \/ TestInput(n) \/ TestFails(n)
        \/ Save(n) \/ SaveAnswerLost(n) \/ SaveFails(n) \/ InputsDone(n)

Spec == Init /\ [][Next]_vars

----------------------------------------------------------------------------
(* Properties.                                                             *)

\* The type invariant.
TypeOK ==
    /\ DOMAIN stored \subseteq Names /\ \A m \in DOMAIN stored : stored[m] \in Saved
    /\ sent \in [Names -> Nat]
    /\ pc \in [Nodes -> {"Start", "Reports", "Inputs", "SaveReport", "SaveInput",
                         "Done", "Failed"}]
    /\ dir \in [Nodes -> 1..Len(ReportDirs) + 1]
    /\ \A n \in Nodes : pc[n] \in {"SaveReport", "SaveInput"} => task[n] # None

\* A task that ends without an error has an answer for every report it was asked
\* about, in every container, and for every input: nothing was skipped because of an
\* unreadable file, a failed test or a failed upload on any node (run).
ExistingHandled ==
    \A n \in Nodes : pc[n] = "Done" =>
        /\ \A d \in DOMAIN content : \A f \in content[d] :
             Listed(f) => f.name \in DOMAIN stored
        /\ inputs # None => \A i \in inputs :
             <<"input", i>> \in DOMAIN stored \/ <<"stack", build[i]>> \in DOMAIN stored

\* A regression report is saved once: another node, another report of that name or a
\* retry never changes what it says, so that what was announced stays true
\* (SyncedDir::upload).
StoredStays ==
    \A m \in DOMAIN stored : m \in DOMAIN stored' /\ stored'[m] = stored[m]
=============================================================================
