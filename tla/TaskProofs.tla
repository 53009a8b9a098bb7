----------------------------- MODULE TaskProofs -----------------------------
(***************************************************************************)
(* Proofs about the tasks of onefuzz-task, with any configurations that    *)
(* satisfy TasksAssumption: as many nodes, messages, inputs, retries and   *)
(* deaths as one likes.                                                    *)
(*                                                                         *)
(* Every kind of task has a section with its inductive invariant, that its *)
(* steps keep it, and what it promises; cfg is the configuration of such a *)
(* task.  The last section is about the composition.                       *)
(***************************************************************************)
EXTENDS Tasks, Integers, FiniteSets, Sequences, FiniteSetTheorems, SequenceTheorems,
        TLAPS

----------------------------------------------------------------------------
(* The crash report tasks.  A message is deleted by a worker that has      *)
(* processed its input, so the invariant follows an input from the batch   *)
(* or the pop through the uploads.                                         *)

\* The points between the download of an input and its last upload.
AtWork(cfg, w) == pc[w] \in {"downloaded"} \cup Reports(cfg)!Dir

\* A worker in the batch holds no message; one that goes on from a message works on the
\* input that it names, and with a stack where it saves one.
WorkerShape(cfg, w) ==
    /\ pc[w] \in {"start", "batch"} => held[w] = None
    /\ pc[w] \in {"parsed", "processed"} => held[w] # None
    /\ AtWork(cfg, w) \/ pc[w] \in {"parsed", "processed"} =>
         input[w] \in cfg.Input /\ (held[w] = None \/ input[w] = cfg.MsgInput[held[w]])
    /\ pc[w] \in Reports(cfg)!Dir => pc[w] \in cfg.Dirs
    /\ pc[w] \in {"unique", "reports"} => stack[w] # None

\* The result of an input is in a container, or dotnet has logged that it is not.
Kept(i) == reports[i] # None \/ i \in noRepro \/ i \in swallowed

KeepsResults(cfg) == {"reports", "no_repro"} \subseteq cfg.Dirs

\* What a worker has processed is kept: the input of its message, and those of its batch
\* except the one it works on.
ProcessedKept(cfg, w) ==
    KeepsResults(cfg) =>
      /\ pc[w] = "processed" => Kept(input[w])
      /\ pc[w] \notin {"start", "failed"} =>
           \A i \in batch[w] :
             Kept(i) \/ i \in todo[w] \/ (i = input[w] /\ held[w] = None /\ AtWork(cfg, w))
      /\ pc[w] \in {"ready", "polled", "parsed", "processed", "done"}
         \/ (held[w] # None /\ AtWork(cfg, w)) => todo[w] = {}

\* The unique report comes first.
UniqueFirst(cfg, w) == "unique" \in cfg.Dirs /\ pc[w] = "reports" => stack[w] \in unique

WorkerInv(cfg, w) == WorkerShape(cfg, w) /\ ProcessedKept(cfg, w) /\ UniqueFirst(cfg, w)

\* What was asked for by a deleted message is kept.
DeletedKept(cfg) ==
    KeepsResults(cfg) =>
      \A m \in cfg.Msg : queue[m].state = "deleted" =>
        cfg.MsgInput[m] \in cfg.Input /\ Kept(cfg.MsgInput[m])

\* Only what is stored has been announced.
AnnouncedIsStored(cfg) ==
    /\ Reports(cfg)!EventOnce
    /\ \A s \in cfg.Input \cup cfg.Stack : events[<<"unique", s>>] > 0 => s \in unique
    /\ \A i \in cfg.Input \cup cfg.Stack : events[<<"no_repro", i>>] > 0 => i \in noRepro
    /\ \A i \in cfg.Input : events[<<"reports", i>>] > 0 => reports[i] # None

ReportsInv(cfg) ==
    /\ Reports(cfg)!TypeOK
    /\ \A w \in cfg.Worker : WorkerInv(cfg, w)
    /\ DeletedKept(cfg) /\ AnnouncedIsStored(cfg) /\ Reports(cfg)!ReportHasUnique

\* Nothing is stored, announced or held before the tasks start.
LEMMA ReportsInit ==
    ASSUME NEW cfg, Reports(cfg)!ReportsAssumption, Reports(cfg)!Init
    PROVE  ReportsInv(cfg)
<1> USE DEF Reports!Init
<1>1. Reports(cfg)!TypeOK
  BY DEF Reports!ReportsAssumption, Reports!TypeOK, Reports!State, Reports!Dir
<1>2. \A w \in cfg.Worker : WorkerInv(cfg, w)
  BY DEF WorkerInv, WorkerShape, ProcessedKept, UniqueFirst, AtWork, Reports!Dir
<1>3. DeletedKept(cfg) /\ AnnouncedIsStored(cfg) /\ Reports(cfg)!ReportHasUnique
  BY DEF DeletedKept, AnnouncedIsStored, Reports!ReportHasUnique, Reports!EventOnce,
         Reports!Dir
<1> QED
  BY <1>1, <1>2, <1>3 DEF ReportsInv

\* A conditional upload stores what it names and keeps what was there.
LEMMA PutFacts ==
    ASSUME NEW cfg, Reports(cfg)!ReportsAssumption, ReportsInv(cfg), NEW w \in cfg.Worker,
           pc[w] \in Reports(cfg)!Dir, Reports(cfg)!Put(w, pc[w])
    PROVE  /\ unique' \subseteq cfg.Stack /\ noRepro' \subseteq cfg.Input
           /\ reports' \in [cfg.Input -> cfg.Stack \cup {None}]
           /\ unique \subseteq unique' /\ noRepro \subseteq noRepro'
           /\ \A i \in cfg.Input : reports[i] # None => reports'[i] = reports[i]
           /\ \A i \in cfg.Input : reports'[i] # reports[i] =>
                pc[w] = "reports" /\ i = input[w] /\ reports'[i] = stack[w]
           /\ pc[w] = "unique" => stack[w] \in unique'
           /\ pc[w] = "reports" => reports'[input[w]] # None
           /\ pc[w] = "no_repro" => input[w] \in noRepro'
<1>1. /\ input[w] \in cfg.Input
      /\ pc[w] \in {"unique", "reports"} => stack[w] \in cfg.Stack
      /\ unique \subseteq cfg.Stack /\ noRepro \subseteq cfg.Input
      /\ reports \in [cfg.Input -> cfg.Stack \cup {None}]
  BY DEF ReportsInv, WorkerInv, WorkerShape, AtWork, Reports!TypeOK, Reports!Dir
<1>2. None \notin cfg.Stack
  BY DEF Reports!ReportsAssumption
<1>3. CASE pc[w] = "unique"
  BY <1>1, <1>2, <1>3 DEF Reports!Put, Reports!Exists
<1>4. CASE pc[w] = "reports"
  BY <1>1, <1>2, <1>4 DEF Reports!Put, Reports!Exists
<1>5. CASE pc[w] = "no_repro"
  BY <1>1, <1>2, <1>5 DEF Reports!Put, Reports!Exists
<1> QED
  BY <1>3, <1>4, <1>5 DEF Reports!Dir

\* A retry stays where it is or ends the request.
LEMMA RetryFacts ==
    ASSUME NEW cfg, Reports(cfg)!ReportsAssumption, Reports(cfg)!TypeOK, NEW w \in cfg.Worker,
           NEW s \in Reports(cfg)!State,
           Reports(cfg)!RetryOrFail(w, s) \/ Reports(cfg)!Answered(w, s)
    PROVE  /\ tries' \in [cfg.Worker -> 0..cfg.MaxRetry]
           /\ pc' \in [cfg.Worker -> Reports(cfg)!State]
           /\ \A v \in cfg.Worker : v # w => pc'[v] = pc[v]
           /\ pc'[w] = s \/ pc'[w] = pc[w]
           /\ Reports(cfg)!Answered(w, s) => pc'[w] = s
           /\ Reports(cfg)!RetryOrFail(w, s) /\ tries[w] < cfg.MaxRetry => pc' = pc
<1>1. /\ cfg.MaxRetry \in Nat /\ tries \in [cfg.Worker -> 0..cfg.MaxRetry]
      /\ pc \in [cfg.Worker -> Reports(cfg)!State]
  BY DEF Reports!ReportsAssumption, Reports!TypeOK
<1>2. CASE Reports(cfg)!Answered(w, s)
  BY <1>1, <1>2 DEF Reports!Answered, Reports!RetryOrFail, Reports!Goto
<1>3. CASE Reports(cfg)!RetryOrFail(w, s)
  BY <1>1, <1>3 DEF Reports!Answered, Reports!RetryOrFail, Reports!Goto
<1> QED
  BY <1>2, <1>3

\* Found, Announce and Expire touch neither a worker nor what is stored.
LEMMA QueueSteps ==
    ASSUME NEW cfg, Reports(cfg)!ReportsAssumption, ReportsInv(cfg),
           \/ \E i \in cfg.Input : Reports(cfg)!Found(i)
           \/ \E m \in cfg.Msg : Reports(cfg)!Announce(m) \/ Reports(cfg)!Expire(m)
    PROVE  ReportsInv(cfg)'
<1>1. UNCHANGED <<unique, reports, noRepro, events, swallowed, held, receipt, input, stack,
                  batch, todo, pc, tries>>
  BY DEF Reports!Found, Reports!Announce, Reports!Expire, Reports!saved, Reports!local
<1>2. /\ crashes' \subseteq cfg.Input
      /\ queue' \in [cfg.Msg -> [state : {"unsent", "visible", "hidden", "deleted"},
                             receipt : 0..cfg.MaxPops]]
      /\ \A m \in cfg.Msg : queue'[m].state = "deleted" => queue[m].state = "deleted"
  <2>1. /\ crashes \subseteq cfg.Input
        /\ queue \in [cfg.Msg -> [state : {"unsent", "visible", "hidden", "deleted"},
                                  receipt : 0..cfg.MaxPops]]
    BY DEF ReportsInv, Reports!TypeOK
  <2>2. crashes' \subseteq cfg.Input
    BY <2>1 DEF Reports!Found, Reports!Announce, Reports!Expire
  <2>3. \/ UNCHANGED queue
        \/ \E m \in cfg.Msg : queue' = [queue EXCEPT ![m].state = "visible"]
    BY DEF Reports!Found, Reports!Announce, Reports!Expire
  <2> QED
    BY <2>1, <2>2, <2>3
<1>3. Reports(cfg)!TypeOK'
  BY <1>1, <1>2 DEF ReportsInv, Reports!TypeOK
<1>4. \A w \in cfg.Worker : WorkerInv(cfg, w)'
  BY <1>1 DEF ReportsInv, WorkerInv, WorkerShape, ProcessedKept, UniqueFirst, Kept, AtWork
<1>5. DeletedKept(cfg)' /\ AnnouncedIsStored(cfg)' /\ Reports(cfg)!ReportHasUnique'
  BY <1>1, <1>2 DEF ReportsInv, DeletedKept, Kept, AnnouncedIsStored,
                    Reports!ReportHasUnique, Reports!EventOnce
<1> QED
  BY <1>3, <1>4, <1>5 DEF ReportsInv

\* What the step of one worker leaves alone.
OnlyMoves(cfg, w) ==
    \A v \in cfg.Worker : v # w =>
      /\ pc'[v] = pc[v] /\ held'[v] = held[v] /\ input'[v] = input[v]
      /\ stack'[v] = stack[v] /\ batch'[v] = batch[v] /\ todo'[v] = todo[v]

\* Stored results stay.
Grows(cfg) ==
    /\ unique \subseteq unique' /\ noRepro \subseteq noRepro' /\ swallowed \subseteq swallowed'
    /\ \A i \in cfg.Input : reports[i] # None => reports'[i] = reports[i]

\* As long as stored results stay, a step of w does not disturb the other workers.
LEMMA OthersKept ==
    ASSUME NEW cfg, Reports(cfg)!ReportsAssumption, ReportsInv(cfg), NEW w \in cfg.Worker,
           OnlyMoves(cfg, w), Grows(cfg)
    PROVE  /\ \A v \in cfg.Worker \ {w} : WorkerInv(cfg, v)'
           /\ \A i \in cfg.Input : Kept(i) => Kept(i)'
<1>1. \A i \in cfg.Input : Kept(i) => Kept(i)'
  BY DEF Kept, Grows
<1>2. ASSUME NEW v \in cfg.Worker \ {w} PROVE WorkerInv(cfg, v)'
  <2>1. /\ pc'[v] = pc[v] /\ held'[v] = held[v] /\ input'[v] = input[v]
        /\ stack'[v] = stack[v] /\ batch'[v] = batch[v] /\ todo'[v] = todo[v]
    BY DEF OnlyMoves
  <2>2. WorkerInv(cfg, v) /\ batch[v] \subseteq cfg.Input
    BY DEF ReportsInv, Reports!TypeOK
  <2>3. WorkerShape(cfg, v)' /\ (AtWork(cfg, v)' <=> AtWork(cfg, v))
    BY <2>1, <2>2 DEF WorkerInv, WorkerShape, AtWork
  <2>4. UniqueFirst(cfg, v)'
    BY <2>1, <2>2 DEF WorkerInv, UniqueFirst, Grows
  <2>5. pc[v] = "processed" => input[v] \in cfg.Input
    BY <2>2 DEF WorkerInv, WorkerShape
  <2>6. ASSUME KeepsResults(cfg), pc[v] = "processed" PROVE Kept(input[v])'
    <3>1. Kept(input[v]) /\ input[v] \in cfg.Input
      BY <2>2, <2>5, <2>6 DEF WorkerInv, ProcessedKept
    <3> QED
      BY <2>1, <3>1 DEF Kept, Grows
  <2>7. ProcessedKept(cfg, v)'
    BY <1>1, <2>1, <2>2, <2>3, <2>6 DEF WorkerInv, ProcessedKept, KeepsResults
  <2> QED
    BY <2>3, <2>4, <2>7 DEF WorkerInv
<1> QED
  BY <1>1, <1>2

\* A step of w that stores nothing keeps the invariant when w's own part of it holds
\* after the step, and when it deletes its own message at most.
LEMMA WorkerStep ==
    ASSUME NEW cfg, Reports(cfg)!ReportsAssumption, ReportsInv(cfg), Reports(cfg)!TypeOK',
           NEW w \in cfg.Worker,
           UNCHANGED <<unique, reports, noRepro, events, swallowed>>,
           \A m \in cfg.Msg : queue'[m].state = "deleted" =>
             queue[m].state = "deleted" \/ (pc[w] = "processed" /\ m = held[w]),
           OnlyMoves(cfg, w), WorkerInv(cfg, w)'
    PROVE  ReportsInv(cfg)'
<1>1. Grows(cfg) /\ \A i : Kept(i)' <=> Kept(i)
  BY DEF Kept, Grows
<1>2. \A v \in cfg.Worker : WorkerInv(cfg, v)'
  BY <1>1, OthersKept
<1>3. AnnouncedIsStored(cfg)' /\ Reports(cfg)!ReportHasUnique'
  BY DEF ReportsInv, AnnouncedIsStored, Reports!ReportHasUnique, Reports!EventOnce
<1>4. ASSUME KeepsResults(cfg), NEW m \in cfg.Msg, queue'[m].state = "deleted"
      PROVE  cfg.MsgInput[m] \in cfg.Input /\ Kept(cfg.MsgInput[m])'
  <2>1. CASE queue[m].state = "deleted"
    BY <1>1, <1>4, <2>1 DEF ReportsInv, DeletedKept
  <2>2. CASE pc[w] = "processed" /\ m = held[w]
    <3>1. input[w] \in cfg.Input /\ input[w] = cfg.MsgInput[m] /\ Kept(input[w])
      BY <1>4, <2>2 DEF ReportsInv, WorkerInv, WorkerShape, ProcessedKept
    <3> QED
      BY <1>1, <3>1
  <2> QED
    BY <1>4, <2>1, <2>2
<1>5. DeletedKept(cfg)'
  BY <1>4 DEF DeletedKept, KeepsResults
<1> QED
  BY <1>2, <1>3, <1>5 DEF ReportsInv

\* The types that a step of one worker starts from.
LEMMA LocalTypes ==
    ASSUME NEW cfg, Reports(cfg)!TypeOK, NEW w \in cfg.Worker
    PROVE  /\ pc[w] \in Reports(cfg)!State /\ held[w] \in cfg.Msg \cup {None}
           /\ input[w] \in cfg.Input \cup {None} /\ stack[w] \in cfg.Stack \cup {None}
           /\ batch[w] \subseteq cfg.Input /\ todo[w] \subseteq cfg.Input
  BY DEF Reports!TypeOK

\* The start, up to the listing of the crashes.
LEMMA StartStep ==
    ASSUME NEW cfg, Reports(cfg)!ReportsAssumption, ReportsInv(cfg), NEW w \in cfg.Worker,
           Reports(cfg)!StartGeneric(w) \/ Reports(cfg)!StartLibFuzzer(w) \/ Reports(cfg)!StartDotnet(w)
    PROVE  ReportsInv(cfg)'
<1>1. pc[w] = "start" /\ held[w] = None
  BY DEF Reports!StartGeneric, Reports!StartLibFuzzer, Reports!StartDotnet, ReportsInv,
         WorkerInv, WorkerShape
<1>2. Reports(cfg)!PullCrashes(w) \/ Reports(cfg)!StartFailed(w)
  BY DEF Reports!StartGeneric, Reports!StartLibFuzzer, Reports!StartDotnet
<1>3. CASE Reports(cfg)!PullCrashes(w)
  <2>1. /\ batch' = [batch EXCEPT ![w] = crashes] /\ todo' = [todo EXCEPT ![w] = crashes]
        /\ pc' = [pc EXCEPT ![w] = "batch"]
        /\ UNCHANGED <<crashes, queue, unique, reports, noRepro, events, swallowed, held,
                       receipt, input, stack, tries>>
    BY <1>3 DEF Reports!PullCrashes, Reports!Goto, Reports!server, Reports!saved
  <2>2. Reports(cfg)!TypeOK' /\ OnlyMoves(cfg, w)
    BY <2>1 DEF ReportsInv, Reports!TypeOK, Reports!State, OnlyMoves
  <2>3. pc'[w] = "batch" /\ batch'[w] = todo'[w] /\ held'[w] = None
    BY <1>1, <2>1 DEF ReportsInv, Reports!TypeOK
  <2>4. WorkerInv(cfg, w)'
    BY <2>3 DEF WorkerInv, WorkerShape, ProcessedKept, UniqueFirst, AtWork, Reports!Dir
  <2> QED
    BY <2>1, <2>2, <2>4, WorkerStep
<1>4. CASE Reports(cfg)!StartFailed(w)
  <2>1. /\ pc' = [pc EXCEPT ![w] = "failed"]
        /\ UNCHANGED <<crashes, queue, unique, reports, noRepro, events, swallowed, held,
                       receipt, input, stack, batch, todo, tries>>
    BY <1>4 DEF Reports!StartFailed, Reports!Goto, Reports!server, Reports!saved,
                Reports!local
  <2>2. Reports(cfg)!TypeOK' /\ OnlyMoves(cfg, w) /\ pc'[w] = "failed"
    BY <2>1 DEF ReportsInv, Reports!TypeOK, Reports!State, OnlyMoves
  <2>3. WorkerInv(cfg, w)'
    BY <2>2 DEF WorkerInv, WorkerShape, ProcessedKept, UniqueFirst, AtWork, Reports!Dir
  <2> QED
    BY <2>1, <2>2, <2>3, WorkerStep
<1> QED
  BY <1>2, <1>3, <1>4

\* batch_process takes the next input or ends.
LEMMA BatchStep ==
    ASSUME NEW cfg, Reports(cfg)!ReportsAssumption, ReportsInv(cfg), NEW w \in cfg.Worker,
           Reports(cfg)!BatchNext(w)
    PROVE  ReportsInv(cfg)'
<1>1. /\ pc[w] = "batch" /\ held[w] = None /\ todo[w] \subseteq cfg.Input
      /\ KeepsResults(cfg) => \A i \in batch[w] : Kept(i) \/ i \in todo[w]
  BY DEF Reports!BatchNext, ReportsInv, Reports!TypeOK, WorkerInv, WorkerShape,
         ProcessedKept, AtWork, Reports!Dir
<1>2. UNCHANGED <<crashes, queue, unique, reports, noRepro, events, swallowed, held,
                  receipt, stack, batch, tries>>
  BY DEF Reports!BatchNext, Reports!server, Reports!saved
<1>k. \A i : Kept(i)' <=> Kept(i)
  BY <1>2 DEF Kept
<1>3. ASSUME NEW i \in todo[w], todo' = [todo EXCEPT ![w] = @ \ {i}],
             input' = [input EXCEPT ![w] = i], Reports(cfg)!Goto(w, "downloaded")
      PROVE  ReportsInv(cfg)'
  <2>1. Reports(cfg)!TypeOK' /\ OnlyMoves(cfg, w)
    BY <1>1, <1>2, <1>3
       DEF ReportsInv, Reports!TypeOK, Reports!State, Reports!Goto, OnlyMoves
  <2>2. /\ pc'[w] = "downloaded" /\ todo'[w] = todo[w] \ {i} /\ input'[w] = i
        /\ held'[w] = None /\ batch'[w] = batch[w]
    BY <1>1, <1>2, <1>3 DEF ReportsInv, Reports!TypeOK, Reports!Goto
  <2>3. WorkerShape(cfg, w)' /\ UniqueFirst(cfg, w)' /\ AtWork(cfg, w)'
    BY <1>1, <2>2 DEF WorkerShape, UniqueFirst, AtWork, Reports!Dir
  <2>4. ProcessedKept(cfg, w)'
    BY <1>1, <1>k, <2>2, <2>3 DEF ProcessedKept, KeepsResults
  <2> QED
    BY <1>2, <2>1, <2>3, <2>4, WorkerStep DEF WorkerInv
<1>4. ASSUME todo[w] = {}, Reports(cfg)!Goto(w, IF cfg.CheckQueue THEN "ready" ELSE "done"),
             UNCHANGED <<todo, input>>
      PROVE  ReportsInv(cfg)'
  <2>1. /\ pc'[w] \in {"ready", "done"} /\ todo'[w] = {} /\ held'[w] = None
        /\ batch'[w] = batch[w]
    BY <1>1, <1>2, <1>4 DEF ReportsInv, Reports!TypeOK, Reports!Goto
  <2>2. Reports(cfg)!TypeOK' /\ OnlyMoves(cfg, w)
    BY <1>1, <1>2, <1>4
       DEF ReportsInv, Reports!TypeOK, Reports!State, Reports!Goto, OnlyMoves
  <2>3. WorkerShape(cfg, w)' /\ UniqueFirst(cfg, w)' /\ ~AtWork(cfg, w)'
    BY <2>1 DEF WorkerShape, UniqueFirst, AtWork, Reports!Dir
  <2>4. ProcessedKept(cfg, w)'
    BY <1>1, <1>4, <1>k, <2>1, <2>3 DEF ProcessedKept, KeepsResults
  <2> QED
    BY <1>2, <2>2, <2>3, <2>4, WorkerStep DEF WorkerInv
<1> QED
  BY <1>3, <1>4 DEF Reports!BatchNext

\* Pop and its failures.
LEMMA PopStep ==
    ASSUME NEW cfg, Reports(cfg)!ReportsAssumption, ReportsInv(cfg), NEW w \in cfg.Worker,
           Reports(cfg)!PopAnswered(w) \/ Reports(cfg)!PopFailed(w)
    PROVE  ReportsInv(cfg)'
<1>1. /\ pc[w] = "ready" /\ todo[w] \subseteq cfg.Input /\ (KeepsResults(cfg) => todo[w] = {})
      /\ KeepsResults(cfg) => \A i \in batch[w] : Kept(i) \/ i \in todo[w]
  BY DEF Reports!PopAnswered, Reports!PopFailed, ReportsInv, Reports!TypeOK, WorkerInv,
         ProcessedKept, AtWork, Reports!Dir
<1>2. UNCHANGED <<crashes, unique, reports, noRepro, events, swallowed, input, stack,
                  batch, todo>>
  BY DEF Reports!PopAnswered, Reports!PopFailed, Reports!saved, Reports!local
<1>k. \A i : Kept(i)' <=> Kept(i)
  BY <1>2 DEF Kept
<1>h. ASSUME NEW m \in cfg.Msg, Reports(cfg)!Poppable(m)
      PROVE  /\ Reports(cfg)!Hide(m) \in [cfg.Msg -> [state : {"unsent", "visible", "hidden", "deleted"},
                                             receipt : 0..cfg.MaxPops]]
             /\ \A n \in cfg.Msg : Reports(cfg)!Hide(m)[n].state = "deleted" =>
                  queue[n].state = "deleted"
             /\ queue[m].receipt + 1 \in 0..cfg.MaxPops
  BY <1>h DEF Reports!Hide, Reports!Poppable, ReportsInv, Reports!TypeOK,
              Reports!ReportsAssumption
<1>3. /\ queue' \in [cfg.Msg -> [state : {"unsent", "visible", "hidden", "deleted"},
                             receipt : 0..cfg.MaxPops]]
      /\ \A n \in cfg.Msg : queue'[n].state = "deleted" => queue[n].state = "deleted"
      /\ held' \in [cfg.Worker -> cfg.Msg \cup {None}]
      /\ receipt' \in [cfg.Worker -> 0..cfg.MaxPops]
      /\ \A v \in cfg.Worker : v # w => held'[v] = held[v]
  <2>1. CASE Reports(cfg)!PopAnswered(w)
    <3>1. ASSUME NEW m \in cfg.Msg, Reports(cfg)!Poppable(m), queue' = Reports(cfg)!Hide(m),
                 held' = [held EXCEPT ![w] = m],
                 receipt' = [receipt EXCEPT ![w] = queue[m].receipt + 1]
          PROVE  <1>3!:
      BY <1>h, <3>1 DEF ReportsInv, Reports!TypeOK
    <3>2. ASSUME held' = [held EXCEPT ![w] = None], UNCHANGED <<queue, receipt>>
          PROVE  <1>3!:
      BY <3>2 DEF ReportsInv, Reports!TypeOK
    <3> QED
      BY <2>1, <3>1, <3>2 DEF Reports!PopAnswered
  <2>2. CASE Reports(cfg)!PopFailed(w)
    BY <1>h, <2>2 DEF Reports!PopFailed, Reports!local, ReportsInv, Reports!TypeOK
  <2> QED
    BY <2>1, <2>2
<1>4. /\ tries' \in [cfg.Worker -> 0..cfg.MaxRetry]
      /\ pc' \in [cfg.Worker -> Reports(cfg)!State]
      /\ \A v \in cfg.Worker : v # w => pc'[v] = pc[v]
      /\ pc'[w] \in {"ready", "polled", "failed"}
  <2>1. /\ "polled" \in Reports(cfg)!State /\ "failed" \in Reports(cfg)!State
        /\ Reports(cfg)!TypeOK
    BY DEF Reports!State, ReportsInv
  <2>2. CASE Reports(cfg)!PopAnswered(w)
    BY <1>1, <2>1, <2>2, RetryFacts DEF Reports!PopAnswered
  <2>3. CASE Reports(cfg)!PopFailed(w)
    BY <1>1, <2>1, <2>3, RetryFacts DEF Reports!PopFailed
  <2> QED
    BY <2>2, <2>3
<1>5. Reports(cfg)!TypeOK' /\ OnlyMoves(cfg, w)
  BY <1>2, <1>3, <1>4 DEF ReportsInv, Reports!TypeOK, OnlyMoves
<1>6. WorkerInv(cfg, w)'
  BY <1>1, <1>2, <1>k, <1>4
     DEF WorkerInv, WorkerShape, ProcessedKept, UniqueFirst, AtWork, Reports!Dir,
         KeepsResults
<1> QED
  BY <1>2, <1>3, <1>5, <1>6, WorkerStep

\* Parsing sets the input of a message; an input of the batch is skipped.
LEMMA ParseStep ==
    ASSUME NEW cfg, Reports(cfg)!ReportsAssumption, ReportsInv(cfg), NEW w \in cfg.Worker,
           Reports(cfg)!Parse(w) \/ Reports(cfg)!Download(w)
    PROVE  ReportsInv(cfg)'
<1>1. /\ pc[w] \in {"polled", "parsed"} /\ held[w] \in cfg.Msg \cup {None}
      /\ KeepsResults(cfg) => todo[w] = {} /\ \A i \in batch[w] : Kept(i)
      /\ pc[w] = "parsed" => /\ held[w] # None /\ input[w] \in cfg.Input
                             /\ input[w] = cfg.MsgInput[held[w]]
  BY DEF Reports!Parse, Reports!Download, ReportsInv, Reports!TypeOK, WorkerInv, WorkerShape,
         ProcessedKept, AtWork, Reports!Dir
<1>2. UNCHANGED <<crashes, queue, unique, reports, noRepro, events, swallowed, held, receipt,
                  stack, batch, todo, tries>>
  BY DEF Reports!Parse, Reports!Download, Reports!server, Reports!saved, Reports!local
<1>k. \A i : Kept(i)' <=> Kept(i)
  BY <1>2 DEF Kept
<1>3. CASE Reports(cfg)!Parse(w)
  <2>1. /\ cfg.MsgInput \in [cfg.Msg -> cfg.Input \cup {BadUrl}] /\ pc[w] = "polled"
    BY <1>3 DEF Reports!ReportsAssumption, Reports!Parse
  <2>2. /\ pc' \in [cfg.Worker -> Reports(cfg)!State]
        /\ input' \in [cfg.Worker -> cfg.Input \cup {None}]
        /\ \A v \in cfg.Worker : v # w => pc'[v] = pc[v] /\ input'[v] = input[v]
        /\ \/ pc'[w] \in {"ready", "failed"}
           \/ pc'[w] = "parsed" /\ held[w] # None /\ input'[w] = cfg.MsgInput[held[w]]
              /\ input'[w] \in cfg.Input
    BY <1>1, <1>3, <2>1
       DEF Reports!Parse, Reports!Goto, ReportsInv, Reports!TypeOK, Reports!State
  <2>3. Reports(cfg)!TypeOK' /\ OnlyMoves(cfg, w)
    BY <1>2, <2>2 DEF ReportsInv, Reports!TypeOK, OnlyMoves
  <2>4. WorkerShape(cfg, w)' /\ UniqueFirst(cfg, w)' /\ ~AtWork(cfg, w)'
    BY <1>2, <2>2 DEF WorkerShape, UniqueFirst, AtWork, Reports!Dir
  <2>5. ProcessedKept(cfg, w)'
    BY <1>1, <1>2, <1>k, <2>2, <2>4 DEF ProcessedKept, KeepsResults
  <2> QED
    BY <1>2, <2>3, <2>4, <2>5, WorkerStep DEF WorkerInv
<1>4. CASE Reports(cfg)!Download(w)
  <2>1. /\ pc' \in [cfg.Worker -> Reports(cfg)!State] /\ UNCHANGED input /\ pc[w] = "parsed"
        /\ \A v \in cfg.Worker : v # w => pc'[v] = pc[v]
        /\ pc'[w] = "failed" \/ pc'[w] = "downloaded"
           \/ (pc'[w] = "processed" /\ input[w] \in batch[w])
    BY <1>4 DEF Reports!Download, Reports!SeenInBatch, Reports!Goto, Reports!local,
                ReportsInv, Reports!TypeOK, Reports!State
  <2>2. Reports(cfg)!TypeOK' /\ OnlyMoves(cfg, w)
    BY <1>2, <2>1 DEF ReportsInv, Reports!TypeOK, OnlyMoves
  <2>3. WorkerShape(cfg, w)' /\ UniqueFirst(cfg, w)'
    BY <1>1, <1>2, <2>1 DEF WorkerShape, UniqueFirst, AtWork, Reports!Dir
  <2>4. KeepsResults(cfg) /\ pc'[w] = "processed" => Kept(input[w])
    BY <1>1, <2>1
  <2>5. Kept(input[w])' <=> Kept(input[w])
    BY <1>2, <2>1 DEF Kept
  <2>6. ProcessedKept(cfg, w)'
    BY <1>1, <1>2, <1>k, <2>1, <2>4, <2>5 DEF ProcessedKept, KeepsResults
  <2> QED
    BY <1>2, <2>2, <2>3, <2>6, WorkerStep DEF WorkerInv
<1> QED
  BY <1>3, <1>4

\* Where the save of a result goes on.
LEMMA DirFacts ==
    ASSUME NEW cfg, Reports(cfg)!ReportsAssumption, NEW w \in cfg.Worker
    PROVE  /\ Reports(cfg)!AfterProcess(w) = IF held[w] = None THEN "batch" ELSE "processed"
           /\ \A d \in Reports(cfg)!Dir :
                \/ /\ Reports(cfg)!NextDir(w, d) = "reports" /\ "reports" \in cfg.Dirs
                   /\ d = "unique"
                \/ /\ Reports(cfg)!NextDir(w, d) = Reports(cfg)!AfterProcess(w)
                   /\ d = "unique" => "reports" \notin cfg.Dirs
           /\ \A s \in cfg.Stack \cup {None} :
                \/ /\ Reports(cfg)!FirstDir(w, s) = "no_repro" /\ "no_repro" \in cfg.Dirs
                   /\ s = None
                \/ /\ Reports(cfg)!FirstDir(w, s) = "unique" /\ "unique" \in cfg.Dirs
                   /\ s # None
                \/ /\ Reports(cfg)!FirstDir(w, s) = "reports" /\ "reports" \in cfg.Dirs
                   /\ "unique" \notin cfg.Dirs /\ s # None
                \/ /\ Reports(cfg)!FirstDir(w, s) = Reports(cfg)!AfterProcess(w)
                   /\ ~KeepsResults(cfg)
<1>1. /\ Reports(cfg)!AfterProcess(w) = IF held[w] = None THEN "batch" ELSE "processed"
      /\ \A d \in Reports(cfg)!Dir :
           \/ /\ Reports(cfg)!NextDir(w, d) = "reports" /\ "reports" \in cfg.Dirs
              /\ d = "unique"
           \/ /\ Reports(cfg)!NextDir(w, d) = Reports(cfg)!AfterProcess(w)
              /\ d = "unique" => "reports" \notin cfg.Dirs
  BY DEF Reports!AfterProcess, Reports!NextDir
<1>2. ASSUME NEW s \in cfg.Stack \cup {None}
      PROVE  \/ /\ Reports(cfg)!FirstDir(w, s) = "no_repro" /\ "no_repro" \in cfg.Dirs
                /\ s = None
             \/ /\ Reports(cfg)!FirstDir(w, s) = "unique" /\ "unique" \in cfg.Dirs
                /\ s # None
             \/ /\ Reports(cfg)!FirstDir(w, s) = "reports" /\ "reports" \in cfg.Dirs
                /\ "unique" \notin cfg.Dirs /\ s # None
             \/ /\ Reports(cfg)!FirstDir(w, s) = Reports(cfg)!AfterProcess(w)
                /\ ~KeepsResults(cfg)
  <2>1. "unique" \in Reports(cfg)!Dir
    BY DEF Reports!Dir
  <2>2. CASE s = None /\ "no_repro" \in cfg.Dirs
    BY <2>2 DEF Reports!FirstDir
  <2>3. CASE s = None /\ "no_repro" \notin cfg.Dirs
    BY <2>3 DEF Reports!FirstDir, KeepsResults
  <2>4. CASE s # None /\ "unique" \in cfg.Dirs
    BY <2>4 DEF Reports!FirstDir
  <2>5. CASE s # None /\ "unique" \notin cfg.Dirs
    BY <1>1, <2>1, <2>5 DEF Reports!FirstDir, KeepsResults
  <2> QED
    BY <2>2, <2>3, <2>4, <2>5
<1> QED
  BY <1>1, <1>2

\* Reproducing the crash decides where it is saved.
LEMMA TestStep ==
    ASSUME NEW cfg, Reports(cfg)!ReportsAssumption, ReportsInv(cfg), NEW w \in cfg.Worker,
           Reports(cfg)!TestInput(w)
    PROVE  ReportsInv(cfg)'
<1>1. /\ pc[w] = "downloaded" /\ held[w] \in cfg.Msg \cup {None} /\ input[w] \in cfg.Input
      /\ held[w] = None \/ input[w] = cfg.MsgInput[held[w]]
      /\ KeepsResults(cfg) => \A i \in batch[w] :
           Kept(i) \/ i \in todo[w] \/ (i = input[w] /\ held[w] = None)
      /\ KeepsResults(cfg) /\ held[w] # None => todo[w] = {}
  BY DEF Reports!TestInput, ReportsInv, Reports!TypeOK, WorkerInv, WorkerShape,
         ProcessedKept, AtWork, Reports!Dir
<1>2. UNCHANGED <<crashes, queue, unique, reports, noRepro, events, swallowed, held, receipt,
                  input, batch, todo, tries>>
  BY DEF Reports!TestInput, Reports!server, Reports!saved
<1>k. \A i : Kept(i)' <=> Kept(i)
  BY <1>2 DEF Kept
<1>3. /\ stack' \in [cfg.Worker -> cfg.Stack \cup {None}]
      /\ pc' \in [cfg.Worker -> Reports(cfg)!State]
      /\ \A v \in cfg.Worker : v # w => pc'[v] = pc[v] /\ stack'[v] = stack[v]
      /\ \/ pc'[w] = "failed"
         \/ pc'[w] = "no_repro" /\ "no_repro" \in cfg.Dirs
         \/ pc'[w] = "unique" /\ "unique" \in cfg.Dirs /\ stack'[w] # None
         \/ pc'[w] = "reports" /\ "reports" \in cfg.Dirs /\ "unique" \notin cfg.Dirs
            /\ stack'[w] # None
         \/ pc'[w] \in {"batch", "processed"} /\ ~KeepsResults(cfg)
            /\ pc'[w] = IF held[w] = None THEN "batch" ELSE "processed"
  <2>1. ASSUME NEW s \in cfg.Stack \cup {None}, stack' = [stack EXCEPT ![w] = s],
               Reports(cfg)!Goto(w, Reports(cfg)!FirstDir(w, s))
        PROVE  <1>3!:
    <3>1. /\ stack'[w] = s /\ stack' \in [cfg.Worker -> cfg.Stack \cup {None}]
          /\ pc' = [pc EXCEPT ![w] = Reports(cfg)!FirstDir(w, s)]
          /\ pc \in [cfg.Worker -> Reports(cfg)!State]
          /\ \A v \in cfg.Worker : v # w => stack'[v] = stack[v]
      BY <2>1 DEF Reports!Goto, ReportsInv, Reports!TypeOK
    <3>2. \/ /\ Reports(cfg)!FirstDir(w, s) = "no_repro" /\ "no_repro" \in cfg.Dirs
             /\ s = None
          \/ /\ Reports(cfg)!FirstDir(w, s) = "unique" /\ "unique" \in cfg.Dirs
             /\ s # None
          \/ /\ Reports(cfg)!FirstDir(w, s) = "reports" /\ "reports" \in cfg.Dirs
             /\ "unique" \notin cfg.Dirs /\ s # None
          \/ /\ Reports(cfg)!FirstDir(w, s) = IF held[w] = None THEN "batch" ELSE "processed"
             /\ ~KeepsResults(cfg)
      BY DirFacts
    <3>3. Reports(cfg)!FirstDir(w, s) \in Reports(cfg)!State
      BY <3>2 DEF Reports!State, Reports!Dir
    <3> QED
      BY <3>1, <3>2, <3>3
  <2>2. ASSUME Reports(cfg)!Goto(w, "failed"), UNCHANGED stack
        PROVE  <1>3!:
    BY <2>2 DEF Reports!Goto, ReportsInv, Reports!TypeOK, Reports!State
  <2> QED
    BY <2>1, <2>2 DEF Reports!TestInput
<1>4. Reports(cfg)!TypeOK' /\ OnlyMoves(cfg, w)
  BY <1>2, <1>3 DEF ReportsInv, Reports!TypeOK, OnlyMoves
<1>5. /\ WorkerShape(cfg, w)' /\ UniqueFirst(cfg, w)'
      /\ AtWork(cfg, w)' \/ pc'[w] = "failed" \/ ~KeepsResults(cfg)
  BY <1>1, <1>2, <1>3 DEF WorkerShape, UniqueFirst, AtWork, Reports!Dir
<1>6. ProcessedKept(cfg, w)'
  BY <1>1, <1>2, <1>k, <1>3, <1>5 DEF ProcessedKept, KeepsResults
<1> QED
  BY <1>2, <1>4, <1>5, <1>6, WorkerStep DEF WorkerInv

\* Finish: only a worker that has processed a message deletes it.
LEMMA DeleteStep ==
    ASSUME NEW cfg, Reports(cfg)!ReportsAssumption, ReportsInv(cfg), NEW w \in cfg.Worker,
           Reports(cfg)!DeleteAnswered(w) \/ Reports(cfg)!DeleteFailed(w)
    PROVE  ReportsInv(cfg)'
<1>1. /\ pc[w] = "processed" /\ held[w] \in cfg.Msg /\ input[w] \in cfg.Input
      /\ input[w] = cfg.MsgInput[held[w]]
      /\ KeepsResults(cfg) => /\ todo[w] = {} /\ Kept(input[w])
                              /\ \A i \in batch[w] : Kept(i)
  BY DEF Reports!DeleteAnswered, Reports!DeleteFailed, ReportsInv, Reports!TypeOK, WorkerInv,
         WorkerShape, ProcessedKept, AtWork, Reports!Dir
<1>2. UNCHANGED <<crashes, unique, reports, noRepro, events, swallowed, held, receipt, input,
                  stack, batch, todo>>
  BY DEF Reports!DeleteAnswered, Reports!DeleteFailed, Reports!saved, Reports!local
<1>k. \A i : Kept(i)' <=> Kept(i)
  BY <1>2 DEF Kept
<1>3. /\ queue' \in [cfg.Msg -> [state : {"unsent", "visible", "hidden", "deleted"},
                             receipt : 0..cfg.MaxPops]]
      /\ \A m \in cfg.Msg : queue'[m].state = "deleted" =>
           queue[m].state = "deleted" \/ (pc[w] = "processed" /\ m = held[w])
  <2>1. UNCHANGED queue \/ queue' = [queue EXCEPT ![held[w]].state = "deleted"]
    BY DEF Reports!DeleteAnswered, Reports!DeleteFailed, Reports!Delete
  <2>2. queue \in [cfg.Msg -> [state : {"unsent", "visible", "hidden", "deleted"},
                              receipt : 0..cfg.MaxPops]]
    BY DEF ReportsInv, Reports!TypeOK
  <2> QED
    BY <1>1, <2>1, <2>2
<1>4. /\ tries' \in [cfg.Worker -> 0..cfg.MaxRetry]
      /\ pc' \in [cfg.Worker -> Reports(cfg)!State]
      /\ \A v \in cfg.Worker : v # w => pc'[v] = pc[v]
      /\ pc'[w] \in {"ready", "processed", "failed"}
  <2>1. "ready" \in Reports(cfg)!State /\ "failed" \in Reports(cfg)!State /\ Reports(cfg)!TypeOK
    BY DEF Reports!State, ReportsInv
  <2>2. CASE Reports(cfg)!DeleteAnswered(w)
    BY <1>1, <2>1, <2>2, RetryFacts DEF Reports!DeleteAnswered
  <2>3. CASE Reports(cfg)!DeleteFailed(w)
    BY <1>1, <2>1, <2>3, RetryFacts DEF Reports!DeleteFailed
  <2> QED
    BY <2>2, <2>3
<1>5. Reports(cfg)!TypeOK' /\ OnlyMoves(cfg, w)
  BY <1>2, <1>3, <1>4 DEF ReportsInv, Reports!TypeOK, OnlyMoves
<1>6. Kept(input[w])' <=> Kept(input[w])
  BY <1>2 DEF Kept
<1>7. None \notin cfg.Msg
  BY DEF Reports!ReportsAssumption
<1>8. WorkerShape(cfg, w)' /\ UniqueFirst(cfg, w)' /\ ~AtWork(cfg, w)'
  BY <1>1, <1>2, <1>4, <1>7 DEF WorkerShape, UniqueFirst, AtWork, Reports!Dir
<1>9. ProcessedKept(cfg, w)'
  BY <1>1, <1>2, <1>k, <1>4, <1>6, <1>8 DEF ProcessedKept, KeepsResults
<1> QED
  BY <1>2, <1>3, <1>5, <1>8, <1>9, WorkerStep DEF WorkerInv

\* What an upload can do: the server stores the result or not, the worker goes on to the
\* next container, tries again or gives up, and dotnet goes on without the result.
LEMMA UploadFacts ==
    ASSUME NEW cfg, Reports(cfg)!ReportsAssumption, ReportsInv(cfg), NEW w \in cfg.Worker,
           Reports(cfg)!UploadAnswered(w) \/ Reports(cfg)!UploadFailed(w)
    PROVE  /\ pc[w] \in Reports(cfg)!Dir
           /\ Reports(cfg)!Put(w, pc[w]) \/ UNCHANGED <<unique, reports, noRepro>>
           /\ tries' \in [cfg.Worker -> 0..cfg.MaxRetry]
           /\ pc' \in [cfg.Worker -> Reports(cfg)!State]
           /\ \A v \in cfg.Worker : v # w => pc'[v] = pc[v]
           /\ UNCHANGED <<crashes, queue, held, receipt, input, stack, batch, todo>>
           /\ swallowed \subseteq swallowed' /\ swallowed' \subseteq cfg.Input
           /\ \/ /\ pc[w] = "unique" /\ "reports" \in cfg.Dirs /\ pc'[w] = "reports"
                 /\ Reports(cfg)!Put(w, pc[w])
              \/ /\ pc'[w] = IF held[w] = None THEN "batch" ELSE "processed"
                 /\ \/ Reports(cfg)!Put(w, pc[w]) /\ (pc[w] = "unique" => "reports" \notin cfg.Dirs)
                    \/ input[w] \in swallowed'
              \/ pc'[w] \in {pc[w], "failed"}
<1>1. /\ pc[w] \in Reports(cfg)!Dir
      /\ Reports(cfg)!Put(w, pc[w]) \/ UNCHANGED <<unique, reports, noRepro>>
      /\ UNCHANGED <<crashes, queue, held, receipt, input, stack, batch, todo>>
  BY DEF Reports!UploadAnswered, Reports!UploadFailed, Reports!server, Reports!local
<1>2. /\ Reports(cfg)!TypeOK /\ input[w] \in cfg.Input /\ swallowed \subseteq cfg.Input
      /\ tries[w] \in Nat /\ cfg.MaxRetry \in Nat
  BY <1>1 DEF ReportsInv, WorkerInv, WorkerShape, AtWork, Reports!TypeOK,
              Reports!ReportsAssumption
<1>3. CASE Reports(cfg)!UploadAnswered(w)
  <2>1. Reports(cfg)!NextDir(w, pc[w]) \in Reports(cfg)!State
    BY <1>1, DirFacts DEF Reports!State, Reports!Dir
  <2>2. /\ tries' \in [cfg.Worker -> 0..cfg.MaxRetry]
        /\ pc' \in [cfg.Worker -> Reports(cfg)!State]
        /\ \A v \in cfg.Worker : v # w => pc'[v] = pc[v]
        /\ pc'[w] = Reports(cfg)!NextDir(w, pc[w])
    BY <1>2, <1>3, <2>1, RetryFacts DEF Reports!UploadAnswered
  <2>3. Reports(cfg)!Put(w, pc[w]) /\ swallowed' = swallowed
    BY <1>3 DEF Reports!UploadAnswered
  <2> QED
    BY <1>1, <1>2, <2>2, <2>3, DirFacts
<1>4. CASE Reports(cfg)!UploadFailed(w)
  <2>1. /\ Reports(cfg)!AfterSaveError(w) \in Reports(cfg)!State
        /\ \/ Reports(cfg)!AfterSaveError(w) = "failed"
           \/ /\ cfg.Kind = "dotnet"
              /\ Reports(cfg)!AfterSaveError(w) = IF held[w] = None THEN "batch" ELSE "processed"
    BY DirFacts DEF Reports!AfterSaveError, Reports!State
  <2>2. Reports(cfg)!RetryOrFail(w, Reports(cfg)!AfterSaveError(w))
    BY <1>4 DEF Reports!UploadFailed
  <2>3. /\ tries' \in [cfg.Worker -> 0..cfg.MaxRetry]
        /\ pc' \in [cfg.Worker -> Reports(cfg)!State]
        /\ \A v \in cfg.Worker : v # w => pc'[v] = pc[v]
        /\ pc'[w] = Reports(cfg)!AfterSaveError(w) \/ pc'[w] = pc[w]
        /\ tries[w] < cfg.MaxRetry => pc' = pc
    BY <1>2, <2>1, <2>2, RetryFacts
  <2>4. /\ swallowed \subseteq swallowed' /\ swallowed' \subseteq cfg.Input
        /\ tries[w] >= cfg.MaxRetry /\ cfg.Kind = "dotnet" => input[w] \in swallowed'
    BY <1>2, <1>4 DEF Reports!UploadFailed
  <2> QED
    BY <1>1, <1>2, <2>1, <2>3, <2>4
<1> QED
  BY <1>3, <1>4

\* An upload announces a report when it is the one that stores it.
LEMMA AnnounceStep ==
    ASSUME NEW cfg, Reports(cfg)!ReportsAssumption, ReportsInv(cfg), NEW w \in cfg.Worker,
           Reports(cfg)!UploadAnswered(w) \/ Reports(cfg)!UploadFailed(w)
    PROVE  /\ events' \in [Reports(cfg)!Dir \X (cfg.Input \cup cfg.Stack) -> Nat]
           /\ AnnouncedIsStored(cfg)'
<1>1. pc[w] \in Reports(cfg)!Dir
  BY UploadFacts
<1>2. /\ events \in [Reports(cfg)!Dir \X (cfg.Input \cup cfg.Stack) -> Nat]
      /\ input[w] \in cfg.Input /\ (pc[w] = "unique" => stack[w] \in cfg.Stack)
  BY <1>1 DEF ReportsInv, WorkerInv, WorkerShape, AtWork, Reports!TypeOK
<1>3. /\ unique \subseteq unique' /\ noRepro \subseteq noRepro'
      /\ \A i \in cfg.Input : reports[i] # None => reports'[i] = reports[i]
  BY <1>1, PutFacts, UploadFacts
<1>4. CASE events' = events
  BY <1>2, <1>3, <1>4 DEF ReportsInv, AnnouncedIsStored, Reports!EventOnce
<1>5. CASE /\ Reports(cfg)!Put(w, pc[w]) /\ ~Reports(cfg)!Exists(w, pc[w])
           /\ events' = [events EXCEPT ![Reports(cfg)!BlobName(w, pc[w])] = @ + 1]
  <2> DEFINE x == IF pc[w] = "unique" THEN stack[w] ELSE input[w]
             b == <<pc[w], x>>
  <2>1. x \in cfg.Input \cup cfg.Stack /\ b \in Reports(cfg)!Dir \X (cfg.Input \cup cfg.Stack)
    BY <1>1, <1>2
  <2>2. events' = [events EXCEPT ![b] = events[b] + 1]
    BY <1>5 DEF Reports!BlobName
  <2>3. ~(events[b] > 0)
    BY <1>1, <1>2, <1>5 DEF ReportsInv, AnnouncedIsStored, Reports!Exists, Reports!Dir
  <2>4. /\ pc[w] = "unique" => x \in unique'
        /\ pc[w] = "reports" => reports'[x] # None
        /\ pc[w] = "no_repro" => x \in noRepro'
    BY <1>1, <1>5, PutFacts
  <2> HIDE DEF x
  <2>5. /\ events' \in [Reports(cfg)!Dir \X (cfg.Input \cup cfg.Stack) -> Nat]
        /\ events'[b] = 1
        /\ \A n \in Reports(cfg)!Dir \X (cfg.Input \cup cfg.Stack) : n # b =>
             events'[n] = events[n]
    BY <1>2, <2>1, <2>2, <2>3
  <2>6. Reports(cfg)!EventOnce'
    BY <1>2, <2>5 DEF ReportsInv, AnnouncedIsStored, Reports!EventOnce
  <2>7. /\ \A y \in cfg.Input \cup cfg.Stack : events'[<<"unique", y>>] > 0 => y \in unique'
        /\ \A y \in cfg.Input \cup cfg.Stack : events'[<<"no_repro", y>>] > 0 => y \in noRepro'
        /\ \A y \in cfg.Input : events'[<<"reports", y>>] > 0 => reports'[y] # None
    <3>1. \A d \in Reports(cfg)!Dir, y \in cfg.Input \cup cfg.Stack :
            \/ d = pc[w] /\ y = x
            \/ events'[<<d, y>>] = events[<<d, y>>]
      BY <2>5
    <3>2. /\ "unique" \in Reports(cfg)!Dir /\ "no_repro" \in Reports(cfg)!Dir
          /\ "reports" \in Reports(cfg)!Dir
      BY DEF Reports!Dir
    <3> QED
      BY <1>3, <2>4, <3>1, <3>2 DEF ReportsInv, AnnouncedIsStored
  <2> QED
    BY <2>5, <2>6, <2>7 DEF AnnouncedIsStored
<1> QED
  BY <1>4, <1>5 DEF Reports!UploadAnswered, Reports!UploadFailed

\* An upload keeps the invariant.
LEMMA UploadStep ==
    ASSUME NEW cfg, Reports(cfg)!ReportsAssumption, ReportsInv(cfg), NEW w \in cfg.Worker,
           Reports(cfg)!UploadAnswered(w) \/ Reports(cfg)!UploadFailed(w)
    PROVE  ReportsInv(cfg)'
<1> USE UploadFacts
<1>1. /\ pc[w] \in Reports(cfg)!Dir /\ held[w] \in cfg.Msg \cup {None} /\ input[w] \in cfg.Input
      /\ held[w] = None \/ input[w] = cfg.MsgInput[held[w]]
      /\ pc[w] \in cfg.Dirs /\ (pc[w] \in {"unique", "reports"} => stack[w] # None)
      /\ batch[w] \subseteq cfg.Input
  BY DEF ReportsInv, Reports!TypeOK, WorkerInv, WorkerShape, AtWork
<1>2. /\ KeepsResults(cfg) => \A i \in batch[w] :
           Kept(i) \/ i \in todo[w] \/ (i = input[w] /\ held[w] = None)
      /\ KeepsResults(cfg) /\ held[w] # None => todo[w] = {}
      /\ UniqueFirst(cfg, w)
  BY <1>1 DEF ReportsInv, WorkerInv, ProcessedKept, AtWork, Reports!Dir
<1>3. /\ unique' \subseteq cfg.Stack /\ noRepro' \subseteq cfg.Input
      /\ reports' \in [cfg.Input -> cfg.Stack \cup {None}]
      /\ unique \subseteq unique' /\ noRepro \subseteq noRepro'
      /\ \A i \in cfg.Input : reports[i] # None => reports'[i] = reports[i]
      /\ \A i \in cfg.Input : reports'[i] # reports[i] =>
           pc[w] = "reports" /\ i = input[w] /\ reports'[i] = stack[w]
  <2>1. CASE Reports(cfg)!Put(w, pc[w])
    BY <1>1, <2>1, PutFacts
  <2>2. CASE UNCHANGED <<unique, reports, noRepro>>
    BY <2>2 DEF ReportsInv, Reports!TypeOK
  <2> QED
    BY <2>1, <2>2
<1>4. Reports(cfg)!Put(w, pc[w]) =>
        /\ pc[w] = "unique" => stack[w] \in unique'
        /\ pc[w] # "unique" => Kept(input[w])'
  BY <1>1, PutFacts DEF Kept, Reports!Dir
<1>5. Grows(cfg) /\ OnlyMoves(cfg, w)
  BY <1>3 DEF Grows, OnlyMoves
<1>6. /\ \A v \in cfg.Worker \ {w} : WorkerInv(cfg, v)'
      /\ \A i \in cfg.Input : Kept(i) => Kept(i)'
  BY <1>5, OthersKept
<1>7. Reports(cfg)!TypeOK' /\ AnnouncedIsStored(cfg)'
  BY <1>3, AnnounceStep DEF ReportsInv, Reports!TypeOK
<1>8. Reports(cfg)!ReportHasUnique'
  <2> SUFFICES ASSUME "unique" \in cfg.Dirs, NEW i \in cfg.Input, reports'[i] # None
               PROVE  reports'[i] \in unique'
    BY DEF Reports!ReportHasUnique
  <2>1. CASE reports'[i] = reports[i]
    BY <1>3, <2>1 DEF ReportsInv, Reports!ReportHasUnique
  <2>2. CASE reports'[i] # reports[i]
    BY <1>2, <1>3, <2>2 DEF UniqueFirst
  <2> QED
    BY <2>1, <2>2
<1>9. DeletedKept(cfg)'
  <2>1. UNCHANGED queue
    OBVIOUS
  <2> QED
    BY <1>6, <2>1 DEF ReportsInv, DeletedKept, KeepsResults
<1>10. /\ pc'[w] \in Reports(cfg)!Dir => pc'[w] \in cfg.Dirs
       /\ pc'[w] \in {"processed"} => held[w] # None
       /\ pc'[w] \in {"start", "batch"} => held[w] = None
       /\ pc'[w] \in {"unique", "reports"} => stack[w] # None
       /\ pc'[w] # "parsed"
  BY <1>1 DEF Reports!Dir
<1>11. WorkerShape(cfg, w)'
  BY <1>1, <1>10 DEF WorkerShape, AtWork
<1>12. UniqueFirst(cfg, w)'
  <2>1. ASSUME "unique" \in cfg.Dirs, pc'[w] = "reports" PROVE stack[w] \in unique'
    <3>1. CASE pc[w] = "reports"
      BY <1>2, <1>3, <2>1, <3>1 DEF UniqueFirst
    <3>2. CASE pc[w] # "reports"
      BY <1>4, <2>1, <3>2
    <3> QED
      BY <3>1, <3>2
  <2> QED
    BY <2>1 DEF UniqueFirst
<1>13. KeepsResults(cfg) /\ pc'[w] \in {"batch", "processed"} => Kept(input[w])'
  <2> SUFFICES ASSUME KeepsResults(cfg), pc'[w] \in {"batch", "processed"}
               PROVE  Kept(input[w])'
    OBVIOUS
  <2>1. \/ Reports(cfg)!Put(w, pc[w]) /\ pc[w] # "unique"
        \/ input[w] \in swallowed'
    BY <1>1 DEF Reports!Dir, KeepsResults
  <2> QED
    BY <1>4, <2>1 DEF Kept
<1>14. ProcessedKept(cfg, w)'
  <2> SUFFICES ASSUME KeepsResults(cfg)
               PROVE  /\ pc'[w] = "processed" => Kept(input[w])'
                      /\ pc'[w] \notin {"start", "failed"} =>
                           \A i \in batch'[w] :
                             \/ Kept(i)' \/ i \in todo'[w]
                             \/ (i = input'[w] /\ held'[w] = None /\ AtWork(cfg, w)')
                      /\ pc'[w] \in {"ready", "polled", "parsed", "processed", "done"}
                         \/ (held'[w] # None /\ AtWork(cfg, w)') => todo'[w] = {}
    BY DEF ProcessedKept, KeepsResults
  <2>1. UNCHANGED <<held, input, batch, todo>>
    OBVIOUS
  <2>2. AtWork(cfg, w)' \/ pc'[w] \in {"batch", "processed", "failed"}
    BY <1>1 DEF AtWork, Reports!Dir
  <2>3. pc'[w] \in {"ready", "polled", "parsed", "processed", "done"} => held[w] # None
    BY <1>1 DEF Reports!Dir
  <2>4. ASSUME NEW i \in batch[w], pc'[w] # "failed"
        PROVE  \/ Kept(i)' \/ i \in todo[w]
               \/ (i = input[w] /\ held[w] = None /\ AtWork(cfg, w)')
    <3>1. CASE Kept(i) \/ i \in todo[w]
      BY <1>1, <1>6, <3>1
    <3>2. CASE i = input[w] /\ held[w] = None
      <4>1. Kept(input[w])' => Kept(i)'
        BY <2>1, <3>2 DEF Kept
      <4> QED
        BY <1>13, <2>2, <2>4, <3>2, <4>1
    <3> QED
      BY <1>2, <3>1, <3>2
  <2> QED
    BY <1>2, <1>13, <2>1, <2>3, <2>4
<1> QED
  BY <1>6, <1>7, <1>8, <1>9, <1>11, <1>12, <1>14 DEF ReportsInv, WorkerInv

\* Every step keeps the invariant.
LEMMA ReportsStep ==
    ASSUME NEW cfg, Reports(cfg)!ReportsAssumption, ReportsInv(cfg),
           [Reports(cfg)!Next]_(Reports(cfg)!vars)
    PROVE  ReportsInv(cfg)'
<1>1. CASE UNCHANGED Reports(cfg)!vars
  <2>1. UNCHANGED <<crashes, queue, unique, reports, noRepro, events, swallowed, held, receipt,
                    input, stack, batch, todo, pc, tries>>
    BY <1>1 DEF Reports!vars, Reports!server, Reports!saved, Reports!local
  <2> QED
    BY <2>1 DEF ReportsInv, Reports!TypeOK, WorkerInv, WorkerShape, ProcessedKept,
                UniqueFirst, AtWork, Kept, KeepsResults, DeletedKept, AnnouncedIsStored,
                Reports!EventOnce, Reports!ReportHasUnique
<1>2. ASSUME NEW w \in cfg.Worker, Reports(cfg)!Advance(w) \/ Reports(cfg)!Fault(w)
      PROVE  ReportsInv(cfg)'
  BY <1>2, StartStep, BatchStep, PopStep, ParseStep, TestStep, UploadStep, DeleteStep
     DEF Reports!Advance, Reports!Fault
<1> QED
  BY <1>1, <1>2, QueueSteps DEF Reports!Next

\* Over every order of expiring claims, lost answers, retries and deaths, a message of the
\* crash report task is deleted only when the result of its input is saved (or dotnet has
\* logged that it is not), a saved report has its unique report, and each is announced once
\* (InputPoller::run, CrashTestResult::save).
LEMMA ReportsArrive ==
    ASSUME NEW cfg, ReportsInv(cfg)
    PROVE  Reports(cfg)!AcknowledgedIsStored /\ Reports(cfg)!ResultsArrive
  BY DEF ReportsInv, DeletedKept, KeepsResults, Kept, AnnouncedIsStored,
         Reports!AcknowledgedIsStored, Reports!ResultsArrive

\* No step replaces a saved report, whichever worker or retry comes second: the uploads are
\* conditional (If-None-Match).
LEMMA ReportsStay ==
    ASSUME NEW cfg, Reports(cfg)!ReportsAssumption, ReportsInv(cfg),
           [Reports(cfg)!Next]_(Reports(cfg)!vars)
    PROVE  Reports(cfg)!StoredStays
<1>1. ASSUME NEW w \in cfg.Worker,
             Reports(cfg)!UploadAnswered(w) \/ Reports(cfg)!UploadFailed(w)
      PROVE  Reports(cfg)!StoredStays
  BY <1>1, PutFacts, UploadFacts DEF Reports!StoredStays
<1>2. CASE UNCHANGED reports
  BY <1>2 DEF Reports!StoredStays
<1>3. \/ UNCHANGED reports
      \/ \E w \in cfg.Worker : Reports(cfg)!UploadAnswered(w) \/ Reports(cfg)!UploadFailed(w)
  BY DEF Reports!Next, Reports!vars, Reports!saved, Reports!Advance, Reports!Fault,
         Reports!Found, Reports!Announce, Reports!Expire, Reports!StartGeneric,
         Reports!StartLibFuzzer, Reports!StartDotnet, Reports!PullCrashes,
         Reports!StartFailed, Reports!BatchNext, Reports!PopAnswered,
         Reports!PopFailed, Reports!Parse, Reports!Download, Reports!TestInput,
         Reports!DeleteAnswered, Reports!DeleteFailed
<1> QED
  BY <1>1, <1>2, <1>3

----------------------------------------------------------------------------
(* The coverage task.  A node that has resumed from the file has in memory *)
(* at least what the file holds, so that to overwrite the file loses       *)
(* nothing; and what a message asks for is in memory before the save that  *)
(* precedes its deletion.                                                  *)

\* TypeOK without the bound on the number of corpus files.
CoverType(cfg) ==
    /\ remote \in Cover(cfg)!Coverage /\ coverage \in Cover(cfg)!Coverage
    /\ queue \in [cfg.Msg -> [state : {"unsent", "visible", "hidden", "deleted"},
                          receipt : 0..cfg.MaxPops]]
    /\ pc \in Cover(cfg)!State
    /\ held \in cfg.Msg \cup {None} /\ receipt \in 0..cfg.MaxPops
    /\ input \in cfg.Input \cup {None}
    /\ todo \subseteq cfg.Corpus /\ count \in Nat /\ ignored \subseteq cfg.Input

\* The points where the coverage in memory continues that of the file.
Resumed == pc \notin {"start", "failed"}

\* The points after the corpus.
CorpusOver == held # None \/ pc \in {"poll", "save_input", "delete"}

Covered(cfg, i, c) == \A b \in cfg.Hit[i] : c[b] = 2

\* A message is held from its pop to its deletion, with its input.
CoverShape(cfg) ==
    /\ pc \in {"start", "corpus", "save", "save_corpus", "poll"} => held = None
    /\ pc \in {"save_input", "delete"} => held # None
    /\ pc \in {"record", "save_input", "delete"} =>
         input \in cfg.Input /\ (held # None => input = cfg.MsgInput[held])
    /\ Resumed /\ CorpusOver => todo = {}
    /\ pc = "save_corpus" => todo = {}

\* The file is never ahead of the memory that will overwrite it.
MemoryAhead(cfg) == Resumed => Cover(cfg)!Leq(remote, coverage)

\* What has been read of the corpus is in memory, unless its recording failed, and in
\* the file once the corpus is over; before anything is recorded, nothing is missing.
CorpusSaved(cfg) ==
    /\ Resumed => \A i \in cfg.Corpus \ (ignored \cup todo) :
         \/ Covered(cfg, i, coverage)
         \/ i = input /\ pc = "record" /\ held = None
    /\ Resumed /\ count = 0 /\ ~CorpusOver => \A i \in cfg.Corpus \ (ignored \cup todo) :
         i = input /\ pc = "record"
    /\ Resumed /\ CorpusOver => \A i \in cfg.Corpus \ ignored : Covered(cfg, i, remote)

\* What a message asks for is in memory before the save, and in the file after it.
MessageKept(cfg) ==
    /\ pc = "save_input" => Covered(cfg, input, coverage)
    /\ pc = "delete" => Covered(cfg, input, remote)
    /\ \A m \in cfg.Msg : queue[m].state = "deleted" => Covered(cfg, cfg.MsgInput[m], remote)

CoverInv(cfg) ==
    /\ CoverType(cfg) /\ CoverShape(cfg) /\ MemoryAhead(cfg) /\ CorpusSaved(cfg)
    /\ MessageKept(cfg)

\* The invariant holds initially.
LEMMA CoverInit ==
    ASSUME NEW cfg, Cover(cfg)!CoverageAssumption, Cover(cfg)!Init
    PROVE  CoverInv(cfg)
<1>1. CoverType(cfg)
  <2>1. remote \in Cover(cfg)!Coverage
    BY DEF Cover!Init, Cover!Coverage
  <2> QED
    BY <2>1 DEF Cover!CoverageAssumption, Cover!Init, CoverType, Cover!Coverage, Cover!Empty,
                Cover!State
<1>2. CoverShape(cfg) /\ MemoryAhead(cfg) /\ CorpusSaved(cfg) /\ MessageKept(cfg)
  BY DEF Cover!Init, CoverShape, MemoryAhead, CorpusSaved, MessageKept, Resumed, CorpusOver
<1> QED
  BY <1>1, <1>2 DEF CoverInv

\* BinaryCoverage::merge with what an input reaches.
LEMMA MergeFacts ==
    ASSUME NEW cfg, Cover(cfg)!CoverageAssumption, NEW c \in Cover(cfg)!Coverage,
           NEW i \in cfg.Input
    PROVE  LET d == Cover(cfg)!Merge(c, Cover(cfg)!Recorded(i))
           IN  /\ d \in Cover(cfg)!Coverage /\ Cover(cfg)!Leq(c, d) /\ Covered(cfg, i, d)
               /\ \A k \in cfg.Input : Covered(cfg, k, c) => Covered(cfg, k, d)
<1> DEFINE d == Cover(cfg)!Merge(c, Cover(cfg)!Recorded(i))
<1>1. cfg.Hit \in [cfg.Input -> SUBSET cfg.Block]
  BY DEF Cover!CoverageAssumption
<1>2. \A b \in cfg.Block :
        /\ Cover(cfg)!Recorded(i)[b] \in 0..2
        /\ (b \in cfg.Hit[i] => Cover(cfg)!Recorded(i)[b] = 2)
  BY DEF Cover!Recorded
<1>3. \A b \in cfg.Block : c[b] \in 0..2
  BY DEF Cover!Coverage
<1>4. \A b \in cfg.Block :
        d[b] = IF c[b] >= Cover(cfg)!Recorded(i)[b] THEN c[b] ELSE Cover(cfg)!Recorded(i)[b]
  BY DEF Cover!Merge
<1>5. d \in Cover(cfg)!Coverage
  BY <1>2, <1>3 DEF Cover!Merge, Cover!Coverage
<1>6. \A b \in cfg.Block : c[b] <= d[b] /\ (b \in cfg.Hit[i] => d[b] = 2)
  BY <1>2, <1>3, <1>4
<1>7. \A b \in cfg.Block : c[b] = 2 => d[b] = 2
  BY <1>2, <1>3, <1>4
<1> HIDE DEF d
<1>8. Cover(cfg)!Leq(c, d) /\ Covered(cfg, i, d) /\ \A k \in cfg.Input : Covered(cfg, k, c) =>
        Covered(cfg, k, d)
  BY <1>1, <1>6, <1>7 DEF Cover!Leq, Covered
<1> QED
  BY <1>5, <1>8 DEF d

\* A larger file covers what a smaller one covered.
LEMMA CoveredGrows ==
    ASSUME NEW cfg, Cover(cfg)!CoverageAssumption, NEW c \in Cover(cfg)!Coverage,
           NEW d \in Cover(cfg)!Coverage,
           Cover(cfg)!Leq(c, d), NEW i \in cfg.Input, Covered(cfg, i, c)
    PROVE  Covered(cfg, i, d)
<1>1. cfg.Hit[i] \subseteq cfg.Block
  BY DEF Cover!CoverageAssumption
<1>2. \A b \in cfg.Block : d[b] \in 0..2 /\ (c[b] = 2 => 2 <= d[b])
  BY DEF Cover!Coverage, Cover!Leq
<1>3. \A b \in cfg.Block : c[b] = 2 => d[b] = 2
  BY <1>2
<1> QED
  BY <1>1, <1>3 DEF Covered

\* Every step of the node, its queue and its deaths keeps the invariant.
LEMMA CoverStep ==
    ASSUME NEW cfg, Cover(cfg)!CoverageAssumption, CoverInv(cfg),
           [Cover(cfg)!Next]_(Cover(cfg)!vars)
    PROVE  CoverInv(cfg)'
<1>a. /\ cfg.Corpus \subseteq cfg.Input /\ cfg.MsgInput \in [cfg.Msg -> cfg.Input]
      /\ None \notin cfg.Msg \cup cfg.Input
      /\ cfg.MaxPops \in Nat
  BY DEF Cover!CoverageAssumption
<1> USE DEF CoverInv
<1>1. CASE UNCHANGED Cover(cfg)!vars
  BY <1>1 DEF Cover!vars, CoverType, CoverShape, MemoryAhead, CorpusSaved, MessageKept,
              Resumed, CorpusOver
<1>2. ASSUME NEW m \in cfg.Msg, Cover(cfg)!Enqueue(m) PROVE CoverInv(cfg)'
  <2>1. /\ UNCHANGED <<remote, pc, held, receipt, input, coverage, todo, count, ignored>>
        /\ queue' = [queue EXCEPT ![m].state = "visible"]
    BY <1>2 DEF Cover!Enqueue
  <2>2. CoverType(cfg)' /\ \A n \in cfg.Msg : queue'[n].state = "deleted" =>
          queue[n].state = "deleted"
    BY <2>1 DEF CoverType
  <2> QED
    BY <2>1, <2>2 DEF CoverShape, MemoryAhead, CorpusSaved, MessageKept, Resumed, CorpusOver
<1>3. CASE Cover(cfg)!Crash
  <2>1. Cover(cfg)!Empty \in Cover(cfg)!Coverage /\ "start" \in Cover(cfg)!State
    BY DEF Cover!Empty, Cover!Coverage, Cover!State
  <2>2. CoverType(cfg)'
    BY <1>a, <1>3, <2>1 DEF Cover!Crash, CoverType
  <2> QED
    BY <1>3, <2>2
       DEF Cover!Crash, CoverShape, MemoryAhead, CorpusSaved, MessageKept, Resumed, CorpusOver
<1>4. CASE Cover(cfg)!Start
  <2>1. CoverType(cfg)'
    BY <1>4 DEF Cover!Start, Cover!Resume, Cover!Fail, CoverType, Cover!State
  <2>2. CASE pc' = "failed"
    BY <1>4, <2>1, <2>2
       DEF Cover!Start, CoverShape, MemoryAhead, CorpusSaved, MessageKept, Resumed, CorpusOver
  <2>3. CASE pc' = "corpus" /\ coverage' = remote /\ todo' = cfg.Corpus
    <3>1. Cover(cfg)!Leq(remote, remote)
      BY DEF CoverType, Cover!Coverage, Cover!Leq
    <3>2. MemoryAhead(cfg)'
      BY <1>4, <2>3, <3>1 DEF Cover!Start, MemoryAhead, Cover!Leq
    <3> QED
      BY <1>4, <2>1, <2>3, <3>2
         DEF Cover!Start, CoverShape, CorpusSaved, MessageKept, Resumed, CorpusOver
  <2> QED
    BY <1>4, <2>2, <2>3 DEF Cover!Start, Cover!Resume, Cover!Fail
<1>5. CASE Cover(cfg)!NextFile
  <2>1. CoverType(cfg)'
    BY <1>a, <1>5 DEF Cover!NextFile, Cover!AfterCorpus, CoverType, Cover!State
  <2>2. UNCHANGED <<remote, queue, held, receipt, coverage, count, ignored>> /\ pc = "corpus"
    BY <1>5 DEF Cover!NextFile
  <2>3. held = None /\ MemoryAhead(cfg)'
    BY <1>5, <2>2 DEF Cover!NextFile, CoverShape, MemoryAhead, Resumed
  <2>4. ASSUME NEW i \in todo, input' = i, todo' = todo \ {i},
               pc' = "record" PROVE CoverInv(cfg)'
    <3>1. i \in cfg.Corpus /\ i \in cfg.Input
      BY <1>a, <2>4 DEF CoverType
    <3>2. CoverShape(cfg)' /\ MessageKept(cfg)'
      BY <2>2, <2>3, <2>4, <3>1 DEF CoverShape, MessageKept, Resumed, CorpusOver
    <3>3. CorpusSaved(cfg)'
      BY <2>2, <2>3, <2>4 DEF CorpusSaved, Resumed, CorpusOver
    <3> QED
      BY <2>1, <2>3, <3>2, <3>3
  <2>5. ASSUME todo = {}, pc' = Cover(cfg)!AfterCorpus, UNCHANGED <<input,
                                                                    todo>> PROVE CoverInv(cfg)'
    <3>1. /\ pc' = "save_corpus" \/ (pc' = "poll" /\ count = 0)
      BY <2>5 DEF Cover!AfterCorpus, CoverType
    <3>2. CoverShape(cfg)' /\ MessageKept(cfg)'
      BY <2>2, <2>3, <2>5, <3>1 DEF CoverShape, MessageKept, Resumed, CorpusOver
    <3>3. CorpusSaved(cfg)'
      <4>1. \A i \in cfg.Corpus \ (ignored \cup todo) : Covered(cfg, i, coverage)
        BY <2>2 DEF CorpusSaved, Resumed
      <4>2. count = 0 => cfg.Corpus \ (ignored \cup todo) = {}
        BY <2>2, <2>3 DEF CorpusSaved, Resumed, CorpusOver
      <4> QED
        BY <2>2, <2>3, <2>5, <3>1, <4>1, <4>2 DEF CorpusSaved, Resumed, CorpusOver
    <3> QED
      BY <2>1, <2>3, <3>2, <3>3
  <2> QED
    BY <1>5, <2>4, <2>5 DEF Cover!NextFile
<1>6. CASE Cover(cfg)!TryRecord
  <2>0. /\ UNCHANGED <<remote, queue, held, receipt, input, todo>> /\ pc = "record"
        /\ input \in cfg.Input /\ (held # None => input = cfg.MsgInput[held]) /\ Resumed
        /\ Cover(cfg)!Leq(remote, coverage) /\ (held # None => todo = {})
    BY <1>6 DEF Cover!TryRecord, CoverShape, MemoryAhead, Resumed, CorpusOver
  <2>1. CASE /\ coverage' = Cover(cfg)!Merge(coverage, Cover(cfg)!Recorded(input))
             /\ count' = IF held = None THEN count + 1 ELSE count
             /\ pc' = Cover(cfg)!AfterRecord /\ UNCHANGED ignored
    <3>1. /\ coverage' \in Cover(cfg)!Coverage /\ Cover(cfg)!Leq(coverage, coverage')
          /\ Covered(cfg, input, coverage')
          /\ \A k \in cfg.Input : Covered(cfg, k, coverage) => Covered(cfg, k, coverage')
      BY <2>0, <2>1, MergeFacts DEF CoverType
    <3>2. /\ held # None => pc' = "save_input"
          /\ held = None => pc' \in {"save", "corpus"} /\ count' # 0
      BY <2>1 DEF Cover!AfterRecord, CoverType
    <3>3. CoverType(cfg)'
      BY <2>0, <2>1, <3>1, <3>2 DEF CoverType, Cover!State
    <3>4. CoverShape(cfg)'
      BY <2>0, <3>2 DEF CoverShape, Resumed, CorpusOver
    <3>5. MemoryAhead(cfg)'
      <4>1. \A b \in cfg.Block : /\ remote[b] \in 0..2 /\ coverage[b] \in 0..2 /\ coverage'[b] \in 0..2
                                 /\ remote[b] <= coverage[b] /\ coverage[b] <= coverage'[b]
        BY <2>0, <3>1 DEF CoverType, Cover!Coverage, Cover!Leq
      <4>2. \A b \in cfg.Block : remote[b] <= coverage'[b]
        BY <4>1
      <4> QED
        BY <2>0, <4>2 DEF MemoryAhead, Cover!Leq
    <3>6. CorpusSaved(cfg)'
      <4>1. \A i \in cfg.Corpus \ (ignored \cup todo) : Covered(cfg, i, coverage')
        BY <1>a, <2>0, <3>1 DEF CorpusSaved
      <4>2. held # None => \A i \in cfg.Corpus \ ignored : Covered(cfg, i, remote)
        BY <2>0 DEF CorpusSaved, CorpusOver
      <4> QED
        BY <2>0, <2>1, <3>2, <4>1, <4>2 DEF CorpusSaved, Resumed, CorpusOver
    <3>7. MessageKept(cfg)'
      BY <2>0, <3>1, <3>2 DEF MessageKept
    <3> QED
      BY <3>3, <3>4, <3>5, <3>6, <3>7
  <2>2. CASE UNCHANGED <<coverage, count, pc, ignored>>
    BY <2>0, <2>2
       DEF CoverType, CoverShape, MemoryAhead, CorpusSaved, MessageKept, Resumed, CorpusOver
  <2>3. CASE /\ pc' = Cover(cfg)!AfterGiveUp
             /\ ignored' = IF held = None THEN ignored \cup {input} ELSE ignored
             /\ UNCHANGED <<coverage, count>>
    <3>0. pc' = IF held # None THEN "failed" ELSE "corpus"
      BY <2>3 DEF Cover!AfterGiveUp
    <3>1. CASE held # None
      <4>1. pc' = "failed" /\ ignored' = ignored
        BY <2>3, <3>0, <3>1
      <4> QED
        BY <2>0, <2>3, <4>1
           DEF CoverType, CoverShape, MemoryAhead, CorpusSaved, MessageKept, Resumed,
               CorpusOver, Cover!State
    <3>2. CASE held = None
      <4>0. ignored' = ignored \cup {input} /\ pc' = "corpus"
        BY <2>3, <3>0, <3>2
      <4>1. ~CorpusOver
        BY <2>0, <3>2 DEF CorpusOver
      <4>2. CoverShape(cfg)' /\ MemoryAhead(cfg)' /\ MessageKept(cfg)'
        BY <2>0, <2>3, <3>2, <4>0
           DEF CoverShape, MemoryAhead, MessageKept, Resumed, CorpusOver
      <4>3. CorpusSaved(cfg)'
        BY <2>0, <2>3, <3>2, <4>0, <4>1 DEF CorpusSaved, Resumed, CorpusOver
      <4> QED
        BY <2>0, <2>3, <4>0, <4>2, <4>3 DEF CoverType, Cover!State
    <3> QED
      BY <3>1, <3>2
  <2> QED
    BY <1>6, <2>1, <2>2, <2>3 DEF Cover!TryRecord
<1>7. CASE Cover(cfg)!Save
  <2>0. /\ UNCHANGED <<queue, held, receipt, input, coverage, todo, count, ignored>>
        /\ pc \in {"save", "save_corpus", "save_input"} /\ Resumed
        /\ Cover(cfg)!Leq(remote, coverage)
    BY <1>7 DEF Cover!Save, MemoryAhead, Resumed
  <2>1. CASE remote' = coverage /\ pc' = Cover(cfg)!AfterSave
    <3>1. \A i \in cfg.Input : Covered(cfg, i, remote) => Covered(cfg, i, remote')
      BY <2>0, <2>1, CoveredGrows DEF CoverType
    <3>2. /\ pc = "save" => pc' = "corpus"
          /\ pc = "save_corpus" => pc' = "poll"
          /\ pc = "save_input" => pc' = "delete"
      BY <2>1 DEF Cover!AfterSave
    <3>3. CoverType(cfg)'
      BY <2>0, <2>1, <3>2 DEF CoverType, Cover!State
    <3>4. CoverShape(cfg)'
      BY <2>0, <3>2 DEF CoverShape, Resumed, CorpusOver
    <3>5. MemoryAhead(cfg)'
      BY <2>0, <2>1 DEF MemoryAhead, Cover!Leq, CoverType, Cover!Coverage
    <3>6. CorpusSaved(cfg)'
      <4>1. \A i \in cfg.Corpus \ (ignored \cup todo) : Covered(cfg, i, remote')
        BY <2>0, <2>1 DEF CorpusSaved
      <4>2. pc \in {"save_corpus", "save_input"} => todo = {}
        BY <2>0 DEF CoverShape, CorpusOver
      <4>3. pc = "save" => held = None
        BY DEF CoverShape
      <4>4. pc = "save" /\ count = 0 => cfg.Corpus \ (ignored \cup todo) = {}
        BY <2>0, <4>3 DEF CorpusSaved, CorpusOver
      <4> QED
        BY <2>0, <2>1, <3>2, <4>1, <4>2, <4>3, <4>4 DEF CorpusSaved, Resumed, CorpusOver
    <3>7. MessageKept(cfg)'
      <4>1. \A m \in cfg.Msg : cfg.MsgInput[m] \in cfg.Input
        BY <1>a
      <4> QED
        BY <2>0, <2>1, <3>1, <3>2, <4>1 DEF MessageKept
    <3> QED
      BY <3>3, <3>4, <3>5, <3>6, <3>7
  <2>2. CASE pc' = "failed" /\ UNCHANGED remote
    BY <2>0, <2>2
       DEF CoverType, CoverShape, MemoryAhead, CorpusSaved, MessageKept, Resumed, CorpusOver,
           Cover!State
  <2> QED
    BY <1>7, <2>1, <2>2 DEF Cover!Save, Cover!Fail
<1>8. CASE Cover(cfg)!Pop
  <2>0. /\ UNCHANGED <<remote, coverage, todo, count, ignored>> /\ pc = "poll" /\ Resumed
        /\ CorpusOver /\ todo = {}
    BY <1>8 DEF Cover!Pop, CoverShape, Resumed, CorpusOver
  <2>1. PICK m \in cfg.Msg :
          /\ queue[m].receipt < cfg.MaxPops
          /\ queue' = [queue EXCEPT ![m] = [state |-> "hidden", receipt |-> @.receipt + 1]]
          /\ \/ /\ pc' = "record" /\ held' = m /\ receipt' = queue[m].receipt + 1
                /\ input' = cfg.MsgInput[m]
             \/ pc' = "failed" /\ UNCHANGED <<held, receipt, input>>
    BY <1>8 DEF Cover!Pop, Cover!Fail
  <2>2. queue[m].receipt + 1 \in 0..cfg.MaxPops
    BY <1>a, <2>1 DEF CoverType
  <2>3. CoverType(cfg)'
    BY <1>a, <2>0, <2>1, <2>2 DEF CoverType, Cover!State
  <2>4. \A n \in cfg.Msg : queue'[n].state = "deleted" => queue[n].state = "deleted"
    BY <2>1, <2>2 DEF CoverType
  <2>5. CoverShape(cfg)'
    BY <1>a, <2>0, <2>1 DEF CoverShape, Resumed, CorpusOver
  <2>6. \A i \in cfg.Corpus \ ignored : Covered(cfg, i, remote)
    BY <2>0 DEF CorpusSaved
  <2>7. MemoryAhead(cfg)' /\ MessageKept(cfg)'
    BY <2>0, <2>1, <2>4 DEF MemoryAhead, MessageKept, Resumed
  <2>8. \A i \in cfg.Corpus \ (ignored \cup todo) : Covered(cfg, i, coverage)
    BY <2>0 DEF CorpusSaved
  <2>9. CorpusSaved(cfg)'
    <3>1. CorpusOver' \/ ~Resumed'
      BY <1>a, <2>1 DEF CorpusOver, Resumed
    <3> QED
      BY <2>0, <2>6, <2>8, <3>1 DEF CorpusSaved
  <2> QED
    BY <2>3, <2>5, <2>7, <2>9
<1>9. CASE Cover(cfg)!Delete
  <2>0. /\ UNCHANGED <<remote, receipt, input, coverage, todo, count, ignored>> /\ pc = "delete"
        /\ held \in cfg.Msg /\ input = cfg.MsgInput[held] /\ Resumed /\ CorpusOver /\ todo = {}
    BY <1>9 DEF Cover!Delete, CoverShape, CoverType, Resumed, CorpusOver
  <2>1. /\ (pc' = "poll" /\ held' = None) \/ (pc' = "failed" /\ UNCHANGED held)
        /\ queue' = queue \/ queue' = [queue EXCEPT ![held].state = "deleted"]
    BY <1>9 DEF Cover!Delete, Cover!Fail
  <2>2. CoverType(cfg)'
    BY <2>0, <2>1 DEF CoverType, Cover!State
  <2>3. \A n \in cfg.Msg : queue'[n].state = "deleted" => queue[n].state = "deleted" \/ n = held
    BY <2>0, <2>1 DEF CoverType
  <2>4. CoverShape(cfg)' /\ MemoryAhead(cfg)'
    BY <2>0, <2>1 DEF CoverShape, MemoryAhead, Resumed, CorpusOver
  <2>5. MessageKept(cfg)'
    BY <2>0, <2>1, <2>3 DEF MessageKept
  <2>6. \A i \in cfg.Corpus \ ignored : Covered(cfg, i, remote)
    BY <2>0 DEF CorpusSaved
  <2>7. \A i \in cfg.Corpus \ (ignored \cup todo) : Covered(cfg, i, coverage)
    BY <2>0 DEF CorpusSaved
  <2>8. CorpusSaved(cfg)'
    <3>1. CorpusOver' \/ ~Resumed'
      BY <2>1 DEF CorpusOver, Resumed
    <3> QED
      BY <2>0, <2>6, <2>7, <3>1 DEF CorpusSaved
  <2> QED
    BY <2>2, <2>4, <2>5, <2>8
<1> QED
  BY <1>1, <1>2, <1>3, <1>4, <1>5, <1>6, <1>7, <1>8, <1>9 DEF Cover!Next

\* Whatever node dies where, and however often a message is delivered, the coverage file
\* has what the input of every deleted message reaches, and what the corpus reaches once
\* the task polls, except the inputs whose recording failed (record_corpus, InputPoller).
LEMMA CoverageIsSaved ==
    ASSUME NEW cfg, Cover(cfg)!CoverageAssumption, CoverInv(cfg)
    PROVE  Cover(cfg)!AcknowledgedIsStored /\ Cover(cfg)!ExistingHandled
<1>1. \A i \in cfg.Input :
        Covered(cfg, i, remote) => cfg.Hit[i] \subseteq Cover(cfg)!Reached(remote)
  BY DEF Cover!CoverageAssumption, Covered, Cover!Reached
<1>2. Cover(cfg)!AcknowledgedIsStored
  BY <1>1 DEF Cover!CoverageAssumption, CoverInv, MessageKept, Cover!AcknowledgedIsStored
<1>3. Cover(cfg)!ExistingHandled
  BY <1>1 DEF Cover!CoverageAssumption, CoverInv, CorpusSaved, Resumed, CorpusOver,
              Cover!ExistingHandled
<1> QED
  BY <1>2, <1>3

\* The push that overwrites the coverage file takes neither a block nor a count away,
\* although it writes what one node has in memory (save_and_sync_coverage).
LEMMA CoverageNeverShrinks ==
    ASSUME NEW cfg, CoverInv(cfg), [Cover(cfg)!Next]_(Cover(cfg)!vars)
    PROVE  Cover(cfg)!StoredStays
<1>1. UNCHANGED remote \/ (Cover(cfg)!Save /\ remote' = coverage)
  BY DEF Cover!Next, Cover!vars, Cover!Enqueue, Cover!Crash, Cover!Start, Cover!NextFile,
         Cover!TryRecord, Cover!Save, Cover!Pop, Cover!Delete
<1>2. Cover(cfg)!Leq(remote, remote)
  BY DEF CoverInv, CoverType, Cover!Coverage, Cover!Leq
<1>3. Cover(cfg)!Save => Cover(cfg)!Leq(remote, coverage)
  BY DEF Cover!Save, CoverInv, MemoryAhead, Resumed
<1> QED
  BY <1>1, <1>2, <1>3 DEF Cover!StoredStays, Cover!Leq

----------------------------------------------------------------------------
(* The dotnet coverage task.  Two concurrent merges read, write and remove *)
(* the intermediate files; a merge removes a file only after the coverage  *)
(* of its input was in the coverage file.                                  *)

\* Where the coverage of an input may be.
Accounted == folded \cup files \cup unwritten

\* As long as no merge has written between the other's read and write: what a merge has
\* read is still the coverage file, what it has written is in it, and nothing is lost.
Unspoiled(cfg) ==
    ~overlapped =>
      /\ main \in {"merge", "delete"} => input \in cobertura \cup files \cup unwritten
      /\ done \subseteq cobertura \cup files \cup unwritten
      /\ \A a \in Dotnet(cfg)!Actor :
           /\ merging[a] = "read" => snapshot[a] = cobertura
           /\ merging[a] = "written" => found[a] \subseteq cobertura

DotnetInv(cfg) ==
    /\ overlapped \in BOOLEAN /\ Unspoiled(cfg) /\ cobertura \subseteq cfg.Input
    /\ snapshot \in [Dotnet(cfg)!Actor -> SUBSET cfg.Input]
    /\ merging \in [Dotnet(cfg)!Actor -> {"no", "read", "written", "push"}]
    /\ found \in [Dotnet(cfg)!Actor -> SUBSET cfg.Input]
    /\ main \in {"merge", "delete"} => input \in Accounted
    /\ merging["main"] # "no" => main = "merge"
    /\ \A a \in Dotnet(cfg)!Actor : merging[a] = "written" => found[a] \subseteq folded
    /\ done \subseteq Accounted
    /\ files \subseteq cfg.Input /\ todo \subseteq cfg.Input
    /\ main = "record" => input \in cfg.Input

\* Every step of the two tasks keeps the invariant.
LEMMA DotnetStep ==
    ASSUME NEW cfg, Dotnet(cfg)!DotnetAssumption, DotnetInv(cfg),
           [Dotnet(cfg)!Next]_(Dotnet(cfg)!vars)
    PROVE  DotnetInv(cfg)'
<1> USE DEF DotnetInv, Accounted, Unspoiled
<1>1. CASE UNCHANGED Dotnet(cfg)!vars
  BY <1>1 DEF Dotnet!vars, Dotnet!merges
<1>2. CASE Dotnet(cfg)!NextFile
  BY <1>2 DEF Dotnet!NextFile, Dotnet!merges
<1>3. CASE Dotnet(cfg)!Pop
  BY <1>3 DEF Dotnet!Pop, Dotnet!merges
<1>4. CASE Dotnet(cfg)!Record
  BY <1>4 DEF Dotnet!Record, Dotnet!Write, Dotnet!merges
<1>5. CASE Dotnet(cfg)!Watch
  BY <1>5 DEF Dotnet!Watch, Dotnet!merges
<1>6. CASE Dotnet(cfg)!Delete
  BY <1>6 DEF Dotnet!Delete, Dotnet!merges
<1>7. ASSUME NEW a \in Dotnet(cfg)!Actor, Dotnet(cfg)!MergeReads(a) PROVE DotnetInv(cfg)'
  BY <1>7 DEF Dotnet!MergeReads, Dotnet!Wants, Dotnet!Actor
<1>8. ASSUME NEW a \in Dotnet(cfg)!Actor, Dotnet(cfg)!MergeWrites(a) PROVE DotnetInv(cfg)'
  <2>1. /\ merging[a] = "read" /\ merging' = [merging EXCEPT ![a] = "written"]
        /\ cobertura' = snapshot[a] \cup found[a]
        /\ folded \subseteq folded' /\ found[a] \subseteq folded'
        /\ UNCHANGED <<main, input, todo, files, snapshot, found, done, unwritten>>
    BY <1>8 DEF Dotnet!MergeWrites
  <2>2. overlapped' \in BOOLEAN
    BY <1>8 DEF Dotnet!MergeWrites
  <2>3. ASSUME ~overlapped' PROVE ~overlapped /\ \A b \in Dotnet(cfg)!Actor \ {a} : merging[b] # "read"
    BY <1>8, <2>3 DEF Dotnet!MergeWrites
  <2>4. Unspoiled(cfg)'
    <3> SUFFICES ASSUME ~overlapped'
                 PROVE  /\ main' \in {"merge", "delete"} => input' \in cobertura' \cup files' \cup unwritten'
                        /\ done' \subseteq cobertura' \cup files' \cup unwritten'
                        /\ \A b \in Dotnet(cfg)!Actor :
                             /\ merging'[b] = "read" => snapshot'[b] = cobertura'
                             /\ merging'[b] = "written" => found'[b] \subseteq cobertura'
      OBVIOUS
    <3>1. cobertura \subseteq cobertura'
      BY <2>1, <2>3
    <3> QED
      BY <2>1, <2>3, <3>1
  <2> QED
    BY <2>1, <2>2, <2>4
<1>9. ASSUME NEW a \in Dotnet(cfg)!Actor, Dotnet(cfg)!MergeRemoves(a) PROVE DotnetInv(cfg)'
  BY <1>9 DEF Dotnet!MergeRemoves
<1>10. ASSUME NEW a \in Dotnet(cfg)!Actor, Dotnet(cfg)!MergeFails(a) PROVE DotnetInv(cfg)'
  BY <1>10 DEF Dotnet!MergeFails
<1>11. ASSUME NEW a \in Dotnet(cfg)!Actor, Dotnet(cfg)!MergeEndsInError(a) PROVE DotnetInv(cfg)'
  BY <1>11 DEF Dotnet!MergeEndsInError, Dotnet!MergeError, Dotnet!Actor
<1>12. ASSUME NEW a \in Dotnet(cfg)!Actor, Dotnet(cfg)!Push(a) PROVE DotnetInv(cfg)'
  BY <1>12 DEF Dotnet!Push, Dotnet!Actor
<1> QED
  BY <1>1, <1>2, <1>3, <1>4, <1>5, <1>6, <1>7, <1>8, <1>9, <1>10, <1>11, <1>12
     DEF Dotnet!Next

\* Nothing is recorded before the task starts.
LEMMA DotnetInit ==
    ASSUME NEW cfg, Dotnet(cfg)!DotnetAssumption, Dotnet(cfg)!Init
    PROVE  DotnetInv(cfg)
  BY DEF Dotnet!DotnetAssumption, Dotnet!Init, DotnetInv, Accounted, Unspoiled, Dotnet!Actor

\* The coverage of an input whose message was deleted is in the coverage file, or its file
\* still waits, unless the recording wrote none (save_and_sync_coverage); once the merges of
\* the queue's processor and of the directory monitor have overlapped, it was in it.
LEMMA DotnetCoverageKept ==
    ASSUME NEW cfg, DotnetInv(cfg)
    PROVE  Dotnet(cfg)!AcknowledgedIsStored
  BY DEF DotnetInv, Accounted, Unspoiled, Dotnet!AcknowledgedIsStored

----------------------------------------------------------------------------
(* The merge tasks.  With a queue, the features of the candidate whose     *)
(* message a node deletes are in the corpus, or in the copy of a libFuzzer *)
(* node whose push failed; in a batch the last push leaves a corpus that   *)
(* covers what all have merged.                                            *)

Features(cfg, s) == Merger(cfg)!CovOf(s)

\* The candidate that a node works on.
Named(cfg, w) == cfg.MsgInput[held[w]]

MergeType(cfg) ==
    /\ candidates \subseteq cfg.Input /\ remote \subseteq cfg.Input
    /\ queue \in [cfg.Msg -> [state : {"unsent", "visible", "hidden", "deleted"},
                          receipt : 0..cfg.MaxPops]]
    /\ local \in [cfg.Worker -> SUBSET cfg.Input] /\ tmp \in [cfg.Worker -> SUBSET cfg.Input]
    /\ pc \in [cfg.Worker -> Merger(cfg)!State] /\ held \in [cfg.Worker -> cfg.Msg \cup {None}]
    /\ behind \subseteq cfg.Worker

\* With a queue: a node carries its candidate from the message to the merge, which leaves
\* the features in its copy of the corpus, and deletes the blob after the message.
QueueShape(cfg, w) ==
    /\ \/ pc[w] \in {"parsed", "merge", "push", "delete", "delete_blob"}
       \/ pc[w] = "pull" /\ cfg.Kind = "libfuzzer"
       => held[w] \in cfg.Msg /\ Named(cfg, w) \in cfg.Input
    /\ cfg.Kind = "libfuzzer" /\ pc[w] \in {"pull", "merge"} => Named(cfg, w) \in tmp[w]
    /\ cfg.Kind = "generic" /\ pc[w] = "merge" => Named(cfg, w) \in local[w]
    /\ pc[w] \in {"push", "delete"} =>
         Named(cfg, w) \in printed \/ cfg.Covers[Named(cfg, w)] \subseteq Features(cfg, local[w])
    /\ pc[w] = "delete_blob" => queue[held[w]].state = "deleted"

\* Without one: a node merges into an empty directory, and pushes what covers its inputs.
BatchShape(cfg, w) ==
    /\ pc[w] \in {"verify", "merge", "push", "done", "failed"}
    /\ pc[w] \in {"verify", "merge"} => local[w] = {}
    /\ pc[w] = "push" => Features(cfg, tmp[w]) \subseteq Features(cfg, local[w])

MergeShape(cfg) ==
    \A w \in cfg.Worker :
      (cfg.QueueMode => QueueShape(cfg, w)) /\ (~cfg.QueueMode => BatchShape(cfg, w))

\* The corpus, and what libFuzzer nodes whose push failed hold of it.
Stored(cfg) == remote \cup Merger(cfg)!LeftBehind

\* A libFuzzer node holds nothing more, except between its merge and its push; the
\* supervisor's output covers the candidate that is pushed, and the corpus one whose
\* message is to be deleted.
KeptShape(cfg, w) ==
    /\ cfg.Kind = "libfuzzer" /\ pc[w] # "push" => local[w] \subseteq Stored(cfg)
    /\ cfg.Kind = "generic" /\ pc[w] = "push" =>
         Named(cfg, w) \in printed \/ cfg.Covers[Named(cfg, w)] \subseteq Features(cfg, tmp[w])
    /\ cfg.Kind = "generic" /\ pc[w] = "delete" =>
         \/ Named(cfg, w) \in printed
         \/ cfg.Covers[Named(cfg, w)] \subseteq Features(cfg, Stored(cfg))

\* What a node has deleted the message of is stored.
MergedKept(cfg) ==
    cfg.QueueMode =>
      /\ \A w \in cfg.Worker : KeptShape(cfg, w)
      /\ \A i \in merged \ printed : cfg.Covers[i] \subseteq Features(cfg, Stored(cfg))

\* A batch merge that has ended is in the corpus, unless a push is under way or was cut
\* short, or another node has merged other inputs.
BatchKept(cfg) ==
    ~cfg.QueueMode => \A w \in cfg.Worker : pc[w] = "done" /\ tmp[w] \cap printed = {} =>
      \/ Features(cfg, tmp[w]) \subseteq Features(cfg, remote)
      \/ \E v \in cfg.Worker : pc[v] \in {"push", "failed"}
      \/ \E v \in cfg.Worker : pc[v] = "done" /\ tmp[v] # tmp[w]

MergeInv(cfg) ==
    /\ MergeType(cfg) /\ MergeShape(cfg) /\ MergedKept(cfg) /\ BatchKept(cfg)
    /\ Merger(cfg)!MessageHasBlob

\* CovOf of larger, of empty and of single sets.
LEMMA FeatureFacts ==
    ASSUME NEW cfg
    PROVE  /\ \A s, t : s \subseteq t => Features(cfg, s) \subseteq Features(cfg, t)
           /\ \A s : \A i \in s : cfg.Covers[i] \subseteq Features(cfg, s)
           /\ Features(cfg, {}) = {}
BY DEF Features, Merger!CovOf

\* Where an error takes a node: the next message or the end, in a batch always the end.
LEMMA ErrorGoes ==
    ASSUME NEW cfg, Merger(cfg)!MergeAssumption, MergeType(cfg), NEW w \in cfg.Worker,
           Merger(cfg)!OnError(w)
    PROVE  /\ \E s \in {"idle", "failed"} : pc' = [pc EXCEPT ![w] = s] /\ pc'[w] = s
           /\ ~cfg.QueueMode => pc'[w] = "failed"
BY DEF Merger!MergeAssumption, MergeType, Merger!OnError, Merger!Goto

\* A failed attempt of az_copy is retried or is an error.
LEMMA AttemptGoes ==
    ASSUME NEW cfg, Merger(cfg)!MergeAssumption, MergeType(cfg), NEW w \in cfg.Worker,
           NEW c \in BOOLEAN,
           Merger(cfg)!AttemptFailed(w, c)
    PROVE  /\ \E s \in {pc[w], "idle", "failed"} : pc' = [pc EXCEPT ![w] = s] /\ pc'[w] = s
           /\ ~cfg.QueueMode => pc'[w] \in {pc[w], "failed"}
<1>1. CASE UNCHANGED pc
  BY <1>1 DEF MergeType
<1>2. CASE Merger(cfg)!OnError(w)
  BY <1>2, ErrorGoes
<1> QED
  BY <1>1, <1>2 DEF Merger!AttemptFailed

\* What a step of one node may change: its own state, and nothing is taken from a copy of
\* the corpus; a deleted message stays deleted.
MergeEffect(cfg, w) ==
    /\ MergeType(cfg)'
    /\ \A v \in cfg.Worker \ {w} :
         /\ pc'[v] = pc[v] /\ held'[v] = held[v] /\ tmp'[v] = tmp[v] /\ local'[v] = local[v]
    /\ local[w] \subseteq local'[w]
    /\ printed \subseteq printed'
    /\ \A m \in cfg.Msg : queue[m].state = "deleted" => queue'[m].state = "deleted"

\* The effect of a step, action by action.
LEMMA MergeEffects ==
    ASSUME NEW cfg, Merger(cfg)!MergeAssumption, MergeType(cfg), NEW w \in cfg.Worker,
           Merger(cfg)!Step(w)
    PROVE  MergeEffect(cfg, w)
<1> USE DEF MergeEffect, Merger!Goto, Merger!Set, Merger!store, Merger!local_vars,
            Merger!counters, Merger!history
<1>0. /\ candidates \subseteq cfg.Input /\ remote \subseteq cfg.Input
      /\ queue \in [cfg.Msg -> [state : {"unsent", "visible", "hidden", "deleted"},
                            receipt : 0..cfg.MaxPops]]
      /\ local \in [cfg.Worker -> SUBSET cfg.Input] /\ tmp \in [cfg.Worker -> SUBSET cfg.Input]
      /\ pc \in [cfg.Worker -> Merger(cfg)!State]
      /\ held \in [cfg.Worker -> cfg.Msg \cup {None}] /\ behind \subseteq cfg.Worker
  BY DEF MergeType
<1>e. \A s \in {"idle", "failed"} : s \in Merger(cfg)!State
  BY DEF Merger!State
<1>1. CASE Merger(cfg)!Start(w)
  BY <1>0, <1>1 DEF Merger!Start, MergeType, Merger!State
<1>2. CASE Merger(cfg)!Reset(w)
  BY <1>0, <1>2 DEF Merger!Reset, MergeType, Merger!State
<1>3. CASE Merger(cfg)!PullAttempt(w)
  <2>1. \E s \in Merger(cfg)!State : pc' = [pc EXCEPT ![w] = s]
    <3>1. ASSUME NEW c \in BOOLEAN, Merger(cfg)!AttemptFailed(w, c)
          PROVE  \E s \in Merger(cfg)!State : pc' = [pc EXCEPT ![w] = s]
      BY <1>0, <1>e, <3>1, AttemptGoes
    <3>2. "polled" \in Merger(cfg)!State /\ "merge" \in Merger(cfg)!State
      BY DEF Merger!State
    <3> QED
      BY <1>3, <3>1, <3>2 DEF Merger!PullAttempt
  <2>2. \E part \in SUBSET cfg.Input : local' = [local EXCEPT ![w] = local[w] \cup part]
    BY <1>0, <1>3 DEF Merger!PullAttempt
  <2> QED
    BY <1>0, <1>3, <2>1, <2>2 DEF Merger!PullAttempt, MergeType
<1>4. CASE Merger(cfg)!Pop(w)
  <2>1. PICK m \in cfg.Msg :
          /\ queue[m].state = "visible" /\ queue[m].receipt < cfg.MaxPops
          /\ queue' = [queue EXCEPT ![m] = [state |-> "hidden", receipt |-> @.receipt + 1]]
          /\ \/ held' = [held EXCEPT ![w] = m] /\ UNCHANGED pc
             \/ Merger(cfg)!OnError(w) /\ UNCHANGED held
    BY <1>4 DEF Merger!Pop
  <2>2. cfg.MaxPops \in Nat /\ queue[m].receipt \in 0..cfg.MaxPops
    BY <1>0 DEF Merger!MergeAssumption
  <2>3. queue[m].receipt + 1 \in 0..cfg.MaxPops
    BY <2>1, <2>2
  <2>4. /\ queue' \in [cfg.Msg -> [state : {"unsent", "visible", "hidden", "deleted"},
                               receipt : 0..cfg.MaxPops]]
        /\ \A n \in cfg.Msg : queue[n].state = "deleted" => queue'[n].state = "deleted"
    BY <1>0, <2>1, <2>3
  <2>5. \E s \in Merger(cfg)!State : pc' = [pc EXCEPT ![w] = s]
    BY <1>0, <1>e, <2>1, ErrorGoes
  <2> QED
    BY <1>0, <1>4, <2>1, <2>4, <2>5 DEF Merger!Pop, MergeType
<1>5. CASE Merger(cfg)!PopEmpty(w)
  BY <1>0, <1>5 DEF Merger!PopEmpty, MergeType, Merger!State
<1>6. CASE Merger(cfg)!Parse(w)
  BY <1>0, <1>6 DEF Merger!Parse, MergeType, Merger!State
<1>7. CASE Merger(cfg)!Download(w)
  <2>1. \E s \in Merger(cfg)!State : pc' = [pc EXCEPT ![w] = s]
    <3>1. "pull" \in Merger(cfg)!State /\ "merge" \in Merger(cfg)!State
      BY DEF Merger!State
    <3> QED
      BY <1>0, <1>e, <1>7, <3>1, ErrorGoes DEF Merger!Download
  <2>2. /\ \E part \in SUBSET cfg.Input : local' = [local EXCEPT ![w] = local[w] \cup part]
        /\ \E part \in SUBSET cfg.Input : tmp' = [tmp EXCEPT ![w] = tmp[w] \cup part]
    <3>1. /\ local = [local EXCEPT ![w] = local[w] \cup {}]
          /\ tmp = [tmp EXCEPT ![w] = tmp[w] \cup {}]
      BY <1>0
    <3>2. CASE Named(cfg, w) \in candidates /\ Merger(cfg)!Save(w, Named(cfg, w))
      <4>1. {Named(cfg, w)} \in SUBSET cfg.Input
        BY <1>0, <3>2
      <4> QED
        BY <3>1, <3>2, <4>1 DEF Merger!Save
    <3>3. CASE UNCHANGED <<local, tmp>>
      BY <3>1, <3>3
    <3> QED
      BY <1>7, <3>2, <3>3 DEF Merger!Download, Named
  <2> QED
    BY <1>0, <1>7, <2>1, <2>2 DEF Merger!Download, MergeType
<1>8. CASE Merger(cfg)!MergeLibFuzzer(w)
  <2>1. \E s \in Merger(cfg)!State : pc' = [pc EXCEPT ![w] = s]
    <3>1. ASSUME NEW add, Merger(cfg)!AfterMerge(w, add)
          PROVE  \E s \in Merger(cfg)!State : pc' = [pc EXCEPT ![w] = s]
      BY <3>1 DEF Merger!AfterMerge, Merger!State
    <3> QED
      BY <1>0, <1>e, <1>8, <3>1, ErrorGoes DEF Merger!MergeLibFuzzer, Merger!MergeError
  <2>2. \E part \in SUBSET cfg.Input : local' = [local EXCEPT ![w] = local[w] \cup part]
    <3>1. local = [local EXCEPT ![w] = local[w] \cup {}]
      BY <1>0
    <3> QED
      BY <1>0, <1>8, <3>1 DEF Merger!MergeLibFuzzer
  <2>3. printed \subseteq printed'
    BY <1>8 DEF Merger!MergeLibFuzzer
  <2> QED
    BY <1>0, <1>8, <2>1, <2>2, <2>3 DEF Merger!MergeLibFuzzer, MergeType
<1>9. CASE Merger(cfg)!MergeGeneric(w)
  <2>1. \E s \in Merger(cfg)!State : pc' = [pc EXCEPT ![w] = s]
    BY <1>9 DEF Merger!MergeGeneric, Merger!State
  <2>2. \E out \in SUBSET cfg.Input : tmp' = [tmp EXCEPT ![w] = out]
    <3>1. tmp = [tmp EXCEPT ![w] = tmp[w]]
      BY <1>0
    <3> QED
      BY <1>0, <1>9, <3>1 DEF Merger!MergeGeneric
  <2>3. UNCHANGED <<candidates, queue, remote, local, held, behind>> /\ printed \subseteq printed'
    BY <1>9 DEF Merger!MergeGeneric
  <2>4. /\ tmp' \in [cfg.Worker -> SUBSET cfg.Input]
        /\ \A v \in cfg.Worker \ {w} : tmp'[v] = tmp[v]
    BY <1>0, <2>2
  <2>5. /\ pc' \in [cfg.Worker -> Merger(cfg)!State]
        /\ \A v \in cfg.Worker \ {w} : pc'[v] = pc[v]
    BY <1>0, <2>1
  <2> QED
    BY <1>0, <2>3, <2>4, <2>5 DEF MergeType
<1>10. CASE Merger(cfg)!PushAttempt(w)
  <2>1. \E s \in Merger(cfg)!State : pc' = [pc EXCEPT ![w] = s]
    <3>1. ASSUME NEW c \in BOOLEAN, Merger(cfg)!AttemptFailed(w, c)
          PROVE  \E s \in Merger(cfg)!State : pc' = [pc EXCEPT ![w] = s]
      BY <1>0, <1>e, <3>1, AttemptGoes
    <3>2. "delete" \in Merger(cfg)!State /\ "done" \in Merger(cfg)!State
      BY DEF Merger!State
    <3> QED
      BY <1>10, <3>1, <3>2 DEF Merger!PushAttempt
  <2>2. Merger(cfg)!Pushed(w) \subseteq cfg.Input
    BY <1>0 DEF Merger!Pushed
  <2>3. remote' \subseteq cfg.Input
    BY <1>0, <1>10, <2>2 DEF Merger!PushAttempt
  <2> QED
    BY <1>0, <1>10, <2>1, <2>3 DEF Merger!PushAttempt, MergeType
<1>11. CASE Merger(cfg)!DeleteMessage(w)
  <2>1. \E s \in Merger(cfg)!State : pc' = [pc EXCEPT ![w] = s]
    <3>1. "delete_blob" \in Merger(cfg)!State
      BY DEF Merger!State
    <3> QED
      BY <1>0, <1>e, <1>11, <3>1, ErrorGoes DEF Merger!DeleteMessage
  <2>2. queue' = queue \/ queue' = [queue EXCEPT ![held[w]].state = "deleted"]
    BY <1>11 DEF Merger!DeleteMessage
  <2>3. /\ queue' \in [cfg.Msg -> [state : {"unsent", "visible", "hidden", "deleted"},
                               receipt : 0..cfg.MaxPops]]
        /\ \A n \in cfg.Msg : queue[n].state = "deleted" => queue'[n].state = "deleted"
    BY <1>0, <2>2
  <2> QED
    BY <1>0, <1>11, <2>1, <2>3 DEF Merger!DeleteMessage, MergeType
<1>12. CASE Merger(cfg)!DeleteBlob(w)
  <2>1. candidates' \subseteq cfg.Input
    BY <1>0, <1>12 DEF Merger!DeleteBlob
  <2> QED
    BY <1>0, <1>12, <2>1 DEF Merger!DeleteBlob, MergeType, Merger!State
<1> QED
  BY <1>1, <1>2, <1>3, <1>4, <1>5, <1>6, <1>7, <1>8, <1>9, <1>10, <1>11, <1>12
     DEF Merger!Step

\* A step of a node keeps what its own points promise, and the messages' blobs.
LEMMA QueueShapeKept ==
    ASSUME NEW cfg, Merger(cfg)!MergeAssumption, MergeType(cfg), cfg.QueueMode,
           NEW w \in cfg.Worker, Merger(cfg)!Step(w),
           \A v \in cfg.Worker : QueueShape(cfg, v)
    PROVE  \A v \in cfg.Worker : QueueShape(cfg, v)'
<1> USE DEF Merger!Goto, Merger!Set, Merger!store, Merger!local_vars, Merger!counters,
            Merger!history
<1>1. MergeEffect(cfg, w)
  BY MergeEffects
<1>2. ASSUME NEW v \in cfg.Worker \ {w} PROVE QueueShape(cfg, v)'
  BY <1>1, <1>2 DEF MergeEffect, QueueShape, Named
<1> SUFFICES QueueShape(cfg, w)'
  BY <1>2
<1>t. /\ held \in [cfg.Worker -> cfg.Msg \cup {None}]
      /\ pc \in [cfg.Worker -> Merger(cfg)!State]
      /\ local \in [cfg.Worker -> SUBSET cfg.Input] /\ tmp \in [cfg.Worker -> SUBSET cfg.Input]
  BY DEF MergeType
<1>k. /\ cfg.Kind \in {"generic", "libfuzzer"}
      /\ cfg.MsgInput \in [cfg.Msg -> cfg.Input \cup {BadUrl}]
  BY DEF Merger!MergeAssumption
<1>i. pc'[w] \in {"verify", "idle", "polled", "done", "failed"} => QueueShape(cfg, w)'
  BY DEF QueueShape
<1>e. Merger(cfg)!OnError(w) => QueueShape(cfg, w)'
  BY <1>i, ErrorGoes
<1>f. ASSUME Features(cfg, local[w]) \subseteq Features(cfg, local'[w]), UNCHANGED <<held,
                                                                                     tmp>>,
             pc'[w] = pc[w]
      PROVE  QueueShape(cfg, w)'
  BY <1>f, <1>1 DEF QueueShape, Named, MergeEffect
<1>g. Features(cfg, local[w]) \subseteq Features(cfg, local'[w])
  BY <1>1, FeatureFacts DEF MergeEffect
<1>3. CASE Merger(cfg)!Start(w)
  BY <1>3, <1>t, <1>i DEF Merger!Start
<1>4. CASE Merger(cfg)!Reset(w)
  <2>1. pc'[w] \in {"pull", "polled"} /\ (pc'[w] = "pull" => cfg.Kind = "generic")
    BY <1>4, <1>t DEF Merger!Reset
  <2> QED
    BY <2>1 DEF QueueShape
<1>5. CASE Merger(cfg)!PullAttempt(w)
  <2>1. UNCHANGED <<held, tmp>> /\ pc[w] = "pull"
    BY <1>5 DEF Merger!PullAttempt
  <2>2. ASSUME NEW c \in BOOLEAN, Merger(cfg)!AttemptFailed(w, c) PROVE QueueShape(cfg, w)'
    BY <2>1, <2>2, <1>i, <1>f, <1>g, AttemptGoes
  <2>3. CASE pc' = [pc EXCEPT ![w] = IF cfg.Kind = "generic" THEN "polled" ELSE "merge"]
    <3>1. CASE cfg.Kind = "generic"
      BY <2>3, <3>1, <1>t, <1>i
    <3>2. CASE cfg.Kind = "libfuzzer"
      <4>1. pc'[w] = "merge"
        BY <2>3, <3>2, <1>t
      <4> QED
        BY <2>1, <3>2, <4>1 DEF QueueShape, Named
    <3> QED
      BY <3>1, <3>2, <1>k
  <2> QED
    BY <1>5, <2>2, <2>3 DEF Merger!PullAttempt
<1>6. CASE Merger(cfg)!Pop(w)
  BY <1>6, <1>e, <1>i, <1>t DEF Merger!Pop
<1>7. CASE Merger(cfg)!PopEmpty(w)
  BY <1>7, <1>t, <1>i DEF Merger!PopEmpty
<1>8. CASE Merger(cfg)!Parse(w)
  <2>1. CASE pc'[w] \in {"done", "idle"}
    BY <2>1, <1>i
  <2>2. CASE pc'[w] = "parsed" /\ cfg.MsgInput[held[w]] # BadUrl
    <3>1. UNCHANGED held /\ held[w] # None
      BY <1>8 DEF Merger!Parse
    <3>2. held[w] \in cfg.Msg /\ Named(cfg, w) \in cfg.Input
      BY <3>1, <2>2, <1>t, <1>k DEF Named
    <3> QED
      BY <3>1, <3>2, <2>2 DEF QueueShape, Named
  <2> QED
    BY <1>8, <2>1, <2>2, <1>t DEF Merger!Parse
<1>9. CASE Merger(cfg)!Download(w)
  <2>1. CASE /\ Merger(cfg)!Save(w, Named(cfg, w))
             /\ pc' = [pc EXCEPT ![w] = IF cfg.Kind = "generic" THEN "merge" ELSE "pull"]
    <3>1. UNCHANGED held /\ pc[w] = "parsed"
      BY <1>9 DEF Merger!Download
    <3>2. held[w] \in cfg.Msg /\ Named(cfg, w) \in cfg.Input
      BY <3>1 DEF QueueShape
    <3>3. CASE cfg.Kind = "generic"
      <4>1. pc'[w] = "merge" /\ Named(cfg, w) \in local'[w]
        BY <2>1, <3>3, <1>t DEF Merger!Save
      <4> QED
        BY <3>1, <3>2, <3>3, <4>1 DEF QueueShape, Named
    <3>4. CASE cfg.Kind = "libfuzzer"
      <4>1. pc'[w] = "pull" /\ Named(cfg, w) \in tmp'[w]
        BY <2>1, <3>4, <1>t DEF Merger!Save
      <4> QED
        BY <3>1, <3>2, <3>4, <4>1 DEF QueueShape, Named
    <3> QED
      BY <3>3, <3>4, <1>k
  <2> QED
    BY <1>9, <1>e, <2>1 DEF Merger!Download, Named
<1>10. CASE Merger(cfg)!MergeLibFuzzer(w)
  <2>1. /\ UNCHANGED held /\ cfg.Kind = "libfuzzer" /\ held[w] \in cfg.Msg
        /\ Named(cfg, w) \in cfg.Input
        /\ Named(cfg, w) \in tmp[w]
    BY <1>10 DEF Merger!MergeLibFuzzer, QueueShape
  <2>2. ASSUME NEW add, Merger(cfg)!AfterMerge(w, add),
               \/ Named(cfg, w) \in printed'
               \/ cfg.Covers[Named(cfg, w)] \subseteq Features(cfg, local'[w])
        PROVE  QueueShape(cfg, w)'
    <3>1. pc'[w] \in {"push", "delete"}
      BY <2>2, <1>t DEF Merger!AfterMerge
    <3> QED
      BY <2>1, <2>2, <3>1 DEF QueueShape, Named
  <2>3. ASSUME NEW add \in SUBSET tmp[w],
               Features(cfg, local[w] \cup add) = Features(cfg, local[w] \cup tmp[w]),
               local' = [local EXCEPT ![w] = local[w] \cup add]
        PROVE  cfg.Covers[Named(cfg, w)] \subseteq Features(cfg, local'[w])
    <3>1. Named(cfg, w) \in local[w] \cup tmp[w] /\ local'[w] = local[w] \cup add
      BY <2>1, <2>3, <1>t
    <3> QED
      BY <2>3, <3>1, FeatureFacts
  <2>4. printed' = printed \cup tmp[w] => Named(cfg, w) \in printed'
    BY <2>1
  <2> QED
    BY <1>10, <1>e, <2>2, <2>3, <2>4 DEF Merger!MergeLibFuzzer, Merger!MergeError, Features
<1>11. CASE Merger(cfg)!MergeGeneric(w)
  <2>1. /\ UNCHANGED <<held, local>> /\ cfg.Kind = "generic" /\ held[w] \in cfg.Msg
        /\ Named(cfg, w) \in cfg.Input /\ Named(cfg, w) \in local[w]
    BY <1>11 DEF Merger!MergeGeneric, QueueShape
  <2>2. cfg.Covers[Named(cfg, w)] \subseteq Features(cfg, local'[w])
    BY <2>1, FeatureFacts
  <2>3. pc'[w] \in {"push", "delete"}
    BY <1>11, <1>t DEF Merger!MergeGeneric
  <2> QED
    BY <2>1, <2>2, <2>3 DEF QueueShape, Named
<1>12. CASE Merger(cfg)!PushAttempt(w)
  <2>1. UNCHANGED <<held, tmp, local, printed>> /\ pc[w] = "push"
    BY <1>12 DEF Merger!PushAttempt
  <2>2. ASSUME NEW c \in BOOLEAN, Merger(cfg)!AttemptFailed(w, c) PROVE QueueShape(cfg, w)'
    BY <2>1, <2>2, <1>i, <1>f, <1>g, AttemptGoes
  <2>3. CASE pc'[w] = "delete"
    BY <2>1, <2>3 DEF QueueShape, Named
  <2> QED
    BY <1>12, <1>t, <2>2, <2>3 DEF Merger!PushAttempt
<1>13. CASE Merger(cfg)!DeleteMessage(w)
  <2>1. UNCHANGED held /\ pc[w] = "delete"
    BY <1>13 DEF Merger!DeleteMessage
  <2>2. held[w] \in cfg.Msg /\ Named(cfg, w) \in cfg.Input
    BY <2>1 DEF QueueShape
  <2>3. CASE /\ queue' = [queue EXCEPT ![held[w]].state = "deleted"]
             /\ pc' = [pc EXCEPT ![w] = "delete_blob"]
    <3>1. queue'[held[w]].state = "deleted" /\ pc'[w] = "delete_blob"
      BY <2>2, <2>3 DEF MergeType
    <3> QED
      BY <2>1, <2>2, <3>1 DEF QueueShape, Named
  <2> QED
    BY <1>13, <1>e, <2>3 DEF Merger!DeleteMessage
<1>14. CASE Merger(cfg)!DeleteBlob(w)
  BY <1>14, <1>t, <1>i DEF Merger!DeleteBlob
<1> QED
  BY <1>3, <1>4, <1>5, <1>6, <1>7, <1>8, <1>9, <1>10, <1>11, <1>12, <1>13, <1>14
     DEF Merger!Step

\* With a queue, no step takes from the corpus and the copies that were left behind.
LEMMA StoredGrows ==
    ASSUME NEW cfg, Merger(cfg)!MergeAssumption, MergeType(cfg), cfg.QueueMode,
           NEW w \in cfg.Worker, Merger(cfg)!Step(w)
    PROVE  /\ Stored(cfg) \subseteq Stored(cfg)'
           /\ Features(cfg, Stored(cfg)) \subseteq Features(cfg, Stored(cfg))'
<1> USE DEF Merger!store, Merger!local_vars, Merger!history
<1>1. \A v \in cfg.Worker : local[v] \subseteq local'[v]
  BY MergeEffects DEF MergeEffect
<1>2. CASE Merger(cfg)!PushAttempt(w)
  <2>1. UNCHANGED local /\ remote \subseteq remote'
    BY <1>2 DEF Merger!PushAttempt, Merger!Doomed
  <2>2. ASSUME behind \subseteq behind' PROVE Stored(cfg) \subseteq Stored(cfg)'
    BY <2>1, <2>2 DEF Stored, Merger!LeftBehind
  <2>3. ASSUME behind' = behind \ {w},
               remote' = (remote \cup Merger(cfg)!Pushed(w)) \ Merger(cfg)!Doomed(w)
        PROVE  Stored(cfg) \subseteq Stored(cfg)'
    <3>1. cfg.Kind = "libfuzzer" => local[w] \subseteq remote'
      BY <2>3 DEF Merger!Pushed, Merger!Doomed
    <3> QED
      BY <2>1, <2>3, <3>1 DEF Stored, Merger!LeftBehind
  <2>4. Stored(cfg) \subseteq Stored(cfg)'
    BY <1>2, <2>2, <2>3 DEF Merger!PushAttempt
  <2> QED
    BY <2>4 DEF Features, Merger!CovOf
<1>3. CASE ~Merger(cfg)!PushAttempt(w)
  <2>1. UNCHANGED <<remote, behind>>
    BY <1>3 DEF Merger!Step, Merger!Start, Merger!Reset, Merger!PullAttempt, Merger!Pop,
                Merger!PopEmpty, Merger!Parse, Merger!Download, Merger!MergeLibFuzzer,
                Merger!MergeGeneric, Merger!DeleteMessage, Merger!DeleteBlob
  <2>2. Stored(cfg) \subseteq Stored(cfg)'
    BY <1>1, <2>1 DEF Stored, Merger!LeftBehind, MergeType
  <2> QED
    BY <2>2 DEF Features, Merger!CovOf
<1> QED
  BY <1>2, <1>3

\* A step keeps what the nodes have stored by the time they delete a message.
LEMMA KeptShapeKept ==
    ASSUME NEW cfg, Merger(cfg)!MergeAssumption, MergeType(cfg), cfg.QueueMode,
           NEW w \in cfg.Worker, Merger(cfg)!Step(w),
           \A v \in cfg.Worker : QueueShape(cfg, v) /\ KeptShape(cfg, v)
    PROVE  \A v \in cfg.Worker : KeptShape(cfg, v)'
<1> USE DEF Merger!Goto, Merger!Set, Merger!store, Merger!local_vars, Merger!counters,
            Merger!history
<1>1. MergeEffect(cfg, w)
  BY MergeEffects
<1>2. /\ Stored(cfg) \subseteq Stored(cfg)'
      /\ Features(cfg, Stored(cfg)) \subseteq Features(cfg, Stored(cfg))'
  BY StoredGrows
<1>3. ASSUME NEW v \in cfg.Worker \ {w} PROVE KeptShape(cfg, v)'
  <2>1. /\ pc'[v] = pc[v] /\ held'[v] = held[v] /\ tmp'[v] = tmp[v] /\ local'[v] = local[v]
        /\ printed \subseteq printed'
    BY <1>1, <1>3 DEF MergeEffect
  <2> QED
    BY <1>2, <2>1 DEF KeptShape, Named, Features, Merger!CovOf
<1> SUFFICES KeptShape(cfg, w)'
  BY <1>3
<1>t. /\ pc \in [cfg.Worker -> Merger(cfg)!State]
      /\ local \in [cfg.Worker -> SUBSET cfg.Input] /\ tmp \in [cfg.Worker -> SUBSET cfg.Input]
      /\ cfg.Kind \in {"generic", "libfuzzer"}
  BY DEF MergeType, Merger!MergeAssumption
<1>4. CASE cfg.Kind = "libfuzzer"
  <2> SUFFICES ASSUME pc'[w] # "push" PROVE local'[w] \subseteq Stored(cfg)'
    BY <1>4 DEF KeptShape
  <2>1. CASE pc[w] # "push" /\ local'[w] \subseteq local[w] \cup remote
    <3>1. local[w] \subseteq Stored(cfg)
      BY <1>4, <2>1 DEF KeptShape
    <3> QED
      BY <1>2, <2>1, <3>1 DEF Stored
  <2>2. CASE Merger(cfg)!PullAttempt(w)
    BY <1>t, <2>1, <2>2 DEF Merger!PullAttempt
  <2>3. CASE Merger(cfg)!MergeLibFuzzer(w)
    <3>1. ASSUME NEW add \in SUBSET tmp[w], local' = Merger(cfg)!Set(local, w, local[w] \cup add),
                 Merger(cfg)!AfterMerge(w, add)
          PROVE  local'[w] \subseteq local[w] \cup remote
      BY <1>t, <3>1 DEF Merger!AfterMerge
    <3> QED
      BY <1>t, <2>1, <2>3, <3>1 DEF Merger!MergeLibFuzzer
  <2>4. CASE Merger(cfg)!PushAttempt(w)
    <3>1. UNCHANGED local
      BY <2>4 DEF Merger!PushAttempt
    <3>2. CASE behind' = behind \cup {w}
      BY <1>4, <3>1, <3>2 DEF Stored, Merger!LeftBehind
    <3>3. CASE remote' = (remote \cup Merger(cfg)!Pushed(w)) \ Merger(cfg)!Doomed(w)
      BY <1>4, <3>1, <3>3 DEF Stored, Merger!Pushed, Merger!Doomed
    <3> QED
      BY <2>4, <3>2, <3>3 DEF Merger!PushAttempt
  <2>5. CASE Merger(cfg)!Download(w)
    <3>1. UNCHANGED local /\ pc[w] # "push"
      BY <1>4, <2>5 DEF Merger!Download, Merger!Save
    <3> QED
      BY <2>1, <3>1
  <2> QED
    BY <1>4, <2>1, <2>2, <2>3, <2>4, <2>5
       DEF Merger!Step, Merger!Start, Merger!Reset, Merger!Pop, Merger!PopEmpty,
           Merger!Parse, Merger!MergeGeneric, Merger!DeleteMessage, Merger!DeleteBlob
<1>5. CASE cfg.Kind = "generic"
  <2>e. ASSUME pc'[w] \notin {"push", "delete"} PROVE KeptShape(cfg, w)'
    BY <1>5, <2>e DEF KeptShape
  <2>1. CASE Merger(cfg)!MergeGeneric(w)
    <3>1. Named(cfg, w) \in local[w] /\ UNCHANGED <<held, local>>
      BY <1>5, <2>1 DEF Merger!MergeGeneric, QueueShape
    <3>2. CASE \E out \in SUBSET local[w] :
                 /\ Features(cfg, out) = Features(cfg, local[w])
                 /\ tmp' = [tmp EXCEPT ![w] = out] /\ pc' = [pc EXCEPT ![w] = "push"]
      <4>1. cfg.Covers[Named(cfg, w)] \subseteq Features(cfg, tmp'[w])
        BY <1>t, <3>1, <3>2, FeatureFacts
      <4>2. pc'[w] = "push"
        BY <1>t, <3>2
      <4> QED
        BY <1>5, <3>1, <4>1, <4>2 DEF KeptShape, Named, Features, Merger!CovOf
    <3>3. CASE printed' = printed \cup {Named(cfg, w)}
      BY <1>5, <3>1, <3>3 DEF KeptShape, Named
    <3> QED
      BY <2>1, <3>2, <3>3 DEF Merger!MergeGeneric, Features, Named
  <2>2. CASE Merger(cfg)!PushAttempt(w)
    <3>1. UNCHANGED <<held, tmp, printed>> /\ pc[w] = "push"
      BY <2>2 DEF Merger!PushAttempt
    <3>2. \/ Named(cfg, w) \in printed
          \/ cfg.Covers[Named(cfg, w)] \subseteq Features(cfg, tmp[w])
      BY <1>5, <3>1 DEF KeptShape
    <3>3. ASSUME NEW c \in BOOLEAN, Merger(cfg)!AttemptFailed(w, c) PROVE KeptShape(cfg, w)'
      <4>1. pc'[w] \in {"push", "idle", "failed"}
        BY <3>1, <3>3, AttemptGoes
      <4> QED
        BY <1>5, <3>1, <3>2, <4>1 DEF KeptShape, Named, Features, Merger!CovOf
    <3>4. CASE remote' = (remote \cup Merger(cfg)!Pushed(w)) \ Merger(cfg)!Doomed(w)
               /\ pc' = [pc EXCEPT ![w] = IF cfg.QueueMode THEN "delete" ELSE "done"]
      <4>1. tmp[w] \subseteq Stored(cfg)' /\ pc'[w] = "delete"
        BY <1>5, <1>t, <3>4 DEF Stored, Merger!Pushed, Merger!Doomed
      <4>2. Features(cfg, tmp[w]) \subseteq Features(cfg, Stored(cfg))'
        BY <4>1 DEF Features, Merger!CovOf
      <4> QED
        BY <1>5, <3>1, <3>2, <4>1, <4>2 DEF KeptShape, Named
    <3> QED
      BY <2>2, <3>3, <3>4 DEF Merger!PushAttempt
  <2>3. ASSUME ~Merger(cfg)!MergeGeneric(w), ~Merger(cfg)!PushAttempt(w)
        PROVE  pc'[w] \notin {"push", "delete"}
    <3>1. ASSUME Merger(cfg)!OnError(w) PROVE pc'[w] \notin {"push", "delete"}
      BY <3>1, ErrorGoes
    <3>2. CASE Merger(cfg)!PullAttempt(w)
      <4>1. ASSUME NEW c \in BOOLEAN, Merger(cfg)!AttemptFailed(w, c)
            PROVE  pc'[w] \notin {"push", "delete"}
        BY <3>2, <4>1, AttemptGoes DEF Merger!PullAttempt
      <4> QED
        BY <1>5, <1>t, <3>2, <4>1 DEF Merger!PullAttempt
    <3>3. CASE Merger(cfg)!Pop(w)
      BY <1>t, <3>1, <3>3 DEF Merger!Pop
    <3>4. CASE Merger(cfg)!Download(w) \/ Merger(cfg)!DeleteMessage(w)
      BY <1>5, <1>t, <3>1, <3>4 DEF Merger!Download, Merger!DeleteMessage
    <3>5. CASE \/ Merger(cfg)!Start(w) \/ Merger(cfg)!Reset(w) \/ Merger(cfg)!PopEmpty(w)
               \/ Merger(cfg)!Parse(w) \/ Merger(cfg)!DeleteBlob(w)
      BY <1>5, <1>t, <3>5 DEF Merger!Start, Merger!Reset, Merger!PopEmpty, Merger!Parse,
                              Merger!DeleteBlob
    <3> QED
      BY <1>5, <2>3, <3>2, <3>3, <3>4, <3>5 DEF Merger!Step, Merger!MergeLibFuzzer
  <2> QED
    BY <2>e, <2>1, <2>2, <2>3
<1> QED
  BY <1>t, <1>4, <1>5

\* The three steps that a batch takes, and where each ends.
BatchOutcome(cfg, w) ==
    \/ /\ pc[w] = "verify" /\ pc'[w] \in {"merge", "failed"}
       /\ UNCHANGED <<remote, printed, local>>
    \/ /\ pc[w] = "merge" /\ UNCHANGED <<remote, tmp>>
       /\ \/ pc'[w] = "push" /\ Features(cfg, tmp[w]) \subseteq Features(cfg, local'[w])
          \/ pc'[w] = "done" /\ (Features(cfg, tmp[w]) = {} \/ tmp[w] \subseteq printed')
          \/ pc'[w] = "failed"
    \/ /\ pc[w] = "push" /\ UNCHANGED <<tmp, local, printed>>
       /\ \/ pc'[w] = "done" /\ local[w] \subseteq remote'
          \/ pc'[w] \in {"push", "failed"}

\* A batch goes from the start through one merge to one push.
LEMMA BatchOutcomes ==
    ASSUME NEW cfg, Merger(cfg)!MergeAssumption, MergeType(cfg), ~cfg.QueueMode,
           NEW w \in cfg.Worker,
           Merger(cfg)!Step(w), BatchShape(cfg, w)
    PROVE  BatchOutcome(cfg, w)
<1> USE DEF Merger!Goto, Merger!Set, Merger!store, Merger!local_vars, Merger!counters,
            Merger!history
<1>1. /\ cfg.Kind = "libfuzzer"
      /\ pc[w] \notin {"idle", "pull", "polled", "parsed", "delete", "delete_blob"}
  BY DEF Merger!MergeAssumption, BatchShape
<1>2. Merger(cfg)!Start(w) \/ Merger(cfg)!MergeLibFuzzer(w) \/ Merger(cfg)!PushAttempt(w)
  BY <1>1 DEF Merger!Step, Merger!Reset, Merger!PullAttempt, Merger!Pop, Merger!PopEmpty,
              Merger!Parse, Merger!Download, Merger!MergeGeneric, Merger!DeleteMessage,
              Merger!DeleteBlob
<1>3. CASE Merger(cfg)!Start(w)
  BY <1>3 DEF Merger!Start, BatchOutcome, MergeType
<1>4. CASE Merger(cfg)!MergeLibFuzzer(w)
  <2>1. pc[w] = "merge" /\ UNCHANGED <<remote, tmp>> /\ local[w] = {}
    BY <1>4 DEF Merger!MergeLibFuzzer, BatchShape
  <2>2. ASSUME NEW add \in SUBSET tmp[w],
               Features(cfg, local[w] \cup add) = Features(cfg, local[w] \cup tmp[w]),
               local' = [local EXCEPT ![w] = local[w] \cup add], Merger(cfg)!AfterMerge(w, add)
        PROVE  BatchOutcome(cfg, w)
    <3>1. local'[w] = add /\ Features(cfg, add) = Features(cfg, tmp[w])
      BY <2>1, <2>2 DEF MergeType
    <3>2. pc'[w] = IF add # {} THEN "push" ELSE "done"
      BY <2>2 DEF Merger!AfterMerge, MergeType
    <3> QED
      BY <2>1, <3>1, <3>2, FeatureFacts DEF BatchOutcome
  <2>3. ASSUME Merger(cfg)!AfterMerge(w, {}), printed' = printed \cup tmp[w]
        PROVE  BatchOutcome(cfg, w)
    BY <2>1, <2>3 DEF Merger!AfterMerge, BatchOutcome, MergeType
  <2>4. ASSUME Merger(cfg)!OnError(w) PROVE BatchOutcome(cfg, w)
    BY <2>1, <2>4, ErrorGoes DEF BatchOutcome
  <2> QED
    BY <1>4, <2>2, <2>3, <2>4 DEF Merger!MergeLibFuzzer, Merger!MergeError, Features
<1>5. CASE Merger(cfg)!PushAttempt(w)
  <2>1. pc[w] = "push" /\ UNCHANGED <<tmp, local, printed>>
    BY <1>5 DEF Merger!PushAttempt
  <2>2. ASSUME NEW c \in BOOLEAN, Merger(cfg)!AttemptFailed(w, c) PROVE BatchOutcome(cfg, w)
    BY <2>1, <2>2, AttemptGoes DEF BatchOutcome
  <2>3. CASE /\ remote' = (remote \cup Merger(cfg)!Pushed(w)) \ Merger(cfg)!Doomed(w)
             /\ pc' = [pc EXCEPT ![w] = IF cfg.QueueMode THEN "delete" ELSE "done"]
    <3>1. local[w] \subseteq remote'
      BY <1>1, <2>3 DEF Merger!Pushed, Merger!Doomed
    <3>2. pc'[w] = "done"
      BY <2>3 DEF MergeType
    <3> QED
      BY <2>1, <3>1, <3>2 DEF BatchOutcome
  <2> QED
    BY <1>5, <2>2, <2>3 DEF Merger!PushAttempt
<1> QED
  BY <1>2, <1>3, <1>4, <1>5

\* A step of a batch keeps its shape, and the corpus of those that have ended.
LEMMA BatchKeeps ==
    ASSUME NEW cfg, Merger(cfg)!MergeAssumption, MergeType(cfg), ~cfg.QueueMode,
           NEW w \in cfg.Worker,
           Merger(cfg)!Step(w), \A v \in cfg.Worker : BatchShape(cfg, v), BatchKept(cfg)
    PROVE  (\A v \in cfg.Worker : BatchShape(cfg, v)') /\ BatchKept(cfg)'
<1>1. MergeEffect(cfg, w) /\ BatchOutcome(cfg, w)
  BY MergeEffects, BatchOutcomes
<1>2. \A v \in cfg.Worker \ {w} : BatchShape(cfg, v)'
  BY <1>1 DEF MergeEffect, BatchShape
<1>3. BatchShape(cfg, w)'
  BY <1>1 DEF BatchOutcome, BatchShape
<1>4. BatchKept(cfg)'
  <2> SUFFICES ASSUME NEW u \in cfg.Worker, pc'[u] = "done", tmp'[u] \cap printed' = {}
               PROVE  \/ Features(cfg, tmp'[u]) \subseteq Features(cfg, remote')
                      \/ \E v \in cfg.Worker : pc'[v] \in {"push", "failed"}
                      \/ \E v \in cfg.Worker : pc'[v] = "done" /\ tmp'[v] # tmp'[u]
    BY DEF BatchKept, Features, Merger!CovOf
  <2>1. CASE pc'[w] \in {"push", "failed"}
    BY <2>1
  <2>2. CASE pc[w] = "push" /\ pc'[w] = "done" /\ local[w] \subseteq remote' /\ UNCHANGED tmp
    <3>1. Features(cfg, tmp[w]) \subseteq Features(cfg, remote')
      BY <2>2, FeatureFacts DEF BatchShape
    <3> QED
      BY <2>2, <3>1
  <2>3. CASE pc[w] \in {"verify", "merge"} /\ pc'[w] \notin {"push", "failed"}
    <3>1. UNCHANGED remote /\ printed \subseteq printed'
      BY <2>3, <1>1 DEF BatchOutcome, MergeEffect
    <3>2. CASE u = w
      <4>1. Features(cfg, tmp'[u]) = {} \/ tmp'[u] = {}
        BY <2>3, <3>2, <1>1 DEF BatchOutcome
      <4> QED
        BY <4>1, FeatureFacts
    <3>3. CASE u # w
      <4>1. pc[u] = "done" /\ tmp'[u] = tmp[u] /\ tmp[u] \cap printed = {}
        BY <3>1, <3>3, <1>1 DEF MergeEffect
      <4>2. \A v \in cfg.Worker : pc[v] \in {"push", "failed", "done"} =>
                                pc'[v] = pc[v] /\ tmp'[v] = tmp[v]
        BY <2>3, <1>1 DEF MergeEffect
      <4> QED
        BY <3>1, <4>1, <4>2 DEF BatchKept
    <3> QED
      BY <3>2, <3>3
  <2> QED
    BY <1>1, <2>1, <2>2, <2>3 DEF BatchOutcome
<1> QED
  BY <1>2, <1>3, <1>4

\* The invariant holds initially.
LEMMA MergeInit ==
    ASSUME NEW cfg, Merger(cfg)!MergeAssumption, Merger(cfg)!Init
    PROVE  MergeInv(cfg)
BY DEF Merger!MergeAssumption, Merger!Init, MergeInv, MergeType, Merger!State, MergeShape,
       QueueShape, KeptShape, BatchShape, MergedKept, BatchKept, Merger!MessageHasBlob

\* Every step of the nodes and of the queue keeps the invariant.
LEMMA MergeStep ==
    ASSUME NEW cfg, Merger(cfg)!MergeAssumption, MergeInv(cfg),
           [Merger(cfg)!Next]_(Merger(cfg)!vars)
    PROVE  MergeInv(cfg)'
<1> USE DEF Merger!store, Merger!local_vars, Merger!counters, Merger!history
<1>0. /\ MergeType(cfg) /\ MergeShape(cfg) /\ MergedKept(cfg) /\ BatchKept(cfg)
      /\ Merger(cfg)!MessageHasBlob
  BY DEF MergeInv
<1>1. CASE UNCHANGED Merger(cfg)!vars
  <2>1. UNCHANGED <<candidates, queue, remote, local, tmp, held, receipt, pc, attempts,
                    failures, printed, merged, behind>>
    BY <1>1 DEF Merger!vars
  <2>2. MergeType(cfg)' /\ Merger(cfg)!MessageHasBlob'
    BY <1>0, <2>1 DEF MergeType, Merger!State, Merger!MessageHasBlob
  <2>3. MergeShape(cfg)'
    BY <1>0, <2>1 DEF MergeShape, QueueShape, BatchShape, Named, Features, Merger!CovOf
  <2>4. MergedKept(cfg)' /\ BatchKept(cfg)'
    BY <1>0, <2>1 DEF MergedKept, KeptShape, BatchKept, Stored, Merger!LeftBehind, Named,
                      Features, Merger!CovOf
  <2> QED
    BY <2>2, <2>3, <2>4 DEF MergeInv
<1>2. ASSUME UNCHANGED <<remote, local, tmp, held, pc, printed, merged, behind>>,
             MergeType(cfg)',
             \A m \in cfg.Msg : queue[m].state = "deleted" => queue'[m].state = "deleted",
             Merger(cfg)!MessageHasBlob'
      PROVE  MergeInv(cfg)'
  <2>1. MergeShape(cfg)'
    BY <1>0, <1>2 DEF MergeShape, QueueShape, BatchShape, Named, Features, Merger!CovOf
  <2>2. MergedKept(cfg)' /\ BatchKept(cfg)'
    BY <1>0, <1>2 DEF MergedKept, KeptShape, BatchKept, Stored, Merger!LeftBehind, Named,
                      Features, Merger!CovOf
  <2> QED
    BY <1>2, <2>1, <2>2 DEF MergeInv
<1>3. ASSUME NEW i \in cfg.Input, Merger(cfg)!Found(i) PROVE MergeInv(cfg)'
  BY <1>0, <1>2, <1>3 DEF Merger!Found, MergeType, Merger!MessageHasBlob
<1>4. ASSUME NEW m \in cfg.Msg,
             Merger(cfg)!Announce(m) \/ Merger(cfg)!Expire(m) PROVE MergeInv(cfg)'
  <2>1. /\ UNCHANGED <<candidates, remote, local, tmp, held, pc, printed, merged, behind>>
        /\ queue' = [queue EXCEPT ![m].state = "visible"] /\ queue[m].state # "deleted"
        /\ cfg.MsgInput[m] \in candidates \cup {BadUrl}
    BY <1>0, <1>4 DEF Merger!Announce, Merger!Expire, Merger!MessageHasBlob
  <2>2. MergeType(cfg)' /\ \A n \in cfg.Msg : n # m => queue'[n] = queue[n]
    BY <1>0, <2>1 DEF MergeType
  <2>3. Merger(cfg)!MessageHasBlob'
    BY <1>0, <2>1, <2>2 DEF Merger!MessageHasBlob
  <2> QED
    BY <1>2, <2>1, <2>2, <2>3
<1>5. ASSUME NEW w \in cfg.Worker, Merger(cfg)!Step(w) PROVE MergeInv(cfg)'
  <2>1. MergeEffect(cfg, w)
    BY <1>0, <1>5, MergeEffects
  <2>2. MergeShape(cfg)' /\ BatchKept(cfg)'
    <3>1. CASE cfg.QueueMode
      BY <1>0, <1>5, <3>1, QueueShapeKept DEF MergeShape, BatchKept
    <3>2. CASE ~cfg.QueueMode
      BY <1>0, <1>5, <3>2, BatchKeeps DEF MergeShape
    <3> QED
      BY <3>1, <3>2
  <2>3. MergedKept(cfg)'
    <3> SUFFICES ASSUME cfg.QueueMode, NEW i \in merged' \ printed'
                 PROVE  cfg.Covers[i] \subseteq Features(cfg, Stored(cfg))'
      <4>1. cfg.QueueMode => \A v \in cfg.Worker : KeptShape(cfg, v)'
        BY <1>0, <1>5, KeptShapeKept DEF MergedKept, MergeShape
      <4> QED
        BY <4>1 DEF MergedKept, Features, Merger!CovOf
    <3>1. Features(cfg, Stored(cfg)) \subseteq Features(cfg, Stored(cfg))'
      BY <1>0, <1>5, StoredGrows
    <3>2. merged' = merged \/ (pc[w] = "delete" /\ merged' = merged \cup {Named(cfg, w)})
      BY <1>5 DEF Merger!Step, Merger!Start, Merger!Reset, Merger!PullAttempt, Merger!Pop,
                  Merger!PopEmpty, Merger!Parse, Merger!Download, Merger!MergeLibFuzzer,
                  Merger!MergeGeneric, Merger!PushAttempt, Merger!DeleteMessage,
                  Merger!DeleteBlob, Named
    <3>3. CASE i \in merged
      BY <1>0, <2>1, <3>1, <3>3 DEF MergedKept, MergeEffect
    <3>4. CASE pc[w] = "delete" /\ i = Named(cfg, w)
      <4>1. cfg.Kind = "libfuzzer" => Features(cfg, local[w]) \subseteq Features(cfg, Stored(cfg))
        BY <1>0, <3>4, FeatureFacts DEF MergedKept, KeptShape
      <4>2. i \notin printed
        BY <2>1 DEF MergeEffect
      <4>3. cfg.Covers[i] \subseteq Features(cfg, Stored(cfg))
        BY <1>0, <3>4, <4>1, <4>2
           DEF MergeShape, QueueShape, MergedKept, KeptShape, Merger!MergeAssumption
      <4> QED
        BY <3>1, <4>3
    <3> QED
      BY <3>2, <3>3, <3>4
  <2>4. Merger(cfg)!MessageHasBlob'
    <3>1. CASE Merger(cfg)!DeleteBlob(w)
      <4>1. /\ pc[w] = "delete_blob" /\ UNCHANGED queue
            /\ candidates \ {Named(cfg, w)} \subseteq candidates'
        BY <3>1 DEF Merger!DeleteBlob, Named
      <4>2. held[w] \in cfg.Msg /\ queue[held[w]].state = "deleted"
        BY <1>0, <4>1 DEF MergeShape, QueueShape, BatchShape, Merger!MergeAssumption
      <4>3. ASSUME NEW m \in cfg.Msg, queue[m].state \in {"visible", "hidden"},
                   cfg.MsgInput[m] # BadUrl
            PROVE  cfg.MsgInput[m] \in candidates'
        <5>1. m # held[w] /\ cfg.MsgInput[m] \in candidates
          BY <1>0, <4>2, <4>3 DEF Merger!MessageHasBlob
        <5>2. cfg.MsgInput[m] # Named(cfg, w)
          BY <4>2, <4>3, <5>1 DEF Merger!MergeAssumption, Named
        <5> QED
          BY <4>1, <5>1, <5>2
      <4> QED
        BY <4>1, <4>3 DEF Merger!MessageHasBlob
    <3>2. CASE ~Merger(cfg)!DeleteBlob(w)
      <4>1. UNCHANGED candidates
        BY <1>5, <3>2 DEF Merger!Step, Merger!Start, Merger!Reset, Merger!PullAttempt,
              Merger!Pop, Merger!PopEmpty, Merger!Parse, Merger!Download,
              Merger!MergeLibFuzzer, Merger!MergeGeneric, Merger!PushAttempt,
              Merger!DeleteMessage
      <4>2. \/ UNCHANGED queue
            \/ queue' = [queue EXCEPT ![held[w]].state = "deleted"]
            \/ \E m \in cfg.Msg :
                 /\ queue[m].state = "visible"
                 /\ queue' = [queue EXCEPT ![m] = [state |-> "hidden",
                                                   receipt |-> @.receipt + 1]]
        BY <1>5, <3>2 DEF Merger!Step, Merger!Start, Merger!Reset, Merger!PullAttempt,
              Merger!Pop, Merger!PopEmpty, Merger!Parse, Merger!Download,
              Merger!MergeLibFuzzer, Merger!MergeGeneric, Merger!PushAttempt,
              Merger!DeleteMessage
      <4>3. \A m \in cfg.Msg : queue'[m].state \in {"visible", "hidden"} =>
                             queue[m].state \in {"visible", "hidden"}
        BY <1>0, <4>2 DEF MergeType
      <4> QED
        BY <1>0, <4>1, <4>3 DEF Merger!MessageHasBlob
    <3> QED
      BY <3>1, <3>2
  <2> QED
    BY <2>1, <2>2, <2>3, <2>4 DEF MergeInv, MergeEffect
<1> QED
  BY <1>1, <1>3, <1>4, <1>5 DEF Merger!Next

\* With a queue, the features of a candidate whose message was deleted are in the corpus,
\* or in the copy of a libFuzzer node whose push failed, unless its merge printed no
\* result; a message that may still be popped names a blob that is there; and a batch merge of the
\* same inputs by nodes that all end well leaves a corpus that covers them, although each
\* push deletes what the others pushed (sync_and_merge, process_message, az_copy).
LEMMA MergeKeepsFeatures ==
    ASSUME NEW cfg, MergeInv(cfg)
    PROVE  Merger(cfg)!AcknowledgedIsStored /\ Merger(cfg)!ExistingHandled
<1>1. Merger(cfg)!NothingForgotten
  BY DEF MergeInv, MergedKept, Stored, Merger!NothingForgotten, Features
<1>2. Merger(cfg)!ExistingHandled
  BY DEF MergeInv, BatchKept, Merger!ExistingHandled, Features
<1> QED
  BY <1>1, <1>2 DEF MergeInv, Merger!AcknowledgedIsStored

\* With a queue, or when existing outputs are preserved, no push takes an input away from
\* the corpus, though nodes push at the same time and some from stale copies.
LEMMA MergeKeepsCorpus ==
    ASSUME NEW cfg, [Merger(cfg)!Next]_(Merger(cfg)!vars)
    PROVE  Merger(cfg)!StoredStays
<1>1. UNCHANGED remote \/ \E w \in cfg.Worker : Merger(cfg)!PushAttempt(w)
  BY DEF Merger!vars, Merger!Next, Merger!Found, Merger!Announce, Merger!Expire,
         Merger!Step, Merger!Start, Merger!Reset, Merger!PullAttempt, Merger!Pop,
         Merger!PopEmpty,
         Merger!Parse, Merger!Download, Merger!MergeLibFuzzer, Merger!MergeGeneric,
         Merger!DeleteMessage, Merger!DeleteBlob
<1>2. ASSUME NEW w \in cfg.Worker, Merger(cfg)!PushAttempt(w)
      PROVE  Merger(cfg)!StoredStays
  <2>1. cfg.QueueMode \/ cfg.Preserve => Merger(cfg)!Doomed(w) = {}
    BY DEF Merger!Doomed
  <2> QED
    BY <1>2, <2>1 DEF Merger!PushAttempt, Merger!StoredStays
<1> QED
  BY <1>1, <1>2 DEF Merger!StoredStays

----------------------------------------------------------------------------
(* The analysis task.  What run_existing has read is analysed and pushed   *)
(* before the node polls, so that a message about one of those inputs may  *)
(* be deleted unread; any other is deleted after a push of its own output. *)

AnalysisType(cfg) ==
    /\ queue \in [cfg.Msg -> [state : {"unsent", "visible", "hidden", "deleted"},
                          receipt : 0..cfg.MaxPops]]
    /\ pc \in [cfg.Worker -> Analyze(cfg)!State] /\ held \in [cfg.Worker -> cfg.Msg \cup {None}]
    /\ input \in [cfg.Worker -> cfg.Input \cup {None}]
    /\ existing \in [cfg.Worker -> SUBSET cfg.Input]
    /\ todo \in [cfg.Worker -> SUBSET cfg.Input]
    /\ outputs \in [cfg.Worker -> SUBSET cfg.Input]
    /\ events \in [cfg.Worker -> SUBSET cfg.Input] /\ seen \in [cfg.Worker -> SUBSET cfg.Input]
    /\ crashes \subseteq cfg.Input

\* The points of run_existing; the analyzer runs there without a message.
InBatch(w) ==
    \/ pc[w] \in {"existing", "push_every", "push_existing"}
    \/ pc[w] \in {"run", "running"} /\ held[w] = None

\* The points of poll_inputs.
InPoll(w) ==
    \/ pc[w] \in {"poll", "polled", "push", "delete"}
    \/ pc[w] \in {"run", "running"} /\ held[w] # None

\* A node carries its message with its input; what it has read of the existing files is
\* in its output directory, all of it once it pushes for the last time, and pushed when it
\* polls; the output for a message is on disk before the push and pushed before the delete.
AnalysisShape(cfg, w) ==
    /\ pc[w] \in {"start", "existing", "push_every", "push_existing"} => held[w] = None
    /\ pc[w] \in {"polled", "push", "delete"} => held[w] \in cfg.Msg
    /\ pc[w] \in {"run", "running"} => input[w] \in cfg.Input
    /\ InPoll(w) /\ pc[w] # "poll" => input[w] = cfg.MsgInput[held[w]]
    /\ InBatch(w) => existing[w] \subseteq outputs[w] \cup todo[w] \cup {input[w]}
    /\ pc[w] \in {"existing", "push_every", "push_existing"} =>
         existing[w] \subseteq outputs[w] \cup todo[w]
    /\ pc[w] = "push_existing" => todo[w] = {}
    /\ InPoll(w) => existing[w] \subseteq analysis
    /\ pc[w] = "push" => input[w] \in outputs[w]
    /\ pc[w] = "delete" => input[w] \in analysis
    /\ ~cfg.HasCrashes => existing[w] = {}

AnalysisInv(cfg) ==
    /\ AnalysisType(cfg) /\ \A w \in cfg.Worker : AnalysisShape(cfg, w)
    /\ Analyze(cfg)!AcknowledgedIsStored /\ Analyze(cfg)!WatchedReportSaved

\* What a step of one node may change: its own state, and nothing is taken from the
\* container; a message is deleted only by the node that holds it.
AnalysisEffect(cfg, w) ==
    /\ AnalysisType(cfg)'
    /\ \A v \in cfg.Worker \ {w} :
         /\ pc'[v] = pc[v] /\ held'[v] = held[v] /\ input'[v] = input[v]
         /\ existing'[v] = existing[v] /\ todo'[v] = todo[v] /\ outputs'[v] = outputs[v]
         /\ events'[v] = events[v] /\ seen'[v] = seen[v]
    /\ analysis \subseteq analysis' /\ saved \subseteq saved'
    /\ \A m \in cfg.Msg : queue'[m].state = "deleted" =>
         queue[m].state = "deleted" \/ (pc[w] = "delete" /\ m = held[w])

\* The effect of a step, action by action.
LEMMA AnalysisEffects ==
    ASSUME NEW cfg, Analyze(cfg)!AnalysisAssumption, AnalysisType(cfg), NEW w \in cfg.Worker,
           Analyze(cfg)!Step(w),
           AnalysisShape(cfg, w)
    PROVE  AnalysisEffect(cfg, w)
<1> USE DEF AnalysisEffect, Analyze!Goto, Analyze!Fail, Analyze!server, Analyze!monitor
<1>0. /\ queue \in [cfg.Msg -> [state : {"unsent", "visible", "hidden", "deleted"},
                            receipt : 0..cfg.MaxPops]]
      /\ pc \in [cfg.Worker -> Analyze(cfg)!State]
      /\ held \in [cfg.Worker -> cfg.Msg \cup {None}]
      /\ input \in [cfg.Worker -> cfg.Input \cup {None}]
      /\ existing \in [cfg.Worker -> SUBSET cfg.Input]
      /\ todo \in [cfg.Worker -> SUBSET cfg.Input]
      /\ outputs \in [cfg.Worker -> SUBSET cfg.Input]
      /\ events \in [cfg.Worker -> SUBSET cfg.Input]
      /\ seen \in [cfg.Worker -> SUBSET cfg.Input]
      /\ crashes \subseteq cfg.Input
  BY DEF AnalysisType
<1>s. {"start", "existing", "push_every", "push_existing", "poll", "polled", "run",
       "running", "push", "delete", "failed"} = Analyze(cfg)!State
  BY DEF Analyze!State
<1>1. CASE Analyze(cfg)!Start(w)
  <2>1. \E s \in Analyze(cfg)!State : pc' = [pc EXCEPT ![w] = s]
    BY <1>s, <1>1 DEF Analyze!Start
  <2>2. /\ \E s \in SUBSET cfg.Input : existing' = [existing EXCEPT ![w] = s]
        /\ \E s \in SUBSET cfg.Input : todo' = [todo EXCEPT ![w] = s]
    <3>1. /\ existing = [existing EXCEPT ![w] = existing[w]]
          /\ todo = [todo EXCEPT ![w] = todo[w]]
      BY <1>0
    <3> QED
      BY <1>0, <1>1, <3>1 DEF Analyze!Start
  <2>3. /\ \E s \in SUBSET cfg.Input : events' = [events EXCEPT ![w] = s]
        /\ UNCHANGED <<crashes, queue, analysis, saved, held, input, outputs, seen>>
    <3>1. events = [events EXCEPT ![w] = events[w]]
      BY <1>0
    <3> QED
      BY <1>0, <1>1, <3>1 DEF Analyze!Start
  <2> QED
    BY <1>0, <2>1, <2>2, <2>3 DEF AnalysisType
<1>2. CASE Analyze(cfg)!NextExisting(w)
  BY <1>0, <1>s, <1>2 DEF Analyze!NextExisting, Analyze!AfterExisting, AnalysisType
<1>3. CASE Analyze(cfg)!RunTool(w)
  <2>1. input[w] \in cfg.Input
    BY <1>3 DEF Analyze!RunTool, AnalysisShape
  <2>2. /\ \E s \in SUBSET cfg.Input : events' = [events EXCEPT ![w] = s]
        /\ \E s \in SUBSET cfg.Input : seen' = [seen EXCEPT ![w] = s]
    <3>1. events = [events EXCEPT ![w] = events[w]] /\ seen = [seen EXCEPT ![w] = seen[w]]
      BY <1>0
    <3> QED
      BY <1>0, <1>3, <2>1, <3>1 DEF Analyze!RunTool, Analyze!CreateReport
  <2>3. /\ \E s \in Analyze(cfg)!State : pc' = [pc EXCEPT ![w] = s]
        /\ UNCHANGED <<crashes, queue, analysis, saved, held, input, existing, todo, outputs>>
    BY <1>s, <1>3 DEF Analyze!RunTool
  <2> QED
    BY <1>0, <2>2, <2>3 DEF AnalysisType
<1>4. CASE Analyze(cfg)!ToolEnds(w)
  <2>1. input[w] \in cfg.Input
    BY <1>4 DEF Analyze!ToolEnds, AnalysisShape
  <2>2. /\ \E s \in Analyze(cfg)!State : pc' = [pc EXCEPT ![w] = s]
        /\ UNCHANGED <<crashes, queue, analysis, saved, held, input, existing, todo, seen>>
    BY <1>s, <1>4 DEF Analyze!ToolEnds, Analyze!AfterTool
  <2>3. /\ \E s \in SUBSET cfg.Input : outputs' = [outputs EXCEPT ![w] = s]
        /\ \E s \in SUBSET cfg.Input : events' = [events EXCEPT ![w] = s]
    <3>1. /\ events = [events EXCEPT ![w] = events[w]]
          /\ outputs = [outputs EXCEPT ![w] = outputs[w]]
      BY <1>0
    <3> QED
      BY <1>0, <1>4, <2>1, <3>1 DEF Analyze!ToolEnds
  <2> QED
    BY <1>0, <2>2, <2>3 DEF AnalysisType
<1>5. CASE Analyze(cfg)!Push(w)
  <2>1. \E s \in Analyze(cfg)!State : pc' = [pc EXCEPT ![w] = s]
    BY <1>s, <1>5 DEF Analyze!Push, Analyze!AfterPush
  <2> QED
    BY <1>0, <1>s, <1>5, <2>1 DEF Analyze!Push, AnalysisType
<1>6. CASE Analyze(cfg)!Watch(w)
  BY <1>0, <1>6 DEF Analyze!Watch, AnalysisType
<1>7. CASE Analyze(cfg)!MonitorReport(w)
  BY <1>0, <1>s, <1>7 DEF Analyze!MonitorReport, Analyze!ReportError, AnalysisType
<1>w. CASE Analyze(cfg)!WatchEnds(w)
  BY <1>0, <1>w DEF Analyze!WatchEnds, AnalysisType
<1>8. CASE Analyze(cfg)!Pop(w)
  <2>1. PICK m \in cfg.Msg :
          /\ queue[m].state = "visible" /\ queue[m].receipt < cfg.MaxPops
          /\ queue' = [queue EXCEPT ![m] = [state |-> "hidden", receipt |-> @.receipt + 1]]
          /\ \/ /\ pc' = [pc EXCEPT ![w] = "polled"] /\ UNCHANGED events
                /\ held' = [held EXCEPT ![w] = m]
                /\ input' = [input EXCEPT ![w] = cfg.MsgInput[m]]
             \/ Analyze(cfg)!Fail(w) /\ UNCHANGED <<held, input>>
    BY <1>8 DEF Analyze!Pop
  <2>2. /\ cfg.MaxPops \in Nat /\ queue[m].receipt \in 0..cfg.MaxPops
        /\ cfg.MsgInput[m] \in cfg.Input
    BY <1>0 DEF Analyze!AnalysisAssumption
  <2>3. queue[m].receipt + 1 \in 0..cfg.MaxPops
    BY <2>1, <2>2
  <2>4. /\ queue' \in [cfg.Msg -> [state : {"unsent", "visible", "hidden", "deleted"},
                               receipt : 0..cfg.MaxPops]]
        /\ \A n \in cfg.Msg : queue'[n].state = "deleted" => queue[n].state = "deleted"
    BY <1>0, <2>1, <2>3
  <2>5. UNCHANGED <<crashes, analysis, saved, existing, todo, outputs, seen>>
    BY <1>8 DEF Analyze!Pop
  <2>6. CASE Analyze(cfg)!Fail(w) /\ UNCHANGED <<held, input>>
    BY <1>0, <1>s, <2>4, <2>5, <2>6 DEF AnalysisType
  <2>7. CASE /\ pc' = [pc EXCEPT ![w] = "polled"] /\ UNCHANGED events
             /\ held' = [held EXCEPT ![w] = m] /\ input' = [input EXCEPT ![w] = cfg.MsgInput[m]]
    BY <1>0, <1>s, <2>2, <2>4, <2>5, <2>7 DEF AnalysisType
  <2> QED
    BY <2>1, <2>6, <2>7
<1>9. CASE Analyze(cfg)!Polled(w)
  BY <1>0, <1>s, <1>9 DEF Analyze!Polled, AnalysisType
<1>10. CASE Analyze(cfg)!Delete(w)
  <2>1. queue' = queue \/ queue' = [queue EXCEPT ![held[w]].state = "deleted"]
    BY <1>10 DEF Analyze!Delete
  <2>2. /\ queue' \in [cfg.Msg -> [state : {"unsent", "visible", "hidden", "deleted"},
                               receipt : 0..cfg.MaxPops]]
        /\ \A n \in cfg.Msg : queue'[n].state = "deleted" =>
             queue[n].state = "deleted" \/ n = held[w]
    BY <1>0, <2>1
  <2>3. (\E s \in Analyze(cfg)!State : pc' = [pc EXCEPT ![w] = s]) /\ pc[w] = "delete"
    BY <1>s, <1>10 DEF Analyze!Delete
  <2>4. events' = events \/ events' = [events EXCEPT ![w] = {}]
    BY <1>10 DEF Analyze!Delete
  <2>5. UNCHANGED <<crashes, analysis, saved, held, input, existing, todo, outputs, seen>>
    BY <1>10 DEF Analyze!Delete
  <2> QED
    BY <1>0, <2>2, <2>3, <2>4, <2>5 DEF AnalysisType
<1> QED
  BY <1>1, <1>2, <1>3, <1>4, <1>5, <1>6, <1>7, <1>8, <1>w, <1>9, <1>10 DEF Analyze!Step

\* A step of a node keeps what its points promise.
LEMMA AnalysisShapeKept ==
    ASSUME NEW cfg, Analyze(cfg)!AnalysisAssumption, AnalysisType(cfg), NEW w \in cfg.Worker,
           Analyze(cfg)!Step(w),
           \A v \in cfg.Worker : AnalysisShape(cfg, v)
    PROVE  \A v \in cfg.Worker : AnalysisShape(cfg, v)'
<1> USE DEF Analyze!Goto, Analyze!Fail, Analyze!server, Analyze!monitor
<1>1. AnalysisEffect(cfg, w) /\ AnalysisShape(cfg, w)
  BY AnalysisEffects
<1>2. ASSUME NEW v \in cfg.Worker \ {w} PROVE AnalysisShape(cfg, v)'
  BY <1>1, <1>2 DEF AnalysisEffect, AnalysisShape, InBatch, InPoll
<1> SUFFICES AnalysisShape(cfg, w)'
  BY <1>2
<1>0. /\ pc \in [cfg.Worker -> Analyze(cfg)!State]
      /\ held \in [cfg.Worker -> cfg.Msg \cup {None}]
      /\ input \in [cfg.Worker -> cfg.Input \cup {None}]
      /\ existing \in [cfg.Worker -> SUBSET cfg.Input]
      /\ todo \in [cfg.Worker -> SUBSET cfg.Input]
      /\ outputs \in [cfg.Worker -> SUBSET cfg.Input]
  BY DEF AnalysisType
<1>n. None \notin cfg.Msg \cup cfg.Input /\ cfg.MsgInput \in [cfg.Msg -> cfg.Input]
  BY DEF Analyze!AnalysisAssumption
<1>i. ASSUME pc'[w] = "failed", UNCHANGED existing
      PROVE  AnalysisShape(cfg, w)'
  BY <1>i, <1>1 DEF AnalysisShape, InBatch, InPoll
<1>3. CASE Analyze(cfg)!Start(w)
  <2>1. held[w] = None /\ UNCHANGED <<held, outputs>>
    BY <1>1, <1>3 DEF Analyze!Start, AnalysisShape
  <2>2. CASE pc' = [pc EXCEPT ![w] = "failed"] /\ UNCHANGED existing
    BY <2>2, <1>0, <1>i
  <2>3. CASE /\ pc' = [pc EXCEPT ![w] = "existing"]
             /\ todo' = [todo EXCEPT ![w] = existing'[w]]
             /\ existing' = [existing EXCEPT ![w] = IF cfg.HasCrashes THEN crashes ELSE {}]
    <3>1. /\ pc'[w] = "existing" /\ todo'[w] = existing'[w]
          /\ (~cfg.HasCrashes => existing'[w] = {})
      BY <2>3, <1>0
    <3> QED
      BY <2>1, <3>1 DEF AnalysisShape, InBatch, InPoll
  <2> QED
    BY <1>3, <2>2, <2>3 DEF Analyze!Start
<1>4. CASE Analyze(cfg)!NextExisting(w)
  <2>1. /\ held[w] = None /\ UNCHANGED <<held, outputs, existing, analysis>>
        /\ existing[w] \subseteq outputs[w] \cup todo[w]
    BY <1>1, <1>4 DEF Analyze!NextExisting, AnalysisShape
  <2>2. CASE pc' = [pc EXCEPT ![w] = "push_every"] /\ UNCHANGED <<input, todo>>
    <3>1. pc'[w] = "push_every"
      BY <2>2, <1>0
    <3> QED
      BY <2>1, <2>2, <3>1, <1>1 DEF AnalysisShape, InBatch, InPoll
  <2>3. ASSUME NEW i \in todo[w], pc' = [pc EXCEPT ![w] = "run"],
               input' = [input EXCEPT ![w] = i], todo' = [todo EXCEPT ![w] = @ \ {i}]
        PROVE  AnalysisShape(cfg, w)'
    <3>1. pc'[w] = "run" /\ input'[w] = i /\ todo'[w] = todo[w] \ {i} /\ i \in cfg.Input
      BY <2>3, <1>0
    <3> QED
      BY <2>1, <3>1, <1>1 DEF AnalysisShape, InBatch, InPoll
  <2>4. CASE /\ todo[w] = {} /\ UNCHANGED <<input, todo>>
             /\ pc' = [pc EXCEPT ![w] = Analyze(cfg)!AfterExisting(w)]
    <3>1. pc'[w] = IF cfg.HasCrashes THEN "push_existing" ELSE "poll"
      BY <2>4, <1>0 DEF Analyze!AfterExisting
    <3> QED
      BY <2>1, <2>4, <3>1, <1>1 DEF AnalysisShape, InBatch, InPoll
  <2> QED
    BY <1>4, <2>2, <2>3, <2>4 DEF Analyze!NextExisting
<1>5. CASE Analyze(cfg)!RunTool(w)
  <2>1. UNCHANGED <<held, input, existing, todo, outputs, analysis>> /\ pc[w] = "run"
    BY <1>5 DEF Analyze!RunTool
  <2>2. pc'[w] \in {"running", "failed"}
    BY <1>5, <1>0 DEF Analyze!RunTool
  <2> QED
    BY <2>1, <2>2, <1>1 DEF AnalysisShape, InBatch, InPoll
<1>6. CASE Analyze(cfg)!ToolEnds(w)
  <2>1. UNCHANGED <<held, input, existing, todo, analysis>> /\ pc[w] = "running"
    BY <1>6 DEF Analyze!ToolEnds
  <2>2. CASE pc' = [pc EXCEPT ![w] = "failed"]
    BY <2>1, <2>2, <1>0, <1>i
  <2>3. CASE /\ pc' = [pc EXCEPT ![w] = Analyze(cfg)!AfterTool(w)]
             /\ outputs' = [outputs EXCEPT ![w] = @ \cup {input[w]}]
    <3>1. /\ outputs'[w] = outputs[w] \cup {input[w]}
          /\ pc'[w] = IF held[w] = None THEN "existing" ELSE "push"
      BY <2>3, <1>0 DEF Analyze!AfterTool
    <3>2. CASE held[w] = None
      BY <2>1, <3>1, <3>2, <1>1 DEF AnalysisShape, InBatch, InPoll
    <3>3. CASE held[w] \in cfg.Msg /\ held[w] # None
      BY <2>1, <3>1, <3>3, <1>1 DEF AnalysisShape, InBatch, InPoll
    <3> QED
      BY <3>2, <3>3, <1>0
  <2> QED
    BY <1>6, <2>2, <2>3 DEF Analyze!ToolEnds
<1>7. CASE Analyze(cfg)!Push(w)
  <2>1. UNCHANGED <<held, existing, todo, outputs>>
    BY <1>7 DEF Analyze!Push
  <2>2. CASE pc' = [pc EXCEPT ![w] = "failed"]
    BY <2>1, <2>2, <1>0, <1>i
  <2>3. CASE /\ analysis' = analysis \cup outputs[w]
             /\ pc' = [pc EXCEPT ![w] = Analyze(cfg)!AfterPush(w)]
    <3>1. CASE pc[w] = "push_every"
      <4>1. pc'[w] = "existing"
        BY <2>3, <3>1, <1>0 DEF Analyze!AfterPush
      <4> QED
        BY <2>1, <3>1, <4>1, <1>1 DEF AnalysisShape, InBatch, InPoll
    <3>2. CASE pc[w] = "push_existing"
      <4>1. pc'[w] = "poll"
        BY <2>3, <3>2, <1>0 DEF Analyze!AfterPush
      <4> QED
        BY <2>1, <2>3, <3>2, <4>1, <1>1 DEF AnalysisShape, InBatch, InPoll
    <3>3. CASE pc[w] = "push"
      <4>1. pc'[w] = "delete" /\ UNCHANGED input
        BY <1>7, <2>3, <3>3, <1>0 DEF Analyze!AfterPush, Analyze!Push
      <4> QED
        BY <2>1, <2>3, <3>3, <4>1, <1>1 DEF AnalysisShape, InBatch, InPoll
    <3> QED
      BY <1>7, <3>1, <3>2, <3>3 DEF Analyze!Push
  <2> QED
    BY <1>7, <2>2, <2>3 DEF Analyze!Push
<1>8. CASE Analyze(cfg)!Watch(w)
  BY <1>8, <1>1 DEF Analyze!Watch, AnalysisShape, InBatch, InPoll
<1>w. CASE Analyze(cfg)!WatchEnds(w)
  BY <1>w, <1>1 DEF Analyze!WatchEnds, AnalysisShape, InBatch, InPoll
<1>9. CASE Analyze(cfg)!MonitorReport(w)
  <2>1. UNCHANGED <<held, input, existing, todo, outputs, analysis>>
    BY <1>9 DEF Analyze!MonitorReport
  <2>2. pc'[w] = pc[w] \/ pc'[w] = "failed"
    BY <1>9, <1>0 DEF Analyze!MonitorReport, Analyze!ReportError
  <2> QED
    BY <2>1, <2>2, <1>1 DEF AnalysisShape, InBatch, InPoll
<1>10. CASE Analyze(cfg)!Pop(w)
  <2>1. UNCHANGED <<existing, todo, outputs, analysis>> /\ pc[w] = "poll"
    BY <1>10 DEF Analyze!Pop
  <2>2. CASE pc' = [pc EXCEPT ![w] = "failed"]
    BY <2>1, <2>2, <1>0, <1>i
  <2>3. ASSUME NEW m \in cfg.Msg, pc' = [pc EXCEPT ![w] = "polled"],
               held' = [held EXCEPT ![w] = m], input' = [input EXCEPT ![w] = cfg.MsgInput[m]]
        PROVE  AnalysisShape(cfg, w)'
    <3>1. pc'[w] = "polled" /\ held'[w] = m /\ input'[w] = cfg.MsgInput[m]
      BY <2>3, <1>0
    <3> QED
      BY <2>1, <3>1, <1>1 DEF AnalysisShape, InBatch, InPoll
  <2> QED
    BY <1>10, <2>2, <2>3 DEF Analyze!Pop
<1>11. CASE Analyze(cfg)!Polled(w)
  <2>1. UNCHANGED <<held, input, existing, todo, outputs, analysis>> /\ pc[w] = "polled"
    BY <1>11 DEF Analyze!Polled
  <2>2. /\ pc'[w] \in {"delete", "run", "failed"}
        /\ pc'[w] = "delete" => input[w] \in existing[w]
    BY <1>11, <1>0 DEF Analyze!Polled, Analyze!AlreadyChecked
  <2>3. held[w] \in cfg.Msg /\ held[w] # None /\ input[w] \in cfg.Input
    BY <2>1, <1>1, <1>n DEF AnalysisShape, InPoll
  <2> QED
    BY <2>1, <2>2, <2>3, <1>1 DEF AnalysisShape, InBatch, InPoll
<1>12. CASE Analyze(cfg)!Delete(w)
  <2>1. UNCHANGED <<held, input, existing, todo, outputs, analysis>> /\ pc[w] = "delete"
    BY <1>12 DEF Analyze!Delete
  <2>2. pc'[w] \in {"poll", "failed"}
    BY <1>12, <1>0 DEF Analyze!Delete
  <2> QED
    BY <2>1, <2>2, <1>1 DEF AnalysisShape, InBatch, InPoll
<1> QED
  BY <1>3, <1>4, <1>5, <1>6, <1>7, <1>8, <1>w, <1>9, <1>10, <1>11, <1>12 DEF Analyze!Step

\* Every step of the nodes, the crashes and the queue keeps the invariant.
LEMMA AnalysisStep ==
    ASSUME NEW cfg, Analyze(cfg)!AnalysisAssumption, AnalysisInv(cfg),
           [Analyze(cfg)!Next]_(Analyze(cfg)!vars)
    PROVE  AnalysisInv(cfg)'
<1> USE DEF Analyze!server, Analyze!monitor
<1>0. /\ AnalysisType(cfg) /\ \A w \in cfg.Worker : AnalysisShape(cfg, w)
      /\ Analyze(cfg)!AcknowledgedIsStored /\ Analyze(cfg)!WatchedReportSaved
  BY DEF AnalysisInv
<1>1. ASSUME UNCHANGED <<analysis, saved, pc, held, input, existing, todo, outputs, events,
                         seen>>,
             AnalysisType(cfg)',
             \A m \in cfg.Msg : queue'[m].state = "deleted" => queue[m].state = "deleted"
      PROVE  AnalysisInv(cfg)'
  BY <1>0, <1>1 DEF AnalysisInv, AnalysisShape, InBatch, InPoll, Analyze!AcknowledgedIsStored,
                    Analyze!WatchedReportSaved, Analyze!Running
<1>2. CASE UNCHANGED Analyze(cfg)!vars
  BY <1>0, <1>1, <1>2 DEF Analyze!vars, AnalysisType, Analyze!State
<1>3. ASSUME NEW i \in cfg.Input, Analyze(cfg)!Found(i) PROVE AnalysisInv(cfg)'
  BY <1>0, <1>1, <1>3 DEF Analyze!Found, AnalysisType
<1>4. ASSUME NEW m \in cfg.Msg, Analyze(cfg)!Enqueue(m) PROVE AnalysisInv(cfg)'
  <2>1. queue' = [queue EXCEPT ![m].state = "visible"]
    BY <1>4 DEF Analyze!Enqueue
  <2>2. /\ queue' \in [cfg.Msg -> [state : {"unsent", "visible", "hidden", "deleted"},
                               receipt : 0..cfg.MaxPops]]
        /\ \A n \in cfg.Msg : queue'[n].state = "deleted" => queue[n].state = "deleted"
    BY <1>0, <2>1 DEF AnalysisType
  <2> QED
    BY <1>0, <1>1, <1>4, <2>2 DEF Analyze!Enqueue, AnalysisType
<1>5. ASSUME NEW w \in cfg.Worker, Analyze(cfg)!Step(w) PROVE AnalysisInv(cfg)'
  <2>1. AnalysisEffect(cfg, w) /\ \A v \in cfg.Worker : AnalysisShape(cfg, v)'
    BY <1>0, <1>5, AnalysisEffects, AnalysisShapeKept
  <2>2. Analyze(cfg)!AcknowledgedIsStored'
    <3>1. pc[w] = "delete" => cfg.MsgInput[held[w]] \in analysis
      BY <1>0 DEF AnalysisShape, InPoll
    <3> QED
      BY <1>0, <2>1, <3>1 DEF AnalysisEffect, Analyze!AcknowledgedIsStored
  <2>3. pc'[w] # "failed" => seen'[w] \subseteq saved' \cup events'[w]
    <3> SUFFICES ASSUME pc'[w] # "failed" PROVE seen'[w] \subseteq saved' \cup events'[w]
      OBVIOUS
    <3>1. ~Analyze(cfg)!Fail(w)
      BY <1>0 DEF Analyze!Fail, Analyze!Goto, AnalysisType
    <3>2. pc[w] # "failed"
      BY <1>5, <3>1 DEF Analyze!Step, Analyze!Start, Analyze!NextExisting, Analyze!RunTool,
            Analyze!ToolEnds, Analyze!Push, Analyze!Watch, Analyze!MonitorReport,
            Analyze!WatchEnds, Analyze!Pop, Analyze!Polled, Analyze!Delete, Analyze!Running
    <3>3. seen[w] \subseteq saved \cup events[w]
      BY <1>0, <3>2 DEF Analyze!WatchedReportSaved, Analyze!Running
    <3>4. CASE Analyze(cfg)!RunTool(w)
      BY <1>0, <3>1, <3>3, <3>4 DEF Analyze!RunTool, Analyze!CreateReport, AnalysisType
    <3>5. CASE Analyze(cfg)!MonitorReport(w)
      BY <1>0, <3>1, <3>3, <3>5 DEF Analyze!MonitorReport, Analyze!ReportError, AnalysisType
    <3>w. CASE Analyze(cfg)!WatchEnds(w)
      BY <1>0, <3>w DEF Analyze!WatchEnds, AnalysisType
    <3>6. CASE /\ ~Analyze(cfg)!RunTool(w) /\ ~Analyze(cfg)!MonitorReport(w)
               /\ ~Analyze(cfg)!WatchEnds(w)
      <4>1. UNCHANGED <<events, seen, saved>>
        BY <1>5, <3>1, <3>6 DEF Analyze!Step, Analyze!Start, Analyze!NextExisting,
              Analyze!ToolEnds, Analyze!Push, Analyze!Watch, Analyze!Pop, Analyze!Polled,
              Analyze!Delete
      <4> QED
        BY <3>3, <4>1
    <3> QED
      BY <3>4, <3>5, <3>w, <3>6
  <2>4. Analyze(cfg)!WatchedReportSaved'
    BY <1>0, <2>1, <2>3 DEF AnalysisEffect, Analyze!WatchedReportSaved, Analyze!Running
  <2> QED
    BY <2>1, <2>2, <2>4 DEF AnalysisInv, AnalysisEffect
<1> QED
  BY <1>2, <1>3, <1>4, <1>5 DEF Analyze!Next

\* The invariant holds initially.
LEMMA AnalysisInit ==
    ASSUME NEW cfg, Analyze(cfg)!AnalysisAssumption, Analyze(cfg)!Init
    PROVE  AnalysisInv(cfg)
BY DEF Analyze!AnalysisAssumption, Analyze!Init, AnalysisInv, AnalysisType, Analyze!State,
       AnalysisShape, InBatch, InPoll, Analyze!AcknowledgedIsStored, Analyze!WatchedReportSaved,
       Analyze!Running

\* The analyzer's output for the input of a deleted message is in the container, whichever
\* node ran on it, in the batch or from the queue; when a node polls, all its existing
\* files are pushed, and a report that was created under the monitor's eyes is saved or
\* still waits as long as the task runs (run_existing, poll_inputs, monitor_reports).
LEMMA AnalysisKept ==
    ASSUME NEW cfg, AnalysisInv(cfg)
    PROVE  Analyze(cfg)!AcknowledgedIsStored /\ Analyze(cfg)!ExistingHandled
  BY DEF AnalysisInv, AnalysisShape, InPoll, Analyze!ExistingPushed, Analyze!ExistingHandled

----------------------------------------------------------------------------
(* The regression task.  A node goes through the three containers in order *)
(* and then through the inputs, and leaves each one only when everything   *)
(* it was asked about there has a regression report.                       *)

\* What a node has been asked about: a listed report, by its name, and an input, by its
\* hash or by the hash of the stack that the build has for it.
ReportAnswered(cfg, f) == Regress(cfg)!Listed(f) => f.name \in DOMAIN stored
InputAnswered(i) ==
    <<"input", i>> \in DOMAIN stored \/ <<"stack", build[i]>> \in DOMAIN stored

\* The result that a node is about to save is of this report, or of this input.
SavesReport(n, f) == pc[n] = "SaveReport" /\ regressing[n].name = f.name
SavesInput(n, i) ==
    pc[n] = "SaveInput" /\ regressing[n].name \in {<<"input", i>>, <<"stack", build[i]>>}

RegressionType(cfg) ==
    /\ pc \in [cfg.Nodes -> {"Start", "Reports", "Inputs", "SaveReport", "SaveInput", "Done",
                         "Failed"}]
    /\ dir \in [cfg.Nodes -> 1..4] /\ DOMAIN todo = cfg.Nodes /\ DOMAIN regressing = cfg.Nodes
    /\ DOMAIN content = {"reports", "unique_reports", "no_repro"}

\* The files of the k-th report container.
FilesAt(cfg, k) == content[Regress(cfg)!ReportDirs[k]]

\* The containers before the node's are answered, and the rest of its own is still to be
\* read; so are the inputs after the last container.
RegressionShape(cfg, n) ==
    /\ \A k \in 1..3 : k < dir[n] => \A f \in FilesAt(cfg, k) : ReportAnswered(cfg, f)
    /\ pc[n] \in {"Reports", "SaveReport"} =>
         /\ dir[n] \in 1..3
         /\ \A f \in FilesAt(cfg, dir[n]) :
              ReportAnswered(cfg, f) \/ f \in todo[n] \/ SavesReport(n, f)
    /\ pc[n] \in {"Inputs", "SaveInput", "Done"} => dir[n] = 4
    /\ pc[n] \in {"Inputs", "SaveInput"} => \A i \in inputs :
         InputAnswered(i) \/ i \in todo[n] \/ SavesInput(n, i)
    /\ pc[n] = "Done" /\ inputs # None => \A i \in inputs : InputAnswered(i)

RegressionInv(cfg) == RegressionType(cfg) /\ \A n \in cfg.Nodes : RegressionShape(cfg, n)

\* What a step of one node may change: its own state; no report is taken away.
RegressionEffect(cfg, n) ==
    /\ RegressionType(cfg)'
    /\ UNCHANGED <<content, inputs, report_list, build>>
    /\ \A v \in cfg.Nodes \ {n} :
         /\ pc'[v] = pc[v] /\ dir'[v] = dir[v] /\ todo'[v] = todo[v]
         /\ regressing'[v] = regressing[v]
    /\ DOMAIN stored \subseteq DOMAIN stored'

RegressionAction(cfg, n) ==
    \/ Regress(cfg)!Pull(n) \/ Regress(cfg)!PullFails(n) \/ Regress(cfg)!NextDir(n)
    \/ Regress(cfg)!Skip(n) \/ Regress(cfg)!BadReport(n) \/ Regress(cfg)!TestReport(n)
    \/ Regress(cfg)!TestInput(n) \/ Regress(cfg)!TestFails(n) \/ Regress(cfg)!Save(n)
    \/ Regress(cfg)!SaveAnswerLost(n) \/ Regress(cfg)!SaveFails(n) \/ Regress(cfg)!InputsDone(n)

\* ReportDirs has three containers.
LEMMA ThreeDirs ==
    ASSUME NEW cfg
    PROVE  /\ Len(Regress(cfg)!ReportDirs) = 3
           /\ Regress(cfg)!ReportDirs[1] = "reports"
           /\ Regress(cfg)!ReportDirs[2] = "unique_reports"
           /\ Regress(cfg)!ReportDirs[3] = "no_repro"
BY DEF Regress!ReportDirs

\* The effect of a step, action by action.
LEMMA RegressionEffects ==
    ASSUME NEW cfg, RegressionInv(cfg), NEW n \in cfg.Nodes, RegressionAction(cfg, n)
    PROVE  RegressionEffect(cfg, n)
<1> USE DEF RegressionEffect, Regress!Goto, Regress!Fail, Regress!config, Regress!out
<1>0. RegressionType(cfg) /\ RegressionShape(cfg, n)
  BY DEF RegressionInv
<1>1. CASE Regress(cfg)!Pull(n)
  BY <1>0, <1>1 DEF Regress!Pull, RegressionType
<1>2. CASE Regress(cfg)!PullFails(n) \/ Regress(cfg)!BadReport(n) \/ Regress(cfg)!TestFails(n)
           \/ Regress(cfg)!SaveFails(n)
  BY <1>0, <1>2 DEF Regress!PullFails, Regress!BadReport, Regress!TestFails,
                    Regress!SaveFails, RegressionType
<1>3. CASE Regress(cfg)!NextDir(n)
  <2>1. dir[n] + 1 \in 1..4
    BY <1>0, <1>3 DEF Regress!NextDir, RegressionShape
  <2> QED
    BY <1>0, <1>3, <2>1 DEF Regress!NextDir, RegressionType
<1>4. CASE Regress(cfg)!Skip(n)
  BY <1>0, <1>4 DEF Regress!Skip, RegressionType
<1>5. CASE Regress(cfg)!TestReport(n) \/ Regress(cfg)!TestInput(n)
  BY <1>0, <1>5 DEF Regress!TestReport, Regress!TestInput, Regress!Tested, RegressionType
<1>6. CASE Regress(cfg)!Save(n) \/ Regress(cfg)!SaveAnswerLost(n)
  BY <1>0, <1>6 DEF Regress!Save, Regress!SaveAnswerLost, Regress!AfterSave, RegressionType
<1>7. CASE Regress(cfg)!InputsDone(n)
  BY <1>0, <1>7 DEF Regress!InputsDone, RegressionType
<1> QED
  BY <1>1, <1>2, <1>3, <1>4, <1>5, <1>6, <1>7 DEF RegressionAction

\* A step of a node keeps the invariant.
LEMMA RegressionStep ==
    ASSUME NEW cfg, RegressionInv(cfg), NEW n \in cfg.Nodes, RegressionAction(cfg, n)
    PROVE  RegressionInv(cfg)'
<1> USE DEF Regress!Goto, Regress!Fail, Regress!config, Regress!out
<1>0. RegressionType(cfg) /\ RegressionShape(cfg, n) /\ RegressionEffect(cfg, n)
  BY RegressionEffects DEF RegressionInv
<1>1. /\ UNCHANGED <<content, inputs, report_list, build>>
      /\ \A f : ReportAnswered(cfg, f) => ReportAnswered(cfg, f)'
      /\ \A i : InputAnswered(i) => InputAnswered(i)'
      /\ \A k \in 1..3 : FilesAt(cfg, k)' = FilesAt(cfg, k)
  BY <1>0 DEF RegressionEffect, ReportAnswered, InputAnswered, Regress!Listed, FilesAt
<1>2. ASSUME NEW v \in cfg.Nodes \ {n} PROVE RegressionShape(cfg, v)'
  <2>1. RegressionShape(cfg, v)
    BY DEF RegressionInv
  <2>2. /\ pc'[v] = pc[v] /\ dir'[v] = dir[v] /\ todo'[v] = todo[v]
        /\ regressing'[v] = regressing[v]
    BY <1>0 DEF RegressionEffect
  <2> QED
    BY <1>1, <2>1, <2>2 DEF RegressionShape, SavesReport, SavesInput
<1> SUFFICES RegressionShape(cfg, n)'
  BY <1>0, <1>2 DEF RegressionInv, RegressionEffect
<1>3. dir'[n] = dir[n] => \A k \in 1..3 : k < dir'[n] => \A f \in FilesAt(cfg, k)' :
        ReportAnswered(cfg, f)'
  BY <1>0, <1>1 DEF RegressionShape
<1>4. CASE Regress(cfg)!Pull(n)
  <2>1. UNCHANGED dir
    BY <1>4 DEF Regress!Pull
  <2>2. CASE dir[n] <= 3
    <3>1. pc'[n] = "Reports" /\ todo'[n] = FilesAt(cfg, dir[n]) /\ dir[n] \in 1..3
      BY <1>0, <1>4, <2>2, ThreeDirs DEF Regress!Pull, RegressionType, FilesAt
    <3> QED
      BY <1>1, <1>3, <2>1, <3>1 DEF RegressionShape, FilesAt
  <2>3. CASE ~(dir[n] <= 3)
    <3>1. /\ dir[n] = 4
          /\ \/ inputs = None /\ pc'[n] = "Done"
             \/ pc'[n] = "Inputs" /\ todo'[n] = inputs
      BY <1>0, <1>4, <2>3, ThreeDirs DEF Regress!Pull, RegressionType
    <3> QED
      BY <1>1, <1>3, <2>1, <3>1 DEF RegressionShape
  <2> QED
    BY <2>2, <2>3
<1>5. CASE pc'[n] = "Failed" /\ UNCHANGED dir
  BY <1>3, <1>5 DEF RegressionShape
<1>6. CASE Regress(cfg)!NextDir(n)
  <2>1. /\ pc[n] = "Reports" /\ todo[n] = {} /\ pc'[n] = "Start" /\ dir'[n] = dir[n] + 1
        /\ dir[n] \in 1..3
    BY <1>0, <1>6 DEF Regress!NextDir, RegressionType, RegressionShape
  <2>2. \A f \in FilesAt(cfg, dir[n]) : ReportAnswered(cfg, f)'
    BY <1>0, <1>1, <2>1 DEF RegressionShape, SavesReport
  <2>3. \A k \in 1..3 : k < dir'[n] => k < dir[n] \/ k = dir[n]
    BY <2>1
  <2>4. \A k \in 1..3 : k < dir'[n] => \A f \in FilesAt(cfg, k)' : ReportAnswered(cfg, f)'
    BY <1>0, <1>1, <2>2, <2>3 DEF RegressionShape
  <2> QED
    BY <2>1, <2>4 DEF RegressionShape
<1>7. CASE Regress(cfg)!Skip(n)
  <2>1. /\ UNCHANGED <<dir, pc>> /\ pc[n] = "Reports"
        /\ \E f \in todo[n] : ~Regress(cfg)!Listed(f) /\ todo'[n] = todo[n] \ {f}
    BY <1>0, <1>7 DEF Regress!Skip, RegressionType
  <2>2. \A f \in FilesAt(cfg, dir[n]) : ReportAnswered(cfg, f)' \/ f \in todo'[n]
    BY <1>0, <1>1, <2>1 DEF RegressionShape, ReportAnswered, SavesReport
  <2>3. dir[n] \in 1..3
    BY <1>0, <2>1 DEF RegressionShape
  <2> QED
    BY <1>1, <1>3, <2>1, <2>2, <2>3 DEF RegressionShape
<1>8. CASE Regress(cfg)!TestReport(n)
  <2>1. /\ UNCHANGED dir /\ pc[n] = "Reports" /\ pc'[n] = "SaveReport"
        /\ \E f \in todo[n] : todo'[n] = todo[n] \ {f} /\ regressing'[n].name = f.name
    BY <1>0, <1>8 DEF Regress!TestReport, Regress!Tested, RegressionType
  <2>2. \A f \in FilesAt(cfg, dir[n]) :
          ReportAnswered(cfg, f)' \/ f \in todo'[n] \/ SavesReport(n, f)'
    BY <1>0, <1>1, <2>1 DEF RegressionShape, SavesReport
  <2>3. dir[n] \in 1..3
    BY <1>0, <2>1 DEF RegressionShape
  <2> QED
    BY <1>1, <1>3, <2>1, <2>2, <2>3 DEF RegressionShape
<1>9. CASE Regress(cfg)!TestInput(n)
  <2>1. /\ UNCHANGED dir /\ pc[n] = "Inputs" /\ pc'[n] = "SaveInput"
        /\ \E i \in todo[n] : /\ todo'[n] = todo[n] \ {i}
                              /\ regressing'[n].name \in {<<"input", i>>, <<"stack", build[i]>>}
    BY <1>0, <1>9 DEF Regress!TestInput, Regress!Tested, Regress!CrashResult, RegressionType
  <2>2. \A i \in inputs : InputAnswered(i)' \/ i \in todo'[n] \/ SavesInput(n, i)'
    BY <1>0, <1>1, <2>1 DEF RegressionShape, SavesInput
  <2> QED
    BY <1>0, <1>1, <1>3, <2>1, <2>2 DEF RegressionShape
<1>10. CASE Regress(cfg)!Save(n) \/ Regress(cfg)!SaveAnswerLost(n)
  <2>1. /\ UNCHANGED <<dir, todo>> /\ pc[n] \in {"SaveReport", "SaveInput"}
        /\ pc'[n] = (IF pc[n] = "SaveReport" THEN "Reports" ELSE "Inputs")
        /\ regressing[n].name \in DOMAIN stored'
    BY <1>0, <1>10 DEF Regress!Save, Regress!SaveAnswerLost, Regress!AfterSave,
                       Regress!Exists, RegressionType
  <2>2. /\ \A f : SavesReport(n, f) => ReportAnswered(cfg, f)'
        /\ \A i : SavesInput(n, i) => InputAnswered(i)'
    BY <1>1, <2>1 DEF SavesReport, SavesInput, ReportAnswered, InputAnswered
  <2>3. CASE pc[n] = "SaveReport"
    <3>1. \A f \in FilesAt(cfg, dir[n]) : ReportAnswered(cfg, f)' \/ f \in todo'[n]
      BY <1>0, <1>1, <2>1, <2>2, <2>3 DEF RegressionShape
    <3>2. dir[n] \in 1..3
      BY <1>0, <2>3 DEF RegressionShape
    <3> QED
      BY <1>1, <1>3, <2>1, <2>3, <3>1, <3>2 DEF RegressionShape
  <2>4. CASE pc[n] = "SaveInput"
    <3>1. \A i \in inputs : InputAnswered(i)' \/ i \in todo'[n]
      BY <1>0, <1>1, <2>1, <2>2, <2>4 DEF RegressionShape
    <3> QED
      BY <1>0, <1>1, <1>3, <2>1, <2>4, <3>1 DEF RegressionShape
  <2> QED
    BY <2>1, <2>3, <2>4
<1>11. CASE Regress(cfg)!InputsDone(n)
  <2>1. UNCHANGED dir /\ pc[n] = "Inputs" /\ pc'[n] = "Done" /\ todo[n] = {}
    BY <1>0, <1>11 DEF Regress!InputsDone, RegressionType
  <2>2. \A i \in inputs : InputAnswered(i)'
    BY <1>0, <1>1, <2>1 DEF RegressionShape, SavesInput
  <2> QED
    BY <1>0, <1>1, <1>3, <2>1, <2>2 DEF RegressionShape
<1>12. Regress(cfg)!PullFails(n) \/ Regress(cfg)!BadReport(n) \/ Regress(cfg)!TestFails(n)
       \/ Regress(cfg)!SaveFails(n) => pc'[n] = "Failed" /\ UNCHANGED dir
  BY <1>0 DEF Regress!PullFails, Regress!BadReport, Regress!TestFails, Regress!SaveFails,
              RegressionType
<1> QED
  BY <1>4, <1>5, <1>6, <1>7, <1>8, <1>9, <1>10, <1>11, <1>12 DEF RegressionAction

\* No node has begun.
LEMMA RegressionInit ==
    ASSUME NEW cfg, Regress(cfg)!Init
    PROVE  RegressionInv(cfg)
  BY DEF Regress!Init, RegressionInv, RegressionType, RegressionShape

\* Every step keeps the invariant.
LEMMA RegressionSteps ==
    ASSUME NEW cfg, RegressionInv(cfg), [Regress(cfg)!Next]_(Regress(cfg)!vars)
    PROVE  RegressionInv(cfg)'
<1>1. CASE UNCHANGED Regress(cfg)!vars
  BY <1>1 DEF Regress!vars, Regress!config, Regress!out, RegressionInv, RegressionType,
              RegressionShape, ReportAnswered, InputAnswered, SavesReport, SavesInput,
              FilesAt, Regress!Listed
<1>2. CASE Regress(cfg)!Next
  BY <1>2, RegressionStep DEF Regress!Next, RegressionAction
<1> QED
  BY <1>1, <1>2

\* A node that ends without an error has a regression report for every report it was asked
\* about, in each container, and for every input, whatever the other nodes save or fail at
\* (run, handle_crash_reports, handle_inputs).
LEMMA RegressionAnswers ==
    ASSUME NEW cfg, RegressionInv(cfg)
    PROVE  Regress(cfg)!ExistingHandled
<1> SUFFICES ASSUME NEW n \in cfg.Nodes, pc[n] = "Done"
             PROVE  /\ \A d \in DOMAIN content : \A f \in content[d] : ReportAnswered(cfg, f)
                    /\ inputs # None => \A i \in inputs : InputAnswered(i)
  BY DEF Regress!ExistingHandled, ReportAnswered, InputAnswered
<1>1. /\ dir[n] = 4
      /\ \A k \in 1..3 : k < 4 => \A f \in FilesAt(cfg, k) : ReportAnswered(cfg, f)
  BY DEF RegressionInv, RegressionShape
<1>2. \A d \in DOMAIN content : \E k \in 1..3 : content[d] = FilesAt(cfg, k)
  BY ThreeDirs DEF RegressionInv, RegressionType, FilesAt
<1> QED
  BY <1>1, <1>2 DEF RegressionInv, RegressionShape

\* No node and no retry replaces a regression report (SyncedDir::upload).
LEMMA RegressionReportsStay ==
    ASSUME NEW cfg, [Regress(cfg)!Next]_(Regress(cfg)!vars)
    PROVE  Regress(cfg)!StoredStays
<1>0. CASE UNCHANGED stored
  BY <1>0 DEF Regress!StoredStays
<1> SUFFICES ASSUME NEW n \in cfg.Nodes, RegressionAction(cfg, n)
             PROVE  Regress(cfg)!StoredStays
  BY <1>0 DEF Regress!Next, Regress!vars, Regress!out, RegressionAction
<1>1. \/ UNCHANGED stored
      \/ /\ regressing[n].name \notin DOMAIN stored
         /\ stored' = [m \in DOMAIN stored \cup {regressing[n].name} |->
                         IF m = regressing[n].name THEN regressing[n] ELSE stored[m]]
  BY DEF RegressionAction, Regress!Pull, Regress!PullFails, Regress!NextDir, Regress!Skip,
         Regress!BadReport, Regress!TestReport, Regress!TestInput, Regress!TestFails,
         Regress!Save, Regress!SaveAnswerLost, Regress!SaveFails, Regress!InputsDone,
         Regress!Fail, Regress!Tested, Regress!Exists, Regress!out
<1> QED
  BY <1>1 DEF Regress!StoredStays

----------------------------------------------------------------------------
(* The fuzzing task.  A file that is not whole was left by a fuzzer that   *)
(* was killed: this is so for a worker's files once the fuzzer has exited, *)
(* and then for the directories and the containers that the files go to.   *)

FuzzType(cfg) ==
    /\ worker \in [cfg.Workers -> {"idle", "running", "crashed", "exited", "moving"}]
    /\ temp \in [cfg.Workers -> [Fuzz(cfg)!Files -> Fuzz(cfg)!State]]
    /\ dir \in [Fuzz(cfg)!Files -> Fuzz(cfg)!State]
    /\ remote \in [Fuzz(cfg)!Files -> Fuzz(cfg)!State]
    /\ found \subseteq cfg.Workers \X Fuzz(cfg)!Files

\* The fuzzer of a worker is not running.
Stopped(w) == worker[w] \in {"exited", "moving"}

PartialIsCut(cfg) ==
    /\ \A f \in Fuzz(cfg)!Files : dir[f] = "partial" => f \in cut
    /\ \A f \in Fuzz(cfg)!Files : remote[f] = "partial" => f \in cut
    /\ \A w \in cfg.Workers : Stopped(w) => \A f \in Fuzz(cfg)!Files : temp[w][f] = "partial" =>
         f \in cut

\* Nothing is found before the fuzzers run.
FoundLate == phase \in {"init", "setup", "verify"} => found = {}

\* FoundKept and NoneForgotten, from the start on.
FileFound(cfg) == phase # "failed" => \A w \in cfg.Workers : \A f \in Fuzz(cfg)!Files :
    <<w, f>> \in found => temp[w][f] = "complete" \/ dir[f] # "none"
FileAnnounced(cfg) == phase # "failed" => \A f \in Fuzz(cfg)!Files :
    dir[f] # "none" => f \in early \/ f \in events \/ remote[f] # "none"

FuzzInv(cfg) ==
    FuzzType(cfg) /\ PartialIsCut(cfg) /\ FoundLate /\ FileFound(cfg) /\ FileAnnounced(cfg)

\* An error of one future drops the others: the directories stay as they are.
LEMMA FuzzAbort ==
    ASSUME NEW cfg, FuzzInv(cfg), Fuzz(cfg)!Abort
    PROVE  FuzzInv(cfg)'
<1>1. /\ phase' = "failed" /\ UNCHANGED <<dir, remote, found, cut>>
      /\ worker' = [w \in cfg.Workers |-> "idle"]
      /\ temp' = [w \in cfg.Workers |-> Fuzz(cfg)!Empty]
  BY DEF Fuzz!Abort
<1>2. Fuzz(cfg)!Empty \in [Fuzz(cfg)!Files -> Fuzz(cfg)!State]
  BY DEF Fuzz!Empty, Fuzz!State
<1> QED
  BY <1>1, <1>2 DEF FuzzInv, FuzzType, PartialIsCut, Stopped, FoundLate, FileFound,
                    FileAnnounced

\* The rename of a file that is there, by a worker whose fuzzer has exited.
LEMMA FuzzRename ==
    ASSUME NEW cfg, FuzzInv(cfg), NEW w \in cfg.Workers, NEW f \in Fuzz(cfg)!Files,
           phase = "run", Stopped(w),
           temp[w][f] # "none", Fuzz(cfg)!Rename(w, f),
           UNCHANGED <<phase, worker, remote, found, cut>>
    PROVE  FuzzInv(cfg)'
<1>0. FuzzType(cfg) /\ PartialIsCut(cfg) /\ FileFound(cfg) /\ FileAnnounced(cfg)
  BY DEF FuzzInv
<1>1. "none" \in Fuzz(cfg)!State
  BY DEF Fuzz!State
<1>2. /\ dir' = [dir EXCEPT ![f] = temp[w][f]]
      /\ temp' = [temp EXCEPT ![w] = [temp[w] EXCEPT ![f] = "none"]]
      /\ temp[w] \in [Fuzz(cfg)!Files -> Fuzz(cfg)!State]
  BY <1>0 DEF Fuzz!Rename, FuzzType
<1>3. FuzzType(cfg)'
  BY <1>0, <1>1, <1>2 DEF FuzzType
<1>4. /\ \A v \in cfg.Workers : \A g \in Fuzz(cfg)!Files :
           temp'[v][g] = IF v = w /\ g = f THEN "none" ELSE temp[v][g]
      /\ \A g \in Fuzz(cfg)!Files : dir'[g] = IF g = f THEN temp[w][f] ELSE dir[g]
  BY <1>0, <1>2 DEF FuzzType
<1>5. PartialIsCut(cfg)'
  BY <1>0, <1>4 DEF PartialIsCut, Stopped
<1>6. FileFound(cfg)'
  BY <1>0, <1>4 DEF FileFound
<1>7. FileAnnounced(cfg)'
  BY <1>0, <1>4 DEF FileAnnounced, Fuzz!Rename
<1> QED
  BY <1>3, <1>5, <1>6, <1>7 DEF FuzzInv, FoundLate

\* Every step keeps the invariant.
LEMMA FuzzStep ==
    ASSUME NEW cfg, FuzzInv(cfg), [Fuzz(cfg)!Next]_(Fuzz(cfg)!vars)
    PROVE  FuzzInv(cfg)'
<1>0. FuzzType(cfg) /\ PartialIsCut(cfg) /\ FoundLate /\ FileFound(cfg) /\ FileAnnounced(cfg)
  BY DEF FuzzInv
<1>s. Fuzz(cfg)!State = {"none", "partial", "complete"}
  BY DEF Fuzz!State
<1>a. Fuzz(cfg)!Abort => FuzzInv(cfg)'
  BY FuzzAbort
<1>1. ASSUME UNCHANGED <<temp, dir, remote, found, cut, early, events>>,
             FuzzType(cfg)', FoundLate', phase = "failed" => phase' = "failed",
             \A w \in cfg.Workers : Stopped(w)' => Stopped(w)
      PROVE  FuzzInv(cfg)'
  BY <1>0, <1>1 DEF FuzzInv, PartialIsCut, FileFound, FileAnnounced
<1>2. CASE UNCHANGED Fuzz(cfg)!vars
  BY <1>0, <1>1, <1>2 DEF Fuzz!vars, FuzzType, FoundLate, Stopped
<1>3. CASE Fuzz(cfg)!InitDirectories
  <2> SUFFICES ASSUME /\ phase = "init" /\ phase' = "setup"
                      /\ dir' = [f \in Fuzz(cfg)!Files |->
                                   IF f \in cfg.InputFiles THEN remote[f] ELSE "none"]
                      /\ UNCHANGED <<worker, temp, events, remote, found, early, cut>>
               PROVE  FuzzInv(cfg)'
    BY <1>3, <1>a DEF Fuzz!InitDirectories
  <2>1. \A f \in Fuzz(cfg)!Files : dir'[f] = IF f \in cfg.InputFiles THEN remote[f] ELSE "none"
    OBVIOUS
  <2>2. FuzzType(cfg)'
    BY <1>0, <1>s DEF FuzzType
  <2>3. PartialIsCut(cfg)' /\ FileAnnounced(cfg)'
    BY <1>0, <2>1 DEF PartialIsCut, Stopped, FileAnnounced
  <2>4. FoundLate' /\ FileFound(cfg)'
    BY <1>0 DEF FoundLate, FileFound
  <2> QED
    BY <2>2, <2>3, <2>4 DEF FuzzInv
<1>4. CASE Fuzz(cfg)!ExtraSetup
  BY <1>0, <1>a, <1>1, <1>4 DEF Fuzz!ExtraSetup, FuzzType, FoundLate, Stopped
<1>5. CASE Fuzz(cfg)!VerifyOnce
  BY <1>0, <1>1, <1>5 DEF Fuzz!VerifyOnce, FuzzType, FoundLate, Stopped
<1>6. CASE Fuzz(cfg)!SyncInputs
  <2> DEFINE new == {f \in cfg.InputFiles : remote[f] # "none" /\ dir[f] = "none"}
  <2>1. /\ phase = "run" /\ UNCHANGED <<phase, worker, temp, remote, found, early, cut>>
        /\ dir' = [f \in Fuzz(cfg)!Files |-> IF f \in new THEN remote[f] ELSE dir[f]]
        /\ events \subseteq events'
    BY <1>6 DEF Fuzz!SyncInputs
  <2>2. \A f \in Fuzz(cfg)!Files : dir'[f] = dir[f] \/ (dir[f] = "none" /\ dir'[f] = remote[f]
                                                       /\ remote[f] # "none")
    BY <2>1
  <2>3. FuzzType(cfg)'
    BY <1>0, <2>1 DEF FuzzType
  <2>4. PartialIsCut(cfg)'
    BY <1>0, <2>1, <2>2 DEF PartialIsCut, Stopped
  <2>5. FileFound(cfg)' /\ FileAnnounced(cfg)' /\ FoundLate'
    BY <1>0, <2>1, <2>2 DEF FileFound, FileAnnounced, FoundLate
  <2> QED
    BY <2>3, <2>4, <2>5 DEF FuzzInv
<1>7. ASSUME NEW d \in Fuzz(cfg)!Dirs, Fuzz(cfg)!StartMonitor(d) PROVE FuzzInv(cfg)'
  BY <1>0, <1>1, <1>7 DEF Fuzz!StartMonitor, FuzzType, FoundLate, Stopped
<1>8. ASSUME NEW w \in cfg.Workers, Fuzz(cfg)!RunFuzzer(w) PROVE FuzzInv(cfg)'
  <2> SUFFICES ASSUME /\ phase = "run" /\ worker' = [worker EXCEPT ![w] = "running"]
                      /\ UNCHANGED <<phase, temp, dir, events, remote, found, early, cut>>
               PROVE  FuzzInv(cfg)'
    BY <1>8, <1>a DEF Fuzz!RunFuzzer, Fuzz!Goto
  <2> QED
    BY <1>0, <1>1 DEF FuzzType, FoundLate, Stopped
<1>9. ASSUME NEW w \in cfg.Workers, NEW f \in Fuzz(cfg)!Files,
             Fuzz(cfg)!WriteFile(w, f) PROVE FuzzInv(cfg)'
  <2>1. /\ phase = "run" /\ worker[w] = "running" /\ temp[w][f] # "complete"
        /\ UNCHANGED <<phase, dir, events, remote, early, cut>>
        /\ found' = IF temp[w][f] = "partial" THEN found \cup {<<w, f>>} ELSE found
        /\ \E s \in {"crashed", "running"} : worker' = [worker EXCEPT ![w] = s]
    BY <1>9 DEF Fuzz!WriteFile, Fuzz!Goto
  <2>2. /\ temp' = [temp EXCEPT ![w] = [temp[w] EXCEPT ![f] =
                      IF temp[w][f] = "none" THEN "partial" ELSE "complete"]]
        /\ temp[w] \in [Fuzz(cfg)!Files -> Fuzz(cfg)!State]
    BY <1>0, <1>9 DEF Fuzz!WriteFile, FuzzType
  <2>3. \A v \in cfg.Workers : \A g \in Fuzz(cfg)!Files : temp'[v][g] =
          IF v = w /\ g = f THEN IF temp[w][f] = "none" THEN "partial" ELSE "complete"
          ELSE temp[v][g]
    BY <1>0, <2>2 DEF FuzzType
  <2>4. FuzzType(cfg)'
    BY <1>0, <1>s, <2>1, <2>2 DEF FuzzType
  <2>5. \A v \in cfg.Workers : Stopped(v)' => Stopped(v) /\ v # w
    BY <1>0, <2>1 DEF FuzzType, Stopped
  <2>6. PartialIsCut(cfg)'
    BY <1>0, <2>1, <2>3, <2>5 DEF PartialIsCut
  <2>7. FileFound(cfg)'
    BY <1>0, <2>1, <2>3 DEF FileFound
  <2>8. FileAnnounced(cfg)' /\ FoundLate'
    BY <1>0, <2>1 DEF FileAnnounced, FoundLate
  <2> QED
    BY <2>4, <2>6, <2>7, <2>8 DEF FuzzInv
<1>10. ASSUME NEW w \in cfg.Workers, Fuzz(cfg)!Exited(w) PROVE FuzzInv(cfg)'
  <2> SUFFICES ASSUME /\ phase = "run" /\ worker' = [worker EXCEPT ![w] = "exited"]
                      /\ cut' = cut \cup {f \in Fuzz(cfg)!Files : temp[w][f] = "partial"}
                      /\ UNCHANGED <<phase, temp, dir, events, remote, found, early>>
               PROVE  FuzzInv(cfg)'
    BY <1>10, <1>a DEF Fuzz!Exited, Fuzz!Goto
  <2>1. \A v \in cfg.Workers : Stopped(v)' => Stopped(v) \/ v = w
    BY <1>0 DEF FuzzType, Stopped
  <2>2. PartialIsCut(cfg)'
    BY <1>0, <2>1 DEF PartialIsCut
  <2>3. FuzzType(cfg)' /\ FileFound(cfg)' /\ FileAnnounced(cfg)' /\ FoundLate'
    BY <1>0 DEF FuzzType, FileFound, FileAnnounced, FoundLate
  <2> QED
    BY <2>2, <2>3 DEF FuzzInv
<1>11. ASSUME NEW w \in cfg.Workers, NEW f \in Fuzz(cfg)!Files,
              Fuzz(cfg)!MoveCrash(w, f) PROVE FuzzInv(cfg)'
  <2>1. phase = "run" /\ Stopped(w) /\ temp[w][f] # "none"
    BY <1>11 DEF Fuzz!MoveCrash, Stopped, Fuzz!Listed
  <2>2. CASE /\ Fuzz(cfg)!Rename(w, f) /\ UNCHANGED <<phase, worker, remote, found, cut>>
    BY <2>1, <2>2, FuzzRename
  <2>3. CASE /\ dir[f] # "none" /\ temp' = [temp EXCEPT ![w][f] = "none"]
             /\ UNCHANGED <<phase, worker, dir, events, remote, found, early, cut>>
    <3>1. /\ temp' = [temp EXCEPT ![w] = [temp[w] EXCEPT ![f] = "none"]]
          /\ temp[w] \in [Fuzz(cfg)!Files -> Fuzz(cfg)!State]
      BY <1>0, <2>3 DEF FuzzType
    <3>2. \A v \in cfg.Workers : \A g \in Fuzz(cfg)!Files :
            temp'[v][g] = IF v = w /\ g = f THEN "none" ELSE temp[v][g]
      BY <1>0, <3>1 DEF FuzzType
    <3>3. FuzzType(cfg)'
      BY <1>0, <1>s, <2>3, <3>1 DEF FuzzType
    <3>4. PartialIsCut(cfg)' /\ FileFound(cfg)' /\ FileAnnounced(cfg)' /\ FoundLate'
      BY <1>0, <2>3, <3>2 DEF PartialIsCut, Stopped, FileFound, FileAnnounced, FoundLate
    <3> QED
      BY <3>3, <3>4 DEF FuzzInv
  <2> QED
    BY <1>11, <1>a, <2>2, <2>3 DEF Fuzz!MoveCrash
<1>12. ASSUME NEW w \in cfg.Workers,
              Fuzz(cfg)!CrashesMoved(w) \/ Fuzz(cfg)!InputsMoved(w) PROVE FuzzInv(cfg)'
  <2>1. /\ phase = "run" /\ Stopped(w)
        /\ UNCHANGED <<phase, temp, dir, events, remote, found, early, cut>>
        /\ \E s \in {"moving", "idle"} : worker' = [worker EXCEPT ![w] = s]
    BY <1>12 DEF Fuzz!CrashesMoved, Fuzz!InputsMoved, Fuzz!Goto, Stopped
  <2> QED
    BY <1>0, <1>1, <2>1 DEF FuzzType, FoundLate, Stopped
<1>13. ASSUME NEW w \in cfg.Workers, NEW f \in Fuzz(cfg)!Files,
              Fuzz(cfg)!MoveInput(w, f) PROVE FuzzInv(cfg)'
  <2>1. phase = "run" /\ Stopped(w) /\ temp[w][f] # "none"
    BY <1>13 DEF Fuzz!MoveInput, Stopped
  <2> QED
    BY <1>13, <1>a, <2>1, FuzzRename DEF Fuzz!MoveInput
<1>14. ASSUME NEW f \in Fuzz(cfg)!Files, Fuzz(cfg)!Upload(f) PROVE FuzzInv(cfg)'
  <2> SUFFICES ASSUME /\ phase = "run" /\ events' = events \ {f}
                      /\ remote' = [remote EXCEPT ![f] = IF @ = "none" THEN dir[f] ELSE @]
                      /\ UNCHANGED <<phase, worker, temp, dir, found, early, cut>>
               PROVE  FuzzInv(cfg)'
    BY <1>14, <1>a DEF Fuzz!Upload
  <2>1. \A g \in Fuzz(cfg)!Files :
          remote'[g] = IF g = f /\ remote[g] = "none" THEN dir[g] ELSE remote[g]
    BY <1>0 DEF FuzzType
  <2>2. FuzzType(cfg)'
    BY <1>0 DEF FuzzType
  <2>3. PartialIsCut(cfg)' /\ FileFound(cfg)' /\ FoundLate'
    BY <1>0, <2>1 DEF PartialIsCut, Stopped, FileFound, FoundLate
  <2>4. FileAnnounced(cfg)'
    BY <1>0, <2>1 DEF FileAnnounced
  <2> QED
    BY <2>2, <2>3, <2>4 DEF FuzzInv
<1>15. ASSUME NEW f \in Fuzz(cfg)!Files, Fuzz(cfg)!OtherNode(f) PROVE FuzzInv(cfg)'
  <2>1. /\ remote' = [remote EXCEPT ![f] = "complete"]
        /\ UNCHANGED <<phase, worker, temp, dir, events, found, early, cut>>
    BY <1>15 DEF Fuzz!OtherNode
  <2>2. \A g \in Fuzz(cfg)!Files : remote'[g] = IF g = f THEN "complete" ELSE remote[g]
    BY <1>0, <2>1 DEF FuzzType
  <2>3. FuzzType(cfg)'
    BY <1>0, <1>s, <2>1 DEF FuzzType
  <2>4. PartialIsCut(cfg)' /\ FileFound(cfg)' /\ FoundLate' /\ FileAnnounced(cfg)'
    BY <1>0, <2>1, <2>2 DEF PartialIsCut, Stopped, FileFound, FoundLate, FileAnnounced
  <2> QED
    BY <2>3, <2>4 DEF FuzzInv
<1> QED
  BY <1>2, <1>3, <1>4, <1>5, <1>6, <1>7, <1>8, <1>9, <1>10, <1>11, <1>12, <1>13, <1>14, <1>15
     DEF Fuzz!Next, Fuzz!Monitor, Fuzz!Finished

\* Nothing is found before the task starts.
LEMMA FuzzInit ==
    ASSUME NEW cfg, Fuzz(cfg)!Init
    PROVE  FuzzInv(cfg)
<1>1. /\ remote \in [Fuzz(cfg)!Files -> {"none", "complete"}]
      /\ Fuzz(cfg)!Empty \in [Fuzz(cfg)!Files -> Fuzz(cfg)!State]
      /\ \A f \in Fuzz(cfg)!Files : dir[f] = "none"
  BY DEF Fuzz!Init, Fuzz!Empty, Fuzz!State
<1>2. FuzzType(cfg)
  BY <1>1 DEF Fuzz!Init, FuzzType, Fuzz!State
<1>3. PartialIsCut(cfg) /\ FoundLate /\ FileFound(cfg) /\ FileAnnounced(cfg)
  BY <1>1 DEF Fuzz!Init, PartialIsCut, Stopped, FoundLate, FileFound, FileAnnounced
<1> QED
  BY <1>2, <1>3 DEF FuzzInv

\* While the task runs, no move, collision of names or next run of a worker loses a file
\* that a fuzzer has written; one that appeared under the monitor's eyes is uploaded or
\* waits; a blob is whole unless a fuzzer was killed in the middle of the file (run_fuzzer,
\* start_fuzzer_monitor, file_monitor_event).
LEMMA FuzzKeepsFound ==
    ASSUME NEW cfg, FuzzInv(cfg)
    PROVE  Fuzz(cfg)!ResultsArrive
<1>1. Fuzz(cfg)!NoneForgotten /\ Fuzz(cfg)!BlobComplete
  BY DEF FuzzInv, FileAnnounced, PartialIsCut, Fuzz!NoneForgotten, Fuzz!BlobComplete
<1>2. ASSUME phase = "run", NEW wf \in found
      PROVE  \/ temp[wf[1]][wf[2]] = "complete" \/ dir[wf[2]] = "complete"
             \/ wf[2] \in cut /\ dir[wf[2]] = "partial"
  <2>1. /\ wf \in cfg.Workers \X Fuzz(cfg)!Files
        /\ dir \in [Fuzz(cfg)!Files -> {"none", "partial", "complete"}]
    BY <1>2 DEF FuzzInv, FuzzType, Fuzz!State
  <2>2. PICK w \in cfg.Workers, f \in Fuzz(cfg)!Files : wf = <<w, f>>
    BY <2>1
  <2>3. temp[w][f] = "complete" \/ dir[f] # "none"
    BY <1>2, <2>2 DEF FuzzInv, FileFound
  <2>4. dir[f] = "partial" => f \in cut
    BY DEF FuzzInv, PartialIsCut
  <2> QED
    BY <2>1, <2>2, <2>3, <2>4
<1>3. Fuzz(cfg)!FoundKept
  BY <1>2 DEF Fuzz!FoundKept
<1> QED
  BY <1>1, <1>3 DEF Fuzz!ResultsArrive

----------------------------------------------------------------------------
(* The types.  What the invariants above do not need to say: receipts,     *)
(* counters and histories.                                                 *)

\* The counters of a merge stay within the limits of az_copy, and only inputs are merged.
LEMMA MergeTypes ==
    ASSUME NEW cfg, Merger(cfg)!MergeAssumption, MergeInv(cfg), MergeInv(cfg)',
           Merger(cfg)!TypeOK, [Merger(cfg)!Next]_(Merger(cfg)!vars)
    PROVE  Merger(cfg)!TypeOK'
<1> DEFINE Rest == /\ receipt \in [cfg.Worker -> 0..cfg.MaxPops]
                   /\ attempts \in [cfg.Worker -> 0..cfg.MaxRetry]
                   /\ failures \in [cfg.Worker -> 0..cfg.MaxFailure]
                   /\ printed \subseteq cfg.Input /\ merged \subseteq cfg.Input
<1>0. Rest /\ cfg.MaxPops \in Nat /\ cfg.MaxRetry \in Nat /\ cfg.MaxFailure \in Nat
  BY DEF Merger!TypeOK, Merger!MergeAssumption
<1>1. ASSUME UNCHANGED <<receipt, attempts, failures, printed, merged>> PROVE Rest'
  BY <1>0, <1>1
<1>2. ASSUME NEW w \in cfg.Worker, Merger(cfg)!SyncDone(w),
             UNCHANGED <<receipt, printed, merged>>
      PROVE  Rest'
  BY <1>0, <1>2 DEF Merger!SyncDone, Merger!Set
<1>3. ASSUME NEW w \in cfg.Worker, NEW b \in BOOLEAN, Merger(cfg)!AttemptFailed(w, b),
             UNCHANGED <<receipt, printed, merged>>
      PROVE  Rest'
  <2>1. CASE failures[w] >= cfg.MaxFailure \/ attempts[w] >= cfg.MaxRetry
    BY <1>2, <1>3, <2>1 DEF Merger!AttemptFailed
  <2>2. CASE ~(failures[w] >= cfg.MaxFailure \/ attempts[w] >= cfg.MaxRetry)
    <3>1. /\ attempts' = [attempts EXCEPT ![w] = attempts[w] + 1]
          /\ failures' = [failures EXCEPT ![w] = IF b THEN failures[w] + 1 ELSE failures[w]]
      BY <1>3, <2>2 DEF Merger!AttemptFailed, Merger!Set
    <3>2. attempts[w] + 1 \in 0..cfg.MaxRetry /\ failures[w] + 1 \in 0..cfg.MaxFailure
      BY <1>0, <2>2
    <3> QED
      BY <1>0, <1>3, <3>1, <3>2
  <2> QED
    BY <2>1, <2>2
<1>4. ASSUME NEW w \in cfg.Worker, Merger(cfg)!PullAttempt(w) \/ Merger(cfg)!PushAttempt(w)
      PROVE  Rest'
  BY <1>2, <1>3, <1>4
     DEF Merger!PullAttempt, Merger!PushAttempt, Merger!local_vars, Merger!history
<1>5. ASSUME NEW w \in cfg.Worker, Merger(cfg)!Pop(w) PROVE Rest'
  <2>1. UNCHANGED <<attempts, failures, printed, merged>>
    BY <1>5 DEF Merger!Pop, Merger!counters, Merger!history
  <2>2. PICK m \in cfg.Msg : /\ queue[m].receipt < cfg.MaxPops
                             /\ \/ receipt' = [receipt EXCEPT ![w] = queue[m].receipt + 1]
                                \/ receipt' = receipt
    BY <1>5 DEF Merger!Pop, Merger!Set
  <2>3. queue[m].receipt + 1 \in 0..cfg.MaxPops
    BY <1>0, <2>2 DEF Merger!TypeOK
  <2> QED
    BY <1>0, <2>1, <2>2, <2>3
<1>6. ASSUME NEW w \in cfg.Worker, Merger(cfg)!MergeLibFuzzer(w) PROVE Rest'
  BY <1>0, <1>6 DEF Merger!MergeLibFuzzer, Merger!local_vars, Merger!counters, Merger!TypeOK
<1>n. ASSUME NEW w \in cfg.Worker, cfg.QueueMode, pc[w] \in {"merge", "delete"}
      PROVE  cfg.MsgInput[held[w]] \in cfg.Input
  BY <1>n DEF MergeInv, MergeShape, QueueShape, Named
<1>7. ASSUME NEW w \in cfg.Worker, Merger(cfg)!MergeGeneric(w) PROVE Rest'
  <2>1. cfg.MsgInput[held[w]] \in cfg.Input
    BY <1>7, <1>n DEF Merger!MergeGeneric, Merger!MergeAssumption
  <2> QED
    BY <1>0, <1>7, <2>1 DEF Merger!MergeGeneric, Merger!counters
<1>8. ASSUME NEW w \in cfg.Worker, Merger(cfg)!DeleteMessage(w) PROVE Rest'
  <2>1. cfg.QueueMode
    BY <1>8 DEF Merger!DeleteMessage, MergeInv, MergeShape, BatchShape, Merger!MergeAssumption
  <2>2. cfg.MsgInput[held[w]] \in cfg.Input
    BY <1>8, <1>n, <2>1 DEF Merger!DeleteMessage
  <2> QED
    BY <1>0, <1>8, <2>2 DEF Merger!DeleteMessage, Merger!counters, Merger!local_vars
<1>9. ASSUME NEW w \in cfg.Worker,
             \/ Merger(cfg)!Start(w) \/ Merger(cfg)!Reset(w) \/ Merger(cfg)!PopEmpty(w)
             \/ Merger(cfg)!Parse(w) \/ Merger(cfg)!Download(w) \/ Merger(cfg)!DeleteBlob(w)
      PROVE  Rest'
  BY <1>1, <1>9 DEF Merger!Start, Merger!Reset, Merger!PopEmpty, Merger!Parse, Merger!Download,
                   Merger!DeleteBlob, Merger!counters, Merger!local_vars, Merger!history
<1>10. ASSUME NEW w \in cfg.Worker, Merger(cfg)!Step(w) PROVE Rest'
  BY <1>4, <1>5, <1>6, <1>7, <1>8, <1>9, <1>10 DEF Merger!Step
<1>11. ASSUME \/ \E i \in cfg.Input : Merger(cfg)!Found(i)
              \/ \E m \in cfg.Msg : Merger(cfg)!Announce(m) \/ Merger(cfg)!Expire(m)
              \/ UNCHANGED Merger(cfg)!vars
       PROVE  Rest'
  BY <1>1, <1>11 DEF Merger!Found, Merger!Announce, Merger!Expire, Merger!vars,
                     Merger!counters, Merger!local_vars, Merger!history
<1>12. Rest'
  BY <1>10, <1>11 DEF Merger!Next
<1> QED
  BY <1>12 DEF MergeInv, MergeType, Merger!TypeOK

\* The receipts, the counter of run_existing, the analyzer's reports and the monitor of the
\* analysis task have their types.
LEMMA AnalysisTypes ==
    ASSUME NEW cfg, Analyze(cfg)!AnalysisAssumption, AnalysisInv(cfg), AnalysisInv(cfg)',
           Analyze(cfg)!TypeOK, [Analyze(cfg)!Next]_(Analyze(cfg)!vars)
    PROVE  Analyze(cfg)!TypeOK'
<1> DEFINE Stage == {"none", "empty", "written"}
           Rest == /\ analysis \subseteq cfg.Input /\ saved \subseteq cfg.Input
                   /\ receipt \in [cfg.Worker -> 0..cfg.MaxPops]
                   /\ count \in [cfg.Worker -> 0..(cfg.SyncEvery - 1)]
                   /\ report \in [cfg.Worker -> [cfg.Input -> Stage]]
                   /\ watching \in [cfg.Worker -> {"no", "yes", "ended"}]
<1>0. Rest /\ cfg.MaxPops \in Nat /\ cfg.SyncEvery \in Nat \ {0}
  BY DEF Analyze!TypeOK, Analyze!AnalysisAssumption
<1>1. ASSUME NEW w \in cfg.Worker, UNCHANGED <<analysis, saved, receipt, count, report>>,
             \E b \in {"no", "yes", "ended"} :
               watching' = watching \/ watching' = [watching EXCEPT ![w] = b]
      PROVE  Rest'
  BY <1>0, <1>1
<1>2. ASSUME NEW w \in cfg.Worker,
             \/ Analyze(cfg)!Start(w) \/ Analyze(cfg)!NextExisting(w) \/ Analyze(cfg)!Watch(w)
             \/ Analyze(cfg)!Polled(w) \/ Analyze(cfg)!Delete(w) \/ Analyze(cfg)!WatchEnds(w)
      PROVE  Rest'
  <2>1. UNCHANGED <<analysis, saved, receipt, count, report>>
    BY <1>2 DEF Analyze!Start, Analyze!NextExisting, Analyze!Watch, Analyze!Polled,
                Analyze!Delete, Analyze!WatchEnds
  <2>2. \E b \in {"no", "yes", "ended"} :
               watching' = watching \/ watching' = [watching EXCEPT ![w] = b]
    BY <1>2 DEF Analyze!Start, Analyze!NextExisting, Analyze!Watch, Analyze!Polled,
                Analyze!Delete, Analyze!WatchEnds, Analyze!monitor, Analyze!Fail
  <2> QED
    BY <1>1, <2>1, <2>2
<1>3. ASSUME NEW w \in cfg.Worker, Analyze(cfg)!RunTool(w) PROVE Rest'
  <2>1. /\ UNCHANGED <<analysis, saved, receipt, count>>
        /\ watching' = watching \/ watching' = [watching EXCEPT ![w] = "no"]
        /\ \/ report' = report
           \/ report' = [report EXCEPT ![w][input[w]] = "empty"]
    BY <1>3 DEF Analyze!RunTool, Analyze!Fail, Analyze!CreateReport
  <2>2. input[w] \in cfg.Input
    BY <1>3 DEF Analyze!RunTool, AnalysisInv, AnalysisShape
  <2>r. "empty" \in Stage /\ report \in [cfg.Worker -> [cfg.Input -> Stage]]
    BY <1>0
  <2>3. report' \in [cfg.Worker -> [cfg.Input -> Stage]]
    <3> HIDE DEF Stage
    <3>1. CASE report' = [report EXCEPT ![w][input[w]] = "empty"]
      BY <2>r, <2>2, <3>1
    <3> QED
      BY <2>1, <2>r, <3>1
  <2> QED
    BY <1>0, <2>1, <2>3
<1>4. ASSUME NEW w \in cfg.Worker, Analyze(cfg)!ToolEnds(w) PROVE Rest'
  <2>1. /\ UNCHANGED <<analysis, saved, receipt>>
        /\ watching' = watching \/ watching' = [watching EXCEPT ![w] = "no"]
        /\ \/ report' = report
           \/ \E s \in Stage : report' = [report EXCEPT ![w][input[w]] = s]
        /\ \/ count' = count
           \/ count' = [count EXCEPT ![w] = (count[w] + 1) % cfg.SyncEvery]
    BY <1>4 DEF Analyze!ToolEnds, Analyze!Fail, Analyze!Count, Analyze!monitor
  <2>2. input[w] \in cfg.Input
    BY <1>4 DEF Analyze!ToolEnds, AnalysisInv, AnalysisShape
  <2>r. report[w] \in [cfg.Input -> Stage]
    BY <1>0
  <2>3. report' \in [cfg.Worker -> [cfg.Input -> Stage]]
    <3>1. ASSUME NEW s \in Stage, report' = [report EXCEPT ![w][input[w]] = s]
          PROVE  report' \in [cfg.Worker -> [cfg.Input -> Stage]]
      <4>1. report' = [report EXCEPT ![w] = [report[w] EXCEPT ![input[w]] = s]]
        BY <3>1
      <4>2. [report[w] EXCEPT ![input[w]] = s] \in [cfg.Input -> Stage]
        BY <2>2, <2>r
      <4> QED
        BY <1>0, <4>1, <4>2
    <3> QED
      BY <1>0, <2>1, <3>1
  <2>4. (count[w] + 1) % cfg.SyncEvery \in 0..(cfg.SyncEvery - 1)
    BY <1>0
  <2>5. count' \in [cfg.Worker -> 0..(cfg.SyncEvery - 1)]
    BY <1>0, <2>1, <2>4
  <2> QED
    BY <1>0, <2>1, <2>3, <2>5
<1>5. ASSUME NEW w \in cfg.Worker, Analyze(cfg)!Push(w) PROVE Rest'
  <2>1. /\ UNCHANGED <<saved, receipt, count, report>>
        /\ watching' = watching \/ watching' = [watching EXCEPT ![w] = "no"]
        /\ analysis' = analysis \/ analysis' = analysis \cup outputs[w]
    BY <1>5 DEF Analyze!Push, Analyze!Fail, Analyze!monitor
  <2>2. outputs[w] \subseteq cfg.Input
    BY DEF Analyze!TypeOK
  <2> QED
    BY <1>0, <2>1, <2>2
<1>6. ASSUME NEW w \in cfg.Worker, Analyze(cfg)!MonitorReport(w) PROVE Rest'
  <2>1. /\ UNCHANGED <<analysis, receipt, count, report>>
        /\ watching' = watching \/ watching' = [watching EXCEPT ![w] = "no"]
        /\ saved' = saved \/ \E i \in events[w] : saved' = saved \cup {i}
    BY <1>6 DEF Analyze!MonitorReport, Analyze!ReportError, Analyze!Fail
  <2>2. events[w] \subseteq cfg.Input
    BY DEF Analyze!TypeOK
  <2> QED
    BY <1>0, <2>1, <2>2
<1>7. ASSUME NEW w \in cfg.Worker, Analyze(cfg)!Pop(w) PROVE Rest'
  <2>1. /\ UNCHANGED <<analysis, saved, count, report>>
        /\ watching' = watching \/ watching' = [watching EXCEPT ![w] = "no"]
    BY <1>7 DEF Analyze!Pop, Analyze!Fail, Analyze!monitor
  <2>2. PICK m \in cfg.Msg : /\ queue[m].receipt < cfg.MaxPops
                             /\ \/ receipt' = [receipt EXCEPT ![w] = queue[m].receipt + 1]
                                \/ receipt' = receipt
    BY <1>7 DEF Analyze!Pop
  <2>3. queue[m].receipt + 1 \in 0..cfg.MaxPops
    BY <1>0, <2>2 DEF Analyze!TypeOK
  <2> QED
    BY <1>0, <2>1, <2>2, <2>3
<1>8. ASSUME \/ \E i \in cfg.Input : Analyze(cfg)!Found(i)
             \/ \E m \in cfg.Msg : Analyze(cfg)!Enqueue(m)
             \/ UNCHANGED Analyze(cfg)!vars
      PROVE  Rest'
  <2>1. UNCHANGED <<analysis, saved, receipt, count, report, watching>>
    BY <1>8 DEF Analyze!Found, Analyze!Enqueue, Analyze!vars, Analyze!monitor, Analyze!server
  <2> QED
    BY <1>0, <2>1
<1>9. Rest'
  BY <1>2, <1>3, <1>4, <1>5, <1>6, <1>7, <1>8 DEF Analyze!Next, Analyze!Step
<1> QED
  BY <1>9 DEF AnalysisInv, AnalysisType, Analyze!TypeOK

\* Of the .NET coverage task.
LEMMA DotnetTypes ==
    ASSUME NEW cfg, Dotnet(cfg)!DotnetAssumption, DotnetInv(cfg), Dotnet(cfg)!TypeOK,
           [Dotnet(cfg)!Next]_(Dotnet(cfg)!vars)
    PROVE  Dotnet(cfg)!TypeOK'
<1>0. /\ Dotnet(cfg)!TypeOK /\ cfg.Attempts \in Nat \ {0} /\ cfg.Corpus \subseteq cfg.Input
      /\ main \in {"record", "merge", "delete"} => input \in cfg.Input
  BY DEF DotnetInv, Dotnet!TypeOK, Dotnet!DotnetAssumption, Accounted
<1>1. CASE UNCHANGED Dotnet(cfg)!vars
  BY <1>0, <1>1 DEF Dotnet!vars, Dotnet!merges, Dotnet!TypeOK
<1>2. CASE Dotnet(cfg)!NextFile
  BY <1>0, <1>2 DEF Dotnet!NextFile, Dotnet!merges, Dotnet!TypeOK
<1>3. CASE Dotnet(cfg)!Pop
  BY <1>0, <1>3 DEF Dotnet!Pop, Dotnet!merges, Dotnet!TypeOK
<1>4. CASE Dotnet(cfg)!Record
  BY <1>0, <1>4 DEF Dotnet!Record, Dotnet!Write, Dotnet!merges, Dotnet!TypeOK
<1>5. CASE Dotnet(cfg)!Watch
  BY <1>0, <1>5 DEF Dotnet!Watch, Dotnet!merges, Dotnet!TypeOK
<1>6. CASE Dotnet(cfg)!Delete
  BY <1>0, <1>6 DEF Dotnet!Delete, Dotnet!merges, Dotnet!TypeOK
<1>7. ASSUME NEW a \in Dotnet(cfg)!Actor, Dotnet(cfg)!MergeReads(a)
      PROVE  Dotnet(cfg)!TypeOK'
  BY <1>0, <1>7 DEF Dotnet!MergeReads, Dotnet!TypeOK
<1>8. ASSUME NEW a \in Dotnet(cfg)!Actor, Dotnet(cfg)!MergeWrites(a)
      PROVE  Dotnet(cfg)!TypeOK'
  BY <1>0, <1>8 DEF Dotnet!MergeWrites, Dotnet!TypeOK
<1>9. ASSUME NEW a \in Dotnet(cfg)!Actor, Dotnet(cfg)!MergeRemoves(a) \/ Dotnet(cfg)!MergeFails(a)
      PROVE  Dotnet(cfg)!TypeOK'
  BY <1>0, <1>9 DEF Dotnet!MergeRemoves, Dotnet!MergeFails, Dotnet!TypeOK
<1>10. ASSUME NEW a \in Dotnet(cfg)!Actor, Dotnet(cfg)!MergeEndsInError(a) \/ Dotnet(cfg)!Push(a)
      PROVE  Dotnet(cfg)!TypeOK'
  BY <1>0, <1>10 DEF Dotnet!MergeEndsInError, Dotnet!MergeError, Dotnet!Push, Dotnet!TypeOK
<1> QED
  BY <1>1, <1>2, <1>3, <1>4, <1>5, <1>6, <1>7, <1>8, <1>9, <1>10 DEF Dotnet!Next

\* Of the fuzzing task.
LEMMA FuzzTypes ==
    ASSUME NEW cfg, Fuzz(cfg)!FuzzAssumption, FuzzInv(cfg), FuzzInv(cfg)', Fuzz(cfg)!TypeOK,
           [Fuzz(cfg)!Next]_(Fuzz(cfg)!vars)
    PROVE  Fuzz(cfg)!TypeOK'
<1> DEFINE Rest == /\ phase \in {"init", "setup", "verify", "run", "failed"}
                   /\ attempts \in 1..cfg.MaxAttempts
                   /\ runs \in [cfg.Workers -> 0..cfg.MaxRuns]
                   /\ watch \subseteq Fuzz(cfg)!Dirs
                   /\ events \subseteq Fuzz(cfg)!Files
                   /\ early \subseteq Fuzz(cfg)!Files /\ cut \subseteq Fuzz(cfg)!Files
<1>0. Rest /\ cfg.MaxAttempts \in Nat \ {0} /\ cfg.MaxRuns \in Nat
  BY DEF Fuzz!TypeOK, Fuzz!FuzzAssumption
<1>1. Fuzz(cfg)!Abort => Rest'
  BY <1>0 DEF Fuzz!Abort
<1>2. ASSUME UNCHANGED <<attempts, runs, watch, events, early, cut>>,
             phase' \in {"init", "setup", "verify", "run", "failed"}
      PROVE  Rest'
  BY <1>0, <1>2
<1>3. CASE UNCHANGED Fuzz(cfg)!vars
  <2>1. Rest'
    BY <1>0, <1>3 DEF Fuzz!vars
  <2> QED
    BY <2>1 DEF FuzzInv, FuzzType, Fuzz!TypeOK
<1>4. Fuzz(cfg)!InitDirectories \/ Fuzz(cfg)!ExtraSetup => Rest'
  BY <1>0, <1>1, <1>2 DEF Fuzz!InitDirectories, Fuzz!ExtraSetup
<1>5. Fuzz(cfg)!VerifyOnce => Rest'
  BY <1>0 DEF Fuzz!VerifyOnce
<1>6. Fuzz(cfg)!SyncInputs => Rest'
  BY <1>0 DEF Fuzz!SyncInputs, Fuzz!Files
<1>7. ASSUME NEW d \in Fuzz(cfg)!Dirs, Fuzz(cfg)!StartMonitor(d) PROVE Rest'
  BY <1>0, <1>7 DEF Fuzz!StartMonitor
<1>8. ASSUME NEW w \in cfg.Workers, Fuzz(cfg)!RunFuzzer(w) PROVE Rest'
  <2>1. CASE Fuzz(cfg)!Abort
    BY <1>1, <2>1
  <2>2. CASE /\ runs[w] < cfg.MaxRuns /\ runs' = [runs EXCEPT ![w] = @ + 1]
             /\ UNCHANGED <<phase, attempts, watch, events, early, cut>>
    <3>1. runs[w] + 1 \in 0..cfg.MaxRuns
      BY <1>0, <2>2
    <3> QED
      BY <1>0, <2>2, <3>1
  <2> QED
    BY <1>8, <2>1, <2>2 DEF Fuzz!RunFuzzer
<1>9. ASSUME NEW w \in cfg.Workers, Fuzz(cfg)!CrashesMoved(w) \/ Fuzz(cfg)!InputsMoved(w)
      PROVE  Rest'
  BY <1>0, <1>9 DEF Fuzz!CrashesMoved, Fuzz!InputsMoved
<1>10. ASSUME NEW w \in cfg.Workers, NEW f \in Fuzz(cfg)!Files,
              Fuzz(cfg)!MoveCrash(w, f) \/ Fuzz(cfg)!MoveInput(w, f)
       PROVE  Rest'
  <2>1. CASE Fuzz(cfg)!Abort
    BY <1>1, <2>1
  <2>2. CASE /\ Fuzz(cfg)!Rename(w, f) /\ UNCHANGED <<phase, attempts, runs, watch, cut>>
    BY <1>0, <2>2 DEF Fuzz!Rename
  <2>3. CASE UNCHANGED <<phase, attempts, runs, watch, events, early, cut>>
    BY <1>0, <2>3
  <2> QED
    BY <1>10, <2>1, <2>2, <2>3 DEF Fuzz!MoveCrash, Fuzz!MoveInput
<1>11. ASSUME NEW w \in cfg.Workers, Fuzz(cfg)!Exited(w) PROVE Rest'
  BY <1>0, <1>1, <1>11 DEF Fuzz!Exited
<1>12. ASSUME NEW w \in cfg.Workers, NEW f \in Fuzz(cfg)!Files, Fuzz(cfg)!WriteFile(w, f)
       PROVE  Rest'
  BY <1>0, <1>12 DEF Fuzz!WriteFile
<1>13. ASSUME NEW f \in Fuzz(cfg)!Files, Fuzz(cfg)!Upload(f) \/ Fuzz(cfg)!OtherNode(f)
       PROVE  Rest'
  BY <1>0, <1>1, <1>13 DEF Fuzz!Upload, Fuzz!OtherNode
<1>14. Fuzz(cfg)!Next => Rest' \/ UNCHANGED Fuzz(cfg)!vars
  BY <1>4, <1>5, <1>6, <1>7, <1>8, <1>9, <1>10, <1>11, <1>12, <1>13
     DEF Fuzz!Next, Fuzz!Monitor, Fuzz!Finished
<1> QED
  BY <1>3, <1>14 DEF FuzzInv, FuzzType, Fuzz!TypeOK

\* Of the coverage task: the files that are recorded or ignored are of the corpus, and none
\* is counted before it is taken (record_corpus).
CorpusCounted(cfg) ==
    /\ pc = "start" => count = 0
    /\ pc = "record" /\ held = None => input \in cfg.Corpus
    /\ count + Cardinality(todo) + (IF pc = "record" /\ held = None THEN 1 ELSE 0)
         <= Cardinality(cfg.Corpus)

\* The sizes that CoverageTask speaks of are those of FiniteSets.
LEMMA SameSize ==
    ASSUME NEW cfg, NEW S
    PROVE  /\ Cover(cfg)!IsFiniteSet(S) <=> IsFiniteSet(S)
           /\ Cover(cfg)!Cardinality(S) = Cardinality(S)
<1>1. Cover(cfg)!IsFiniteSet(S) <=> IsFiniteSet(S)
  BY DEF Cover!IsFiniteSet, IsFiniteSet
<1>2. Cover(cfg)!Cardinality(S) = Cardinality(S)
  BY DEF Cover!Cardinality, Cardinality
<1> QED
  BY <1>1, <1>2

\* Every step of the coverage task keeps both.
LEMMA CoverTypes ==
    ASSUME NEW cfg, Cover(cfg)!CoverageAssumption, CoverInv(cfg), CoverInv(cfg)',
           Cover(cfg)!TypeOK, CorpusCounted(cfg), [Cover(cfg)!Next]_(Cover(cfg)!vars)
    PROVE  Cover(cfg)!TypeOK' /\ CorpusCounted(cfg)'
<1> DEFINE Rest == /\ attempt \in 1..cfg.Attempts /\ crashes \in 0..cfg.MaxCrashes
                   /\ ignored \subseteq cfg.Corpus
           busy == IF pc = "record" /\ held = None THEN 1 ELSE 0
<1>0. /\ Rest /\ count \in Nat /\ cfg.MaxCrashes \in Nat /\ cfg.Attempts \in Nat \ {0}
      /\ pc \in Cover(cfg)!State /\ todo \subseteq cfg.Corpus /\ None \notin cfg.Msg
  BY SameSize DEF Cover!TypeOK, Cover!CoverageAssumption, CoverInv, CoverType
<1>f. /\ IsFiniteSet(cfg.Corpus) /\ Cardinality(cfg.Corpus) \in Nat
      /\ \A S \in SUBSET cfg.Corpus : IsFiniteSet(S) /\ Cardinality(S) \in Nat
      /\ Cardinality({}) = 0
  <2>1. IsFiniteSet(cfg.Corpus)
    BY SameSize DEF Cover!CoverageAssumption
  <2> QED
    BY <2>1, FS_Subset, FS_CardinalityType, FS_EmptySet
<1>1. ASSUME Rest', CorpusCounted(cfg)' PROVE Cover(cfg)!TypeOK' /\ CorpusCounted(cfg)'
  <2>1. count' \in Nat /\ todo' \subseteq cfg.Corpus
    BY DEF CoverInv, CoverType
  <2>2. Cardinality(todo') \in Nat
    BY <1>f, <2>1
  <2>3. count' \in 0..Cardinality(cfg.Corpus)
    BY <1>1, <1>f, <2>1, <2>2 DEF CorpusCounted
  <2> QED
    BY <1>1, <2>3, SameSize DEF CoverInv, CoverType, Cover!TypeOK
<1>2. ASSUME UNCHANGED <<attempt, crashes, ignored>> PROVE Rest'
  BY <1>0, <1>2
<1>3. ASSUME UNCHANGED <<count, todo>>,
             pc' # "start" \/ pc' = pc,
             pc' = "record" /\ held' = None => pc = "record" /\ held = None /\ input' = input
      PROVE  CorpusCounted(cfg)'
  <2>1. Cardinality(todo) \in Nat
    BY <1>0, <1>f
  <2> QED
    BY <1>0, <1>3, <1>f, <2>1 DEF CorpusCounted
<1>4. CASE UNCHANGED Cover(cfg)!vars
  BY <1>1, <1>2, <1>3, <1>4 DEF Cover!vars
<1>5. ASSUME NEW m \in cfg.Msg, Cover(cfg)!Enqueue(m)
      PROVE  Cover(cfg)!TypeOK' /\ CorpusCounted(cfg)'
  BY <1>1, <1>2, <1>3, <1>5 DEF Cover!Enqueue
<1>6. CASE Cover(cfg)!Crash
  <2>1. Rest'
    BY <1>0, <1>6 DEF Cover!Crash
  <2>2. CorpusCounted(cfg)'
    BY <1>6, <1>f DEF Cover!Crash, CorpusCounted
  <2> QED
    BY <1>1, <2>1, <2>2
<1>7. CASE Cover(cfg)!Start
  <2>1. Rest'
    BY <1>2, <1>7 DEF Cover!Start
  <2>2. CASE pc' = "corpus" /\ todo' = cfg.Corpus
    <3>1. pc = "start" /\ count = 0 /\ count' = count
      BY <1>7 DEF Cover!Start, CorpusCounted
    <3>2. CorpusCounted(cfg)'
      BY <1>f, <2>2, <3>1 DEF CorpusCounted
    <3> QED
      BY <1>1, <2>1, <3>2
  <2>3. CASE pc' = "failed" /\ UNCHANGED todo
    BY <1>3, <1>7, <2>1, <2>3, <1>1 DEF Cover!Start
  <2> QED
    BY <1>1, <1>7, <2>1, <2>2, <2>3 DEF Cover!Start, Cover!Fail
<1>8. CASE Cover(cfg)!NextFile
  <2>1. Rest'
    BY <1>0, <1>8 DEF Cover!NextFile
  <2>2. ASSUME NEW i \in todo, input' = i, todo' = todo \ {i}, pc' = "record"
        PROVE  CorpusCounted(cfg)'
    <3>1. UNCHANGED <<held, count>> /\ pc = "corpus"
      BY <1>8 DEF Cover!NextFile
    <3>2. /\ IsFiniteSet(todo) /\ Cardinality(todo) \in Nat /\ i \in cfg.Corpus
          /\ Cardinality(todo') = Cardinality(todo) - 1
      BY <1>0, <1>f, <2>2, FS_RemoveElement
    <3> QED
      BY <1>0, <1>f, <2>2, <3>1, <3>2 DEF CorpusCounted
  <2>3. CASE todo = {} /\ pc' = Cover(cfg)!AfterCorpus /\ UNCHANGED <<input, todo, attempt>>
    <3>1. pc' \in {"save_corpus", "poll"}
      BY <2>3 DEF Cover!AfterCorpus
    <3>2. CorpusCounted(cfg)'
      BY <1>3, <1>8, <2>3, <3>1 DEF Cover!NextFile
    <3> QED
      BY <1>1, <2>1, <3>2
  <2> QED
    BY <1>1, <1>8, <2>1, <2>2, <2>3 DEF Cover!NextFile
<1>9. CASE Cover(cfg)!TryRecord
  <2>0. /\ pc = "record" /\ UNCHANGED <<held, input, todo, crashes>>
        /\ Cardinality(todo) \in Nat
    BY <1>0, <1>9, <1>f DEF Cover!TryRecord
  <2>1. CASE /\ count' = IF held = None THEN count + 1 ELSE count
             /\ pc' = Cover(cfg)!AfterRecord /\ attempt' = 1 /\ UNCHANGED ignored
    <3>1. pc' \in {"save_input", "save", "corpus"}
      BY <2>1 DEF Cover!AfterRecord
    <3>2. CorpusCounted(cfg)'
      BY <1>0, <1>f, <2>0, <2>1, <3>1 DEF CorpusCounted
    <3>3. Rest'
      BY <1>0, <2>0, <2>1
    <3> QED
      BY <1>1, <3>2, <3>3
  <2>2. CASE /\ attempt < cfg.Attempts /\ attempt' = attempt + 1
             /\ UNCHANGED <<count, pc, ignored>>
    <3>1. Rest'
      BY <1>0, <2>0, <2>2
    <3> QED
      BY <1>1, <1>3, <2>0, <2>2, <3>1
  <2>3. CASE /\ attempt' = 1 /\ pc' = Cover(cfg)!AfterGiveUp /\ UNCHANGED count
             /\ ignored' = IF held = None THEN ignored \cup {input} ELSE ignored
    <3>1. pc' \in {"failed", "corpus"}
      BY <2>3 DEF Cover!AfterGiveUp
    <3>2. Rest'
      BY <1>0, <2>0, <2>3 DEF CorpusCounted
    <3> QED
      BY <1>1, <1>3, <2>0, <2>3, <3>1, <3>2
  <2> QED
    BY <1>9, <2>1, <2>2, <2>3 DEF Cover!TryRecord
<1>10. CASE Cover(cfg)!Save
  <2>1. pc' \in {"corpus", "poll", "delete", "failed"}
    BY <1>10 DEF Cover!Save, Cover!AfterSave, Cover!Fail
  <2> QED
    BY <1>1, <1>2, <1>3, <1>10, <2>1 DEF Cover!Save
<1>11. CASE Cover(cfg)!Pop
  <2>1. pc' = "failed" \/ (pc' = "record" /\ held' \in cfg.Msg)
    BY <1>11 DEF Cover!Pop, Cover!Fail
  <2> QED
    BY <1>0, <1>1, <1>2, <1>3, <1>11, <2>1 DEF Cover!Pop
<1>12. CASE Cover(cfg)!Delete
  <2>1. pc' \in {"poll", "failed"}
    BY <1>12 DEF Cover!Delete, Cover!Fail
  <2> QED
    BY <1>1, <1>2, <1>3, <1>12, <2>1 DEF Cover!Delete
<1> QED
  BY <1>4, <1>5, <1>6, <1>7, <1>8, <1>9, <1>10, <1>11, <1>12 DEF Cover!Next

\* Of the regression task: what a node reads is a report or an input, and what it is about
\* to save a regression report.
ReportFile(cfg, f) == f.name \in Regress(cfg)!Names /\ f.input \in cfg.Inputs \cup {None}

RegressionReads(cfg, n) ==
    /\ pc[n] \in {"Reports", "SaveReport"} => \A f \in todo[n] : ReportFile(cfg, f)
    /\ pc[n] \in {"Inputs", "SaveInput"} => todo[n] \subseteq cfg.Inputs
    /\ pc[n] \in {"SaveReport", "SaveInput"} => regressing[n] \in Regress(cfg)!Saved

RegressionData(cfg) ==
    /\ \A d \in DOMAIN content : \A f \in content[d] : ReportFile(cfg, f)
    /\ inputs \in {None, cfg.Inputs} /\ build \in cfg.Builds
    /\ \A n \in cfg.Nodes : RegressionReads(cfg, n)

\* The last segment of a short path is replaced.
LEMMA ReplaceLast ==
    ASSUME NEW a, NEW b, NEW c
    PROVE  /\ Append(SubSeq(<<a, b>>, 1, 1), c) = <<a, c>>
           /\ Append(SubSeq(<<b>>, 1, 0), c) = <<c>>
<1>1. SubSeq(<<b>>, 1, 0) = <<>>
  BY SubSeqEmpty
<1>2. SubSeq(<<a, b>>, 1, 1) = <<a>>
  <2> DEFINE s == <<a, b>>
  <2>1. s \in Seq({a, b}) /\ Len(s) = 2 /\ s[1] = a
    OBVIOUS
  <2>2. SubSeq(s, 2, 1) = <<>>
    BY SubSeqEmpty
  <2>3. SubSeq(s, 1, 1) = <<s[1]>> \o SubSeq(s, 1 + 1, 1)
    <3> HIDE DEF s
    <3>1. 1 \in 1..Len(s) /\ 1 \in 1..1
      BY <2>1
    <3> QED
      BY <2>1, <3>1, SubSeqRecursiveFirst
  <2>4. 1 + 1 = 2 /\ <<a>> \o <<>> = <<a>>
    OBVIOUS
  <2> QED
    BY <2>1, <2>2, <2>3, <2>4
<1>3. Append(<<a>>, c) = <<a, c>>
  <2> DEFINE s == <<a>>
             t == <<a, c>>
             u == Append(s, c)
  <2>1. s \in Seq({a, c}) /\ Len(s) = 1 /\ s[1] = a
    OBVIOUS
  <2>2. t \in Seq({a, c}) /\ Len(t) = 2 /\ t[1] = a /\ t[2] = c
    OBVIOUS
  <2>3. u \in Seq({a, c}) /\ Len(u) = 2 /\ u[1] = a /\ u[2] = c
    <3> DEFINE M == {a, c}
    <3>0. c \in M
      OBVIOUS
    <3> HIDE DEF s, M
    <3>1. s \in Seq(M)
      BY <2>1 DEF M
    <3>2. /\ u \in Seq(M) /\ Len(u) = Len(s) + 1
          /\ \A i \in 1..Len(s) : u[i] = s[i]
          /\ u[Len(s) + 1] = c
      BY <3>0, <3>1, AppendProperties
    <3>3. 1 \in 1..1 /\ 1 + 1 = 2
      OBVIOUS
    <3> HIDE DEF u
    <3> QED
      BY <2>1, <3>2, <3>3 DEF M
  <2> HIDE DEF s, t, u
  <2>4. u = t
    BY <2>2, <2>3
  <2> QED
    BY <2>4 DEF s, t, u
<1>4. Append(<<>>, c) = <<c>>
  OBVIOUS
<1> QED
  BY <1>1, <1>2, <1>3, <1>4

\* The blobs that a node names: those of a crash and of an input, if their URLs name one.
LEMMA BlobsNamed ==
    ASSUME NEW cfg, NEW i \in cfg.Inputs \cup {"crashes"}, cfg.Scheme \in {"https", "file"},
           Regress(cfg)!EmptySegment \notin cfg.Inputs
    PROVE  LET B == {None} \cup UNION {[1..k -> cfg.Inputs \cup {"crashes"}] : k \in 1..2}
           IN  /\ Regress(cfg)!InputBlob(Regress(cfg)!ContainerUrl(i)) \in B
               /\ Regress(cfg)!InputBlob(Regress(cfg)!Join(Regress(cfg)!ContainerUrl("inputs"), i))
                    \in B
<1> DEFINE U == cfg.Inputs \cup {"crashes"}
           B == {None} \cup UNION {[1..k -> U] : k \in 1..2}
<1>1. ASSUME NEW u \in U PROVE <<u>> \in B
  <2>1. <<u>> \in [1..1 -> U] /\ 1 \in 1..2
    OBVIOUS
  <2> QED
    BY <2>1
<1>2. None \in B
  OBVIOUS
<1> HIDE DEF B
<1> DEFINE Place(x) == [scheme |-> cfg.Scheme,
                        host |-> IF cfg.Scheme = "file" THEN "none" ELSE "account",
                        path |-> IF cfg.Scheme = "file" THEN <<"data", x>> ELSE <<x>>]
<1>3. \A x : Regress(cfg)!ContainerUrl(x) = Place(x)
  BY DEF Regress!ContainerUrl, Regress!Url
<1>4. Regress(cfg)!Join(Place("inputs"), i) = Place(i)
  <2> DEFINE base == Place("inputs").path
  <2>1. Append(SubSeq(base, 1, Len(base) - 1), i) = Place(i).path
    <3>1. CASE cfg.Scheme = "file"
      <4>1. /\ base = <<"data", "inputs">> /\ Len(<<"data", "inputs">>) - 1 = 1
            /\ Place(i).path = <<"data", i>>
        BY <3>1
      <4>2. Append(SubSeq(<<"data", "inputs">>, 1, 1), i) = <<"data", i>>
        BY ReplaceLast
      <4> HIDE DEF Place
      <4> QED
        BY <4>1, <4>2, Zenon
    <3>2. CASE cfg.Scheme = "https"
      <4>1. /\ base = <<"inputs">> /\ Len(<<"inputs">>) - 1 = 0 /\ Place(i).path = <<i>>
        BY <3>2
      <4>2. Append(SubSeq(<<"inputs">>, 1, 0), i) = <<i>>
        BY ReplaceLast
      <4> HIDE DEF Place
      <4> QED
        BY <4>1, <4>2, Zenon
    <3> QED
      BY <3>1, <3>2
  <2>2. Regress(cfg)!Join(Place("inputs"), i) = [Place("inputs") EXCEPT !.path = Place(i).path]
    BY <2>1 DEF Regress!Join
  <2> QED
    BY <2>2
<1>5. Regress(cfg)!InputBlob(Place(i)) \in B
  <2>1. CASE cfg.Scheme = "file"
    <3>1. Place(i).scheme = "file" /\ Place(i).host = "none" /\ Place(i).path = <<"data", i>>
      BY <2>1
    <3>2. Regress(cfg)!InputBlob(Place(i)) = <<Regress(cfg)!FileName(<<"data", i>>)>>
      BY <3>1 DEF Regress!InputBlob, Regress!IsBlobUrl, Regress!possible_blob_storage_url,
                  Regress!name, Regress!Local
    <3>3. Regress(cfg)!FileName(<<"data", i>>) = i
      <4> DEFINE e == Regress(cfg)!EmptySegment
                 path == <<"data", i>>
                 Q(k) == path[k] # e /\ \A j \in DOMAIN path : k < j => path[j] = e
      <4>1. i # e
        BY DEF Regress!EmptySegment
      <4>2. DOMAIN path = {1, 2} /\ path[2] = i /\ path \in Seq({"data", i})
        OBVIOUS
      <4>3. Q(2)
        BY <4>1, <4>2
      <4>4. ASSUME NEW k \in DOMAIN path, Q(k) PROVE k = 2
        <5>1. k = 1 \/ k = 2
          BY <4>2
        <5>2. k # 1
          BY <4>1, <4>2, <4>4
        <5> QED
          BY <5>1, <5>2
      <4>5. Regress(cfg)!FileName(path) = path[CHOOSE k \in DOMAIN path : Q(k)]
        BY DEF Regress!FileName
      <4>6. PICK m : m = CHOOSE k \in DOMAIN path : Q(k)
        OBVIOUS
      <4> HIDE DEF path, Q, e
      <4>7. m \in DOMAIN path /\ Q(m)
        BY <4>2, <4>3, <4>6, Zenon
      <4> QED
        BY <4>2, <4>4, <4>5, <4>6, <4>7 DEF path
    <3> QED
      BY <1>1, <3>2, <3>3
  <2>2. CASE cfg.Scheme = "https"
    <3>1. Place(i).scheme = "https" /\ Place(i).path = <<i>>
      BY <2>2
    <3>2. Regress(cfg)!InputBlob(Place(i)) = None
      BY <3>1 DEF Regress!InputBlob, Regress!IsBlobUrl, Regress!possible_blob_storage_url
    <3> QED
      BY <1>2, <3>2
  <2> QED
    BY <2>1, <2>2
<1> QED
  BY <1>3, <1>4, <1>5 DEF B

LEMMA RegressionTypes ==
    ASSUME NEW cfg, Regress(cfg)!RegressionAssumption, RegressionInv(cfg), RegressionInv(cfg)',
           Regress(cfg)!TypeOK, RegressionData(cfg), [Regress(cfg)!Next]_(Regress(cfg)!vars)
    PROVE  Regress(cfg)!TypeOK' /\ RegressionData(cfg)'
<1> DEFINE Rest == /\ DOMAIN stored \subseteq Regress(cfg)!Names
                   /\ \A m \in DOMAIN stored : stored[m] \in Regress(cfg)!Saved
                   /\ sent \in [Regress(cfg)!Names -> Nat]
<1>0. /\ Rest /\ RegressionType(cfg) /\ None \notin Regress(cfg)!Saved
      /\ \A i \in cfg.Inputs : build[i] \in cfg.Stacks \cup {None}
  BY DEF Regress!TypeOK, RegressionInv, Regress!RegressionAssumption, RegressionData
<1>1. ASSUME Rest', RegressionData(cfg)' PROVE Regress(cfg)!TypeOK' /\ RegressionData(cfg)'
  <2>1. \A n \in cfg.Nodes : pc'[n] \in {"SaveReport", "SaveInput"} => regressing'[n] # None
    <3>1. (Regress(cfg)!Saved)' = Regress(cfg)!Saved
      BY DEF Regress!Saved, Regress!Names, Regress!Results
    <3> QED
      BY <1>0, <1>1, <3>1 DEF RegressionData, RegressionReads
  <2>2. Len(Regress(cfg)!ReportDirs) + 1 = 4
    BY DEF Regress!ReportDirs
  <2> QED
    BY <1>1, <2>1, <2>2 DEF RegressionInv, RegressionType, Regress!TypeOK, Regress!ReportDirs
<1>2. CASE UNCHANGED Regress(cfg)!vars
  BY <1>0, <1>1, <1>2 DEF Regress!vars, Regress!config, Regress!out, RegressionData,
                          RegressionReads, ReportFile, Regress!Names, Regress!Saved, Regress!Results
<1> SUFFICES ASSUME NEW n \in cfg.Nodes, RegressionAction(cfg, n)
             PROVE  Regress(cfg)!TypeOK' /\ RegressionData(cfg)'
  BY <1>2 DEF Regress!Next, RegressionAction
<1>3. RegressionEffect(cfg, n)
  BY RegressionEffects
<1>4. ASSUME Rest', RegressionReads(cfg, n)' PROVE Regress(cfg)!TypeOK' /\ RegressionData(cfg)'
  <2>1. \A v \in cfg.Nodes : RegressionReads(cfg, v)'
    BY <1>3, <1>4 DEF RegressionEffect, RegressionData, RegressionReads, ReportFile,
                     Regress!Names, Regress!Saved, Regress!Results
  <2>2. RegressionData(cfg)'
    BY <1>3, <2>1 DEF RegressionEffect, RegressionData, ReportFile, Regress!Names
  <2> QED
    BY <1>1, <1>4, <2>2
<1>5. RegressionReads(cfg, n)
  BY DEF RegressionData
<1>6. UNCHANGED <<stored, sent>> => Rest'
  BY <1>0 DEF Regress!Names, Regress!Saved, Regress!Results
<1>7. CASE Regress(cfg)!PullFails(n) \/ Regress(cfg)!BadReport(n) \/ Regress(cfg)!TestFails(n)
           \/ Regress(cfg)!SaveFails(n)
  <2>1. pc' = [pc EXCEPT ![n] = "Failed"] /\ UNCHANGED <<stored, sent>>
    BY <1>7 DEF Regress!PullFails, Regress!BadReport, Regress!TestFails, Regress!SaveFails,
                Regress!Fail, Regress!Goto, Regress!out
  <2>2. RegressionReads(cfg, n)'
    BY <1>0, <2>1 DEF RegressionType, RegressionReads
  <2> QED
    BY <1>4, <1>6, <2>1, <2>2
<1>8. CASE Regress(cfg)!NextDir(n) \/ Regress(cfg)!InputsDone(n)
  <2>1. /\ UNCHANGED <<stored, sent>>
        /\ pc' = [pc EXCEPT ![n] = "Start"] \/ pc' = [pc EXCEPT ![n] = "Done"]
    BY <1>8 DEF Regress!NextDir, Regress!InputsDone, Regress!Goto, Regress!out
  <2>2. RegressionReads(cfg, n)'
    BY <1>0, <2>1 DEF RegressionType, RegressionReads
  <2> QED
    BY <1>4, <1>6, <2>1, <2>2
<1>9. CASE Regress(cfg)!Pull(n)
  <2>1. UNCHANGED <<stored, sent>>
    BY <1>9 DEF Regress!Pull, Regress!out
  <2>2. CASE /\ dir[n] <= 3 /\ pc' = [pc EXCEPT ![n] = "Reports"]
             /\ todo' = [todo EXCEPT ![n] = content[Regress(cfg)!ReportDirs[dir[n]]]]
    <3>1. Regress(cfg)!ReportDirs[dir[n]] \in DOMAIN content
      BY <1>0, <2>2 DEF RegressionType, Regress!ReportDirs
    <3>2. pc'[n] = "Reports" /\ \A f \in todo'[n] : ReportFile(cfg, f)
      BY <1>0, <2>2, <3>1 DEF RegressionType, RegressionData
    <3>3. RegressionReads(cfg, n)'
      BY <3>2 DEF RegressionReads, ReportFile, Regress!Names
    <3> QED
      BY <1>4, <1>6, <2>1, <3>3
  <2>3. CASE pc' = [pc EXCEPT ![n] = "Done"]
    <3>1. RegressionReads(cfg, n)'
      BY <1>0, <2>3 DEF RegressionType, RegressionReads
    <3> QED
      BY <1>4, <1>6, <2>1, <3>1
  <2>4. CASE /\ inputs # None /\ pc' = [pc EXCEPT ![n] = "Inputs"]
             /\ todo' = [todo EXCEPT ![n] = inputs]
    <3>1. RegressionReads(cfg, n)'
      BY <1>0, <2>4 DEF RegressionType, RegressionData, RegressionReads
    <3> QED
      BY <1>4, <1>6, <2>1, <3>1
  <2> QED
    BY <1>9, <2>2, <2>3, <2>4 DEF Regress!Pull, Regress!Goto, Regress!ReportDirs
<1>10. CASE Regress(cfg)!Skip(n)
  <2>1. /\ UNCHANGED <<stored, sent>> /\ pc' = pc /\ pc[n] = "Reports"
        /\ \E f \in todo[n] : todo' = [todo EXCEPT ![n] = @ \ {f}]
    BY <1>10 DEF Regress!Skip, Regress!out
  <2>2. RegressionReads(cfg, n)'
    BY <1>0, <1>5, <2>1 DEF RegressionType, RegressionReads, ReportFile, Regress!Names
  <2> QED
    BY <1>4, <1>6, <2>1, <2>2
<1>11. ASSUME NEW i \in cfg.Inputs, NEW f, NEW r \in Regress(cfg)!CrashResult(i),
              NEW nm \in Regress(cfg)!Names, NEW url,
              Regress(cfg)!InputBlob(url) \in
                {None} \cup UNION {[1..k -> cfg.Inputs \cup {"crashes"}] : k \in 1..2},
              Regress(cfg)!Tested(n, i, f, r, nm, url),
              \/ pc[n] = "Reports" /\ pc' = [pc EXCEPT ![n] = "SaveReport"]
              \/ pc[n] = "Inputs" /\ pc' = [pc EXCEPT ![n] = "SaveInput"]
       PROVE  Regress(cfg)!TypeOK' /\ RegressionData(cfg)'
  <2>1. /\ UNCHANGED <<stored, sent>> /\ todo' = [todo EXCEPT ![n] = @ \ {f}]
        /\ regressing' = [regressing EXCEPT ![n] =
              [name |-> nm, result |-> r, input |-> i, blob |-> Regress(cfg)!InputBlob(url)]]
    BY <1>11 DEF Regress!Tested
  <2>2. r \in Regress(cfg)!Results
    BY <1>0, <1>11 DEF Regress!CrashResult, Regress!Results
  <2>3. regressing'[n] \in Regress(cfg)!Saved
    BY <1>0, <1>11, <2>1, <2>2 DEF Regress!Saved, RegressionType
  <2>4. todo'[n] \subseteq todo[n] /\ pc'[n] \in {"SaveReport", "SaveInput"}
        /\ (pc'[n] = "SaveReport" => pc[n] = "Reports")
        /\ (pc'[n] = "SaveInput" => pc[n] = "Inputs")
    BY <1>0, <1>11, <2>1 DEF RegressionType
  <2>5. RegressionReads(cfg, n)'
    BY <1>5, <2>3, <2>4 DEF RegressionReads, ReportFile, Regress!Names, Regress!Saved,
                           Regress!Results
  <2> QED
    BY <1>4, <1>6, <2>1, <2>5
<1>12. CASE Regress(cfg)!TestReport(n)
  <2>1. /\ pc[n] = "Reports" /\ pc' = [pc EXCEPT ![n] = "SaveReport"]
    BY <1>12 DEF Regress!TestReport, Regress!Goto
  <2>2. PICK f \in todo[n] : /\ ~Regress(cfg)!Unusable(f)
          /\ \E r \in Regress(cfg)!CrashResult(f.input) :
               Regress(cfg)!Tested(n, f.input, f, r, f.name, Regress(cfg)!ContainerUrl("crashes"))
    BY <1>12 DEF Regress!TestReport
  <2>3. f.name \in Regress(cfg)!Names /\ f.input \in cfg.Inputs
    BY <1>5, <2>1, <2>2 DEF RegressionReads, ReportFile, Regress!Unusable
  <2>4. Regress(cfg)!InputBlob(Regress(cfg)!ContainerUrl("crashes")) \in
          {None} \cup UNION {[1..k -> cfg.Inputs \cup {"crashes"}] : k \in 1..2}
    BY BlobsNamed DEF Regress!RegressionAssumption
  <2> QED
    BY <1>11, <2>1, <2>2, <2>3, <2>4
<1>13. CASE Regress(cfg)!TestInput(n)
  <2>1. /\ pc[n] = "Inputs" /\ pc' = [pc EXCEPT ![n] = "SaveInput"]
    BY <1>13 DEF Regress!TestInput, Regress!Goto
  <2>2. PICK i \in todo[n] : \E r \in Regress(cfg)!CrashResult(i) :
          Regress(cfg)!Tested(n, i, i, r, IF r = None THEN <<"input", i>> ELSE <<"stack", r>>,
                              Regress(cfg)!Join(Regress(cfg)!ContainerUrl("inputs"), i))
    BY <1>13 DEF Regress!TestInput
  <2>3. i \in cfg.Inputs
    BY <1>5, <2>1, <2>2 DEF RegressionReads
  <2>4. \A r \in Regress(cfg)!CrashResult(i) :
          (IF r = None THEN <<"input", i>> ELSE <<"stack", r>>) \in Regress(cfg)!Names
    BY <1>0, <2>3 DEF Regress!CrashResult, Regress!Names
  <2>5. Regress(cfg)!InputBlob(Regress(cfg)!Join(Regress(cfg)!ContainerUrl("inputs"), i)) \in
          {None} \cup UNION {[1..k -> cfg.Inputs \cup {"crashes"}] : k \in 1..2}
    BY <2>3, BlobsNamed DEF Regress!RegressionAssumption
  <2> QED
    BY <1>11, <2>1, <2>2, <2>3, <2>4, <2>5
<1>14. CASE Regress(cfg)!Save(n) \/ Regress(cfg)!SaveAnswerLost(n)
  <2> DEFINE nm == regressing[n].name
  <2>1. /\ pc[n] \in {"SaveReport", "SaveInput"} /\ regressing[n] \in Regress(cfg)!Saved
        /\ nm \in Regress(cfg)!Names
    BY <1>5, <1>14 DEF Regress!Save, Regress!SaveAnswerLost, RegressionReads, Regress!Saved
  <2>2. /\ pc' = [pc EXCEPT ![n] = IF pc[n] = "SaveReport" THEN "Reports" ELSE "Inputs"]
        /\ todo' = todo
    BY <1>14 DEF Regress!Save, Regress!SaveAnswerLost, Regress!AfterSave, Regress!Goto
  <2>3. RegressionReads(cfg, n)'
    BY <1>0, <1>5, <2>1, <2>2 DEF RegressionType, RegressionReads, ReportFile, Regress!Names
  <2>4. /\ \/ UNCHANGED stored
           \/ stored' = [m \in DOMAIN stored \cup {nm} |-> IF m = nm THEN regressing[n] ELSE stored[m]]
        /\ UNCHANGED sent \/ sent' = [sent EXCEPT ![nm] = @ + 1]
    BY <1>14 DEF Regress!Save, Regress!SaveAnswerLost
  <2>5. Rest'
    <3>1. /\ DOMAIN stored' \subseteq Regress(cfg)!Names
          /\ \A m \in DOMAIN stored' : stored'[m] \in Regress(cfg)!Saved
      BY <1>0, <2>1, <2>4
    <3>2. sent' \in [Regress(cfg)!Names -> Nat]
      BY <1>0, <2>1, <2>4
    <3> QED
      BY <3>1, <3>2 DEF Regress!Names, Regress!Saved, Regress!Results
  <2> QED
    BY <1>4, <2>3, <2>5
<1> QED
  BY <1>7, <1>8, <1>9, <1>10, <1>12, <1>13, <1>14 DEF RegressionAction

\* The types hold initially.
LEMMA MergeTypesInit ==
    ASSUME NEW cfg, Merger(cfg)!MergeAssumption, Merger(cfg)!Init
    PROVE  Merger(cfg)!TypeOK
<1>1. /\ cfg.MaxPops \in Nat /\ cfg.MaxRetry \in Nat /\ cfg.MaxFailure \in Nat
  BY DEF Merger!MergeAssumption
<1> QED
  BY <1>1 DEF Merger!Init, Merger!TypeOK, Merger!State

LEMMA AnalysisTypesInit ==
    ASSUME NEW cfg, Analyze(cfg)!AnalysisAssumption, Analyze(cfg)!Init
    PROVE  Analyze(cfg)!TypeOK
<1>1. cfg.MaxPops \in Nat /\ cfg.SyncEvery \in Nat \ {0}
  BY DEF Analyze!AnalysisAssumption
<1> QED
  BY <1>1 DEF Analyze!Init, Analyze!TypeOK, Analyze!State

LEMMA CoverTypesInit ==
    ASSUME NEW cfg, Cover(cfg)!CoverageAssumption, Cover(cfg)!Init
    PROVE  Cover(cfg)!TypeOK /\ CorpusCounted(cfg)
<1>1. /\ cfg.MaxPops \in Nat /\ cfg.MaxCrashes \in Nat /\ cfg.Attempts \in Nat \ {0}
      /\ IsFiniteSet(cfg.Corpus)
  BY SameSize DEF Cover!CoverageAssumption
<1>2. /\ Cardinality(cfg.Corpus) \in Nat /\ Cardinality({}) = 0
      /\ Cover(cfg)!Cardinality(cfg.Corpus) = Cardinality(cfg.Corpus)
  BY <1>1, FS_CardinalityType, FS_EmptySet, SameSize
<1>3. remote \in Cover(cfg)!Coverage /\ coverage \in Cover(cfg)!Coverage
  BY DEF Cover!Init, Cover!Coverage, Cover!Empty
<1>4. queue \in [cfg.Msg -> [state : {"unsent", "visible", "hidden", "deleted"},
                             receipt : 0..cfg.MaxPops]]
  BY <1>1 DEF Cover!Init
<1> QED
  BY <1>1, <1>2, <1>3, <1>4 DEF Cover!Init, Cover!TypeOK, Cover!State, CorpusCounted

LEMMA DotnetTypesInit ==
    ASSUME NEW cfg, Dotnet(cfg)!DotnetAssumption, Dotnet(cfg)!Init
    PROVE  Dotnet(cfg)!TypeOK
<1>i. attempt = 1 /\ todo = cfg.Corpus
  BY DEF Dotnet!Init
<1>o. overlapped \in BOOLEAN
  BY DEF Dotnet!Init
<1>1. attempt \in 1..cfg.Attempts /\ todo \subseteq cfg.Input
  BY <1>i DEF Dotnet!DotnetAssumption
<1>2. /\ merging \in [Dotnet(cfg)!Actor -> {"no", "read", "written", "push"}]
      /\ snapshot \in [Dotnet(cfg)!Actor -> SUBSET cfg.Input]
      /\ found \in [Dotnet(cfg)!Actor -> SUBSET cfg.Input]
  BY DEF Dotnet!Init
<1> QED
  BY <1>o, <1>1, <1>2 DEF Dotnet!Init, Dotnet!TypeOK

LEMMA RegressionTypesInit ==
    ASSUME NEW cfg, Regress(cfg)!RegressionAssumption, Regress(cfg)!Init
    PROVE  Regress(cfg)!TypeOK /\ RegressionData(cfg)
<1>1. /\ \A d \in DOMAIN content : \A f \in content[d] :
           \E e \in DOMAIN cfg.Files : f \in cfg.Files[e]
      /\ inputs \in {None, cfg.Inputs} /\ build \in cfg.Builds
  BY DEF Regress!Init
<1>2. RegressionData(cfg)
  BY <1>1 DEF Regress!Init, Regress!RegressionAssumption, RegressionData, RegressionReads,
             ReportFile
<1>3. DOMAIN stored = {} /\ sent \in [Regress(cfg)!Names -> Nat]
  BY DEF Regress!Init
<1>4. RegressionInv(cfg)
  BY RegressionInit
<1> QED
  BY <1>2, <1>3, <1>4 DEF Regress!Init, Regress!TypeOK, RegressionInv, RegressionType

LEMMA FuzzTypesInit ==
    ASSUME NEW cfg, Fuzz(cfg)!FuzzAssumption, Fuzz(cfg)!Init
    PROVE  Fuzz(cfg)!TypeOK
<1>1. FuzzInv(cfg)
  BY FuzzInit
<1>2. cfg.MaxAttempts \in Nat \ {0} /\ cfg.MaxRuns \in Nat
  BY DEF Fuzz!FuzzAssumption
<1> QED
  BY <1>1, <1>2 DEF Fuzz!Init, Fuzz!TypeOK, FuzzInv, FuzzType

----------------------------------------------------------------------------
(* The agent of an unmanaged node.  AgentProofs is about any node; the      *)
(* agent that Tasks runs is the one without a service.                     *)

Proved == INSTANCE AgentProofs WITH
    Tasks <- {"t1"}, WorkSets <- {"single"}, TasksOf <- [single |-> {"t1"}],
    RebootSets <- {"single"}, Managed <- FALSE, MaxDeaths <- 1

\* Both instances speak of the same agent.
LEMMA SameAgent ==
    /\ Unmanaged!Init <=> Proved!Init
    /\ Unmanaged!Next <=> Proved!Next
    /\ UNCHANGED Unmanaged!vars <=> UNCHANGED Proved!vars
    /\ Unmanaged!TypeOK <=> Proved!TypeOK
    /\ Unmanaged!UnmanagedSafe <=> Proved!UnmanagedSafe
<1>1. Unmanaged!Init <=> Proved!Init
  BY DEF Unmanaged!Init, Proved!Init, Unmanaged!NoWorkers, Proved!NoWorkers
<1>2. UNCHANGED Unmanaged!vars <=> UNCHANGED Proved!vars
  BY DEF Unmanaged!vars, Proved!vars, Unmanaged!memory, Proved!memory, Unmanaged!files,
         Proved!files, Unmanaged!procs, Proved!procs, Unmanaged!service, Proved!service,
         Unmanaged!history, Proved!history
<1>3. Unmanaged!TypeOK <=> Proved!TypeOK
  BY DEF Unmanaged!TypeOK, Proved!TypeOK, Unmanaged!PC, Proved!PC, Unmanaged!Starting,
         Proved!Starting, Unmanaged!Reporting, Proved!Reporting, Unmanaged!Looping,
         Proved!Looping, Unmanaged!SchedulerKind, Proved!SchedulerKind, Unmanaged!DoneCause,
         Proved!DoneCause, Unmanaged!Slot, Proved!Slot, Unmanaged!NodeState,
         Proved!NodeState, Unmanaged!WorkerEvent, Proved!WorkerEvent, Unmanaged!ProcState,
         Proved!ProcState
<1>4. Unmanaged!UnmanagedSafe <=> Proved!UnmanagedSafe
  BY DEF Unmanaged!UnmanagedSafe, Proved!UnmanagedSafe, Unmanaged!SetupBeforeRun,
         Proved!SetupBeforeRun, Unmanaged!SilentOnlyIfCut, Proved!SilentOnlyIfCut
<1>5. Unmanaged!Next <=> Proved!Next
  BY DEF Unmanaged!Next, Proved!Next, Unmanaged!Boot, Proved!Boot, Unmanaged!Start,
         Proved!Start, Unmanaged!procs, Proved!procs, Unmanaged!service, Proved!service,
         Unmanaged!history, Proved!history, Unmanaged!LoadReboot, Proved!LoadReboot,
         Unmanaged!ResetWork, Proved!ResetWork, Unmanaged!memory, Proved!memory,
         Unmanaged!CheckWork, Proved!CheckWork, Unmanaged!files, Proved!files,
         Unmanaged!ReportUnit, Proved!ReportUnit, Unmanaged!ReportDone, Proved!ReportDone,
         Unmanaged!Fail, Proved!Fail, Unmanaged!LoseMemory, Proved!LoseMemory,
         Unmanaged!NoWorkers, Proved!NoWorkers, Unmanaged!ReportLock, Proved!ReportLock,
         Unmanaged!EmitInit, Proved!EmitInit, Unmanaged!Commands, Proved!Commands,
         Unmanaged!ExecuteCommand, Proved!ExecuteCommand, Unmanaged!StopNow, Proved!StopNow,
         Unmanaged!StopTask, Proved!StopTask, Unmanaged!StopSlots, Proved!StopSlots,
         Unmanaged!Exited, Proved!Exited, Unmanaged!IgnoreCommand, Proved!IgnoreCommand,
         Unmanaged!NoCommand, Proved!NoCommand, Unmanaged!CommandFailed,
         Proved!CommandFailed, Unmanaged!Handlers, Proved!Handlers,
         Unmanaged!EmitStateUpdate, Proved!EmitStateUpdate, Unmanaged!StateOf,
         Proved!StateOf, Unmanaged!FreeNoWork, Proved!FreeNoWork, Unmanaged!InBody,
         Proved!InBody, Unmanaged!FreeClaim, Proved!FreeClaim, Unmanaged!SaveContext,
         Proved!SaveContext, Unmanaged!SetupError, Proved!SetupError, Unmanaged!FinishSetup,
         Proved!FinishSetup, Unmanaged!SaveReboot, Proved!SaveReboot, Unmanaged!Reboot,
         Proved!Reboot, Unmanaged!RunWorkers, Proved!RunWorkers, Unmanaged!UpdateWorkers,
         Proved!UpdateWorkers, Unmanaged!Updated, Proved!Updated, Unmanaged!EventOf,
         Proved!EventOf, Unmanaged!Changed, Proved!Changed, Unmanaged!AllWorkersDone,
         Proved!AllWorkersDone, Unmanaged!StartFailed, Proved!StartFailed,
         Unmanaged!StartHangs, Proved!StartHangs, Unmanaged!UpdatePanic, Proved!UpdatePanic,
         Unmanaged!EmitWorkerEvent, Proved!EmitWorkerEvent, Unmanaged!EndUpdate,
         Proved!EndUpdate, Unmanaged!SetDoneLock, Proved!SetDoneLock, Unmanaged!InHandler,
         Proved!InHandler, Unmanaged!EmitDone, Proved!EmitDone, Unmanaged!TaskProcess,
         Proved!TaskProcess, Unmanaged!TaskExits, Proved!TaskExits, Unmanaged!TaskShutsDown,
         Proved!TaskShutsDown, Unmanaged!Die, Proved!Die
<1> QED
  BY <1>1, <1>2, <1>3, <1>4, <1>5

\* The agent's one work set is what AgentProofs asks for.
LEMMA OneWorkSet ==
    /\ [single |-> {"t1"}] \in [{"single"} -> SUBSET {"t1"}]
    /\ \A w \in {"single"} : [single |-> {"t1"}][w] # {}
    /\ {"single"} \subseteq {"single"}
    /\ FALSE \in BOOLEAN
    /\ 1 \in Nat
    /\ None \notin {"single"}
  BY TasksAssumption DEF Unmanaged!AgentAssumption

LEMMA AgentInit ==
    Unmanaged!Init => Proved!SafeInv
  BY OneWorkSet, SameAgent, Proved!SafeInit

LEMMA AgentStep ==
    Proved!SafeInv /\ [Unmanaged!Next]_(Unmanaged!vars) => Proved!SafeInv'
<1> SUFFICES ASSUME Proved!SafeInv, [Unmanaged!Next]_(Unmanaged!vars) PROVE Proved!SafeInv'
  OBVIOUS
<1>0. /\ [Proved!Next]_(Proved!vars) /\ Proved!TypeInv /\ Proved!LockShape
      /\ Proved!SilentOnlyIfCut /\ Proved!SetupBeforeRun
  BY SameAgent DEF Proved!SafeInv
<1>1. Proved!TypeInv'
  BY <1>0, OneWorkSet, Proved!TypeStep
<1>2. Proved!LockShape' /\ Proved!SilentOnlyIfCut'
  BY <1>0, OneWorkSet, Proved!SilentStep
<1>3. Proved!SetupBeforeRun'
  BY <1>0, OneWorkSet, Proved!SetupStep
<1> QED
  BY <1>1, <1>2, <1>3 DEF Proved!SafeInv

LEMMA AgentSafe ==
    Proved!SafeInv => Unmanaged!TypeOK /\ Unmanaged!UnmanagedSafe
  BY SameAgent DEF Proved!SafeInv, Proved!TypeInv, Proved!UnmanagedSafe

----------------------------------------------------------------------------
(* The tasks together.  Of the components only the one that task names     *)
(* moves, so the invariant of the composition is that component's.         *)

TasksInv ==
    /\ \A k \in DOMAIN ReportTasks : task = <<"report", k>> => ReportsInv(ReportTasks[k])
    /\ \A k \in DOMAIN MergeTasks : task = <<"merge", k>> => MergeInv(MergeTasks[k])
    /\ \A k \in DOMAIN AnalysisTasks : task = <<"analysis", k>> => AnalysisInv(AnalysisTasks[k])
    /\ \A k \in DOMAIN CoverageTasks : task = <<"coverage", k>> => CoverInv(CoverageTasks[k])
    /\ \A k \in DOMAIN DotnetTasks : task = <<"dotnet_coverage", k>> =>
         DotnetInv(DotnetTasks[k])
    /\ \A k \in DOMAIN RegressionTasks : task = <<"regression", k>> =>
         RegressionInv(RegressionTasks[k])
    /\ \A k \in DOMAIN FuzzTasks : task = <<"fuzz", k>> => FuzzInv(FuzzTasks[k])

\* A process runs one task.
LEMMA OneTask ==
    ASSUME NEW a, NEW b, NEW c, NEW d
    PROVE  /\ <<a, b>> = <<c, d>> => a = c /\ b = d
           /\ <<a, b>> = <<"unmanaged_agent">> => a = "unmanaged_agent"
  OBVIOUS

\* A step is one of the task that the process runs, and keeps the task.
LEMMA StepOfTask ==
    ASSUME [Next]_vars
    PROVE  /\ task' = task
           /\ \A k \in DOMAIN ReportTasks : task = <<"report", k>> =>
                [Reports(ReportTasks[k])!Next]_(Reports(ReportTasks[k])!vars)
           /\ \A k \in DOMAIN MergeTasks : task = <<"merge", k>> =>
                [Merger(MergeTasks[k])!Next]_(Merger(MergeTasks[k])!vars)
           /\ \A k \in DOMAIN AnalysisTasks : task = <<"analysis", k>> =>
                [Analyze(AnalysisTasks[k])!Next]_(Analyze(AnalysisTasks[k])!vars)
           /\ \A k \in DOMAIN CoverageTasks : task = <<"coverage", k>> =>
                [Cover(CoverageTasks[k])!Next]_(Cover(CoverageTasks[k])!vars)
           /\ \A k \in DOMAIN DotnetTasks : task = <<"dotnet_coverage", k>> =>
                [Dotnet(DotnetTasks[k])!Next]_(Dotnet(DotnetTasks[k])!vars)
           /\ \A k \in DOMAIN RegressionTasks : task = <<"regression", k>> =>
                [Regress(RegressionTasks[k])!Next]_(Regress(RegressionTasks[k])!vars)
           /\ \A k \in DOMAIN FuzzTasks : task = <<"fuzz", k>> =>
                [Fuzz(FuzzTasks[k])!Next]_(Fuzz(FuzzTasks[k])!vars)
<1>1. CASE UNCHANGED vars
  BY <1>1 DEF vars, Reports!vars, Reports!server, Reports!saved, Reports!local, Merger!vars,
                  Merger!store, Merger!local_vars, Merger!counters, Merger!history,
                  Analyze!vars, Analyze!server, Analyze!monitor, Cover!vars, Dotnet!vars,
                  Dotnet!merges, Regress!vars, Regress!config, Regress!out, Fuzz!vars
<1>2. ASSUME NEW j \in DOMAIN ReportTasks, RunReports(j)
      PROVE  task = <<"report", j>> /\ task' = task /\ Reports(ReportTasks[j])!Next
  BY <1>2 DEF RunReports, ReportsOthers
<1>3. ASSUME NEW j \in DOMAIN MergeTasks, RunMerger(j)
      PROVE  task = <<"merge", j>> /\ task' = task /\ Merger(MergeTasks[j])!Next
  BY <1>3 DEF RunMerger, MergeOthers
<1>4. ASSUME NEW j \in DOMAIN AnalysisTasks, RunAnalyze(j)
      PROVE  task = <<"analysis", j>> /\ task' = task /\ Analyze(AnalysisTasks[j])!Next
  BY <1>4 DEF RunAnalyze, AnalysisOthers
<1>5. ASSUME NEW j \in DOMAIN CoverageTasks, RunCover(j)
      PROVE  task = <<"coverage", j>> /\ task' = task /\ Cover(CoverageTasks[j])!Next
  BY <1>5 DEF RunCover, CoverageOthers
<1>6. ASSUME NEW j \in DOMAIN DotnetTasks, RunDotnet(j)
      PROVE  task = <<"dotnet_coverage", j>> /\ task' = task /\ Dotnet(DotnetTasks[j])!Next
  BY <1>6 DEF RunDotnet, DotnetOthers
<1>7. ASSUME NEW j \in DOMAIN RegressionTasks, RunRegress(j)
      PROVE  task = <<"regression", j>> /\ task' = task /\ Regress(RegressionTasks[j])!Next
  BY <1>7 DEF RunRegress, RegressionOthers
<1>8. ASSUME NEW j \in DOMAIN FuzzTasks, RunFuzz(j)
      PROVE  task = <<"fuzz", j>> /\ task' = task /\ Fuzz(FuzzTasks[j])!Next
  BY <1>8 DEF RunFuzz, FuzzOthers
<1>9. RunUnmanaged => task = <<"unmanaged_agent">> /\ task' = task
  BY DEF RunUnmanaged, AgentOthers
<1> QED
  BY <1>1, <1>2, <1>3, <1>4, <1>5, <1>6, <1>7, <1>8, <1>9, OneTask DEF Next

\* The invariant holds initially.
LEMMA TasksInit ==
    ASSUME Init
    PROVE  TasksInv
<1>1. ASSUME NEW k \in DOMAIN ReportTasks, task = <<"report", k>>
      PROVE  ReportsInv(ReportTasks[k])
  <2>1. Reports(ReportTasks[k])!Init
    BY <1>1, OneTask DEF Init
  <2> QED
    BY <2>1, TasksAssumption, ReportsInit
<1>2. ASSUME NEW k \in DOMAIN MergeTasks, task = <<"merge", k>> PROVE MergeInv(MergeTasks[k])
  <2>1. Merger(MergeTasks[k])!Init
    BY <1>2, OneTask DEF Init
  <2> QED
    BY <2>1, TasksAssumption, MergeInit
<1>3. ASSUME NEW k \in DOMAIN AnalysisTasks, task = <<"analysis", k>>
      PROVE  AnalysisInv(AnalysisTasks[k])
  <2>1. Analyze(AnalysisTasks[k])!Init
    BY <1>3, OneTask DEF Init
  <2> QED
    BY <2>1, TasksAssumption, AnalysisInit
<1>4. ASSUME NEW k \in DOMAIN CoverageTasks, task = <<"coverage", k>>
      PROVE  CoverInv(CoverageTasks[k])
  <2>1. Cover(CoverageTasks[k])!Init
    BY <1>4, OneTask DEF Init
  <2> QED
    BY <2>1, TasksAssumption, CoverInit
<1>5. ASSUME NEW k \in DOMAIN DotnetTasks, task = <<"dotnet_coverage", k>>
      PROVE  DotnetInv(DotnetTasks[k])
  <2>1. Dotnet(DotnetTasks[k])!Init
    BY <1>5, OneTask DEF Init
  <2> QED
    BY <2>1, TasksAssumption, DotnetInit
<1>6. ASSUME NEW k \in DOMAIN RegressionTasks, task = <<"regression", k>>
      PROVE  RegressionInv(RegressionTasks[k])
  <2>1. Regress(RegressionTasks[k])!Init
    BY <1>6, OneTask DEF Init
  <2> QED
    BY <2>1, TasksAssumption, RegressionInit
<1>7. ASSUME NEW k \in DOMAIN FuzzTasks, task = <<"fuzz", k>> PROVE FuzzInv(FuzzTasks[k])
  <2>1. Fuzz(FuzzTasks[k])!Init
    BY <1>7, OneTask DEF Init
  <2> QED
    BY <2>1, TasksAssumption, FuzzInit
<1> QED
  BY <1>1, <1>2, <1>3, <1>4, <1>5, <1>6, <1>7 DEF TasksInv

\* Every step keeps the invariant.
LEMMA TasksStep ==
    ASSUME TasksInv, [Next]_vars
    PROVE  TasksInv'
<1>0. task' = task
  BY StepOfTask
<1>1. ASSUME NEW k \in DOMAIN ReportTasks, task = <<"report", k>>
      PROVE  ReportsInv(ReportTasks[k])'
  <2>1. /\ ReportsInv(ReportTasks[k])
        /\ [Reports(ReportTasks[k])!Next]_(Reports(ReportTasks[k])!vars)
    BY <1>1, StepOfTask DEF TasksInv
  <2> QED
    BY <2>1, TasksAssumption, ReportsStep
<1>2. ASSUME NEW k \in DOMAIN MergeTasks, task = <<"merge", k>> PROVE MergeInv(MergeTasks[k])'
  <2>1. MergeInv(MergeTasks[k]) /\ [Merger(MergeTasks[k])!Next]_(Merger(MergeTasks[k])!vars)
    BY <1>2, StepOfTask DEF TasksInv
  <2> QED
    BY <2>1, TasksAssumption, MergeStep
<1>3. ASSUME NEW k \in DOMAIN AnalysisTasks, task = <<"analysis", k>>
      PROVE  AnalysisInv(AnalysisTasks[k])'
  <2>1. /\ AnalysisInv(AnalysisTasks[k])
        /\ [Analyze(AnalysisTasks[k])!Next]_(Analyze(AnalysisTasks[k])!vars)
    BY <1>3, StepOfTask DEF TasksInv
  <2> QED
    BY <2>1, TasksAssumption, AnalysisStep
<1>4. ASSUME NEW k \in DOMAIN CoverageTasks, task = <<"coverage", k>>
      PROVE  CoverInv(CoverageTasks[k])'
  <2>1. /\ CoverInv(CoverageTasks[k])
        /\ [Cover(CoverageTasks[k])!Next]_(Cover(CoverageTasks[k])!vars)
    BY <1>4, StepOfTask DEF TasksInv
  <2> QED
    BY <2>1, TasksAssumption, CoverStep
<1>5. ASSUME NEW k \in DOMAIN DotnetTasks, task = <<"dotnet_coverage", k>>
      PROVE  DotnetInv(DotnetTasks[k])'
  <2>1. DotnetInv(DotnetTasks[k]) /\ [Dotnet(DotnetTasks[k])!Next]_(Dotnet(DotnetTasks[k])!vars)
    BY <1>5, StepOfTask DEF TasksInv
  <2> QED
    BY <2>1, TasksAssumption, DotnetStep
<1>6. ASSUME NEW k \in DOMAIN RegressionTasks, task = <<"regression", k>>
      PROVE  RegressionInv(RegressionTasks[k])'
  <2>1. /\ RegressionInv(RegressionTasks[k])
        /\ [Regress(RegressionTasks[k])!Next]_(Regress(RegressionTasks[k])!vars)
    BY <1>6, StepOfTask DEF TasksInv
  <2> QED
    BY <2>1, TasksAssumption, RegressionSteps
<1>7. ASSUME NEW k \in DOMAIN FuzzTasks, task = <<"fuzz", k>> PROVE FuzzInv(FuzzTasks[k])'
  <2>1. FuzzInv(FuzzTasks[k]) /\ [Fuzz(FuzzTasks[k])!Next]_(Fuzz(FuzzTasks[k])!vars)
    BY <1>7, StepOfTask DEF TasksInv
  <2> QED
    BY <2>1, TasksAssumption, FuzzStep
<1> QED
  BY <1>0, <1>1, <1>2, <1>3, <1>4, <1>5, <1>6, <1>7 DEF TasksInv

\* A step of the process on an unmanaged node is one of the agent.
LEMMA StepOfAgent ==
    ASSUME [Next]_vars, task = <<"unmanaged_agent">>
    PROVE  [Unmanaged!Next]_(Unmanaged!vars)
<1>1. CASE UNCHANGED vars
  BY <1>1 DEF vars, Unmanaged!vars, Unmanaged!memory, Unmanaged!files, Unmanaged!procs,
             Unmanaged!service, Unmanaged!history
<1>2. RunUnmanaged => Unmanaged!Next
  BY DEF RunUnmanaged
<1>3. task[1] = "unmanaged_agent"
  OBVIOUS
<1> QED
  BY <1>1, <1>2, <1>3 DEF Next

\* The types of the tasks, with what their proof needs besides TasksInv.
TypesInv ==
    /\ TypeOK
    /\ \A k \in DOMAIN CoverageTasks : task = <<"coverage", k>> =>
         CorpusCounted(CoverageTasks[k])
    /\ \A k \in DOMAIN RegressionTasks : task = <<"regression", k>> =>
         RegressionData(RegressionTasks[k])
    /\ task = <<"unmanaged_agent">> => Proved!SafeInv

\* They hold initially.
LEMMA TypesInit ==
    ASSUME Init
    PROVE  TypesInv
<1>1. ASSUME NEW k \in DOMAIN ReportTasks, task = <<"report", k>>
      PROVE  Reports(ReportTasks[k])!TypeOK
  BY <1>1, TasksInit DEF TasksInv, ReportsInv
<1>2. ASSUME NEW k \in DOMAIN MergeTasks, task = <<"merge", k>>
      PROVE  Merger(MergeTasks[k])!TypeOK
  <2>1. Merger(MergeTasks[k])!Init
    BY <1>2, OneTask DEF Init
  <2> QED
    BY <2>1, TasksAssumption, MergeTypesInit
<1>3. ASSUME NEW k \in DOMAIN AnalysisTasks, task = <<"analysis", k>>
      PROVE  Analyze(AnalysisTasks[k])!TypeOK
  <2>1. Analyze(AnalysisTasks[k])!Init
    BY <1>3, OneTask DEF Init
  <2> QED
    BY <2>1, TasksAssumption, AnalysisTypesInit
<1>4. ASSUME NEW k \in DOMAIN CoverageTasks, task = <<"coverage", k>>
      PROVE  Cover(CoverageTasks[k])!TypeOK /\ CorpusCounted(CoverageTasks[k])
  <2>1. Cover(CoverageTasks[k])!Init
    BY <1>4, OneTask DEF Init
  <2> QED
    BY <2>1, TasksAssumption, CoverTypesInit
<1>5. ASSUME NEW k \in DOMAIN DotnetTasks, task = <<"dotnet_coverage", k>>
      PROVE  Dotnet(DotnetTasks[k])!TypeOK
  <2>1. Dotnet(DotnetTasks[k])!Init
    BY <1>5, OneTask DEF Init
  <2> QED
    BY <2>1, TasksAssumption, DotnetTypesInit
<1>6. ASSUME NEW k \in DOMAIN RegressionTasks, task = <<"regression", k>>
      PROVE  Regress(RegressionTasks[k])!TypeOK /\ RegressionData(RegressionTasks[k])
  <2>1. Regress(RegressionTasks[k])!Init
    BY <1>6, OneTask DEF Init
  <2> QED
    BY <2>1, TasksAssumption, RegressionTypesInit
<1>7. ASSUME NEW k \in DOMAIN FuzzTasks, task = <<"fuzz", k>>
      PROVE  Fuzz(FuzzTasks[k])!TypeOK
  <2>1. Fuzz(FuzzTasks[k])!Init
    BY <1>7, OneTask DEF Init
  <2> QED
    BY <2>1, TasksAssumption, FuzzTypesInit
<1>8. ASSUME task = <<"unmanaged_agent">> PROVE Proved!SafeInv
  <2>1. Unmanaged!Init
    BY <1>8, OneTask DEF Init
  <2> QED
    BY <2>1, AgentInit
<1> QED
  BY <1>1, <1>2, <1>3, <1>4, <1>5, <1>6, <1>7, <1>8 DEF TypesInv, TypeOK

\* Every step keeps them.
LEMMA TypesStep ==
    ASSUME TasksInv, TypesInv, [Next]_vars
    PROVE  TypesInv'
<1>0. task' = task /\ TasksInv'
  BY StepOfTask, TasksStep
<1>1. ASSUME NEW k \in DOMAIN ReportTasks, task = <<"report", k>>
      PROVE  Reports(ReportTasks[k])!TypeOK'
  BY <1>0, <1>1 DEF TasksInv, ReportsInv
<1>2. ASSUME NEW k \in DOMAIN MergeTasks, task = <<"merge", k>>
      PROVE  Merger(MergeTasks[k])!TypeOK'
  <2>1. /\ MergeInv(MergeTasks[k]) /\ MergeInv(MergeTasks[k])'
        /\ [Merger(MergeTasks[k])!Next]_(Merger(MergeTasks[k])!vars)
    BY <1>0, <1>2, StepOfTask DEF TasksInv
  <2>2. Merger(MergeTasks[k])!TypeOK
    BY <1>2, OneTask DEF TypesInv, TypeOK
  <2> QED
    BY <2>1, <2>2, TasksAssumption, MergeTypes
<1>3. ASSUME NEW k \in DOMAIN AnalysisTasks, task = <<"analysis", k>>
      PROVE  Analyze(AnalysisTasks[k])!TypeOK'
  <2>1. /\ AnalysisInv(AnalysisTasks[k]) /\ AnalysisInv(AnalysisTasks[k])'
        /\ [Analyze(AnalysisTasks[k])!Next]_(Analyze(AnalysisTasks[k])!vars)
    BY <1>0, <1>3, StepOfTask DEF TasksInv
  <2>2. Analyze(AnalysisTasks[k])!TypeOK
    BY <1>3, OneTask DEF TypesInv, TypeOK
  <2> QED
    BY <2>1, <2>2, TasksAssumption, AnalysisTypes
<1>4. ASSUME NEW k \in DOMAIN CoverageTasks, task = <<"coverage", k>>
      PROVE  Cover(CoverageTasks[k])!TypeOK' /\ CorpusCounted(CoverageTasks[k])'
  <2>1. /\ CoverInv(CoverageTasks[k]) /\ CoverInv(CoverageTasks[k])'
        /\ [Cover(CoverageTasks[k])!Next]_(Cover(CoverageTasks[k])!vars)
    BY <1>0, <1>4, StepOfTask DEF TasksInv
  <2>2. Cover(CoverageTasks[k])!TypeOK /\ CorpusCounted(CoverageTasks[k])
    BY <1>4, OneTask DEF TypesInv, TypeOK
  <2> QED
    BY <2>1, <2>2, TasksAssumption, CoverTypes
<1>5. ASSUME NEW k \in DOMAIN DotnetTasks, task = <<"dotnet_coverage", k>>
      PROVE  Dotnet(DotnetTasks[k])!TypeOK'
  <2>1. /\ DotnetInv(DotnetTasks[k])
        /\ [Dotnet(DotnetTasks[k])!Next]_(Dotnet(DotnetTasks[k])!vars)
    BY <1>5, StepOfTask DEF TasksInv
  <2>2. Dotnet(DotnetTasks[k])!TypeOK
    BY <1>5, OneTask DEF TypesInv, TypeOK
  <2> QED
    BY <2>1, <2>2, TasksAssumption, DotnetTypes
<1>6. ASSUME NEW k \in DOMAIN RegressionTasks, task = <<"regression", k>>
      PROVE  Regress(RegressionTasks[k])!TypeOK' /\ RegressionData(RegressionTasks[k])'
  <2>1. /\ RegressionInv(RegressionTasks[k]) /\ RegressionInv(RegressionTasks[k])'
        /\ [Regress(RegressionTasks[k])!Next]_(Regress(RegressionTasks[k])!vars)
    BY <1>0, <1>6, StepOfTask DEF TasksInv
  <2>2. Regress(RegressionTasks[k])!TypeOK /\ RegressionData(RegressionTasks[k])
    BY <1>6, OneTask DEF TypesInv, TypeOK
  <2> QED
    BY <2>1, <2>2, TasksAssumption, RegressionTypes
<1>7. ASSUME NEW k \in DOMAIN FuzzTasks, task = <<"fuzz", k>>
      PROVE  Fuzz(FuzzTasks[k])!TypeOK'
  <2>1. /\ FuzzInv(FuzzTasks[k]) /\ FuzzInv(FuzzTasks[k])'
        /\ [Fuzz(FuzzTasks[k])!Next]_(Fuzz(FuzzTasks[k])!vars)
    BY <1>0, <1>7, StepOfTask DEF TasksInv
  <2>2. Fuzz(FuzzTasks[k])!TypeOK
    BY <1>7, OneTask DEF TypesInv, TypeOK
  <2> QED
    BY <2>1, <2>2, TasksAssumption, FuzzTypes
<1>8. ASSUME task = <<"unmanaged_agent">> PROVE Proved!SafeInv'
  <2>1. Proved!SafeInv /\ [Unmanaged!Next]_(Unmanaged!vars)
    BY <1>8, StepOfAgent DEF TypesInv
  <2> QED
    BY <2>1, AgentStep
<1> QED
  BY <1>0, <1>1, <1>2, <1>3, <1>4, <1>5, <1>6, <1>7, <1>8 DEF TypesInv, TypeOK

\* In every task with a queue, a message is deleted only when what it asked for is stored:
\* the report of its input, the output of the analyzer and the blocks it reaches; the
\* features of its candidate, but for those of a merge that printed nothing and for what a
\* libFuzzer node whose push failed holds alone; the coverage of a .NET input, as long as
\* the two loops' merges have not overwritten each other
\* (InputPoller, sync_and_merge, poll_inputs, save_and_sync_coverage).
THEOREM AcknowledgedKept == Spec => []AcknowledgedIsStored
<1>1. Init => TasksInv
  BY TasksInit
<1>2. TasksInv /\ [Next]_vars => TasksInv'
  BY TasksStep
<1>3. TasksInv => AcknowledgedIsStored
  BY TasksAssumption, ReportsArrive, MergeKeepsFeatures, AnalysisKept, CoverageIsSaved,
     DotnetCoverageKept
     DEF TasksInv, AcknowledgedIsStored
<1> QED
  BY <1>1, <1>2, <1>3, PTL DEF Spec

\* What was there before a task began is dealt with before it goes on or ends: merged,
\* analysed and pushed, recorded, tested again (run_existing, record_corpus, run).
THEOREM ExistingKept == Spec => []ExistingHandled
<1>1. Init => TasksInv
  BY TasksInit
<1>2. TasksInv /\ [Next]_vars => TasksInv'
  BY TasksStep
<1>3. TasksInv => ExistingHandled
  BY TasksAssumption, MergeKeepsFeatures, AnalysisKept, CoverageIsSaved, RegressionAnswers
     DEF TasksInv, ExistingHandled
<1> QED
  BY <1>1, <1>2, <1>3, PTL DEF Spec

\* What a task finds arrives: a report with its unique report and announced once, a crash
\* or an input that a fuzzer has written (CrashTestResult::save, run_fuzzer).
THEOREM ResultsKept == Spec => []ResultsArrive
<1>1. Init => TasksInv
  BY TasksInit
<1>2. TasksInv /\ [Next]_vars => TasksInv'
  BY TasksStep
<1>3. TasksInv => ResultsArrive
  BY TasksAssumption, ReportsArrive, FuzzKeepsFound
     DEF TasksInv, ResultsArrive
<1> QED
  BY <1>1, <1>2, <1>3, PTL DEF Spec

\* Nodes that write to one container take nothing away from each other: a report, an input
\* of the corpus or a block of the coverage file that is stored stays (SyncedDir::upload,
\* az_copy, save_and_sync_coverage).
THEOREM ContainersKept == Spec => StoredStays
<1>1. Init => TasksInv
  BY TasksInit
<1>2. TasksInv /\ [Next]_vars => TasksInv'
  BY TasksStep
<1> DEFINE Stays ==
      /\ task[1] = "report" => \A k \in DOMAIN ReportTasks :
           task = <<"report", k>> => Reports(ReportTasks[k])!StoredStays
      /\ task[1] = "merge" => \A k \in DOMAIN MergeTasks :
           task = <<"merge", k>> => Merger(MergeTasks[k])!StoredStays
      /\ task[1] = "coverage" => \A k \in DOMAIN CoverageTasks :
           task = <<"coverage", k>> => Cover(CoverageTasks[k])!StoredStays
      /\ task[1] = "regression" => \A k \in DOMAIN RegressionTasks :
           task = <<"regression", k>> => Regress(RegressionTasks[k])!StoredStays
<1>3. TasksInv /\ [Next]_vars => [Stays]_vars
  <2> SUFFICES ASSUME TasksInv, Next, ~ UNCHANGED vars PROVE Stays
    OBVIOUS
  <2>1. ASSUME NEW k \in DOMAIN ReportTasks, task = <<"report", k>>
        PROVE  Reports(ReportTasks[k])!StoredStays
    <3>1. /\ ReportsInv(ReportTasks[k])
          /\ [Reports(ReportTasks[k])!Next]_(Reports(ReportTasks[k])!vars)
      BY <2>1, StepOfTask DEF TasksInv
    <3> QED
      BY <3>1, TasksAssumption, ReportsStay
  <2>2. ASSUME NEW k \in DOMAIN MergeTasks, task = <<"merge", k>>
        PROVE  Merger(MergeTasks[k])!StoredStays
    <3>1. [Merger(MergeTasks[k])!Next]_(Merger(MergeTasks[k])!vars)
      BY <2>2, StepOfTask
    <3> QED
      BY <3>1, MergeKeepsCorpus
  <2>3. ASSUME NEW k \in DOMAIN CoverageTasks, task = <<"coverage", k>>
        PROVE  Cover(CoverageTasks[k])!StoredStays
    <3>1. /\ CoverInv(CoverageTasks[k])
          /\ [Cover(CoverageTasks[k])!Next]_(Cover(CoverageTasks[k])!vars)
      BY <2>3, StepOfTask DEF TasksInv
    <3> QED
      BY <3>1, TasksAssumption, CoverageNeverShrinks
  <2>4. ASSUME NEW k \in DOMAIN RegressionTasks, task = <<"regression", k>>
        PROVE  Regress(RegressionTasks[k])!StoredStays
    <3>1. [Regress(RegressionTasks[k])!Next]_(Regress(RegressionTasks[k])!vars)
      BY <2>4, StepOfTask
    <3> QED
      BY <3>1, RegressionReportsStay
  <2> QED
    BY <2>1, <2>2, <2>3, <2>4
<1>4. Spec => [][Stays]_vars
  BY <1>1, <1>2, <1>3, PTL DEF Spec
<1> QED
  BY <1>4 DEF StoredStays

\* Every task keeps to its types (counters and attempts within their limits, results of
\* the known shapes), and the agent of an unmanaged node, which may be started with
\* --reset_lock, runs no worker before its setup and is silent only after a death between
\* its lock and its event (done.rs, work.rs, setup.rs).
THEOREM UnmanagedKept == Spec => []UnmanagedSafe
<1>1. Init => TasksInv /\ TypesInv
  BY TasksInit, TypesInit
<1>2. TasksInv /\ TypesInv /\ [Next]_vars => TasksInv' /\ TypesInv'
  BY TasksStep, TypesStep
<1>3. TypesInv => UnmanagedSafe
  BY AgentSafe DEF TypesInv, UnmanagedSafe
<1> QED
  BY <1>1, <1>2, <1>3, PTL DEF Spec
=============================================================================
