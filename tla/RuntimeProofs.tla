---------------------------- MODULE RuntimeProofs ----------------------------
(***************************************************************************)
(* The safety of what the tasks of a node report while they run, for all    *)
(* configurations that satisfy RuntimeAssumption: the invariants of MCRuntime*)
(* as theorems.  Each component has an inductive invariant of its own; that *)
(* of the composition says that the running one has its.                    *)
(***************************************************************************)
EXTENDS MCRuntime, Integers, FiniteSetTheorems, WellFoundedInduction, TLAPS

\* x is waiting in the queue s.
Has(s, x) == \E i \in DOMAIN s : s[i] = x

\* What a queue holds after an element is added at its end.
LEMMA HasAppend ==
    ASSUME NEW S, NEW s \in Seq(S), NEW x \in S, NEW y
    PROVE  Has(Append(s, x), y) <=> Has(s, y) \/ x = y
<1>1. /\ Len(Append(s, x)) = Len(s) + 1 /\ Append(s, x)[Len(s) + 1] = x
      /\ \A i \in 1..Len(s) : Append(s, x)[i] = s[i]
      /\ DOMAIN s = 1..Len(s) /\ DOMAIN Append(s, x) = 1..Len(s) + 1 /\ Len(s) \in Nat
  OBVIOUS
<1> QED
  BY <1>1 DEF Has

\* What a queue holds when its first element is taken.
LEMMA HasTail ==
    ASSUME NEW S, NEW s \in Seq(S), s # <<>>, NEW y
    PROVE  Has(s, y) <=> Head(s) = y \/ Has(Tail(s), y)
<1>1. Has(s, y) => Head(s) = y \/ Has(Tail(s), y)
  <2> SUFFICES ASSUME NEW i \in 1..Len(s), s[i] = y, i # 1 PROVE Has(Tail(s), y)
    BY DEF Has
  <2>1. i - 1 \in 1..Len(Tail(s)) /\ Tail(s)[i - 1] = y
    OBVIOUS
  <2>2. DOMAIN Tail(s) = 1..Len(Tail(s))
    OBVIOUS
  <2> QED
    BY <2>1, <2>2, Zenon DEF Has
<1>2. Head(s) = y \/ Has(Tail(s), y) => Has(s, y)
  <2>1. Head(s) = y => Has(s, y)
    <3>1. 1 \in 1..Len(s) /\ Head(s) = s[1]
      OBVIOUS
    <3> QED  BY <3>1 DEF Has
  <2>2. ASSUME NEW i \in 1..Len(Tail(s)), Tail(s)[i] = y PROVE Has(s, y)
    <3>1. i + 1 \in 1..Len(s) /\ s[i + 1] = y
      BY <2>2
    <3> QED
      BY <3>1 DEF Has
  <2> QED
    BY <2>1, <2>2 DEF Has
<1> QED
  BY <1>1, <1>2

----------------------------------------------------------------------------
(* The directory monitor.  What is seen lies in the present incarnation,   *)
(* and only a watch on that incarnation sees it; the watch is told of the  *)
(* removal of its incarnation, and of nothing else's.                      *)

MonitorInv(cfg) ==
    /\ Monitor(cfg)!TypeOK
    /\ Monitor(cfg)!SeenNotForgotten /\ Monitor(cfg)!NeverDeaf
    /\ \A f \in seen : dir[f] # "none"
    /\ pc # "failed" /\ seen # {} => Monitor(cfg)!Watching
    /\ pc \in {"watch", "upload"} /\ Has(events, "removed") => watched # created \/ ~exists

\* There is no directory and nothing is seen when the monitor starts.
LEMMA MonitorInit ==
    ASSUME NEW cfg, Monitor(cfg)!MonitorAssumption, Monitor(cfg)!Init
    PROVE  MonitorInv(cfg)
<1> USE DEF Monitor!MonitorAssumption, Monitor!Init
<1>1. Monitor(cfg)!TypeOK
  <2>1. <<>> \in Seq(cfg.Files \cup {"removed"})
    OBVIOUS
  <2>2. [f \in cfg.Files |-> "none"] \in [cfg.Files -> Monitor(cfg)!State]
    BY DEF Monitor!State
  <2>3. created \in 0..cfg.MaxResets /\ watched \in 0..created
    OBVIOUS
  <2> QED
    BY <2>1, <2>2, <2>3 DEF Monitor!TypeOK, Monitor!NoItem
<1>2. Monitor(cfg)!SeenNotForgotten /\ Monitor(cfg)!NeverDeaf
  BY DEF Monitor!SeenNotForgotten, Monitor!NeverDeaf
<1> QED
  BY <1>1, <1>2 DEF MonitorInv

\* No step of the program that owns the directory, and none of the monitor, makes it
\* forget a file or miss the end of its directory.
LEMMA MonitorSteps ==
    ASSUME NEW cfg, Monitor(cfg)!MonitorAssumption, MonitorInv(cfg),
           [Monitor(cfg)!Next]_(Monitor(cfg)!vars)
    PROVE  MonitorInv(cfg)'
<1> DEFINE Event == cfg.Files \cup {"removed"}
<1>0. /\ events \in Seq(Event) /\ "removed" \notin cfg.Files /\ "none" \notin cfg.Files
      /\ cfg.MaxResets \in Nat
  BY DEF MonitorInv, Monitor!TypeOK, Monitor!MonitorAssumption
<1> USE DEF MonitorInv, Monitor!TypeOK, Monitor!State, Monitor!NoItem
<1>1. CASE Monitor(cfg)!CreateDir
  BY <1>0, <1>1 DEF Monitor!CreateDir, Monitor!SeenNotForgotten, Monitor!NeverDeaf,
                    Monitor!Waiting, Monitor!Watching, Has
<1>2. CASE Monitor(cfg)!RemoveDir
  <2>1. CASE Monitor(cfg)!Watching
    <3>1. events' = Append(events, "removed") /\ events' \in Seq(Event)
      BY <1>0, <1>2, <2>1 DEF Monitor!RemoveDir
    <3>2. Has(events', "removed")
      BY <3>1, <1>0, HasAppend
    <3> HIDE DEF Event
    <3> QED
      BY <1>0, <1>2, <3>1, <3>2 DEF Monitor!RemoveDir, Monitor!SeenNotForgotten,
         Monitor!NeverDeaf, Monitor!Waiting, Has, Event
  <2>2. CASE ~Monitor(cfg)!Watching
    BY <1>0, <1>2, <2>2 DEF Monitor!RemoveDir, Monitor!SeenNotForgotten, Monitor!NeverDeaf,
       Monitor!Waiting, Has, Monitor!Watching
  <2> QED
    BY <2>1, <2>2
<1>3. ASSUME NEW f \in cfg.Files, Monitor(cfg)!CreateFile(f) PROVE MonitorInv(cfg)'
  <2>1. CASE Monitor(cfg)!Watching
    <3>1. events' = Append(events, f) /\ events' \in Seq(Event) /\ seen' = seen \cup {f}
      BY <1>0, <1>3, <2>1 DEF Monitor!CreateFile
    <3>2. \A e : Has(events', e) <=> Has(events, e) \/ f = e
      BY <3>1, <1>0, HasAppend
    <3> HIDE DEF Event
    <3> QED
      BY <1>0, <1>3, <2>1, <3>1, <3>2, SMTT(30) DEF Monitor!CreateFile, Monitor!SeenNotForgotten,
         Monitor!NeverDeaf, Monitor!Waiting, Has, Event, Monitor!Watching
  <2>2. CASE ~Monitor(cfg)!Watching
    BY <1>0, <1>3, <2>2 DEF Monitor!CreateFile, Monitor!SeenNotForgotten, Monitor!NeverDeaf,
       Monitor!Waiting, Has, Monitor!Watching
  <2> QED
    BY <2>1, <2>2
<1>4. ASSUME NEW f \in cfg.Files, Monitor(cfg)!CompleteFile(f) \/ Monitor(cfg)!DeleteFile(f)
      PROVE  MonitorInv(cfg)'
  BY <1>0, <1>4 DEF Monitor!CompleteFile, Monitor!DeleteFile, Monitor!SeenNotForgotten,
     Monitor!NeverDeaf, Monitor!Waiting, Has, Monitor!Watching
<1>5. CASE Monitor(cfg)!CheckDir
  BY <1>0, <1>5 DEF Monitor!CheckDir, Monitor!SeenNotForgotten, Monitor!NeverDeaf,
     Monitor!Waiting, Has, Monitor!Watching
<1>6. CASE Monitor(cfg)!NewMonitor
  <2>1. seen = {}
    BY <1>6 DEF Monitor!NewMonitor, Monitor!Watching
  <2>2. CASE exists
    <3>1. events' = <<>> /\ ~Has(events', "removed") /\ watched' = created /\ pc' = "watch"
      BY <1>6, <2>2 DEF Monitor!NewMonitor, Has
    <3> QED
      BY <1>6, <2>1, <2>2, <3>1 DEF Monitor!NewMonitor, Monitor!SeenNotForgotten,
         Monitor!NeverDeaf, Monitor!Watching
  <2>3. CASE ~exists
    BY <1>6, <2>1, <2>3 DEF Monitor!NewMonitor, Monitor!SeenNotForgotten,
       Monitor!NeverDeaf, Monitor!Watching
  <2> QED
    BY <2>2, <2>3
<1>7. CASE Monitor(cfg)!NextFile
  <2>1. events' = Tail(events) /\ events # <<>> /\ events' \in Seq(Event)
        /\ Head(events) \in Event
    BY <1>0, <1>7 DEF Monitor!NextFile
  <2>2. \A e : Has(events, e) <=> Head(events) = e \/ Has(events', e)
    BY <2>1, <1>0, HasTail
  <2> HIDE DEF Event
  <2>3. CASE Head(events) = "removed"
    BY <1>0, <1>7, <2>1, <2>2, <2>3 DEF Monitor!NextFile, Monitor!SeenNotForgotten,
       Monitor!NeverDeaf, Monitor!Waiting, Has, Monitor!Watching, Event
  <2>4. CASE Head(events) # "removed" /\ dir[Head(events)] # "none"
             /\ Head(events) \notin cfg.Ignored
    <3>1. pc' = "upload" /\ item' = Head(events)
      BY <1>7, <2>4 DEF Monitor!NextFile
    <3>2. Monitor(cfg)!TypeOK'
      BY <1>0, <1>7, <2>1, <2>4, <3>1 DEF Monitor!NextFile, Event
    <3>3. Monitor(cfg)!SeenNotForgotten'
      <4>1. \A f \in seen : item # f
        BY <1>0, <1>7 DEF Monitor!NextFile
      <4> QED
        BY <1>7, <2>2, <3>1, <4>1
           DEF Monitor!NextFile, Monitor!SeenNotForgotten, Monitor!Waiting, Has
    <3> QED
      BY <1>7, <2>2, <2>4, <3>1, <3>2, <3>3 DEF Monitor!NextFile, Monitor!NeverDeaf,
         Monitor!Waiting, Has, Monitor!Watching
  <2>5. CASE Head(events) # "removed"
             /\ (dir[Head(events)] = "none" \/ Head(events) \in cfg.Ignored)
    <3>1. UNCHANGED <<pc, item>>
      BY <1>7, <2>5 DEF Monitor!NextFile
    <3> QED
      BY <1>0, <1>7, <2>1, <2>2, <2>5, <3>1 DEF Monitor!NextFile,
         Monitor!SeenNotForgotten, Monitor!NeverDeaf, Monitor!Waiting, Has,
         Monitor!Watching, Event
  <2> QED
    BY <2>3, <2>4, <2>5
<1>8. CASE Monitor(cfg)!UploadItem
  BY <1>0, <1>8 DEF Monitor!UploadItem, Monitor!Uploaded, Monitor!SeenNotForgotten,
     Monitor!NeverDeaf, Monitor!Waiting, Has, Monitor!Watching
<1>9. CASE UNCHANGED Monitor(cfg)!vars
  BY <1>9 DEF Monitor!vars, Monitor!SeenNotForgotten, Monitor!NeverDeaf, Monitor!Waiting,
     Has, Monitor!Watching
<1> QED
  BY <1>1, <1>2, <1>3, <1>4, <1>5, <1>6, <1>7, <1>8, <1>9
     DEF Monitor!Next, Monitor!MonitorStep, Monitor!Done

----------------------------------------------------------------------------
(* The generator task.  A renamed crash lies under its digest.             *)

GeneratorInv(cfg) ==
    /\ Generate(cfg)!TypeOK
    /\ cfg.RenameOutput => \A c \in found : crashes[c] = c

\* Nothing is generated or found when the task starts.
LEMMA GeneratorInit ==
    ASSUME NEW cfg, Generate(cfg)!GeneratorAssumption, Generate(cfg)!Init
    PROVE  GeneratorInv(cfg)
<1> USE DEF Generate!GeneratorAssumption, Generate!Init
<1>1. \A S : [n \in S |-> "none"] \in [S -> cfg.Contents \cup {"none"}]
  OBVIOUS
<1>2. 0 \in 0..cfg.MaxRounds
  OBVIOUS
<1> QED
  BY <1>1, <1>2 DEF GeneratorInv, Generate!TypeOK, Generate!NoContent

\* A round of the generator, a test or an upload leaves the crashes where they are.
LEMMA GeneratorSteps ==
    ASSUME NEW cfg, Generate(cfg)!GeneratorAssumption, GeneratorInv(cfg),
           [Generate(cfg)!Next]_(Generate(cfg)!vars)
    PROVE  GeneratorInv(cfg)'
<1>0. cfg.Crashing \subseteq cfg.Contents /\ cfg.MaxRounds \in Nat
  BY DEF Generate!GeneratorAssumption
<1> USE DEF GeneratorInv, Generate!TypeOK, Generate!Targets, Generate!NoContent
<1>1. CASE Generate(cfg)!InitTask \/ Generate(cfg)!NextCorpus \/ Generate(cfg)!StartMonitor
  BY <1>1 DEF Generate!InitTask, Generate!NextCorpus, Generate!StartMonitor, Generate!Abort
<1>2. ASSUME NEW c \in cfg.Corpora, Generate(cfg)!GenerateInputs(c) PROVE GeneratorInv(cfg)'
  BY <1>0, <1>2 DEF Generate!GenerateInputs, Generate!Abort
<1>3. ASSUME NEW n \in cfg.Names, Generate(cfg)!TestInput(n) PROVE GeneratorInv(cfg)'
  <2> DEFINE d == Generate(cfg)!Destination(n)
  <2>1. n \in untested
    BY <1>3 DEF Generate!TestInput
  <2>2. CASE Generate(cfg)!Abort
    BY <2>2 DEF Generate!Abort
  <2>3. CASE ~Generate(cfg)!Abort /\ generated[n] \in cfg.Crashing
    <3>1. d \in cfg.Names \cup cfg.Contents /\ (cfg.RenameOutput => d = generated[n])
      BY <1>0, <2>3 DEF Generate!Destination
    <3>2. /\ untested' = untested \ {n}
          /\ crashes' = [crashes EXCEPT ![d] = generated[n]]
          /\ generated' = [generated EXCEPT ![n] = "none"]
          /\ found' = found \cup {generated[n]}
          /\ events' = (IF watched THEN events \cup {d} ELSE events)
          /\ early' = (IF watched THEN early ELSE early \cup {d})
          /\ UNCHANGED <<phase, corpora, rounds, watched, remote>>
      BY <1>3, <2>3 DEF Generate!TestInput
    <3> HIDE DEF d
    <3> QED
      BY <1>0, <2>1, <2>3, <3>1, <3>2
  <2>4. CASE ~Generate(cfg)!Abort /\ generated[n] \notin cfg.Crashing
    BY <1>3, <2>4 DEF Generate!TestInput
  <2> QED
    BY <2>2, <2>3, <2>4
<1>4. ASSUME NEW d \in Generate(cfg)!Targets, Generate(cfg)!Upload(d) PROVE GeneratorInv(cfg)'
  BY <1>4 DEF Generate!Upload, Generate!Abort
<1>5. CASE UNCHANGED Generate(cfg)!vars
  BY <1>5 DEF Generate!vars
<1> QED
  BY <1>1, <1>2, <1>3, <1>4, <1>5 DEF Generate!Next, Generate!Ended

----------------------------------------------------------------------------
(* The local run.  Until its monitor watches, nothing has come through the *)
(* channel of a follower; files that are there before the watch stay.      *)

Quiet(c) == created[c] = <<>> /\ queue[c] = <<>> /\ item[c] = None /\ handled[c] = {}

LocalInv(cfg) ==
    /\ Local(cfg)!TypeOK
    /\ \A c \in Local(cfg)!Followers :
         /\ early[c] \subseteq files
         /\ monitors[c] \in {"off", "new"} => Quiet(c)
    /\ \A i \in DOMAIN cfg.Consumers : i > started => monitors[cfg.Consumers[i]] = "off"
    /\ early \in [Local(cfg)!Followers -> SUBSET Local(cfg)!Finds]
    /\ Local(cfg)!OnItsWay

\* Nothing is spawned, and nothing on its way, when the process starts.
LEMMA LocalInit ==
    ASSUME NEW cfg, Local(cfg)!LocalRunAssumption, Local(cfg)!Init
    PROVE  LocalInv(cfg)
<1> USE DEF Local!LocalRunAssumption, Local!Init, Local!Per
<1>1. Local(cfg)!TypeOK
  <2>1. <<>> \in Seq(Local(cfg)!Finds) /\ 0 \in 0..Len(cfg.Consumers)
    OBVIOUS
  <2>2. files \subseteq Local(cfg)!Finds
    BY DEF Local!Finds
  <2> QED
    BY <2>1, <2>2 DEF Local!TypeOK
<1>2. Local(cfg)!OnItsWay
  BY DEF Local!OnItsWay
<1>3. \A i \in DOMAIN cfg.Consumers : cfg.Consumers[i] \in Local(cfg)!Followers
  BY DEF Local!Followers, Local!Elements
<1>4. early \in [Local(cfg)!Followers -> SUBSET Local(cfg)!Finds]
  OBVIOUS
<1>5. \A c \in Local(cfg)!Followers : early[c] \subseteq files /\ Quiet(c)
  BY DEF Quiet
<1> QED
  BY <1>1, <1>2, <1>3, <1>4, <1>5 DEF LocalInv

Elements(s) == {s[i] : i \in DOMAIN s}
NoneTwice(s) == \A i, j \in DOMAIN s : s[i] = s[j] => i = j

\* What is taken from a queue, and what is left of it, are of its type.
LEMMA TakeTypes ==
    ASSUME NEW S, NEW s \in Seq(S)
    PROVE  /\ s # <<>> => Head(s) \in S /\ Tail(s) \in Seq(S)
           /\ \A x \in S : Append(s, x) \in Seq(S)
OBVIOUS

\* What goes from one queue to the next stays in its place in both together.
LEMMA MoveForward ==
    ASSUME NEW S, NEW s \in Seq(S), NEW t \in Seq(S), t # <<>>
    PROVE  Append(s, Head(t)) \o Tail(t) = s \o t
<1>1. Append(s, Head(t)) \o Tail(t) \in Seq(S) /\ s \o t \in Seq(S)
  OBVIOUS
<1>2. Len(Append(s, Head(t)) \o Tail(t)) = Len(s \o t)
  OBVIOUS
<1>3. ASSUME NEW i \in 1..Len(s \o t) PROVE (Append(s, Head(t)) \o Tail(t))[i] = (s \o t)[i]
  OBVIOUS
<1> QED
  BY <1>1, <1>2, <1>3

\* What comes last into the second queue comes last in both together.
LEMMA ComeLast ==
    ASSUME NEW S, NEW s \in Seq(S), NEW t \in Seq(S), NEW x \in S
    PROVE  s \o Append(t, x) = Append(s \o t, x)
<1>1. s \o Append(t, x) \in Seq(S) /\ Append(s \o t, x) \in Seq(S)
  OBVIOUS
<1>2. Len(s \o Append(t, x)) = Len(Append(s \o t, x))
  OBVIOUS
<1>3. ASSUME NEW i \in 1..Len(s \o Append(t, x)) PROVE (s \o Append(t, x))[i] = Append(s \o t, x)[i]
  OBVIOUS
<1> QED
  BY <1>1, <1>2, <1>3

\* What is first in the first queue is first in both together.
LEMMA TakeFirst ==
    ASSUME NEW S, NEW s \in Seq(S), NEW t \in Seq(S), s # <<>>
    PROVE  Tail(s) \o t = Tail(s \o t) /\ Head(s \o t) = Head(s) /\ s \o t # <<>>
<1>1. Tail(s) \o t \in Seq(S) /\ Tail(s \o t) \in Seq(S) /\ s \o t # <<>>
  OBVIOUS
<1>2. Len(Tail(s) \o t) = Len(Tail(s \o t)) /\ Head(s \o t) = Head(s)
  OBVIOUS
<1>3. ASSUME NEW i \in 1..Len(Tail(s) \o t) PROVE (Tail(s) \o t)[i] = Tail(s \o t)[i]
  OBVIOUS
<1> QED
  BY <1>1, <1>2, <1>3

\* A new element is in the queue once.
LEMMA AppendOnce ==
    ASSUME NEW S, NEW s \in Seq(S), NEW x \in S, NoneTwice(s), x \notin Elements(s)
    PROVE  Elements(Append(s, x)) = Elements(s) \cup {x} /\ NoneTwice(Append(s, x))
<1>1. /\ Append(s, x)[Len(s) + 1] = x
      /\ \A i \in 1..Len(s) : Append(s, x)[i] = s[i]
      /\ DOMAIN s = 1..Len(s) /\ DOMAIN Append(s, x) = 1..Len(s) + 1 /\ Len(s) \in Nat
  OBVIOUS
<1>2. 1..Len(s) + 1 = 1..Len(s) \cup {Len(s) + 1}
  BY <1>1
<1>3. Elements(Append(s, x)) = Elements(s) \cup {x}
  BY <1>1, <1>2 DEF Elements
<1>4. NoneTwice(Append(s, x))
  BY <1>1, <1>2 DEF NoneTwice, Elements
<1> QED
  BY <1>3, <1>4

\* The element that is taken from a queue without repetitions is not in it any more.
LEMMA TakeOnce ==
    ASSUME NEW S, NEW s \in Seq(S), s # <<>>, NoneTwice(s)
    PROVE  /\ Elements(s) = Elements(Tail(s)) \cup {Head(s)} /\ Head(s) \notin Elements(Tail(s))
           /\ NoneTwice(Tail(s))
<1>1. /\ \A i \in 1..Len(s) - 1 : Tail(s)[i] = s[i + 1] /\ i + 1 \in 1..Len(s) /\ i + 1 # 1
      /\ \A i \in 1..Len(s) : i = 1 \/ i - 1 \in 1..Len(s) - 1
      /\ Head(s) = s[1] /\ 1 \in 1..Len(s) /\ Len(s) \in Nat
      /\ DOMAIN s = 1..Len(s) /\ DOMAIN Tail(s) = 1..Len(s) - 1
  OBVIOUS
<1>2. Head(s) \notin Elements(Tail(s))
  BY <1>1 DEF NoneTwice, Elements
<1>3. Elements(s) \subseteq Elements(Tail(s)) \cup {Head(s)}
  <2> SUFFICES ASSUME NEW i \in 1..Len(s), i # 1 PROVE s[i] \in Elements(Tail(s))
    BY <1>1 DEF Elements
  <2>1. i - 1 \in DOMAIN Tail(s) /\ Tail(s)[i - 1] = s[i]
    BY <1>1
  <2> QED
    BY <2>1 DEF Elements
<1>4. Elements(Tail(s)) \cup {Head(s)} \subseteq Elements(s)
  BY <1>1 DEF Elements
<1>5. NoneTwice(Tail(s))
  <2> SUFFICES ASSUME NEW i \in DOMAIN Tail(s), NEW j \in DOMAIN Tail(s), Tail(s)[i] = Tail(s)[j]
               PROVE  i = j
    BY DEF NoneTwice
  <2>1. i + 1 = j + 1
    BY <1>1 DEF NoneTwice
  <2> QED
    BY <1>1, <2>1
<1> QED
  BY <1>2, <1>3, <1>4, <1>5

\* What is on its way to one follower.
OnWay(c) ==
    monitors[c] = "watch" =>
        LET way == queue[c] \o created[c]
            here == {item[c]} \ {None} IN
        /\ files \ early[c] = Elements(way) \cup here \cup handled[c]
        /\ NoneTwice(way) /\ Elements(way) \cap (here \cup handled[c]) = {}

\* A step that leaves the files and the channels alone, and the monitors or what they
\* stand for, leaves everything on its way.
LEMMA LocalSame ==
    ASSUME NEW cfg, LocalInv(cfg), Local(cfg)!TypeOK',
           UNCHANGED <<started, files, monitors, Local(cfg)!flow, early>>
    PROVE  LocalInv(cfg)'
<1>1. /\ started' = started /\ files' = files /\ monitors' = monitors /\ early' = early
      /\ created' = created /\ queue' = queue /\ item' = item /\ handled' = handled
  BY DEF Local!flow
<1>2. Local(cfg)!OnItsWay'
  BY <1>1 DEF LocalInv, Local!OnItsWay
<1> QED
  BY <1>1, <1>2 DEF LocalInv, Quiet

\* No step of the tasks, of the monitors or of the process loses or doubles a crash.
LEMMA LocalSteps ==
    ASSUME NEW cfg, Local(cfg)!LocalRunAssumption, LocalInv(cfg),
           [Local(cfg)!Next]_(Local(cfg)!vars)
    PROVE  LocalInv(cfg)'
<1> DEFINE F == Local(cfg)!Followers
<1>0. /\ None \notin Local(cfg)!Finds /\ NoneTwice(cfg.Consumers) /\ cfg.Consumers \in Seq(F)
      /\ F \subseteq Local(cfg)!Tasks /\ "fuzz" \in Local(cfg)!Tasks
      /\ cfg.Regression => "regression" \in Local(cfg)!Tasks
  <2>1. NoneTwice(cfg.Consumers) /\ None \notin Local(cfg)!Finds
    BY DEF Local!LocalRunAssumption, Local!NoneTwice, NoneTwice
  <2>2. cfg.Consumers \in Seq(F)
    BY DEF Local!LocalRunAssumption, Local!Followers, Local!Elements
  <2> QED
    BY <2>1, <2>2 DEF Local!Tasks
<1>o. \A c \in F : OnWay(c)
  BY DEF Local!Elements, Local!NoneTwice, NoneTwice, Elements, LocalInv, Local!OnItsWay, OnWay
<1>t. /\ created \in [F -> Seq(Local(cfg)!Finds)] /\ queue \in [F -> Seq(Local(cfg)!Finds)]
      /\ item \in [F -> Local(cfg)!Finds \cup {None}] /\ handled \in [F -> SUBSET Local(cfg)!Finds]
      /\ monitors \in [F -> {"off", "new", "watch", "ok", "error"}] /\ files \subseteq Local(cfg)!Finds
      /\ early \in [F -> SUBSET Local(cfg)!Finds]
  BY DEF LocalInv, Local!TypeOK
<1>w. ASSUME Local(cfg)!TypeOK',
             \A c \in F : /\ early[c]' \subseteq files' /\ OnWay(c)'
                          /\ monitors[c]' \in {"off", "new"} => Quiet(c)',
             \A i \in DOMAIN cfg.Consumers : i > started' => monitors[cfg.Consumers[i]]' = "off",
             early' \in [F -> SUBSET Local(cfg)!Finds]
      PROVE  LocalInv(cfg)'
  BY <1>w DEF LocalInv, Local!OnItsWay, OnWay, Local!Elements, Local!NoneTwice, Elements, NoneTwice
<1>1. CASE \/ Local(cfg)!WaitForDir \/ Local(cfg)!ConfigFails \/ Local(cfg)!TryWaitAll
           \/ Local(cfg)!UiEnds \/ Local(cfg)!CommandDone \/ Local(cfg)!TimeoutElapsed
  <2>1. Local(cfg)!TypeOK'
    BY <1>1 DEF Local!WaitForDir, Local!ConfigFails, Local!TryWaitAll, Local!UiEnds,
       Local!CommandDone, Local!TimeoutElapsed, LocalInv, Local!TypeOK, Local!flow
  <2> QED
    BY <1>1, <2>1, LocalSame DEF Local!WaitForDir, Local!ConfigFails, Local!TryWaitAll,
       Local!UiEnds, Local!CommandDone, Local!TimeoutElapsed
<1>2. CASE \/ Local(cfg)!StartRegression \/ Local(cfg)!FuzzInit \/ Local(cfg)!RegressionEnds
           \/ \E t \in Local(cfg)!Tasks : Local(cfg)!TaskInit(t) \/ Local(cfg)!TaskFails(t)
  <2>1. Local(cfg)!TypeOK'
    BY <1>2, ZenonT(40) DEF Local!StartRegression, Local!FuzzInit, Local!RegressionEnds, Local!TaskInit,
       Local!TaskFails, LocalInv, Local!TypeOK, Local!flow
  <2> QED
    BY <1>2, <2>1, LocalSame DEF Local!StartRegression, Local!FuzzInit, Local!RegressionEnds,
       Local!TaskInit, Local!TaskFails
<1>3. CASE Local(cfg)!StartConsumer
  <2> DEFINE c == cfg.Consumers[started + 1]
  <2>1. /\ started \in 0..Len(cfg.Consumers) /\ started < Len(cfg.Consumers)
        /\ started' = started + 1 /\ started + 1 \in DOMAIN cfg.Consumers
    BY <1>0, <1>3 DEF Local!StartConsumer, LocalInv, Local!TypeOK
  <2>2. c \in F /\ monitors[c] = "off"
    BY <1>0, <2>1 DEF LocalInv
  <2>3. /\ monitors' = [monitors EXCEPT ![c] = "new"] /\ tasks' = [tasks EXCEPT ![c] = "new"]
        /\ UNCHANGED <<process, command, ui, dir, files, created, queue, item, handled, early>>
    BY <1>3 DEF Local!StartConsumer, Local!StartMonitoring, Local!flow
  <2> HIDE DEF c
  <2>4. Local(cfg)!TypeOK'
    BY <1>0, <2>1, <2>2, <2>3 DEF LocalInv, Local!TypeOK
  <2>5. ASSUME NEW i \in DOMAIN cfg.Consumers, i > started'
        PROVE  monitors[cfg.Consumers[i]]' = "off"
    <3>1. monitors[cfg.Consumers[i]] = "off"
      BY <2>1, <2>5, <1>0 DEF LocalInv
    <3>2. cfg.Consumers[i] # c
      BY <1>0, <2>1, <2>5 DEF NoneTwice, c
    <3> QED
      BY <1>0, <1>t, <2>2, <2>3, <3>1, <3>2
  <2>6. ASSUME NEW b \in F
        PROVE  /\ early[b]' \subseteq files' /\ OnWay(b)'
               /\ monitors[b]' \in {"off", "new"} => Quiet(b)'
    BY <1>0, <1>o, <1>t, <2>2, <2>3 DEF LocalInv, OnWay, Quiet
  <2> QED
    BY <1>w, <1>t, <2>3, <2>4, <2>5, <2>6
<1>4. ASSUME NEW name \in cfg.Files, Local(cfg)!FindCrash(name) PROVE LocalInv(cfg)'
  <2>0. PICK k \in 1..cfg.MaxFinds :
          /\ <<name, k>> \notin files /\ files' = files \cup {<<name, k>>}
          /\ created' = [c \in F |->
               IF monitors[c] = "watch" THEN Append(created[c], <<name, k>>) ELSE created[c]]
    BY <1>4 DEF Local!FindCrash
  <2> DEFINE f == <<name, k>>
  <2>f. f \in Local(cfg)!Finds
    BY <1>4, <2>0 DEF Local!Finds, Local!LocalRunAssumption
  <2>1. /\ f \notin files /\ files' = files \cup {f}
        /\ created' = [c \in F |->
             IF monitors[c] = "watch" THEN Append(created[c], f) ELSE created[c]]
        /\ UNCHANGED <<process, command, started, tasks, ui, dir, monitors, queue, item,
                       handled, early>>
    BY <1>4, <2>0 DEF Local!FindCrash
  <2> HIDE DEF f
  <2>2. Local(cfg)!TypeOK'
    <3>1. \A c \in F : created[c] \in Seq(Local(cfg)!Finds) /\ Append(created[c], f) \in Seq(Local(cfg)!Finds)
      BY <1>t, <2>f
    <3>2. created' \in [F -> Seq(Local(cfg)!Finds)]
      BY <2>1, <3>1
    <3> QED
      BY <1>t, <2>f, <2>1, <3>2 DEF LocalInv, Local!TypeOK
  <2>3. ASSUME NEW c \in F, monitors[c] = "watch" PROVE OnWay(c)'
    <3> DEFINE way == queue[c] \o created[c]
    <3>1. way \in Seq(Local(cfg)!Finds) /\ queue'[c] \o created'[c] = Append(way, f)
      BY <1>t, <2>f, <2>1, <2>3, ComeLast
    <3>2. /\ files \ early[c] = Elements(way) \cup ({item[c]} \ {None}) \cup handled[c]
          /\ NoneTwice(way)
          /\ Elements(way) \cap (({item[c]} \ {None}) \cup handled[c]) = {}
      BY <1>o, <2>3 DEF OnWay
    <3>3. early[c] \subseteq files
      BY DEF LocalInv
    <3> HIDE DEF way
    <3>4. f \notin Elements(way)
      BY <2>1, <3>2
    <3>5. Elements(Append(way, f)) = Elements(way) \cup {f} /\ NoneTwice(Append(way, f))
      BY <2>f, <3>1, <3>2, <3>4, AppendOnce
    <3>6. /\ files' \ early'[c] = (files \ early[c]) \cup {f}
          /\ f \notin ({item[c]} \ {None}) \cup handled[c]
      BY <2>1, <3>2, <3>3
    <3> QED
      BY <2>1, <3>1, <3>2, <3>5, <3>6, ZenonT(40) DEF OnWay
  <2>4. ASSUME NEW c \in F, monitors[c] # "watch"
        PROVE  OnWay(c)' /\ (monitors[c]' \in {"off", "new"} => Quiet(c)')
    BY <2>1, <2>4 DEF LocalInv, OnWay, Quiet
  <2> QED
    BY <1>w, <1>t, <2>1, <2>2, <2>3, <2>4 DEF LocalInv
<1>5. ASSUME NEW c \in F, Local(cfg)!Watch(c) PROVE LocalInv(cfg)'
  <2>1. PICK result \in {"watch", "error"} : monitors' = [monitors EXCEPT ![c] = result]
    BY <1>5 DEF Local!Watch
  <2>2. /\ monitors[c] = "new" /\ early' = [early EXCEPT ![c] = files]
        /\ UNCHANGED <<process, command, started, tasks, ui, dir, files, created, queue,
                       item, handled>>
    BY <1>5 DEF Local!Watch, Local!flow
  <2>3. Local(cfg)!TypeOK'
    BY <2>1, <2>2 DEF LocalInv, Local!TypeOK
  <2>4. OnWay(c)'
    <3>1. Quiet(c)
      BY <2>2 DEF LocalInv
    <3>2. <<>> \o <<>> = <<>> /\ Elements(<<>>) = {} /\ NoneTwice(<<>>)
      BY DEF Elements, NoneTwice
    <3> QED
      BY <1>t, <2>1, <2>2, <3>1, <3>2 DEF OnWay, Quiet
  <2>5. ASSUME NEW b \in F, b # c
        PROVE  OnWay(b)' /\ (monitors[b]' \in {"off", "new"} => Quiet(b)')
    BY <1>o, <1>t, <2>1, <2>2, <2>5 DEF LocalInv, OnWay, Quiet
  <2>6. \A i \in DOMAIN cfg.Consumers : i > started' => monitors[cfg.Consumers[i]]' = "off"
    BY <1>0, <1>t, <2>1, <2>2 DEF LocalInv
  <2> QED
    BY <1>w, <1>t, <2>1, <2>2, <2>3, <2>4, <2>5, <2>6 DEF LocalInv
<1>6. ASSUME NEW c \in F, Local(cfg)!Enqueue(c) PROVE LocalInv(cfg)'
  <2>1. /\ monitors[c] = "watch" /\ created[c] # <<>>
        /\ queue' = [queue EXCEPT ![c] = Append(queue[c], Head(created[c]))]
        /\ created' = [created EXCEPT ![c] = Tail(created[c])]
        /\ UNCHANGED <<process, command, started, tasks, ui, dir, files, monitors, item,
                       handled, early>>
    BY <1>6 DEF Local!Enqueue, Local!EnqueueFile
  <2>2. Local(cfg)!TypeOK'
    <3>0. queue[c] \in Seq(Local(cfg)!Finds) /\ created[c] \in Seq(Local(cfg)!Finds)
      BY <1>t
    <3>1. /\ Head(created[c]) \in Local(cfg)!Finds /\ Tail(created[c]) \in Seq(Local(cfg)!Finds)
          /\ \A x \in Local(cfg)!Finds : Append(queue[c], x) \in Seq(Local(cfg)!Finds)
      BY <3>0, <2>1, TakeTypes
    <3>2. created' \in [F -> Seq(Local(cfg)!Finds)] /\ queue' \in [F -> Seq(Local(cfg)!Finds)]
      BY <1>t, <2>1, <3>1
    <3> QED
      BY <1>t, <2>1, <3>2 DEF LocalInv, Local!TypeOK
  <2>3. queue'[c] \o created'[c] = queue[c] \o created[c]
    BY <1>t, <2>1, MoveForward
  <2>4. \A b \in F : OnWay(b)' /\ (monitors[b]' \in {"off", "new"} => Quiet(b)')
    BY <1>o, <1>t, <2>1, <2>3 DEF LocalInv, OnWay, Quiet
  <2> QED
    BY <1>w, <1>t, <2>1, <2>2, <2>4 DEF LocalInv
<1>7. ASSUME NEW c \in F, Local(cfg)!Pop(c) PROVE LocalInv(cfg)'
  <2>1. /\ item[c] = None /\ queue[c] # <<>>
        /\ item' = [item EXCEPT ![c] = Head(queue[c])]
        /\ queue' = [queue EXCEPT ![c] = Tail(queue[c])]
        /\ UNCHANGED <<process, command, started, tasks, ui, dir, files, monitors, created,
                       handled, early>>
    BY <1>7 DEF Local!Pop
  <2>2. Head(queue[c]) \in Local(cfg)!Finds /\ Tail(queue[c]) \in Seq(Local(cfg)!Finds)
    BY <1>t, <2>1
  <2>3. Local(cfg)!TypeOK'
    BY <1>t, <2>1, <2>2 DEF LocalInv, Local!TypeOK
  <2>4. ASSUME monitors[c] = "watch" PROVE OnWay(c)'
    <3> DEFINE way == queue[c] \o created[c]
    <3>1. /\ way \in Seq(Local(cfg)!Finds) /\ way # <<>> /\ Head(way) = Head(queue[c])
          /\ queue'[c] \o created'[c] = Tail(way)
      BY <1>t, <2>1, TakeFirst
    <3>2. /\ files \ early[c] = Elements(way) \cup handled[c] /\ NoneTwice(way)
          /\ Elements(way) \cap handled[c] = {}
      BY <1>o, <2>1, <2>4 DEF OnWay
    <3> HIDE DEF way
    <3>3. /\ Elements(way) = Elements(Tail(way)) \cup {Head(way)}
          /\ Head(way) \notin Elements(Tail(way)) /\ NoneTwice(Tail(way))
      BY <3>1, <3>2, TakeOnce
    <3>4. item'[c] = Head(way) /\ {item'[c]} \ {None} = {Head(way)}
      BY <1>0, <1>t, <2>1, <2>2, <3>1
    <3> QED
      BY <2>1, <3>1, <3>2, <3>3, <3>4, ZenonT(40) DEF OnWay
  <2>5. ~(monitors[c] \in {"off", "new"})
    BY <2>1 DEF LocalInv, Quiet
  <2>6. \A b \in F : OnWay(b)' /\ (monitors[b]' \in {"off", "new"} => Quiet(b)')
    BY <1>o, <1>t, <2>1, <2>4, <2>5 DEF LocalInv, OnWay, Quiet
  <2> QED
    BY <1>w, <1>t, <2>1, <2>3, <2>6 DEF LocalInv
<1>8. ASSUME NEW c \in F, Local(cfg)!Process(c) \/ Local(cfg)!WatchEnds(c)
      PROVE  LocalInv(cfg)'
  <2>1. CASE Local(cfg)!WatchEnds(c)
    <3>1. /\ monitors[c] = "watch" /\ monitors' = [monitors EXCEPT ![c] = "ok"]
          /\ UNCHANGED <<process, command, started, tasks, ui, dir, files, created, queue,
                         item, handled, early>>
      BY <2>1 DEF Local!WatchEnds, Local!flow
    <3>2. Local(cfg)!TypeOK'
      BY <3>1 DEF LocalInv, Local!TypeOK
    <3>3. \A b \in F : OnWay(b)' /\ (monitors[b]' \in {"off", "new"} => Quiet(b)')
      BY <1>o, <1>t, <3>1 DEF LocalInv, OnWay, Quiet
    <3>4. \A i \in DOMAIN cfg.Consumers : i > started' => monitors[cfg.Consumers[i]]' = "off"
      BY <1>0, <1>t, <3>1 DEF LocalInv
    <3> QED
      BY <1>w, <1>t, <3>1, <3>2, <3>3, <3>4 DEF LocalInv
  <2>2. CASE Local(cfg)!Process(c)
    <3>1. /\ item[c] # None /\ handled' = [handled EXCEPT ![c] = handled[c] \cup {item[c]}]
          /\ item' = [item EXCEPT ![c] = None]
          /\ UNCHANGED <<process, command, started, tasks, ui, dir, files, monitors,
                         created, queue, early>>
      BY <2>2 DEF Local!Process
    <3>2. Local(cfg)!TypeOK'
      BY <1>t, <3>1 DEF LocalInv, Local!TypeOK
    <3>3. ~(monitors[c] \in {"off", "new"})
      BY <3>1 DEF LocalInv, Quiet
    <3>4. OnWay(c)'
      BY <1>o, <1>t, <3>1 DEF OnWay
    <3>5. \A b \in F : OnWay(b)' /\ (monitors[b]' \in {"off", "new"} => Quiet(b)')
      BY <1>o, <1>t, <3>1, <3>3, <3>4 DEF LocalInv, OnWay, Quiet
    <3> QED
      BY <1>w, <1>t, <3>1, <3>2, <3>5 DEF LocalInv
  <2> QED
    BY <1>8, <2>1, <2>2
<1>9. CASE UNCHANGED Local(cfg)!vars
  <2>1. Local(cfg)!TypeOK'
    BY <1>9 DEF Local!vars, LocalInv, Local!TypeOK, Local!flow
  <2> QED
    BY <1>9, <2>1, LocalSame DEF Local!vars
<1> QED
  BY <1>1, <1>2, <1>3, <1>4, <1>5, <1>6, <1>7, <1>8, <1>9
     DEF Local!Next, Local!Main, Local!Step

----------------------------------------------------------------------------
(* The supervisor.  Its end is kept as a permit until the heartbeats look, *)
(* and the client is dropped only when they have ended.                    *)

SupervisorInv(cfg) ==
    /\ Supervise(cfg)!TypeOK
    /\ late <= 1 /\ (late = 1 => hb = "ended")
    /\ hb = "ended" => child = "waited"
    /\ child = "waited" /\ hb = "waiting" => permit
    /\ permit => child = "waited"
    /\ child # "none" => hb # "off"
    /\ phase \in {"setup", "wait", "start"} => child = "none" /\ hb = "off"
    /\ cancelled \/ client = "done" => hb = "ended"
    /\ client = "done" => ~pending

\* No process and no client are there when the task starts.
LEMMA SupervisorInit ==
    ASSUME NEW cfg, Supervise(cfg)!SupervisorAssumption, Supervise(cfg)!Init
    PROVE  SupervisorInv(cfg)
<1>1. 0 \in 0..cfg.MaxAlive
  BY DEF Supervise!SupervisorAssumption
<1>2. Supervise(cfg)!TypeOK
  BY <1>1 DEF Supervise!Init, Supervise!TypeOK
<1> QED
  BY <1>2 DEF Supervise!Init, SupervisorInv

\* Neither the futures of the task nor the background task break it.
LEMMA SupervisorSteps ==
    ASSUME NEW cfg, Supervise(cfg)!SupervisorAssumption, SupervisorInv(cfg),
           [Supervise(cfg)!Next]_(Supervise(cfg)!vars)
    PROVE  SupervisorInv(cfg)'
<1>0. cfg.MaxAlive \in Nat
  BY DEF Supervise!SupervisorAssumption
<1> USE DEF SupervisorInv, Supervise!TypeOK, Supervise!process, Supervise!beats, Supervise!Abort
<1>1. CASE Supervise(cfg)!SetUp
  BY <1>1 DEF Supervise!SetUp
<1>2. CASE Supervise(cfg)!PullUntilFiles
  BY <1>2 DEF Supervise!PullUntilFiles
<1>3. CASE Supervise(cfg)!StartSupervisor
  <2>1. permit' \in BOOLEAN /\ timer' \in BOOLEAN /\ pending' \in BOOLEAN /\ cancelled' \in BOOLEAN
        /\ inputs' \in BOOLEAN /\ remote' \in BOOLEAN
    BY <1>3, Zenon DEF Supervise!StartSupervisor
  <2> QED
    BY <1>3, <2>1 DEF Supervise!StartSupervisor
<1>4. CASE Supervise(cfg)!SupervisorExits
  BY <1>4 DEF Supervise!SupervisorExits
<1>5. CASE Supervise(cfg)!MonitorProcess
  BY <1>5 DEF Supervise!MonitorProcess, Supervise!WaitProcess
<1>6. CASE Supervise(cfg)!OtherFutureFails
  BY <1>6 DEF Supervise!OtherFutureFails
<1>7. CASE Supervise(cfg)!DelayPasses
  BY <1>7 DEF Supervise!DelayPasses
<1>8. CASE Supervise(cfg)!HeartbeatProcess
  <2>1. permit' \in BOOLEAN /\ timer' \in BOOLEAN /\ pending' \in BOOLEAN /\ cancelled' \in BOOLEAN
        /\ inputs' \in BOOLEAN /\ remote' \in BOOLEAN
    BY <1>8, Zenon DEF Supervise!HeartbeatProcess, Supervise!DropClient, Supervise!SendAlive
  <2> QED
    BY <1>0, <1>8, <2>1
       DEF Supervise!HeartbeatProcess, Supervise!DropClient, Supervise!SendAlive
<1>9. CASE Supervise(cfg)!ClientStep
  <2>1. permit' \in BOOLEAN /\ timer' \in BOOLEAN /\ pending' \in BOOLEAN /\ cancelled' \in BOOLEAN
        /\ inputs' \in BOOLEAN /\ remote' \in BOOLEAN
    BY <1>9, Zenon DEF Supervise!ClientStep, Supervise!Flush
  <2> QED
    BY <1>9, <2>1 DEF Supervise!ClientStep, Supervise!Flush
<1>10. CASE Supervise(cfg)!WriteStats
  BY <1>10 DEF Supervise!WriteStats
<1>11. CASE Supervise(cfg)!InputsArrive
  BY <1>11 DEF Supervise!InputsArrive
<1>12. CASE Supervise(cfg)!MonitorStats \/ UNCHANGED Supervise(cfg)!vars
  BY <1>12 DEF Supervise!MonitorStats, Supervise!vars
<1> QED
  BY <1>1, <1>2, <1>3, <1>4, <1>5, <1>6, <1>7, <1>8, <1>9, <1>10, <1>11, <1>12
     DEF Supervise!Next, Supervise!Ended

----------------------------------------------------------------------------
(* The terminal.                                                           *)

StatEvent(cfg) == [type : {"stat"}, of : cfg.Kinds, value : Nat]
UiEvent(cfg) ==
    [type : {"tick", "quit"}, of : {None}, value : {0}]
    \cup [type : {"key"}, of : {"q", "down", "up"}, value : {0}]
    \cup [type : {"monitor"}, of : Terminal(cfg)!Dirs, value : {0}]
    \cup StatEvent(cfg)
    \cup [type : {"count"}, of : Terminal(cfg)!Dirs, value : Nat]

\* The values of the state, and that only a directory that is there is counted.
TerminalTypes(cfg) ==
    /\ Terminal(cfg)!TypeOK
    /\ announced \in Seq(Terminal(cfg)!Dirs) /\ events \in Seq(UiEvent(cfg))
    /\ telemetry \in Seq(StatEvent(cfg)) /\ sent \in [cfg.Kinds -> Nat]
    /\ dirs \in [Terminal(cfg)!Dirs -> Nat \cup {None}]
    /\ counts \in [Terminal(cfg)!Dirs -> Nat \cup {None}]
    /\ selected \in Nat \cup {None}
    /\ \A d \in Terminal(cfg)!Dirs : counting[d] = "read" => dirs[d] # None
    /\ written \in Nat /\ taken \in 0..written

TerminalInv(cfg) ==
    /\ TerminalTypes(cfg)
    /\ Terminal(cfg)!SelectionInList
    /\ Terminal(cfg)!TerminalRestored
    /\ Terminal(cfg)!LogsInOrder

\* The terminal is in raw mode, and nothing is shown, when it starts.
LEMMA TerminalInit ==
    ASSUME NEW cfg, Terminal(cfg)!TerminalUiAssumption, Terminal(cfg)!Init
    PROVE  TerminalInv(cfg)
<1> USE DEF Terminal!TerminalUiAssumption, Terminal!Init
<1>1. /\ <<>> \in Seq(UiEvent(cfg)) /\ <<>> \in Seq(StatEvent(cfg)) /\ Len(<<>>) = 0
      /\ 0 \in 0..cfg.MaxKeys /\ 0 \in Nat /\ 0 \in 0..0
  OBVIOUS
<1>2. Terminal(cfg)!TypeOK
  <2>1. Len(telemetry) <= cfg.Capacity
    BY <1>1
  <2>2. counting \in [Terminal(cfg)!Dirs -> {None, "wait", "read", "ended"}]
    OBVIOUS
  <2> QED
    BY <1>1, <2>1, <2>2 DEF Terminal!TypeOK
<1>3. TerminalTypes(cfg)
  <2>1. \A S : [d \in S |-> None] \in [S -> Nat \cup {None}]
    OBVIOUS
  <2>2. [k \in cfg.Kinds |-> 0] \in [cfg.Kinds -> Nat]
    OBVIOUS
  <2>3. \A d \in Terminal(cfg)!Dirs : counting[d] # "read"
    OBVIOUS
  <2> QED
    BY <1>1, <1>2, <2>1, <2>2, <2>3 DEF TerminalTypes
<1>4. Terminal(cfg)!LogsInOrder
  <2>1. Terminal(cfg)!Least(0, cfg.LOGS_BUFFER_SIZE) = 0
    BY DEF Terminal!Least
  <2>2. [i \in 1..0 |-> 0 + 1 - i] = <<>>
    OBVIOUS
  <2> QED
    BY <2>1, <2>2 DEF Terminal!LogsInOrder
<1> QED
  BY <1>3, <1>4 DEF TerminalInv, Terminal!SelectionInList, Terminal!TerminalRestored

\* A step that leaves alone what is shown and how the terminal is.
LEMMA TerminalSame ==
    ASSUME NEW cfg, TerminalInv(cfg), TerminalTypes(cfg)',
           UNCHANGED <<raw, loop, cut, counts, selected, taken, logs>>
    PROVE  TerminalInv(cfg)'
<1>1. Terminal(cfg)!SelectionInList'
  BY DEF TerminalInv, Terminal!SelectionInList, Terminal!Count
<1>2. Terminal(cfg)!TerminalRestored' /\ Terminal(cfg)!LogsInOrder'
  BY DEF TerminalInv, Terminal!TerminalRestored, Terminal!LogsInOrder
<1> QED
  BY <1>1, <1>2 DEF TerminalInv

\* An event of the right form may be sent.
LEMMA SendTypes ==
    ASSUME NEW cfg, TerminalTypes(cfg), NEW e \in UiEvent(cfg), Terminal(cfg)!Send(e)
    PROVE  events' \in Seq(UiEvent(cfg))
BY TakeTypes DEF TerminalTypes, Terminal!Send

\* The senders, the command and the user keep the types.
LEMMA TerminalSenders ==
    ASSUME NEW cfg, Terminal(cfg)!TerminalUiAssumption, TerminalInv(cfg),
           \/ Terminal(cfg)!Ticking \/ Terminal(cfg)!ReadKeyboard \/ Terminal(cfg)!ReadCommands
           \/ Terminal(cfg)!ListenTelemetry \/ Terminal(cfg)!TimeoutPasses
           \/ Terminal(cfg)!WriteLog \/ \E s \in cfg.Senders : Terminal(cfg)!Ends(s)
           \/ \E d \in Terminal(cfg)!Dirs : Terminal(cfg)!CountFiles(d) \/ Terminal(cfg)!CreateFile(d)
           \/ \E k \in cfg.Kinds : Terminal(cfg)!Broadcast(k)
    PROVE  TerminalInv(cfg)'
<1> DEFINE D == Terminal(cfg)!Dirs
<1> USE DEF Terminal!screen, Terminal!listing, Terminal!stat, Terminal!log
<1>0. /\ None \notin Nat \cup {"wait", "read", "ended"} /\ cfg.Capacity \in Nat \ {0}
      /\ cfg.MaxKeys \in Nat /\ TerminalTypes(cfg)
  BY DEF Terminal!TerminalUiAssumption, TerminalInv
<1>1. CASE Terminal(cfg)!Ticking
  <2>1. Terminal(cfg)!Ev("tick", None, 0) \in UiEvent(cfg)
    BY DEF UiEvent, Terminal!Ev
  <2>2. events' \in Seq(UiEvent(cfg))
    BY <1>0, <1>1, <2>1, SendTypes DEF Terminal!Ticking
  <2>3. TerminalTypes(cfg)'
    BY <1>0, <1>1, <2>2 DEF Terminal!Ticking, TerminalTypes, Terminal!TypeOK
  <2> QED
    BY <1>1, <2>3, TerminalSame DEF Terminal!Ticking
<1>2. CASE Terminal(cfg)!ReadKeyboard
  <2>1. PICK key \in {"q", "down", "up"} : Terminal(cfg)!Send(Terminal(cfg)!Ev("key", key, 0))
    BY <1>2 DEF Terminal!ReadKeyboard
  <2>2. Terminal(cfg)!Ev("key", key, 0) \in UiEvent(cfg)
    BY DEF UiEvent, Terminal!Ev
  <2>3. events' \in Seq(UiEvent(cfg))
    BY <1>0, <2>1, <2>2, SendTypes
  <2>4. TerminalTypes(cfg)'
    BY <1>0, <1>2, <2>3, SMTT(30) DEF Terminal!ReadKeyboard, TerminalTypes, Terminal!TypeOK
  <2> QED
    BY <1>2, <2>4, TerminalSame DEF Terminal!ReadKeyboard
<1>3. CASE Terminal(cfg)!ReadCommands
  <2>1. Head(announced) \in D /\ Tail(announced) \in Seq(D)
    BY <1>0, <1>3, TakeTypes DEF Terminal!ReadCommands, TerminalTypes
  <2>2. Terminal(cfg)!Ev("monitor", Head(announced), 0) \in UiEvent(cfg)
    BY <2>1 DEF UiEvent, Terminal!Ev
  <2>3. events' \in Seq(UiEvent(cfg))
    BY <1>0, <1>3, <2>2, SendTypes DEF Terminal!ReadCommands
  <2>4. TerminalTypes(cfg)'
    BY <1>0, <1>3, <2>1, <2>3 DEF Terminal!ReadCommands, TerminalTypes, Terminal!TypeOK
  <2> QED
    BY <1>3, <2>4, TerminalSame DEF Terminal!ReadCommands
<1>4. CASE Terminal(cfg)!ListenTelemetry
  <2>1. CASE UNCHANGED <<telemetry, events>>
    <3>1. TerminalTypes(cfg)'
      BY <1>0, <1>4, <2>1 DEF Terminal!ListenTelemetry, TerminalTypes, Terminal!TypeOK
    <3> QED
      BY <1>4, <3>1, TerminalSame DEF Terminal!ListenTelemetry
  <2>2. CASE ~UNCHANGED <<telemetry, events>>
    <3>1. telemetry # <<>> /\ telemetry' = Tail(telemetry) /\ Terminal(cfg)!Send(Head(telemetry))
      BY <1>4, <2>2 DEF Terminal!ListenTelemetry
    <3>2. Head(telemetry) \in UiEvent(cfg) /\ Tail(telemetry) \in Seq(StatEvent(cfg))
      BY <1>0, <3>1, TakeTypes DEF TerminalTypes, UiEvent
    <3>3. Len(Tail(telemetry)) <= cfg.Capacity
      BY <1>0, <3>1 DEF TerminalTypes, Terminal!TypeOK
    <3>4. events' \in Seq(UiEvent(cfg))
      BY <1>0, <3>1, <3>2, SendTypes
    <3>5. TerminalTypes(cfg)'
      BY <1>0, <1>4, <3>1, <3>2, <3>3, <3>4
         DEF Terminal!ListenTelemetry, TerminalTypes, Terminal!TypeOK
    <3> QED
      BY <1>4, <3>5, TerminalSame DEF Terminal!ListenTelemetry
  <2> QED
    BY <2>1, <2>2
<1>5. CASE Terminal(cfg)!TimeoutPasses
  <2>1. Terminal(cfg)!Ev("quit", None, 0) \in UiEvent(cfg)
    BY DEF UiEvent, Terminal!Ev
  <2>2. events' \in Seq(UiEvent(cfg))
    BY <1>0, <1>5, <2>1, SendTypes DEF Terminal!TimeoutPasses, TerminalTypes
  <2>3. TerminalTypes(cfg)'
    BY <1>0, <1>5, <2>2 DEF Terminal!TimeoutPasses, TerminalTypes, Terminal!TypeOK
  <2> QED
    BY <1>5, <2>3, TerminalSame DEF Terminal!TimeoutPasses
<1>6. CASE Terminal(cfg)!WriteLog \/ \E s \in cfg.Senders : Terminal(cfg)!Ends(s)
  <2>1. TerminalTypes(cfg)'
    BY <1>0, <1>6, SMTT(30) DEF Terminal!WriteLog, Terminal!Ends, TerminalTypes, Terminal!TypeOK
  <2> QED
    BY <1>6, <2>1, TerminalSame DEF Terminal!WriteLog, Terminal!Ends
<1>7. ASSUME NEW d \in D, Terminal(cfg)!CountFiles(d) PROVE TerminalInv(cfg)'
  <2>1. events' \in Seq(UiEvent(cfg))
    <3>1. CASE UNCHANGED events
      BY <1>0, <3>1 DEF TerminalTypes
    <3>2. CASE ~UNCHANGED events
      <4>1. counting[d] = "read" /\ Terminal(cfg)!Send(Terminal(cfg)!Ev("count", d, dirs[d]))
        BY <1>7, <3>2 DEF Terminal!CountFiles
      <4>2. dirs[d] \in Nat
        BY <1>0, <4>1 DEF TerminalTypes
      <4>3. Terminal(cfg)!Ev("count", d, dirs[d]) \in UiEvent(cfg)
        BY <4>2 DEF UiEvent, Terminal!Ev
      <4> QED
        BY <1>0, <4>1, <4>3, SendTypes
    <3> QED
      BY <3>1, <3>2
  <2>2. /\ counting' \in [D -> {None, "wait", "read", "ended"}]
        /\ \A c \in D : counting'[c] = "read" => dirs[c] # None
    BY <1>0, <1>7 DEF Terminal!CountFiles, TerminalTypes, Terminal!TypeOK
  <2>3. TerminalTypes(cfg)'
    BY <1>0, <1>7, <2>1, <2>2 DEF Terminal!CountFiles, TerminalTypes, Terminal!TypeOK
  <2> QED
    BY <1>7, <2>3, TerminalSame DEF Terminal!CountFiles
<1>8. ASSUME NEW d \in D, Terminal(cfg)!CreateFile(d) PROVE TerminalInv(cfg)'
  <2>1. /\ dirs' \in [D -> Nat \cup {None}]
        /\ \A c \in D : counting[c] = "read" => dirs'[c] # None
    BY <1>0, <1>8 DEF Terminal!CreateFile, TerminalTypes
  <2>2. TerminalTypes(cfg)'
    BY <1>0, <1>8, <2>1 DEF Terminal!CreateFile, TerminalTypes, Terminal!TypeOK
  <2> QED
    BY <1>8, <2>2, TerminalSame DEF Terminal!CreateFile
<1>9. ASSUME NEW k \in cfg.Kinds, Terminal(cfg)!Broadcast(k) PROVE TerminalInv(cfg)'
  <2> DEFINE full == Len(telemetry) = cfg.Capacity
             kept == IF full THEN Tail(telemetry) ELSE telemetry
             new == Terminal(cfg)!Ev("stat", k, sent[k] + 1)
  <2>1. new \in StatEvent(cfg) /\ sent[k] + 1 \in Nat
    BY <1>0 DEF StatEvent, Terminal!Ev, TerminalTypes
  <2>2. telemetry \in Seq(StatEvent(cfg)) /\ Len(telemetry) <= cfg.Capacity
    BY <1>0 DEF TerminalTypes, Terminal!TypeOK
  <2>3. /\ kept \in Seq(StatEvent(cfg)) /\ Len(kept) < cfg.Capacity
        /\ full => Head(telemetry) \in StatEvent(cfg)
    BY <1>0, <2>2
  <2>4. Append(kept, new) \in Seq(StatEvent(cfg)) /\ Len(Append(kept, new)) <= cfg.Capacity
    BY <1>0, <2>1, <2>3
  <2>5. /\ telemetry' = Append(kept, new) /\ sent' = [sent EXCEPT ![k] = sent[k] + 1]
        /\ missed' \subseteq missed \cup (IF full THEN {Head(telemetry).of} ELSE {})
    BY <1>9 DEF Terminal!Broadcast
  <2>6. full => Head(telemetry).of \in cfg.Kinds
    BY <2>3 DEF StatEvent
  <2> HIDE DEF full, kept, new
  <2>7. missed' \subseteq cfg.Kinds /\ sent' \in [cfg.Kinds -> Nat]
    BY <1>0, <2>1, <2>5, <2>6, SMTT(30) DEF TerminalTypes, Terminal!TypeOK
  <2>8. Terminal(cfg)!TypeOK'
    BY <1>0, <1>9, <2>4, <2>5, <2>7 DEF Terminal!Broadcast, TerminalTypes, Terminal!TypeOK
  <2>9. TerminalTypes(cfg)'
    BY <1>0, <1>9, <2>4, <2>5, <2>7, <2>8 DEF Terminal!Broadcast, TerminalTypes
  <2> QED
    BY <1>9, <2>9, TerminalSame DEF Terminal!Broadcast
<1> QED
  BY <1>1, <1>2, <1>3, <1>4, <1>5, <1>6, <1>7, <1>8, <1>9

\* A set of natural numbers that is not empty has a least element.
LEMMA LeastNumber ==
    ASSUME NEW T, T \subseteq Nat, T # {}
    PROVE  \E x \in T : \A y \in T : x <= y
<1> DEFINE R == OpToRel(<, Nat)
<1>1. PICK x \in T : \A y \in T : ~(<<y, x>> \in R)
  BY NatLessThanWellFounded, WFMin, Zenon
<1>2. \A m, n \in Nat : <<n, m>> \in R <=> n < m
  BY DEF OpToRel
<1> HIDE DEF R
<1>3. \A y \in T : ~(y < x)
  BY <1>1, <1>2
<1>4. \A y \in T : x <= y
  BY <1>3
<1> QED
  BY <1>4

\* Induction: a set of numbers with 0 and the successor of each of its elements has all.
LEMMA Induction ==
    ASSUME NEW T, T \subseteq Nat, 0 \in T, \A n \in T : n + 1 \in T
    PROVE  T = Nat
<1> SUFFICES ASSUME Nat \ T # {} PROVE FALSE
  OBVIOUS
<1>1. PICK x \in Nat \ T : \A y \in Nat \ T : x <= y
  BY LeastNumber
<1>2. x - 1 \in T
  BY <1>1
<1>3. x - 1 + 1 \in T
  BY <1>2
<1> QED
  BY <1>1, <1>3

\* The logs that are shown when t of them have been taken.
Shown(cfg, t) ==
    [i \in 1..Terminal(cfg)!Least(t, cfg.LOGS_BUFFER_SIZE) |-> t + 1 - i]

\* One more log in front of those that are shown, and the oldest one less.
LEMMA PushShown ==
    ASSUME NEW cfg, cfg.LOGS_BUFFER_SIZE \in Nat \ {0}, NEW t \in Nat
    PROVE  Terminal(cfg)!PushFront(Shown(cfg, t), t + 1) = Shown(cfg, t + 1)
<1> DEFINE m == Terminal(cfg)!Least(t, cfg.LOGS_BUFFER_SIZE)
           k == Terminal(cfg)!Least(m + 1, cfg.LOGS_BUFFER_SIZE)
           s == Shown(cfg, t)
           all == <<t + 1>> \o s
<1>1. /\ m \in Nat /\ k \in Nat /\ k <= m + 1
      /\ k = Terminal(cfg)!Least(t + 1, cfg.LOGS_BUFFER_SIZE)
  BY DEF Terminal!Least
<1>2. s \in Seq(Int) /\ Len(s) = m /\ \A i \in 1..m : s[i] = t + 1 - i
  BY <1>1 DEF Shown
<1>3. Terminal(cfg)!PushFront(s, t + 1) = SubSeq(all, 1, k)
  BY <1>2 DEF Terminal!PushFront
<1> HIDE DEF m, k, s
<1>4. all \in Seq(Int) /\ Len(all) = m + 1 /\ \A i \in 1..(m + 1) : all[i] = t + 2 - i
  BY <1>1, <1>2
<1> HIDE DEF all
<1>5. SubSeq(all, 1, k) = [i \in 1..k |-> all[i]]
  BY <1>1, <1>4
<1>6. [i \in 1..k |-> all[i]] = [i \in 1..k |-> t + 1 + 1 - i]
  BY <1>1, <1>4
<1> QED
  BY <1>1, <1>3, <1>5, <1>6 DEF Shown, s

\* take_available_logs: after n more the last ones are shown, the newest first.
LEMMA TakenShown ==
    ASSUME NEW cfg, cfg.LOGS_BUFFER_SIZE \in Nat \ {0}, NEW n \in Nat, taken \in Nat,
           logs = Shown(cfg, taken)
    PROVE  Terminal(cfg)!TakeLogs(n) = Shown(cfg, taken + n)
<1> DEFINE Body(f, i) == IF i = 0 THEN logs ELSE Terminal(cfg)!PushFront(f[i - 1], taken + i)
           P(f, k) == f = [i \in 0..k |-> Body(f, i)]
           g == [i \in 0..n |-> Shown(cfg, taken + i)]
           f0 == CHOOSE f : P(f, n)
<1>1. ASSUME NEW i \in 0..n PROVE g[i] = Body(g, i)
  <2>1. CASE i = 0
    BY <2>1
  <2>2. CASE i # 0
    <3>1. i - 1 \in 0..n /\ taken + (i - 1) \in Nat /\ taken + (i - 1) + 1 = taken + i
      BY <2>2
    <3>2. Terminal(cfg)!PushFront(Shown(cfg, taken + (i - 1)), taken + (i - 1) + 1)
            = Shown(cfg, taken + (i - 1) + 1)
      BY <3>1, PushShown
    <3> QED
      BY <2>2, <3>1, <3>2
  <2> QED
    BY <2>1, <2>2
<1>2. P(g, n)
  BY <1>1
<1>3. P(f0, n)
  BY <1>2
<1>4. Terminal(cfg)!TakeLogs(n) = f0[n]
  BY DEF Terminal!TakeLogs
<1> HIDE DEF f0
<1>5. n \in {k \in Nat : k <= n => f0[k] = Shown(cfg, taken + k)}
  <2> DEFINE T == {k \in Nat : k <= n => f0[k] = Shown(cfg, taken + k)}
  <2>1. 0 \in T
    BY <1>3
  <2>2. ASSUME NEW k \in T PROVE k + 1 \in T
    <3> SUFFICES ASSUME k + 1 <= n PROVE f0[k + 1] = Shown(cfg, taken + (k + 1))
      OBVIOUS
    <3>1. f0[k] = Shown(cfg, taken + k)
      OBVIOUS
    <3>2. f0[k + 1] = Terminal(cfg)!PushFront(f0[k], taken + (k + 1))
      BY <1>3
    <3>3. Terminal(cfg)!PushFront(Shown(cfg, taken + k), taken + k + 1) = Shown(cfg, taken + k + 1)
      BY PushShown
    <3> QED
      BY <3>1, <3>2, <3>3
  <2> HIDE DEF T
  <2>3. T = Nat
    BY <2>1, <2>2, Induction DEF T
  <2> QED
    BY <2>3 DEF T
<1> QED
  BY <1>4, <1>5

\* The list of directories has finitely many entries, and with more of them no fewer.
LEMMA ListGrows ==
    ASSUME NEW cfg, Terminal(cfg)!TerminalUiAssumption,
           NEW S2 \in SUBSET Terminal(cfg)!Dirs, NEW S1 \in SUBSET S2
    PROVE  /\ Cardinality(S1) \in Nat /\ Cardinality(S2) \in Nat
           /\ Cardinality(S1) <= Cardinality(S2)
<1> DEFINE D == Terminal(cfg)!Dirs
           a == cfg.Announced
<1>1. a \in Seq(D) /\ D = {a[i] : i \in DOMAIN a}
  BY DEF Terminal!TerminalUiAssumption, Terminal!Dirs
<1>2. S1 \in SUBSET S2 /\ S2 \in SUBSET D
  OBVIOUS
<1> HIDE DEF a, D
<1>3. Len(a) \in Nat /\ a \in [1..Len(a) -> D] /\ DOMAIN a = 1..Len(a)
  BY <1>1
<1>4. \A d \in D : \E i \in 1..Len(a) : a[i] = d
  BY <1>1, <1>3
<1>5. a \in Surjection(1..Len(a), D)
  BY <1>3, <1>4, Zenon DEF Surjection
<1>6. IsFiniteSet(1..Len(a))
  BY <1>3, FS_Interval
<1>7. IsFiniteSet(D)
  BY <1>5, <1>6, FS_Surjection
<1>8. IsFiniteSet(S2)
  BY <1>2, <1>7, FS_Subset
<1>9. IsFiniteSet(S1) /\ Cardinality(S1) <= Cardinality(S2)
  BY <1>2, <1>8, FS_Subset
<1> QED
  BY <1>8, <1>9, FS_CardinalityType

\* The event that the loop takes is one of those that may be sent.
LEMMA EventTypes ==
    ASSUME NEW cfg, TerminalTypes(cfg), NEW t, Terminal(cfg)!Has(t)
    PROVE  Head(events) \in UiEvent(cfg) /\ Tail(events) \in Seq(UiEvent(cfg))
BY TakeTypes DEF TerminalTypes, Terminal!Has

\* No event, key or end of the loop breaks what it shows.
LEMMA TerminalLoop ==
    ASSUME NEW cfg, Terminal(cfg)!TerminalUiAssumption, TerminalInv(cfg),
           Terminal(cfg)!UiLoop \/ Terminal(cfg)!CommandEnds
    PROVE  TerminalInv(cfg)'
<1> DEFINE D == Terminal(cfg)!Dirs
<1> USE DEF Terminal!screen, Terminal!listing, Terminal!stat, Terminal!log
<1>0. /\ None \notin Nat \cup {"wait", "read", "ended"} /\ cfg.Capacity \in Nat \ {0}
      /\ cfg.MaxKeys \in Nat /\ cfg.LOGS_BUFFER_SIZE \in Nat \ {0} /\ cfg.LogBatch \in Nat \ {0}
      /\ TerminalTypes(cfg)
  BY DEF Terminal!TerminalUiAssumption, TerminalInv
<1>n. <<>> \in Seq(UiEvent(cfg)) /\ <<>> \in Seq(StatEvent(cfg)) /\ <<>> \in Seq(D)
      /\ Len(<<>>) = 0
  OBVIOUS
<1>1. CASE Terminal(cfg)!RefreshUi
  <2> DEFINE n == Terminal(cfg)!Least(cfg.LogBatch, written - taken)
  <2>1. n \in Nat /\ taken + n \in 0..written /\ taken \in Nat
    BY <1>0 DEF TerminalTypes, Terminal!Least
  <2>2. taken' = taken + n /\ logs' = Terminal(cfg)!TakeLogs(n)
    BY <1>1 DEF Terminal!RefreshUi
  <2> HIDE DEF n
  <2>3. logs = Shown(cfg, taken)
    BY DEF TerminalInv, Terminal!LogsInOrder, Shown
  <2>4. logs' = Shown(cfg, taken')
    BY <1>0, <2>1, <2>2, <2>3, TakenShown
  <2>5. events' \in Seq(UiEvent(cfg))
    BY <1>0, <1>1, <1>n, EventTypes DEF Terminal!RefreshUi
  <2>6. TerminalTypes(cfg)'
    BY <1>0, <1>1, <2>1, <2>2, <2>5 DEF Terminal!RefreshUi, TerminalTypes, Terminal!TypeOK
  <2>7. Terminal(cfg)!LogsInOrder'
    BY <2>4 DEF Terminal!LogsInOrder, Shown
  <2>8. Terminal(cfg)!SelectionInList'
    BY <1>1 DEF Terminal!RefreshUi, TerminalInv, Terminal!SelectionInList, Terminal!Count
  <2>9. Terminal(cfg)!TerminalRestored'
    BY <1>1 DEF Terminal!RefreshUi, Terminal!Has, Terminal!Open, TerminalInv,
                Terminal!TerminalRestored
  <2> QED
    BY <2>6, <2>7, <2>8, <2>9 DEF TerminalInv
<1>2. ASSUME NEW key, NEW delta \in {1, -1}, Terminal(cfg)!OnKey(key, delta)
      PROVE  TerminalInv(cfg)'
  <2>1. Terminal(cfg)!Count \in Nat
    <3> DEFINE S == {d \in D : counts[d] # None}
    <3>1. S \in SUBSET D /\ S \in SUBSET S
      OBVIOUS
    <3>2. Terminal(cfg)!Count = Cardinality(S)
      BY Zenon DEF Terminal!Count, Terminal!Cardinality, Cardinality
    <3> HIDE DEF S
    <3> QED
      BY <3>1, <3>2, ListGrows
  <2>2. selected' \in Nat /\ (selected' = 0 \/ selected' < Terminal(cfg)!Count)
    <3>1. CASE selected = None \/ Terminal(cfg)!Count = 0
      BY <1>2, <3>1 DEF Terminal!OnKey
    <3>2. CASE ~(selected = None \/ Terminal(cfg)!Count = 0)
      <4> DEFINE c == Terminal(cfg)!Count
                 x == selected + c + delta
      <4>1. x \in Int /\ c \in Nat /\ c > 0 /\ selected' = x % c
        <5>1. selected \in Nat /\ selected' = (selected + c + delta) % c /\ c # 0
          BY <1>0, <1>2, <3>2 DEF Terminal!OnKey, TerminalTypes
        <5> HIDE DEF c
        <5>2. c \in Nat
          BY <2>1 DEF c
        <5> QED
          BY <5>1, <5>2
      <4> HIDE DEF c, x
      <4>2. x % c \in 0..(c - 1)
        BY <4>1
      <4> QED
        BY <4>1, <4>2 DEF c
    <3> QED
      BY <3>1, <3>2
  <2>3. events' \in Seq(UiEvent(cfg))
    BY <1>0, <1>2, EventTypes DEF Terminal!OnKey, Terminal!Receives
  <2>4. TerminalTypes(cfg)'
    BY <1>0, <1>2, <2>2, <2>3 DEF Terminal!OnKey, TerminalTypes, Terminal!TypeOK
  <2>5. Terminal(cfg)!SelectionInList'
    BY <1>2, <2>2 DEF Terminal!OnKey, Terminal!SelectionInList, Terminal!Count
  <2>6. Terminal(cfg)!TerminalRestored' /\ Terminal(cfg)!LogsInOrder'
    BY <1>2 DEF Terminal!OnKey, TerminalInv, Terminal!TerminalRestored, Terminal!LogsInOrder
  <2> QED
    BY <2>4, <2>5, <2>6 DEF TerminalInv
<1>3. CASE Terminal(cfg)!OnQuit
  <2>1. TerminalTypes(cfg)'
    BY <1>0, <1>3, <1>n DEF Terminal!OnQuit, TerminalTypes, Terminal!TypeOK
  <2>2. Terminal(cfg)!SelectionInList' /\ Terminal(cfg)!LogsInOrder'
    BY <1>3 DEF Terminal!OnQuit, TerminalInv, Terminal!SelectionInList, Terminal!Count,
                Terminal!LogsInOrder
  <2>3. Terminal(cfg)!TerminalRestored'
    BY <1>3 DEF Terminal!OnQuit, Terminal!TerminalRestored
  <2> QED
    BY <2>1, <2>2, <2>3 DEF TerminalInv
<1>4. CASE Terminal(cfg)!OnFileCount
  <2> DEFINE e == Head(events)
  <2>1. e \in UiEvent(cfg) /\ e.type = "count" /\ events' \in Seq(UiEvent(cfg))
    BY <1>0, <1>4, EventTypes DEF Terminal!OnFileCount, Terminal!Receives, Terminal!Has
  <2>2. e.of \in D /\ e.value \in Nat
    BY <2>1 DEF UiEvent, StatEvent
  <2>3. counts' = [counts EXCEPT ![e.of] = e.value]
    BY <1>4 DEF Terminal!OnFileCount, Terminal!Event
  <2> HIDE DEF e
  <2>4. TerminalTypes(cfg)'
    BY <1>0, <1>4, <2>1, <2>2, <2>3 DEF Terminal!OnFileCount, TerminalTypes, Terminal!TypeOK
  <2>5. \A d \in D : counts[d] # None => counts'[d] # None
    BY <1>0, <2>2, <2>3 DEF TerminalTypes
  <2>6. /\ Terminal(cfg)!Count \in Nat /\ Terminal(cfg)!Count' \in Nat
        /\ Terminal(cfg)!Count <= Terminal(cfg)!Count'
    <3> DEFINE S1 == {d \in D : counts[d] # None}
               S2 == {d \in D : counts'[d] # None}
    <3>1. S2 \in SUBSET D /\ S1 \in SUBSET S2
      BY <2>5
    <3>2. Terminal(cfg)!Count = Cardinality(S1) /\ Terminal(cfg)!Count' = Cardinality(S2)
      BY Zenon DEF Terminal!Count, Terminal!Cardinality, Cardinality
    <3> HIDE DEF S1, S2
    <3> QED
      BY <3>1, <3>2, ListGrows
  <2>7. Terminal(cfg)!SelectionInList'
    BY <1>0, <1>4, <2>6 DEF Terminal!OnFileCount, TerminalInv, Terminal!SelectionInList,
                            TerminalTypes
  <2>8. Terminal(cfg)!TerminalRestored' /\ Terminal(cfg)!LogsInOrder'
    BY <1>4 DEF Terminal!OnFileCount, TerminalInv, Terminal!TerminalRestored,
                Terminal!LogsInOrder
  <2> QED
    BY <2>4, <2>7, <2>8 DEF TerminalInv
<1>5. CASE Terminal(cfg)!OnMonitorDir
  <2>1. events' \in Seq(UiEvent(cfg))
    BY <1>0, <1>5, EventTypes DEF Terminal!OnMonitorDir, Terminal!Receives
  <2>2. /\ counting' \in [D -> {None, "wait", "read", "ended"}]
        /\ \A d \in D : counting'[d] = "read" => dirs[d] # None
    BY <1>0, <1>5 DEF Terminal!OnMonitorDir, TerminalTypes, Terminal!TypeOK
  <2>3. TerminalTypes(cfg)'
    BY <1>0, <1>5, <2>1, <2>2 DEF Terminal!OnMonitorDir, TerminalTypes, Terminal!TypeOK
  <2> QED
    BY <1>5, <2>3, TerminalSame DEF Terminal!OnMonitorDir
<1>6. CASE Terminal(cfg)!OnTelemetry
  <2>1. events' \in Seq(UiEvent(cfg))
    BY <1>0, <1>6, EventTypes DEF Terminal!OnTelemetry, Terminal!Receives
  <2>2. TerminalTypes(cfg)'
    BY <1>0, <1>6, <2>1 DEF Terminal!OnTelemetry, TerminalTypes, Terminal!TypeOK
  <2> QED
    BY <1>6, <2>2, TerminalSame DEF Terminal!OnTelemetry
<1>7. CASE Terminal(cfg)!Return \/ Terminal(cfg)!CommandEnds
  <2>1. Terminal(cfg)!Exit /\ cut' \in BOOLEAN
        /\ (cut' \/ (loop = "ok" /\ cut' = cut))
    BY <1>0, <1>7 DEF Terminal!Return, Terminal!CommandEnds, TerminalTypes, Terminal!TypeOK
  <2>2. TerminalTypes(cfg)'
    <3>1. \A S : [d \in S |-> None] \in [S -> Nat \cup {None}]
      OBVIOUS
    <3>2. [k \in cfg.Kinds |-> 0] \in [cfg.Kinds -> Nat]
      OBVIOUS
    <3>3. \A d \in D : counting'[d] # "read"
      BY <1>0, <2>1 DEF Terminal!Exit
    <3>4. Terminal(cfg)!TypeOK'
      <4>1. Len(telemetry') <= cfg.Capacity /\ keys' = keys /\ missed' = {} /\ senders' = {}
            /\ raw' = raw /\ cancelled' = cancelled /\ loop' = "returned"
        BY <1>0, <1>n, <2>1 DEF Terminal!Exit
      <4>2. counting' \in [D -> {None, "wait", "read", "ended"}]
        BY <2>1 DEF Terminal!Exit
      <4> QED
        BY <1>0, <2>1, <4>1, <4>2 DEF TerminalTypes, Terminal!TypeOK
    <3> QED
      BY <1>0, <1>n, <2>1, <3>1, <3>2, <3>3, <3>4 DEF Terminal!Exit, TerminalTypes
  <2>3. Terminal(cfg)!SelectionInList'
    BY <2>1 DEF Terminal!Exit, Terminal!SelectionInList
  <2>4. Terminal(cfg)!TerminalRestored'
    BY <2>1 DEF Terminal!Exit, TerminalInv, Terminal!TerminalRestored
  <2>5. Terminal(cfg)!LogsInOrder'
    <3>1. Terminal(cfg)!Least(0, cfg.LOGS_BUFFER_SIZE) = 0
      BY <1>0 DEF Terminal!Least
    <3>2. [i \in 1..0 |-> 0 + 1 - i] = <<>>
      OBVIOUS
    <3>3. logs' = <<>> /\ taken' = 0
      BY <2>1 DEF Terminal!Exit
    <3> QED
      BY <3>1, <3>2, <3>3 DEF Terminal!LogsInOrder
  <2> QED
    BY <2>2, <2>3, <2>4, <2>5 DEF TerminalInv
<1> QED
  BY <1>1, <1>2, <1>3, <1>4, <1>5, <1>6, <1>7 DEF Terminal!UiLoop

\* Every step of the terminal keeps it.
LEMMA TerminalSteps ==
    ASSUME NEW cfg, Terminal(cfg)!TerminalUiAssumption, TerminalInv(cfg),
           [Terminal(cfg)!Next]_(Terminal(cfg)!vars)
    PROVE  TerminalInv(cfg)'
<1>1. CASE UNCHANGED Terminal(cfg)!vars
  <2>1. TerminalTypes(cfg)'
    BY <1>1 DEF Terminal!vars, Terminal!screen, Terminal!listing, Terminal!stat, Terminal!log,
                TerminalInv, TerminalTypes, Terminal!TypeOK
  <2> QED
    BY <1>1, <2>1, TerminalSame
       DEF Terminal!vars, Terminal!screen, Terminal!listing, Terminal!stat, Terminal!log
<1>2. CASE Terminal(cfg)!Next
  BY <1>2, TerminalSenders, TerminalLoop
     DEF Terminal!Next, Terminal!Thread, Terminal!Threads
<1> QED
  BY <1>1, <1>2
----------------------------------------------------------------------------
(* Sums over finite sets: SumFunction is a fold, which tlapm unfolds to a   *)
(* function chosen by its recursive equation.  That there is one, and what  *)
(* it adds up to, is shown by induction over the number of elements.        *)

\* A subset property that every nonempty set has when all sets with one element less have it.
LEMMA SubsetInduction ==
    ASSUME NEW S, IsFiniteSet(S), NEW T, {} \in T,
           \A s \in SUBSET S : s # {} /\ (\A x \in s : s \ {x} \in T) => s \in T
    PROVE  \A s \in SUBSET S : s \in T
<1> DEFINE N == {n \in Nat : \A s \in SUBSET S : Cardinality(s) = n => s \in T}
<1>0. \A s \in SUBSET S : IsFiniteSet(s) /\ Cardinality(s) \in Nat
  BY FS_Subset, FS_CardinalityType
<1>1. 0 \in N
  BY <1>0, FS_EmptySet
<1>2. ASSUME NEW n \in N PROVE n + 1 \in N
  <2> SUFFICES ASSUME NEW s \in SUBSET S, Cardinality(s) = n + 1 PROVE s \in T
    OBVIOUS
  <2>1. s # {}
    BY FS_EmptySet
  <2>2. ASSUME NEW x \in s PROVE s \ {x} \in T
    <3>1. s \ {x} \in SUBSET S /\ Cardinality(s \ {x}) = n
      BY <1>0, FS_RemoveElement
    <3> QED
      BY <3>1
  <2> QED
    BY <2>1, <2>2
<1> HIDE DEF N
<1>3. N = Nat
  BY <1>1, <1>2, Induction DEF N
<1> QED
  BY <1>0, <1>3 DEF N

\* The recursive equation of a sum over the domain of f.
SumStep(f, g, s) ==
    IF s = {} THEN 0 ELSE f[CHOOSE x \in s : TRUE] + g[s \ {CHOOSE x \in s : TRUE}]
Adds(f, g) == g = [s \in SUBSET DOMAIN f |-> SumStep(f, g, s)]

\* There is a function that satisfies it.
LEMMA SumExists ==
    ASSUME NEW S, IsFiniteSet(S), NEW f \in [S -> Int]
    PROVE  \E g \in [SUBSET S -> Int] : Adds(f, g)
<1> DEFINE Upto(g, n) == \A s \in SUBSET S : Cardinality(s) <= n => g[s] = SumStep(f, g, s)
           N == {n \in Nat : \E g \in [SUBSET S -> Int] : Upto(g, n)}
<1>0. \A s \in SUBSET S : IsFiniteSet(s) /\ Cardinality(s) \in Nat
  BY FS_Subset, FS_CardinalityType
<1>1. 0 \in N
  <2> DEFINE g == [s \in SUBSET S |-> 0]
  <2>1. \A s \in SUBSET S : Cardinality(s) <= 0 => s = {}
    BY <1>0, FS_EmptySet
  <2>2. Upto(g, 0) /\ g \in [SUBSET S -> Int]
    BY <2>1 DEF SumStep
  <2> QED
    BY <2>2
<1>2. ASSUME NEW n \in N PROVE n + 1 \in N
  <2>1. PICK g \in [SUBSET S -> Int] : Upto(g, n)
    OBVIOUS
  <2> DEFINE c(s) == CHOOSE x \in s : TRUE
             h == [s \in SUBSET S |-> SumStep(f, g, s)]
  <2>2. ASSUME NEW s \in SUBSET S, s # {}
        PROVE  c(s) \in s /\ s \ {c(s)} \in SUBSET S
               /\ Cardinality(s \ {c(s)}) = Cardinality(s) - 1
    <3>1. c(s) \in s
      BY <2>2
    <3> HIDE DEF c
    <3> QED
      BY <3>1, <1>0, FS_RemoveElement
  <2>3. h \in [SUBSET S -> Int]
    <3> SUFFICES ASSUME NEW s \in SUBSET S PROVE SumStep(f, g, s) \in Int
      OBVIOUS
    <3> QED
      BY <2>2 DEF SumStep
  <2>4. ASSUME NEW s \in SUBSET S, Cardinality(s) <= n + 1 PROVE h[s] = SumStep(f, h, s)
    <3>1. CASE s = {}
      BY <3>1 DEF SumStep
    <3>2. CASE s # {}
      <4> DEFINE t == s \ {c(s)}
      <4>1. t \in SUBSET S /\ Cardinality(t) <= n
        BY <1>0, <2>2, <2>4, <3>2
      <4>2. h[t] = g[t]
        BY <2>1, <4>1
      <4>3. h[s] = f[c(s)] + g[t] /\ SumStep(f, h, s) = f[c(s)] + h[t]
        BY <3>2 DEF SumStep
      <4> QED
        BY <4>2, <4>3
    <3> QED
      BY <3>1, <3>2
  <2> HIDE DEF h
  <2> QED
    BY <2>3, <2>4
<1> HIDE DEF N
<1>3. N = Nat
  BY <1>1, <1>2, Induction DEF N
<1>4. PICK g \in [SUBSET S -> Int] : Upto(g, Cardinality(S))
  BY <1>0, <1>3 DEF N
<1>5. \A s \in SUBSET S : Cardinality(s) <= Cardinality(S)
  BY FS_Subset
<1>6. \A s \in SUBSET S : g[s] = SumStep(f, g, s)
  BY <1>4, <1>5
<1>7. g = [s \in SUBSET S |-> SumStep(f, g, s)]
  BY <1>6
<1> QED
  BY <1>7 DEF Adds

\* It takes the elements in any order.
LEMMA SumAnyOrder ==
    ASSUME NEW S, IsFiniteSet(S), NEW f \in [S -> Int], NEW g, Adds(f, g)
    PROVE  /\ \A s \in SUBSET S : g[s] \in Int
           /\ \A s \in SUBSET S : \A x \in s : g[s] = f[x] + g[s \ {x}]
<1> DEFINE I == {s \in SUBSET S : g[s] \in Int}
           T == {s \in SUBSET S : \A x \in s : g[s] = f[x] + g[s \ {x}]}
           c(s) == CHOOSE x \in s : TRUE
<1>0. \A s \in SUBSET S : g[s] = SumStep(f, g, s)
  BY DEF Adds
<1>1. ASSUME NEW s \in SUBSET S, s # {}
      PROVE  c(s) \in s /\ g[s] = f[c(s)] + g[s \ {c(s)}]
  BY <1>0, <1>1 DEF SumStep
<1>2. g[{}] = 0
  <2>1. {} \in SUBSET S
    OBVIOUS
  <2> QED
    BY <1>0, <2>1 DEF SumStep
<1> HIDE DEF c
<1>3. \A s \in SUBSET S : s \in I
  <2>1. {} \in I
    BY <1>2
  <2>2. ASSUME NEW s \in SUBSET S, s # {}, \A x \in s : s \ {x} \in I PROVE s \in I
    <3>1. g[s \ {c(s)}] \in Int /\ f[c(s)] \in Int
      BY <1>1, <2>2
    <3>2. g[s] = f[c(s)] + g[s \ {c(s)}]
      BY <1>1, <2>2
    <3>3. g[s] \in Int
      BY <3>1, <3>2
    <3> QED
      BY <3>3
  <2> HIDE DEF I
  <2> QED
    BY <2>1, <2>2, SubsetInduction
<1>4. {} \in T
  OBVIOUS
<1>5. ASSUME NEW s \in SUBSET S, s # {}, \A x \in s : s \ {x} \in T PROVE s \in T
  <2>1. ASSUME NEW x \in s, x # c(s) PROVE g[s] = f[x] + g[s \ {x}]
    <3> DEFINE t == (s \ {c(s)}) \ {x}
    <3>0. c(s) \in s
      BY <1>1, <1>5
    <3>1. t = (s \ {x}) \ {c(s)} /\ x \in s \ {c(s)} /\ c(s) \in s \ {x} /\ t \in SUBSET S
      BY <2>1, <3>0
    <3>2. s \ {c(s)} \in T /\ s \ {x} \in T
      BY <1>5, <2>1, <3>0
    <3>3. g[s \ {c(s)}] = f[x] + g[t] /\ g[s \ {x}] = f[c(s)] + g[t]
      BY <3>1, <3>2
    <3>4. f[x] \in Int /\ f[c(s)] \in Int
      BY <3>0
    <3>5. g[t] \in Int
      BY <1>3, <3>1
    <3>6. g[s] = f[c(s)] + g[s \ {c(s)}]
      BY <1>1, <1>5
    <3> HIDE DEF t
    <3> QED
      BY <3>3, <3>4, <3>5, <3>6
  <2> QED
    BY <1>1, <1>5, <2>1
<1> HIDE DEF T
<1>6. \A s \in SUBSET S : s \in T
  BY <1>4, <1>5, SubsetInduction
<1> QED
  BY <1>3, <1>6 DEF T

\* Where two functions agree, so do their sums.
LEMMA SumAgrees ==
    ASSUME NEW S, IsFiniteSet(S), NEW f1 \in [S -> Int], NEW f2 \in [S -> Int],
           NEW g1, Adds(f1, g1), NEW g2, Adds(f2, g2),
           NEW U \in SUBSET S, \A y \in U : f1[y] = f2[y]
    PROVE  g1[U] = g2[U]
<1> DEFINE T == {s \in SUBSET U : g1[s] = g2[s]}
<1>0. IsFiniteSet(U)
  BY FS_Subset
<1>1. {} \in T
  <2>1. {} \in SUBSET S
    OBVIOUS
  <2>2. g1[{}] = SumStep(f1, g1, {}) /\ g2[{}] = SumStep(f2, g2, {})
    BY <2>1 DEF Adds
  <2> QED
    BY <2>2 DEF SumStep
<1>2. ASSUME NEW s \in SUBSET U, s # {}, \A x \in s : s \ {x} \in T PROVE s \in T
  <2>1. PICK x \in s : TRUE
    BY <1>2
  <2>2. s \in SUBSET S /\ g1[s \ {x}] = g2[s \ {x}] /\ f1[x] = f2[x]
    BY <1>2, <2>1
  <2>3. g1[s] = f1[x] + g1[s \ {x}]
    BY <2>2, SumAnyOrder
  <2>4. g2[s] = f2[x] + g2[s \ {x}]
    BY <2>2, SumAnyOrder
  <2> QED
    BY <2>2, <2>3, <2>4
<1> HIDE DEF T
<1>3. \A s \in SUBSET U : s \in T
  BY <1>0, <1>1, <1>2, SubsetInduction
<1> QED
  BY <1>3 DEF T

\* The sum of the statistics is such a sum.
LEMMA SumIsOne ==
    ASSUME NEW S, IsFiniteSet(S), NEW f \in [S -> Int]
    PROVE  \E g : Adds(f, g) /\ Stats!SumFunction(f) = g[S]
<1> DEFINE g == CHOOSE h : Adds(f, h)
<1>1. \E h : Adds(f, h)
  BY SumExists
<1>2. Adds(f, g)
  BY <1>1
<1>3. Stats!SumFunction(f) = g[DOMAIN f]
  BY DEF Stats!SumFunction, Stats!SumFunctionOnSet, Stats!FoldFunctionOnSet,
         Stats!MapThenFoldSet, Adds, SumStep
<1> QED
  BY <1>2, <1>3

\* A sum is a number, and changes by as much as one of its terms.
LEMMA SumChanges ==
    ASSUME NEW S, IsFiniteSet(S), NEW f1 \in [S -> Int], NEW f2 \in [S -> Int],
           NEW x \in S, \A y \in S \ {x} : f1[y] = f2[y]
    PROVE  /\ Stats!SumFunction(f1) \in Int /\ Stats!SumFunction(f2) \in Int
           /\ Stats!SumFunction(f2) - Stats!SumFunction(f1) = f2[x] - f1[x]
<1>1. PICK g1 : Adds(f1, g1) /\ Stats!SumFunction(f1) = g1[S]
  BY SumIsOne
<1>2. PICK g2 : Adds(f2, g2) /\ Stats!SumFunction(f2) = g2[S]
  BY SumIsOne
<1>3. S \in SUBSET S /\ S \ {x} \in SUBSET S
  OBVIOUS
<1>4. g1[S] \in Int /\ g1[S] = f1[x] + g1[S \ {x}] /\ g1[S \ {x}] \in Int
  <2>1. /\ \A s \in SUBSET S : g1[s] \in Int
        /\ \A s \in SUBSET S : \A y \in s : g1[s] = f1[y] + g1[s \ {y}]
    BY <1>1, SumAnyOrder
  <2> QED
    BY <1>3, <2>1
<1>5. g2[S] \in Int /\ g2[S] = f2[x] + g2[S \ {x}] /\ g2[S \ {x}] \in Int
  <2>1. /\ \A s \in SUBSET S : g2[s] \in Int
        /\ \A s \in SUBSET S : \A y \in s : g2[s] = f2[y] + g2[s \ {y}]
    BY <1>2, SumAnyOrder
  <2> QED
    BY <1>3, <2>1
<1>6. g1[S \ {x}] = g2[S \ {x}]
  BY <1>1, <1>2, <1>3, SumAgrees
<1>7. f1[x] \in Int /\ f2[x] \in Int
  OBVIOUS
<1> QED
  BY <1>1, <1>2, <1>4, <1>5, <1>6, <1>7
----------------------------------------------------------------------------
(* The statistics (RuntimeStats).                                           *)

Older(a, b) == a.run < b.run \/ (a.run = b.run /\ a.count <= b.count)
SameRun(a, b) == a.worker = b.worker /\ a.run = b.run

\* The messages of a worker are in order and newer than what the total has of it, the last
\* one of a run has its number of iterations, and a run of which none is under way is known.
StatsOrder ==
    /\ \A i, j \in DOMAIN channel :
         i < j /\ channel[i].worker = channel[j].worker => Older(channel[i], channel[j])
    /\ \A i \in DOMAIN channel :
         /\ channel[i].worker \in DOMAIN stats => Older(stats[channel[i].worker], channel[i])
         /\ channel[i].run <= run[channel[i].worker]
         /\ channel[i].count <= iters[channel[i].worker][channel[i].run]
         /\ (\A j \in DOMAIN channel : i < j => ~SameRun(channel[i], channel[j])) =>
              channel[i].count = iters[channel[i].worker][channel[i].run]
    /\ \A w \in DOMAIN stats :
         stats[w].run <= run[w] /\ stats[w].count <= iters[w][stats[w].run]
    /\ \A w \in StatWorkers :
         /\ \A r \in Stats!Runs : run[w] < r => iters[w][r] = 0
         /\ Stats!Of(w, run[w]) = {} => iters[w][run[w]] = Stats!Known(w, run[w])

StatsInv == Stats!TypeOK /\ StatsOrder /\ Stats!CountExact

\* The terms of the two sums.
Made == [wr \in StatWorkers \X Stats!Runs |-> iters[wr[1]][wr[2]]]
Owed == [wr \in StatWorkers \X Stats!Runs |->
            IF Stats!Of(wr[1], wr[2]) = {} THEN 0
            ELSE iters[wr[1]][wr[2]] - Stats!Known(wr[1], wr[2])]

TermsTyped ==
    /\ IsFiniteSet(StatWorkers \X Stats!Runs)
    /\ Made \in [StatWorkers \X Stats!Runs -> Int]
    /\ Owed \in [StatWorkers \X Stats!Runs -> Int]
    /\ Stats!CountExact <=> count + Stats!SumFunction(Owed) = Stats!SumFunction(Made)

\* They are numbers, finitely many.
LEMMA StatsTerms == Stats!StatsAssumption /\ Stats!TypeOK => TermsTyped
<1> SUFFICES ASSUME Stats!StatsAssumption, Stats!TypeOK PROVE TermsTyped
  OBVIOUS
<1>1. IsFiniteSet(StatWorkers) /\ StatRuns \in Nat \ {0}
  BY Zenon DEF Stats!StatsAssumption, Stats!IsFiniteSet, IsFiniteSet
<1>2. IsFiniteSet(Stats!Runs)
  BY <1>1, FS_Interval DEF Stats!Runs
<1>3. IsFiniteSet(StatWorkers \X Stats!Runs)
  BY <1>1, <1>2, FS_Product
<1>4. ASSUME NEW w \in StatWorkers, NEW r \in Stats!Runs
      PROVE  iters[w][r] \in Int /\ Stats!Known(w, r) \in Int
  BY DEF Stats!StatsAssumption, Stats!TypeOK, Stats!Known, Stats!Stats
<1>5. /\ Made \in [StatWorkers \X Stats!Runs -> Int]
      /\ Owed \in [StatWorkers \X Stats!Runs -> Int]
  BY <1>4 DEF Made, Owed
<1>6. Stats!CountExact <=> count + Stats!SumFunction(Owed) = Stats!SumFunction(Made)
  BY DEF Stats!CountExact, Stats!Outstanding, Stats!Printed, Owed, Made
<1> QED
  BY <1>3, <1>5, <1>6 DEF TermsTyped

\* The invariant of the statistics holds initially.
LEMMA StatsInit ==
    ASSUME Stats!StatsAssumption, Stats!Init
    PROVE  StatsInv
<1> DEFINE S == StatWorkers \X Stats!Runs
<1>0. StatRuns \in Nat \ {0} /\ StatIters \in Nat
  BY DEF Stats!StatsAssumption
<1>1. Stats!TypeOK
  BY <1>0 DEF Stats!Init, Stats!TypeOK, Stats!Runs
<1>2. StatsOrder
  BY <1>0 DEF Stats!Init, StatsOrder, Stats!Runs, Stats!Known
<1>3. \A w, r : Stats!Of(w, r) = {}
  BY DEF Stats!Init, Stats!Of
<1>4. Owed = Made
  <2>1. \A w \in StatWorkers : \A r \in Stats!Runs : iters[w][r] = 0
    BY DEF Stats!Init
  <2> QED
    BY <1>3, <2>1 DEF Owed, Made
<1>5. count + Stats!SumFunction(Owed) = Stats!SumFunction(Made)
  <2>1. CASE S = {}
    <3>1. PICK g : Adds(Made, g) /\ Stats!SumFunction(Made) = g[S]
      BY <1>1, StatsTerms, SumIsOne DEF TermsTyped
    <3>2. S \in SUBSET S
      OBVIOUS
    <3>3. g[S] \in Int
      BY <1>1, <3>1, <3>2, StatsTerms, SumAnyOrder DEF TermsTyped
    <3> QED
      BY <1>4, <3>1, <3>3 DEF Stats!Init
  <2>2. CASE S # {}
    <3>1. PICK x \in S : TRUE
      BY <2>2
    <3>2. Stats!SumFunction(Made) \in Int
      BY <1>1, <3>1, StatsTerms, SumChanges DEF TermsTyped
    <3> QED
      BY <1>4, <3>2 DEF Stats!Init
  <2> QED
    BY <2>1, <2>2
<1> QED
  BY <1>1, <1>2, <1>5, StatsTerms DEF StatsInv, TermsTyped

\* A progress line, of the current run of a worker.
LEMMA StatsProgress ==
    ASSUME Stats!StatsAssumption, StatsInv, NEW w \in StatWorkers, Stats!Progress(w)
    PROVE  StatsInv'
<1> DEFINE S == StatWorkers \X Stats!Runs
           K == Len(channel)
<1>0. StatRuns \in Nat \ {0} /\ StatIters \in Nat /\ Stats!TypeOK /\ StatsOrder
  BY DEF Stats!StatsAssumption, StatsInv
<1>r. PICK r \in Stats!Runs : r = run[w]
  BY <1>0 DEF Stats!TypeOK
<1>1. PICK n \in Stats!ParsedCounts(w) :
        /\ iters' = [iters EXCEPT ![w][r] = n]
        /\ channel' = Append(channel, [worker |-> w, run |-> r, count |-> n])
  BY <1>r DEF Stats!Progress
<1>2. UNCHANGED <<run, stats, count, reported>>
  BY DEF Stats!Progress
<1>3. n \in 0..StatIters /\ n \in Nat /\ iters[w][r] <= n /\ iters[w][r] \in Nat
      /\ iters \in [StatWorkers -> [Stats!Runs -> 0..StatIters]]
  BY <1>0, <1>r DEF Stats!TypeOK, Stats!ParsedCounts
<1> DEFINE m == [worker |-> w, run |-> r, count |-> n]
<1>4. m \in Stats!Stats /\ m.worker = w /\ m.run = r /\ m.count = n
  BY <1>3 DEF Stats!Stats
<1>5. /\ channel \in Seq(Stats!Stats) /\ K \in Nat
      /\ DOMAIN channel = 1..K /\ DOMAIN channel' = 1..K + 1
      /\ channel'[K + 1] = m /\ \A i \in 1..K : channel'[i] = channel[i]
      /\ channel' \in Seq(Stats!Stats)
  BY <1>0, <1>1, <1>4 DEF Stats!TypeOK
<1>6. /\ iters' \in [StatWorkers -> [Stats!Runs -> 0..StatIters]]
      /\ iters'[w][r] = n
      /\ \A v \in StatWorkers : \A q \in Stats!Runs : v # w \/ q # r => iters'[v][q] = iters[v][q]
  BY <1>1, <1>3
<1>7. Stats!TypeOK'
  BY <1>0, <1>2, <1>5, <1>6 DEF Stats!TypeOK
<1>8. ASSUME NEW i \in 1..K
      PROVE  /\ channel[i].worker \in StatWorkers /\ channel[i].run \in Stats!Runs
             /\ channel[i].count \in Nat
  <2>1. channel[i] \in Stats!Stats
    BY <1>5
  <2> QED
    BY <1>0, <2>1 DEF Stats!Stats
<1>9. \A v \in DOMAIN stats : /\ v \in StatWorkers /\ stats[v].run \in Stats!Runs
                              /\ stats[v].count \in Nat
  BY <1>0 DEF Stats!TypeOK, Stats!Stats
<1>10. \A q \in Stats!Runs : q \in Int
  BY <1>0 DEF Stats!Runs
<1> HIDE DEF m, K
<1>11. StatsOrder'
  <2>1. ASSUME NEW i \in DOMAIN channel', NEW j \in DOMAIN channel', i < j,
               channel'[i].worker = channel'[j].worker
        PROVE  Older(channel'[i], channel'[j])
    <3>1. CASE j <= K
      BY <1>0, <1>5, <2>1, <3>1 DEF StatsOrder
    <3>2. CASE j = K + 1
      <4>1. i \in 1..K /\ channel[i].worker = w
        BY <1>4, <1>5, <2>1, <3>2
      <4>2. channel[i].run <= r /\ channel[i].count <= iters[w][channel[i].run]
        BY <1>r, <1>0, <1>5, <4>1 DEF StatsOrder
      <4> QED
        BY <1>3, <1>4, <1>5, <1>8, <1>10, <3>2, <4>1, <4>2 DEF Older
    <3> QED
      BY <1>5, <2>1, <3>1, <3>2
  <2>2. ASSUME NEW i \in DOMAIN channel'
        PROVE  /\ channel'[i].worker \in DOMAIN stats' =>
                    Older(stats'[channel'[i].worker], channel'[i])
               /\ channel'[i].run <= run'[channel'[i].worker]
               /\ channel'[i].count <= iters'[channel'[i].worker][channel'[i].run]
               /\ (\A j \in DOMAIN channel' : i < j => ~SameRun(channel'[i], channel'[j])) =>
                    channel'[i].count = iters'[channel'[i].worker][channel'[i].run]
    <3>1. CASE i \in 1..K
      <4>1. channel'[i] = channel[i]
        BY <1>5, <3>1
      <4>2. channel'[i].worker \in DOMAIN stats' => Older(stats'[channel'[i].worker], channel'[i])
        BY <1>0, <1>2, <1>5, <3>1, <4>1 DEF StatsOrder
      <4>3. channel'[i].run <= run'[channel'[i].worker]
        BY <1>0, <1>2, <1>5, <3>1, <4>1 DEF StatsOrder
      <4>4. channel[i].count <= iters[channel[i].worker][channel[i].run]
        BY <1>0, <1>5, <3>1 DEF StatsOrder
      <4>5. CASE channel[i].worker = w /\ channel[i].run = r
        <5>1. SameRun(channel'[i], channel'[K + 1]) /\ i < K + 1 /\ K + 1 \in DOMAIN channel'
          BY <1>4, <1>5, <3>1, <4>1, <4>5 DEF SameRun
        <5>2. channel[i].count <= n
          BY <1>3, <1>8, <3>1, <4>4, <4>5
        <5> QED
          BY <1>6, <4>1, <4>2, <4>3, <4>5, <5>1, <5>2
      <4>6. CASE ~(channel[i].worker = w /\ channel[i].run = r)
        <5>1. iters'[channel[i].worker][channel[i].run] = iters[channel[i].worker][channel[i].run]
          BY <1>6, <1>8, <3>1, <4>6
        <5>2. (\A j \in DOMAIN channel' : i < j => ~SameRun(channel'[i], channel'[j])) =>
                (\A j \in DOMAIN channel : i < j => ~SameRun(channel[i], channel[j]))
          BY <1>5, <4>1
        <5>3. (\A j \in DOMAIN channel : i < j => ~SameRun(channel[i], channel[j])) =>
                channel[i].count = iters[channel[i].worker][channel[i].run]
          BY <1>0, <1>5, <3>1 DEF StatsOrder
        <5> QED
          BY <4>1, <4>2, <4>3, <4>4, <5>1, <5>2, <5>3
      <4> QED
        BY <4>5, <4>6
    <3>2. CASE i = K + 1
      <4>1. channel'[i] = m
        BY <1>5, <3>2
      <4>2. ASSUME w \in DOMAIN stats PROVE Older(stats[w], m)
        <5>1. stats[w].run <= r /\ stats[w].count <= iters[w][stats[w].run]
          BY <1>r, <1>0, <4>2 DEF StatsOrder
        <5>2. stats[w].run \in Int /\ r \in Int /\ stats[w].count \in Nat
          BY <1>9, <1>10, <4>2
        <5>3. CASE stats[w].run = r
          <6>1. stats[w].count <= n
            BY <1>3, <5>1, <5>2, <5>3
          <6> QED
            BY <1>4, <5>3, <6>1 DEF Older
        <5>4. CASE stats[w].run # r
          BY <1>4, <5>1, <5>2, <5>4 DEF Older
        <5> QED
          BY <5>3, <5>4
      <4>3. r <= r /\ n <= n
        BY <1>3, <1>10
      <4> QED
        BY <1>r, <1>2, <1>4, <1>6, <4>1, <4>2, <4>3
    <3> QED
      BY <1>5, <3>1, <3>2
  <2>3. ASSUME NEW v \in DOMAIN stats'
        PROVE  stats'[v].run <= run'[v] /\ stats'[v].count <= iters'[v][stats'[v].run]
    <3>1. stats[v].run <= run[v] /\ stats[v].count <= iters[v][stats[v].run]
      BY <1>0, <1>2, <2>3 DEF StatsOrder
    <3>2. CASE v = w /\ stats[v].run = r
      BY <1>2, <1>3, <1>6, <1>9, <3>1, <3>2
    <3>3. CASE ~(v = w /\ stats[v].run = r)
      BY <1>2, <1>6, <1>9, <3>1, <3>3
    <3> QED
      BY <3>2, <3>3
  <2>4. ASSUME NEW v \in StatWorkers, NEW q \in Stats!Runs, run'[v] < q PROVE iters'[v][q] = 0
    <3>1. v # w \/ q # r
      BY <1>r, <1>2, <1>10, <2>4
    <3> QED
      BY <1>0, <1>2, <1>6, <2>4, <3>1 DEF StatsOrder
  <2>5. ASSUME NEW v \in StatWorkers, (Stats!Of(v, run[v]) = {})'
        PROVE  iters'[v][run'[v]] = Stats!Known(v, run[v])'
    <3>1. \A i \in 1..K + 1 : ~(channel'[i].worker = v /\ channel'[i].run = run[v])
      BY <1>2, <1>5, <2>5 DEF Stats!Of
    <3>2. v # w
      BY <1>r, <1>4, <1>5, <3>1
    <3>3. Stats!Of(v, run[v]) = {}
      BY <1>5, <3>1 DEF Stats!Of
    <3>4. Stats!Known(v, run[v])' = Stats!Known(v, run[v])
      BY <1>2 DEF Stats!Known
    <3>5. run[v] \in Stats!Runs
      BY <1>0 DEF Stats!TypeOK
    <3> QED
      BY <1>0, <1>2, <1>6, <3>2, <3>3, <3>4, <3>5 DEF StatsOrder
  <2> QED
    BY <2>1, <2>2, <2>3, <2>4, <2>5 DEF StatsOrder, Stats!Runs
<1>12. Stats!CountExact'
  <2> DEFINE x == <<w, r>>
  <2>1. x \in S
    OBVIOUS
  <2>2. /\ IsFiniteSet(S) /\ Made \in [S -> Int] /\ Owed \in [S -> Int]
        /\ count + Stats!SumFunction(Owed) = Stats!SumFunction(Made)
    BY StatsTerms DEF StatsInv, TermsTyped
  <2>t. (Stats!StatsAssumption /\ Stats!TypeOK => TermsTyped)'
    BY StatsTerms, PTL
  <2>3. /\ Made' \in [S -> Int] /\ Owed' \in [S -> Int]
        /\ Stats!CountExact' <=> count' + Stats!SumFunction(Owed') = Stats!SumFunction(Made')
    BY <1>7, <2>t DEF TermsTyped, Stats!StatsAssumption, Stats!Runs
  <2>4. Made'[x] - Made[x] = n - iters[w][r]
    BY <1>6, <2>1 DEF Made
  <2>5. ASSUME NEW y \in S \ {x} PROVE Made[y] = Made'[y] /\ Owed[y] = Owed'[y]
    <3>1. PICK v \in StatWorkers, q \in Stats!Runs : y = <<v, q>>
      BY <2>5
    <3>2. v # w \/ q # r
      BY <2>5, <3>1
    <3>3. iters'[v][q] = iters[v][q]
      BY <1>6, <3>2
    <3>4. Stats!Of(v, q)' = Stats!Of(v, q)
      BY <1>4, <1>5, <3>2 DEF Stats!Of
    <3>5. Stats!Known(v, q)' = Stats!Known(v, q)
      BY <1>2 DEF Stats!Known
    <3> QED
      BY <3>1, <3>3, <3>4, <3>5 DEF Made, Owed
  <2>6. Owed'[x] - Owed[x] = n - iters[w][r]
    <3>1. (Stats!Of(w, r) # {})'
      BY <1>4, <1>5 DEF Stats!Of
    <3>2. Stats!Known(w, r)' = Stats!Known(w, r) /\ Stats!Known(w, r) \in Int
      BY <1>2, <1>9 DEF Stats!Known
    <3>3. Stats!Of(w, r) = {} => iters[w][r] = Stats!Known(w, r)
      BY <1>r, <1>0 DEF StatsOrder
    <3>4. Owed'[x] = n - Stats!Known(w, r)
      BY <1>6, <2>1, <3>1, <3>2 DEF Owed
    <3>5. Owed[x] = IF Stats!Of(w, r) = {} THEN 0 ELSE iters[w][r] - Stats!Known(w, r)
      BY <2>1 DEF Owed
    <3>6. Owed[x] = iters[w][r] - Stats!Known(w, r)
      BY <1>3, <3>2, <3>3, <3>5
    <3> QED
      BY <1>3, <3>2, <3>4, <3>6
  <2> HIDE DEF x, S
  <2>7. /\ Stats!SumFunction(Made) \in Int /\ Stats!SumFunction(Made') \in Int
        /\ Stats!SumFunction(Made') - Stats!SumFunction(Made) = Made'[x] - Made[x]
    BY <2>1, <2>2, <2>3, <2>5, SumChanges
  <2>8. /\ Stats!SumFunction(Owed) \in Int /\ Stats!SumFunction(Owed') \in Int
        /\ Stats!SumFunction(Owed') - Stats!SumFunction(Owed) = Owed'[x] - Owed[x]
    BY <2>1, <2>2, <2>3, <2>5, SumChanges
  <2>9. count' = count /\ count \in Int
    BY <1>0, <1>2 DEF Stats!TypeOK
  <2> QED
    BY <2>2, <2>3, <2>4, <2>6, <2>7, <2>8, <2>9
<1> QED
  BY <1>7, <1>11, <1>12 DEF StatsInv

\* A message reaches the total.
LEMMA StatsReceive ==
    ASSUME Stats!StatsAssumption, StatsInv, Stats!Receive
    PROVE  StatsInv'
<1> DEFINE S == StatWorkers \X Stats!Runs
           K == Len(channel)
<1>0. StatRuns \in Nat \ {0} /\ StatIters \in Nat /\ Stats!TypeOK /\ StatsOrder
  BY DEF Stats!StatsAssumption, StatsInv
<1>1. /\ channel \in Seq(Stats!Stats) /\ K \in Nat \ {0} /\ channel' = Tail(channel)
      /\ DOMAIN channel = 1..K /\ DOMAIN channel' = 1..K - 1
      /\ \A i \in 1..K - 1 : channel'[i] = channel[i + 1]
      /\ Head(channel) = channel[1] /\ channel' \in Seq(Stats!Stats)
  BY <1>0 DEF Stats!TypeOK, Stats!Receive
<1>d. PICK d \in Stats!Stats : d = channel[1]
  BY <1>1
<1>w. PICK w \in StatWorkers : w = d.worker
  BY DEF Stats!Stats
<1>r. PICK r \in Stats!Runs : r = d.run
  BY DEF Stats!Stats
<1>n. PICK n \in Nat : n = d.count
  BY <1>0 DEF Stats!Stats
<1>2. /\ count' = count + Stats!Increment(d) /\ reported' = count' /\ run' = run /\ iters' = iters
      /\ stats' = [v \in DOMAIN stats \union {w} |-> IF v = w THEN d ELSE stats[v]]
  BY <1>1, <1>d, <1>w DEF Stats!Receive, Stats!Update
<1>3. ASSUME NEW i \in 1..K
      PROVE  /\ channel[i].worker \in StatWorkers /\ channel[i].run \in Stats!Runs
             /\ channel[i].count \in Nat
  <2>1. channel[i] \in Stats!Stats
    BY <1>1
  <2> QED
    BY <1>0, <2>1 DEF Stats!Stats
<1>4. ASSUME NEW v \in DOMAIN stats
      PROVE  v \in StatWorkers /\ stats[v].run \in Stats!Runs /\ stats[v].count \in Nat
  <2>1. v \in StatWorkers /\ stats[v] \in Stats!Stats
    BY <1>0 DEF Stats!TypeOK
  <2> QED
    BY <1>0, <2>1 DEF Stats!Stats
<1>5. \A q \in Stats!Runs : q \in Int
  BY <1>0 DEF Stats!Runs
<1>6. \A v \in StatWorkers : \A q \in Stats!Runs : iters[v][q] \in Nat
  BY <1>0 DEF Stats!TypeOK
<1>7. /\ w \in DOMAIN stats => Older(stats[w], d)
      /\ d.run <= run[w] /\ n <= iters[w][r]
  BY <1>0, <1>1, <1>d, <1>w, <1>r, <1>n DEF StatsOrder
<1>8. /\ DOMAIN stats' = DOMAIN stats \union {w} /\ stats'[w] = d
      /\ \A v \in DOMAIN stats \ {w} : stats'[v] = stats[v]
  BY <1>2
<1>9. /\ Stats!Known(w, r) \in Nat /\ Stats!Known(w, r) <= n
      /\ Stats!Increment(d) = n - Stats!Known(w, r)
  <2>1. CASE w \in DOMAIN stats /\ stats[w].run = r
    <3>1. Stats!Known(w, r) = stats[w].count /\ stats[w].count \in Nat
      BY <1>4, <2>1 DEF Stats!Known
    <3>2. stats[w].count <= n
      BY <1>5, <1>7, <1>r, <1>n, <2>1 DEF Older
    <3>3. Stats!Increment(d) = Stats!Minus(n, stats[w].count)
      BY <1>w, <1>r, <1>n, <2>1 DEF Stats!Increment
    <3> QED
      BY <3>1, <3>2, <3>3 DEF Stats!Minus
  <2>2. CASE ~(w \in DOMAIN stats /\ stats[w].run = r)
    BY <1>w, <1>r, <1>n, <2>2 DEF Stats!Known, Stats!Increment
  <2> QED
    BY <2>1, <2>2
<1>10. Stats!TypeOK'
  <2>1. \A v \in DOMAIN stats' : stats'[v] \in Stats!Stats /\ stats'[v].worker = v
    BY <1>0, <1>8, <1>w DEF Stats!TypeOK
  <2>2. count' \in Nat /\ reported' \in 0..count'
    BY <1>0, <1>2, <1>9 DEF Stats!TypeOK
  <2> QED
    BY <1>0, <1>1, <1>2, <1>8, <2>1, <2>2 DEF Stats!TypeOK, Stats!Runs, Stats!Stats
<1> HIDE DEF K
<1>11. ASSUME NEW i \in 1..K - 1
       PROVE  i + 1 \in 1..K /\ 1 < i + 1 /\ channel'[i] = channel[i + 1]
  BY <1>1
\* What comes later is newer.
<1>12. ASSUME NEW i \in 1..K - 1, channel'[i].worker = w PROVE Older(d, channel'[i])
  <2>1. 1 \in DOMAIN channel /\ i + 1 \in DOMAIN channel /\ 1 < i + 1
    BY <1>1, <1>11
  <2> QED
    BY <1>0, <1>11, <1>12, <1>d, <1>w, <2>1 DEF StatsOrder
<1>13. StatsOrder'
  <2>1. ASSUME NEW i \in DOMAIN channel', NEW j \in DOMAIN channel', i < j,
               channel'[i].worker = channel'[j].worker
        PROVE  Older(channel'[i], channel'[j])
    <3>1. i + 1 \in DOMAIN channel /\ j + 1 \in DOMAIN channel /\ i + 1 < j + 1
      BY <1>1, <1>11, <2>1
    <3> QED
      BY <1>0, <1>1, <2>1, <3>1 DEF StatsOrder
  <2>2. ASSUME NEW i \in DOMAIN channel'
        PROVE  /\ channel'[i].worker \in DOMAIN stats' =>
                    Older(stats'[channel'[i].worker], channel'[i])
               /\ channel'[i].run <= run'[channel'[i].worker]
               /\ channel'[i].count <= iters'[channel'[i].worker][channel'[i].run]
               /\ (\A j \in DOMAIN channel' : i < j => ~SameRun(channel'[i], channel'[j])) =>
                    channel'[i].count = iters'[channel'[i].worker][channel'[i].run]
    <3>0. i \in 1..K - 1
      BY <1>1
    <3>1. i + 1 \in DOMAIN channel /\ channel'[i] = channel[i + 1]
      BY <1>1, <1>11, <3>0
    <3>2. channel'[i].worker \in DOMAIN stats' => Older(stats'[channel'[i].worker], channel'[i])
      <4>1. CASE channel'[i].worker = w
        BY <1>8, <1>12, <3>0, <4>1
      <4>2. CASE channel'[i].worker # w
        BY <1>0, <1>8, <3>1, <4>2 DEF StatsOrder
      <4> QED
        BY <4>1, <4>2
    <3>3. (\A j \in DOMAIN channel' : i < j => ~SameRun(channel'[i], channel'[j])) =>
            (\A j \in DOMAIN channel : i + 1 < j => ~SameRun(channel[i + 1], channel[j]))
      <4> SUFFICES ASSUME \A j \in DOMAIN channel' : i < j => ~SameRun(channel'[i], channel'[j]),
                          NEW j \in DOMAIN channel, i + 1 < j
                   PROVE  ~SameRun(channel[i + 1], channel[j])
        OBVIOUS
      <4>1. j - 1 \in 1..K - 1 /\ i < j - 1 /\ (j - 1) + 1 = j
        BY <1>1, <3>0
      <4>2. channel'[j - 1] = channel[j]
        BY <1>11, <4>1
      <4> QED
        BY <1>1, <3>1, <4>1, <4>2
    <3> QED
      BY <1>0, <1>2, <3>1, <3>2, <3>3 DEF StatsOrder
  <2>3. ASSUME NEW v \in DOMAIN stats'
        PROVE  stats'[v].run <= run'[v] /\ stats'[v].count <= iters'[v][stats'[v].run]
    <3>1. CASE v = w
      BY <1>2, <1>7, <1>8, <1>r, <1>n, <3>1
    <3>2. CASE v # w
      BY <1>0, <1>2, <1>8, <2>3, <3>2 DEF StatsOrder
    <3> QED
      BY <3>1, <3>2
  <2>4. ASSUME NEW v \in StatWorkers, NEW q \in Stats!Runs, run'[v] < q PROVE iters'[v][q] = 0
    BY <1>0, <1>2, <2>4 DEF StatsOrder
  <2>5. ASSUME NEW v \in StatWorkers, (Stats!Of(v, run[v]) = {})'
        PROVE  iters'[v][run'[v]] = Stats!Known(v, run[v])'
    <3>q. PICK q \in Stats!Runs : q = run[v]
      BY <1>0 DEF Stats!TypeOK
    <3>1. \A i \in 1..K - 1 : ~(channel'[i].worker = v /\ channel'[i].run = q)
      BY <1>1, <1>2, <2>5, <3>q DEF Stats!Of
    <3>2. \A i \in 2..K : ~(channel[i].worker = v /\ channel[i].run = q)
      <4> SUFFICES ASSUME NEW i \in 2..K PROVE ~(channel[i].worker = v /\ channel[i].run = q)
        OBVIOUS
      <4>1. i - 1 \in 1..K - 1 /\ (i - 1) + 1 = i
        BY <1>1
      <4> QED
        BY <1>11, <3>1, <4>1
    <3>3. CASE v = w /\ q = r
      <4>1. \A j \in DOMAIN channel : 1 < j => ~SameRun(channel[1], channel[j])
        BY <1>1, <1>d, <1>w, <1>r, <3>2, <3>3 DEF SameRun
      <4>2. n = iters[w][r]
        BY <1>0, <1>1, <1>d, <1>w, <1>r, <1>n, <4>1 DEF StatsOrder
      <4>3. Stats!Known(v, run[v])' = n
        BY <1>2, <1>8, <1>r, <1>n, <3>3, <3>q DEF Stats!Known
      <4> QED
        BY <1>2, <3>3, <3>q, <4>2, <4>3
    <3>4. CASE ~(v = w /\ q = r)
      <4>1. Stats!Of(v, q) = {}
        BY <1>1, <1>d, <1>w, <1>r, <3>2, <3>4 DEF Stats!Of
      <4>2. iters[v][q] = Stats!Known(v, q)
        BY <1>0, <3>q, <4>1 DEF StatsOrder
      <4>3. Stats!Known(v, run[v])' = Stats!Known(v, q)
        <5>1. CASE v # w
          BY <1>2, <1>8, <3>q, <5>1 DEF Stats!Known
        <5>2. CASE v = w
          <6>1. r < q /\ q # r
            BY <1>5, <1>7, <1>r, <3>4, <3>q, <5>2
          <6>2. ~(w \in DOMAIN stats /\ stats[w].run = q)
            BY <1>5, <1>7, <1>r, <6>1 DEF Older
          <6> QED
            BY <1>2, <1>8, <1>r, <3>q, <5>2, <6>1, <6>2 DEF Stats!Known
        <5> QED
          BY <5>1, <5>2
      <4> QED
        BY <1>2, <3>q, <4>2, <4>3
    <3> QED
      BY <3>3, <3>4
  <2> QED
    BY <2>1, <2>2, <2>3, <2>4, <2>5 DEF StatsOrder, Stats!Runs
<1>14. Stats!CountExact'
  <2> DEFINE x == <<w, r>>
  <2>1. x \in S
    OBVIOUS
  <2>2. /\ IsFiniteSet(S) /\ Made \in [S -> Int] /\ Owed \in [S -> Int]
        /\ count + Stats!SumFunction(Owed) = Stats!SumFunction(Made)
    BY StatsTerms DEF StatsInv, TermsTyped
  <2>t. (Stats!StatsAssumption /\ Stats!TypeOK => TermsTyped)'
    BY StatsTerms, PTL
  <2>3. /\ Made' \in [S -> Int] /\ Owed' \in [S -> Int]
        /\ Stats!CountExact' <=> count' + Stats!SumFunction(Owed') = Stats!SumFunction(Made')
    BY <1>10, <2>t DEF TermsTyped, Stats!StatsAssumption, Stats!Runs
  <2>4. Made' = Made
    BY <1>2 DEF Made, Stats!Runs
  <2>5. ASSUME NEW y \in S \ {x} PROVE Owed[y] = Owed'[y]
    <3>1. PICK v \in StatWorkers, q \in Stats!Runs : y = <<v, q>>
      BY <2>5
    <3>2. v # w \/ q # r
      BY <2>5, <3>1
    <3>3. (Stats!Of(v, q) = {})' <=> Stats!Of(v, q) = {}
      <4>1. ASSUME NEW i \in DOMAIN channel, channel[i].worker = v, channel[i].run = q
            PROVE  \E j \in DOMAIN channel' : channel'[j].worker = v /\ channel'[j].run = q
        <5>1. i # 1
          BY <1>d, <1>w, <1>r, <3>2, <4>1
        <5>2. i - 1 \in 1..K - 1 /\ (i - 1) + 1 = i
          BY <1>1, <5>1
        <5> QED
          BY <1>1, <1>11, <4>1, <5>2
      <4>2. ASSUME NEW i \in DOMAIN channel', channel'[i].worker = v, channel'[i].run = q
            PROVE  \E j \in DOMAIN channel : channel[j].worker = v /\ channel[j].run = q
        BY <1>1, <1>11, <4>2
      <4> QED
        BY <4>1, <4>2 DEF Stats!Of
    <3>4. Stats!Of(v, q) # {} => Stats!Known(v, q)' = Stats!Known(v, q)
      <4> SUFFICES ASSUME Stats!Of(v, q) # {} PROVE Stats!Known(v, q)' = Stats!Known(v, q)
        OBVIOUS
      <4>1. CASE v # w
        BY <1>8, <4>1 DEF Stats!Known
      <4>2. CASE v = w
        <5>1. PICK i \in DOMAIN channel' : channel'[i].worker = w /\ channel'[i].run = q
          BY <3>3, <4>2 DEF Stats!Of
        <5>2. r < q
          BY <1>1, <1>5, <1>12, <1>r, <3>2, <4>2, <5>1 DEF Older
        <5>3. ~(w \in DOMAIN stats /\ stats[w].run = q)
          BY <1>4, <1>5, <1>7, <1>r, <5>2 DEF Older
        <5> QED
          BY <1>5, <1>8, <1>r, <4>2, <5>2, <5>3 DEF Stats!Known
      <4> QED
        BY <4>1, <4>2
    <3>5. /\ Owed[y] = IF Stats!Of(v, q) = {} THEN 0 ELSE iters[v][q] - Stats!Known(v, q)
          /\ Owed'[y] = IF (Stats!Of(v, q) = {})' THEN 0 ELSE iters'[v][q] - Stats!Known(v, q)'
      BY <3>1 DEF Owed, Stats!Runs
    <3> QED
      BY <1>2, <3>3, <3>4, <3>5
  <2>6. Owed'[x] - Owed[x] = Stats!Known(w, r) - n
    <3>1. Stats!Of(w, r) # {}
      BY <1>1, <1>d, <1>w, <1>r DEF Stats!Of
    <3>2. Stats!Known(w, r)' = n
      BY <1>8, <1>r, <1>n DEF Stats!Known
    <3>3. (Stats!Of(w, r) = {})' => n = iters[w][r]
      <4> SUFFICES ASSUME (Stats!Of(w, r) = {})' PROVE n = iters[w][r]
        OBVIOUS
      <4>1. \A i \in 1..K - 1 : ~(channel'[i].worker = w /\ channel'[i].run = r)
        BY <1>1 DEF Stats!Of
      <4>2. ASSUME NEW j \in DOMAIN channel, 1 < j PROVE ~SameRun(channel[1], channel[j])
        <5>1. j - 1 \in 1..K - 1 /\ (j - 1) + 1 = j
          BY <1>1, <4>2
        <5>2. channel'[j - 1] = channel[j]
          BY <1>11, <5>1
        <5> QED
          BY <1>d, <1>w, <1>r, <4>1, <5>1, <5>2 DEF SameRun
      <4> QED
        BY <1>0, <1>1, <1>d, <1>w, <1>r, <1>n, <4>2 DEF StatsOrder
    <3>4. /\ Owed[x] = IF Stats!Of(w, r) = {} THEN 0 ELSE iters[w][r] - Stats!Known(w, r)
          /\ Owed'[x] = IF (Stats!Of(w, r) = {})' THEN 0 ELSE iters'[w][r] - Stats!Known(w, r)'
      BY <2>1 DEF Owed, Stats!Runs
    <3>5. Owed'[x] = iters[w][r] - n
      BY <1>2, <1>6, <3>2, <3>3, <3>4
    <3>6. Owed[x] = iters[w][r] - Stats!Known(w, r)
      BY <3>1, <3>4
    <3> QED
      BY <1>6, <1>9, <3>5, <3>6
  <2> HIDE DEF x, S
  <2>7. /\ Stats!SumFunction(Owed) \in Int /\ Stats!SumFunction(Owed') \in Int
        /\ Stats!SumFunction(Owed') - Stats!SumFunction(Owed) = Owed'[x] - Owed[x]
    BY <2>1, <2>2, <2>3, <2>5, SumChanges
  <2>8. count' = count + (n - Stats!Known(w, r)) /\ count \in Int
    BY <1>0, <1>2, <1>9 DEF Stats!TypeOK
  <2>9. Stats!SumFunction(Made') = Stats!SumFunction(Made)
    BY <2>4
  <2> QED
    BY <1>9, <2>2, <2>3, <2>6, <2>7, <2>8, <2>9
<1> QED
  BY <1>10, <1>13, <1>14 DEF StatsInv

\* Every step of the statistics keeps it.
LEMMA StatsSteps ==
    ASSUME Stats!StatsAssumption, StatsInv, [Stats!Next]_(Stats!vars)
    PROVE  StatsInv'
<1>t. (Stats!StatsAssumption /\ Stats!TypeOK => TermsTyped)'
  BY StatsTerms, PTL
<1>0. /\ StatRuns \in Nat \ {0} /\ Stats!TypeOK /\ StatsOrder /\ TermsTyped
      /\ count + Stats!SumFunction(Owed) = Stats!SumFunction(Made)
  BY StatsTerms DEF Stats!StatsAssumption, StatsInv, TermsTyped
\* A step that sends nothing and counts nothing.
<1>1. ASSUME iters' = iters, channel' = channel, stats' = stats, count' = count, Stats!TypeOK'
      PROVE  Stats!CountExact'
  <2>1. Made' = Made /\ Owed' = Owed
    BY <1>1 DEF Made, Owed, Stats!Runs, Stats!Of, Stats!Known
  <2> QED
    BY <1>0, <1>1, <1>t, <2>1 DEF TermsTyped, Stats!StatsAssumption
<1>2. CASE UNCHANGED Stats!vars
  <2>1. Stats!TypeOK' /\ StatsOrder'
    BY <1>0, <1>2 DEF Stats!vars, Stats!TypeOK, Stats!Runs, Stats!Stats, StatsOrder, Stats!Of,
                      Stats!Known
  <2> QED
    BY <1>1, <1>2, <2>1 DEF Stats!vars, StatsInv
<1>3. CASE Stats!TimerReport
  <2>1. Stats!TypeOK'
    BY <1>0, <1>3 DEF Stats!TimerReport, Stats!TypeOK, Stats!Runs, Stats!Stats
  <2>2. StatsOrder'
    BY <1>0, <1>3 DEF Stats!TimerReport, Stats!Runs, StatsOrder, Stats!Of, Stats!Known
  <2> QED
    BY <1>1, <1>3, <2>1, <2>2 DEF Stats!TimerReport, StatsInv
<1>4. ASSUME NEW w \in StatWorkers, Stats!NewRun(w) PROVE StatsInv'
  <2>0. /\ iters' = iters /\ channel' = channel /\ stats' = stats /\ count' = count
        /\ run' = [run EXCEPT ![w] = @ + 1] /\ run[w] < StatRuns /\ reported' = reported
    BY <1>4 DEF Stats!NewRun
  <2>1. /\ \A v \in StatWorkers : run[v] \in Stats!Runs /\ run[v] \in Nat
        /\ run'[w] = run[w] + 1 /\ \A v \in StatWorkers \ {w} : run'[v] = run[v]
        /\ \A v \in StatWorkers : run[v] <= run'[v]
        /\ run' \in [StatWorkers -> Stats!Runs]
    BY <1>0, <2>0, SMTT(30) DEF Stats!TypeOK, Stats!Runs
  <2>2. Stats!TypeOK'
    BY <1>0, <2>0, <2>1 DEF Stats!TypeOK
  <2>3. ASSUME NEW i \in DOMAIN channel
        PROVE  channel[i].worker \in StatWorkers /\ channel[i].run \in Nat
               /\ channel[i].run <= run[channel[i].worker]
    <3>1. channel[i] \in Stats!Stats /\ channel[i].run <= run[channel[i].worker]
      BY <1>0 DEF Stats!TypeOK, StatsOrder
    <3> QED
      BY <1>0, <3>1 DEF Stats!Stats, Stats!Runs
  <2>4. ASSUME NEW v \in DOMAIN stats
        PROVE  v \in StatWorkers /\ stats[v].run \in Nat /\ stats[v].run <= run[v]
    <3>1. v \in StatWorkers /\ stats[v] \in Stats!Stats /\ stats[v].run <= run[v]
      BY <1>0 DEF Stats!TypeOK, StatsOrder
    <3> QED
      BY <1>0, <3>1 DEF Stats!Stats, Stats!Runs
  <2>5. ASSUME NEW v \in StatWorkers, (Stats!Of(v, run[v]) = {})'
        PROVE  iters'[v][run'[v]] = Stats!Known(v, run[v])'
    <3>1. CASE v = w
      <4>1. iters[w][run'[w]] = 0
        BY <1>0, <2>1 DEF StatsOrder
      <4>2. ~(w \in DOMAIN stats /\ stats[w].run = run'[w])
        BY <2>1, <2>4
      <4> QED
        BY <2>0, <3>1, <4>1, <4>2 DEF Stats!Known
    <3>2. CASE v # w
      <4>1. run'[v] = run[v]
        BY <2>1, <3>2
      <4>2. Stats!Of(v, run[v]) = {} /\ Stats!Known(v, run[v])' = Stats!Known(v, run[v])
        BY <2>0, <2>5, <4>1 DEF Stats!Of, Stats!Known
      <4> QED
        BY <1>0, <2>0, <4>1, <4>2 DEF StatsOrder
    <3> QED
      BY <3>1, <3>2
  <2>6. \A i \in DOMAIN channel : channel[i].run <= run'[channel[i].worker]
    BY <2>1, <2>3
  <2>7. \A v \in DOMAIN stats : stats[v].run <= run'[v]
    BY <2>1, <2>4
  <2>8. \A v \in StatWorkers : \A q \in Stats!Runs : run'[v] < q => iters[v][q] = 0
    <3> SUFFICES ASSUME NEW v \in StatWorkers, NEW q \in Stats!Runs, run'[v] < q
                 PROVE  iters[v][q] = 0
      OBVIOUS
    <3>1. run[v] < q
      BY <1>0, <2>1 DEF Stats!Runs
    <3> QED
      BY <1>0, <3>1 DEF StatsOrder
  <2>9. StatsOrder'
    BY <1>0, <2>0, <2>5, <2>6, <2>7, <2>8 DEF StatsOrder, Stats!Runs
  <2> QED
    BY <1>1, <2>0, <2>2, <2>9 DEF StatsInv
<1> QED
  BY <1>2, <1>3, <1>4, StatsReceive, StatsProgress DEF Stats!Next
----------------------------------------------------------------------------
(* The tasks together.  Only the component that task names moves, so the    *)
(* invariant of the composition is that component's.                        *)

RuntimeInv ==
    /\ \A k \in DOMAIN MonitorTasks : task = <<"monitor", k>> => MonitorInv(MonitorTasks[k])
    /\ \A k \in DOMAIN SupervisorTasks : task = <<"supervisor", k>> => SupervisorInv(SupervisorTasks[k])
    /\ \A k \in DOMAIN GeneratorTasks : task = <<"generator", k>> => GeneratorInv(GeneratorTasks[k])
    /\ \A k \in DOMAIN LocalTasks : task = <<"local", k>> => LocalInv(LocalTasks[k])
    /\ \A k \in DOMAIN TerminalTasks : task = <<"terminal", k>> => TerminalInv(TerminalTasks[k])
    /\ task = <<"runtime_stats">> => StatsInv

\* A process runs one task.
LEMMA OneTask ==
    ASSUME NEW a, NEW b, NEW c, NEW d
    PROVE  /\ <<a, b>> = <<c, d>> => a = c /\ b = d
           /\ <<a, b>> # <<c>> /\ (<<a>> = <<c>> => a = c)
           /\ <<a, b>>[1] = a
  OBVIOUS

\* A step is one of the task that the process runs, and keeps the task.
LEMMA StepOfTask ==
    ASSUME [Next]_vars
    PROVE  /\ task' = task
           /\ \A k \in DOMAIN MonitorTasks : task = <<"monitor", k>> =>
                [Monitor(MonitorTasks[k])!Next]_(Monitor(MonitorTasks[k])!vars)
           /\ \A k \in DOMAIN SupervisorTasks : task = <<"supervisor", k>> =>
                [Supervise(SupervisorTasks[k])!Next]_(Supervise(SupervisorTasks[k])!vars)
           /\ \A k \in DOMAIN GeneratorTasks : task = <<"generator", k>> =>
                [Generate(GeneratorTasks[k])!Next]_(Generate(GeneratorTasks[k])!vars)
           /\ \A k \in DOMAIN LocalTasks : task = <<"local", k>> =>
                [Local(LocalTasks[k])!Next]_(Local(LocalTasks[k])!vars)
           /\ \A k \in DOMAIN TerminalTasks : task = <<"terminal", k>> =>
                [Terminal(TerminalTasks[k])!Next]_(Terminal(TerminalTasks[k])!vars)
           /\ task = <<"runtime_stats">> => [Stats!Next]_(Stats!vars)
<1>1. CASE UNCHANGED vars
  BY <1>1 DEF vars, Stats!vars, Monitor!vars, Supervise!vars, Generate!vars, Local!vars, Local!flow, Terminal!vars, Terminal!screen, Terminal!listing, Terminal!stat, Terminal!log
<1>2. ASSUME NEW j \in DOMAIN MonitorTasks, RunMonitor(j)
      PROVE  task = <<"monitor", j>> /\ task' = task /\ Monitor(MonitorTasks[j])!Next
  BY <1>2 DEF RunMonitor, MonitorOthers
<1>3. ASSUME NEW j \in DOMAIN SupervisorTasks, RunSupervise(j)
      PROVE  task = <<"supervisor", j>> /\ task' = task /\ Supervise(SupervisorTasks[j])!Next
  BY <1>3 DEF RunSupervise, SupervisorOthers
<1>4. ASSUME NEW j \in DOMAIN GeneratorTasks, RunGenerate(j)
      PROVE  task = <<"generator", j>> /\ task' = task /\ Generate(GeneratorTasks[j])!Next
  BY <1>4 DEF RunGenerate, GeneratorOthers
<1>5. ASSUME NEW j \in DOMAIN LocalTasks, RunLocal(j)
      PROVE  task = <<"local", j>> /\ task' = task /\ Local(LocalTasks[j])!Next
  BY <1>5 DEF RunLocal, RunOthers
<1>6. ASSUME NEW j \in DOMAIN TerminalTasks, RunTerminal(j)
      PROVE  task = <<"terminal", j>> /\ task' = task /\ Terminal(TerminalTasks[j])!Next
  BY <1>6 DEF RunTerminal, TerminalOthers
<1>7. RunStats => task = <<"runtime_stats">> /\ task' = task /\ Stats!Next
  BY DEF RunStats, StatsOthers
<1>8. RunReports => task = <<"crash_report">> /\ task' = task
  BY DEF RunReports, ReportsOthers
<1>9. RunFuzz => task = <<"libfuzzer_fuzz">> /\ task' = task
  BY DEF RunFuzz, FuzzOthers
<1> QED
  BY <1>1, <1>2, <1>3, <1>4, <1>5, <1>6, <1>7, <1>8, <1>9, OneTask DEF Next

\* The invariant holds initially.
LEMMA RuntimeInit ==
    ASSUME Init
    PROVE  RuntimeInv
<1>1. ASSUME NEW k \in DOMAIN MonitorTasks, task = <<"monitor", k>> PROVE MonitorInv(MonitorTasks[k])
  <2>1. Monitor(MonitorTasks[k])!Init
    BY <1>1, OneTask DEF Init
  <2> QED
    BY <2>1, RuntimeAssumption, MonitorInit
<1>2. ASSUME NEW k \in DOMAIN SupervisorTasks, task = <<"supervisor", k>> PROVE SupervisorInv(SupervisorTasks[k])
  <2>1. Supervise(SupervisorTasks[k])!Init
    BY <1>2, OneTask DEF Init
  <2> QED
    BY <2>1, RuntimeAssumption, SupervisorInit
<1>3. ASSUME NEW k \in DOMAIN GeneratorTasks, task = <<"generator", k>> PROVE GeneratorInv(GeneratorTasks[k])
  <2>1. Generate(GeneratorTasks[k])!Init
    BY <1>3, OneTask DEF Init
  <2> QED
    BY <2>1, RuntimeAssumption, GeneratorInit
<1>4. ASSUME NEW k \in DOMAIN LocalTasks, task = <<"local", k>> PROVE LocalInv(LocalTasks[k])
  <2>1. Local(LocalTasks[k])!Init
    BY <1>4, OneTask DEF Init
  <2> QED
    BY <2>1, RuntimeAssumption, LocalInit
<1>5. ASSUME NEW k \in DOMAIN TerminalTasks, task = <<"terminal", k>> PROVE TerminalInv(TerminalTasks[k])
  <2>1. Terminal(TerminalTasks[k])!Init
    BY <1>5, OneTask DEF Init
  <2> QED
    BY <2>1, RuntimeAssumption, TerminalInit
<1>6. ASSUME task = <<"runtime_stats">> PROVE StatsInv
  <2>1. Stats!Init
    BY <1>6, OneTask DEF Init
  <2> QED
    BY <2>1, RuntimeAssumption, StatsInit
<1> QED
  BY <1>1, <1>2, <1>3, <1>4, <1>5, <1>6 DEF RuntimeInv

\* Every step keeps the invariant.
LEMMA RuntimeStep ==
    ASSUME RuntimeInv, [Next]_vars
    PROVE  RuntimeInv'
<1>0. task' = task
  BY StepOfTask
<1>1. ASSUME NEW k \in DOMAIN MonitorTasks, task = <<"monitor", k>> PROVE MonitorInv(MonitorTasks[k])'
  <2>1. MonitorInv(MonitorTasks[k]) /\ [Monitor(MonitorTasks[k])!Next]_(Monitor(MonitorTasks[k])!vars)
    BY <1>1, StepOfTask DEF RuntimeInv
  <2> QED
    BY <2>1, RuntimeAssumption, MonitorSteps
<1>2. ASSUME NEW k \in DOMAIN SupervisorTasks, task = <<"supervisor", k>> PROVE SupervisorInv(SupervisorTasks[k])'
  <2>1. SupervisorInv(SupervisorTasks[k]) /\ [Supervise(SupervisorTasks[k])!Next]_(Supervise(SupervisorTasks[k])!vars)
    BY <1>2, StepOfTask DEF RuntimeInv
  <2> QED
    BY <2>1, RuntimeAssumption, SupervisorSteps
<1>3. ASSUME NEW k \in DOMAIN GeneratorTasks, task = <<"generator", k>> PROVE GeneratorInv(GeneratorTasks[k])'
  <2>1. GeneratorInv(GeneratorTasks[k]) /\ [Generate(GeneratorTasks[k])!Next]_(Generate(GeneratorTasks[k])!vars)
    BY <1>3, StepOfTask DEF RuntimeInv
  <2> QED
    BY <2>1, RuntimeAssumption, GeneratorSteps
<1>4. ASSUME NEW k \in DOMAIN LocalTasks, task = <<"local", k>> PROVE LocalInv(LocalTasks[k])'
  <2>1. LocalInv(LocalTasks[k]) /\ [Local(LocalTasks[k])!Next]_(Local(LocalTasks[k])!vars)
    BY <1>4, StepOfTask DEF RuntimeInv
  <2> QED
    BY <2>1, RuntimeAssumption, LocalSteps
<1>5. ASSUME NEW k \in DOMAIN TerminalTasks, task = <<"terminal", k>> PROVE TerminalInv(TerminalTasks[k])'
  <2>1. TerminalInv(TerminalTasks[k]) /\ [Terminal(TerminalTasks[k])!Next]_(Terminal(TerminalTasks[k])!vars)
    BY <1>5, StepOfTask DEF RuntimeInv
  <2> QED
    BY <2>1, RuntimeAssumption, TerminalSteps
<1>6. ASSUME task = <<"runtime_stats">> PROVE StatsInv'
  <2>1. StatsInv /\ [Stats!Next]_(Stats!vars)
    BY <1>6, StepOfTask DEF RuntimeInv
  <2> QED
    BY <2>1, RuntimeAssumption, StatsSteps
<1> QED
  BY <1>0, <1>1, <1>2, <1>3, <1>4, <1>5, <1>6 DEF RuntimeInv

\* Resets, deletions and failed uploads make the directory monitor forget no file that was
\* created under its watch, and it never listens to a directory that is gone; later rounds
\* of the generator overwrite no crash that was renamed; a crash of a local run is on its way
\* to every task that follows the directory, once for each time it was found (next_file, file_monitor_event,
\* test_inputs, ChannelQueueClient).
THEOREM NothingIsMissed == Spec => []NothingMissed
<1>1. Init => RuntimeInv
  BY RuntimeInit
<1>2. RuntimeInv /\ [Next]_vars => RuntimeInv'
  BY RuntimeStep
<1>3. RuntimeInv => NothingMissed
  <2> SUFFICES ASSUME RuntimeInv PROVE NothingMissed
    OBVIOUS
  <2>1. ASSUME NEW k \in DOMAIN GeneratorTasks, task = <<"generator", k>>
        PROVE  Generate(GeneratorTasks[k])!CrashKept
    <3>1. GeneratorInv(GeneratorTasks[k]) /\ Generate(GeneratorTasks[k])!GeneratorAssumption
      BY <2>1, RuntimeAssumption DEF RuntimeInv
    <3>2. found \subseteq Generate(GeneratorTasks[k])!Targets
      BY <3>1 DEF GeneratorInv, Generate!TypeOK, Generate!GeneratorAssumption, Generate!Targets
    <3> QED
      BY <3>1, <3>2 DEF GeneratorInv, Generate!CrashKept
  <2> QED
    BY <2>1 DEF RuntimeInv, NothingMissed, MonitorInv, LocalInv
<1> QED
  BY <1>1, <1>2, <1>3, PTL DEF Spec

\* What the service and the user are told of a running task is true: its heartbeats stop
\* with the supervisor but for one; the total of the iterations and what is on its way to it
\* are the iterations of all runs of all workers; the selection of the terminal is in the
\* list, its logs are the last ones in their order, and it is given back at the end
\* (wait_process, TotalStats::update, on_key_down, take_available_logs, on_quit).
THEOREM ToldTrue == Spec => []ToldIsTrue
<1>1. Init => RuntimeInv
  BY RuntimeInit
<1>2. RuntimeInv /\ [Next]_vars => RuntimeInv'
  BY RuntimeStep
<1>3. RuntimeInv => ToldIsTrue
  <2> SUFFICES ASSUME RuntimeInv PROVE ToldIsTrue
    OBVIOUS
  <2>1. TypeOK
    BY DEF RuntimeInv, TypeOK, MonitorInv, SupervisorInv, StatsInv, GeneratorInv, LocalInv,
           TerminalInv, TerminalTypes
  <2>2. HeartbeatsTrue
    BY DEF RuntimeInv, HeartbeatsTrue, SupervisorInv, Supervise!OneLateHeartbeat,
           Supervise!LastFlush
  <2>3. TerminalTrue
    BY DEF RuntimeInv, TerminalTrue, TerminalInv
  <2>4. task = <<"runtime_stats">> => Stats!CountExact
    BY DEF RuntimeInv, StatsInv
  <2>5. \A k \in DOMAIN TerminalTasks :
          task = <<"terminal", k>> => Terminal(TerminalTasks[k])!LogsInOrder
    BY DEF RuntimeInv, TerminalInv
  <2> QED
    BY <2>1, <2>2, <2>3, <2>4, <2>5 DEF ToldIsTrue
<1> QED
  BY <1>1, <1>2, <1>3, PTL DEF Spec
=============================================================================
