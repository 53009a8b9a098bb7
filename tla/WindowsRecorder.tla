--------------------------- MODULE WindowsRecorder ---------------------------
(***************************************************************************)
(* The recording of block coverage on Windows: WindowsRecorder, a client   *)
(* of the debugger crate, puts a one-time breakpoint on every block of the *)
(* modules the target loads.  In a module that has one of the trigger      *)
(* functions (the initialisers that patch code) they are set only when     *)
(* that function has returned.  Breakpoints asked for before the initial   *)
(* break stay unresolved until then.                                       *)
(***************************************************************************)
EXTENDS Naturals, Sequences, FiniteSets

CONSTANTS
    Thread, Module, Off,
    Exe,           \* the module of the CreateProcess event
    Trigger,       \* the offset of each module's trigger function, or None
    RetOf,         \* the return address of the call of the trigger function
    Allowed,       \* modules on the allowlist that can be loaded and debugged
    None,
    OthersReturn,  \* may a thread that is not in the trigger pass its return address?
    SymFails,      \* may SymInitialize fail?
    MaxDepth,      \* bound on nested calls of trigger functions
    MaxId          \* bound on the breakpoint ids

Site == Module \X Off
Addr == Site \cup {RetOf[m] : m \in Module}

VARIABLES
    event, pc,     \* each thread: the breakpoint it stopped at; the one it executes next
    calls,         \* each thread: the trigger functions it is in, innermost first
    saw_initial_bp,
    loaded,        \* Target::modules
    bps,           \* the ResolvedBreakpoint at each address, or None
    unresolved,    \* Target::unresolved_breakpoints
    count,         \* Debugger::breakpoint_count
    modules,       \* WindowsRecorder::modules
    deferred,      \* WindowsRecorder::deferred_breakpoints
    index,         \* Breakpoints::id_to_breakpoint
    entries,       \* the modules that have an entry in WindowsRecorder::coverage
    coverage,      \* the sites counted
    stop_error, exited,
    executed,      \* history: sites executed in an instrumented module, until it was unloaded
    unloaded,      \* history: modules that have been unloaded
    returned       \* history: modules whose trigger has returned on its thread

os == <<event, pc, calls>>
target == <<saw_initial_bp, loaded, bps, unresolved, count, exited>>
recorder == <<modules, deferred, index, entries, coverage, stop_error>>
history == <<executed, unloaded, returned>>
vars == <<os, target, recorder, history>>

Bp == [id : 0..MaxId, disabled : Nat, applied : BOOLEAN]
Deferral == [module : Module, thread : Thread \cup {None}]

\* A return address belongs to one call, and no block starts there.
RecorderAssumption ==
    /\ Off \subseteq Nat /\ IsFiniteSet(Off) /\ Exe \in Module /\ Allowed \subseteq Module
    /\ Trigger \in [Module -> Off \cup {None}]
    /\ None \notin Off /\ None \notin Module /\ None \notin Thread
    /\ None \notin Addr /\ None \notin Bp /\ None \notin Deferral
    /\ \A m \in Module : RetOf[m] \notin Site
    /\ \A m, n \in Module : RetOf[m] = RetOf[n] => m = n
    /\ MaxId \in Nat /\ MaxDepth \in Nat /\ OthersReturn \in BOOLEAN /\ SymFails \in BOOLEAN

TypeOK ==
    /\ event \in [Thread -> Addr \cup {None}] /\ pc \in [Thread -> Addr \cup {None}]
    /\ calls \in [Thread -> Seq(Module)]
    /\ saw_initial_bp \in BOOLEAN /\ loaded \subseteq Module
    /\ bps \in [Addr -> Bp \cup {None}]
    /\ unresolved \subseteq (0..MaxId) \X Site /\ count \in 0..MaxId + 1
    /\ modules \subseteq Module
    /\ deferred \in [0..MaxId -> Deferral \cup {None}]
    /\ index \in [0..MaxId -> Site \cup {None}]
    /\ entries \subseteq Module /\ coverage \subseteq Site
    /\ stop_error \in BOOLEAN /\ exited \in BOOLEAN
    /\ executed \subseteq Site /\ unloaded \subseteq Module /\ returned \subseteq Module

-----------------------------------------------------------------------------
(* Target and Module: breakpoints by id.                                    *)

Enabled(bp) ==
    [id |-> bp.id, disabled |-> IF bp.disabled = 0 THEN 0 ELSE bp.disabled - 1, applied |-> TRUE]

\* Module::new_breakpoint for the address a, when a is asked for with an id:
\* an existing breakpoint changes its id, and is enabled if it was disabled.
NewBreakpoint(old, id) ==
    IF old = None THEN [id |-> id, disabled |-> 0, applied |-> TRUE]
    ELSE LET new == [old EXCEPT !.id = id]
         IN  IF old.disabled > 0 THEN Enabled(new) ELSE new

\* The ids of breakpoints set in the order of their offsets.
IdOf(S, o) == count + Cardinality({p \in S : p < o})

\* new_rva_breakpoint for the offsets S of module m, over the table tab:
\* resolved at once when the module is loaded and the initial break was seen.
SetRva(tab, m, S) ==
    /\ count + Cardinality(S) <= MaxId + 1 /\ count' = count + Cardinality(S)
    /\ IF saw_initial_bp /\ m \in loaded'
       THEN /\ bps' = [a \in Addr |-> IF a \in {m} \X S
                                      THEN NewBreakpoint(tab[a], IdOf(S, a[2])) ELSE tab[a]]
            /\ UNCHANGED unresolved
       ELSE /\ bps' = tab
            /\ unresolved' = unresolved \cup {<<IdOf(S, o), <<m, o>>>> : o \in S}

-----------------------------------------------------------------------------
(* WindowsRecorder: set or defer the breakpoints of a module.                *)

\* set_module_breakpoints; defs is the table of deferred breakpoints to keep.
SetModuleBreakpoints(tab, defs, m) ==
    /\ SetRva(tab, m, Off)
    /\ index' = [i \in 0..MaxId |-> IF \E o \in Off : IdOf(Off, o) = i
                                    THEN <<m, CHOOSE o \in Off : IdOf(Off, o) = i>> ELSE index[i]]
    /\ entries' = entries \cup {m}
    /\ coverage' = {s \in coverage : s[1] # m}
    /\ deferred' = defs

\* Breakpoint::set at the trigger function, with the state of the deferral.
SetTrigger(tab, defs, m, thread) ==
    /\ SetRva(tab, m, {Trigger[m]})
    /\ deferred' = [defs EXCEPT ![count] = [module |-> m, thread |-> thread]]
    /\ UNCHANGED <<index, entries, coverage>>

\* insert_module
InsertModule(m) ==
    IF m \in Allowed \ modules
    THEN /\ modules' = modules \cup {m}
         /\ IF Trigger[m] # None THEN SetTrigger(bps, deferred, m, None)
                                 ELSE SetModuleBreakpoints(bps, deferred, m)
    ELSE UNCHANGED <<bps, unresolved, count, modules, deferred, index, entries, coverage>>

-----------------------------------------------------------------------------
(* Events.                                                                  *)

\* Debugger::init has seen CreateProcess and registered the executable.
Init ==
    /\ event = [t \in Thread |-> None] /\ pc = [t \in Thread |-> None]
    /\ calls = [t \in Thread |-> <<>>]
    /\ saw_initial_bp = FALSE /\ loaded = {} /\ bps = [a \in Addr |-> None]
    /\ unresolved = {} /\ count = 0 /\ modules = {}
    /\ deferred = [i \in 0..MaxId |-> None] /\ index = [i \in 0..MaxId |-> None]
    /\ entries = {} /\ coverage = {} /\ stop_error = FALSE /\ exited = FALSE
    /\ executed = {} /\ unloaded = {} /\ returned = {}

Stopped(m) == \A t \in Thread : /\ \A i \in DOMAIN calls[t] : calls[t][i] # m
                                /\ event[t] \notin {m} \X Off /\ pc[t] \notin {m} \X Off

Registered(m) == loaded \cup {m}

\* CreateProcess comes first, then the libraries: load_module, on_load_dll.
LoadDll(m) ==
    /\ ~exited /\ m \notin loaded
    /\ IF m = Exe THEN ~saw_initial_bp ELSE Exe \in loaded
    /\ loaded' = Registered(m) /\ InsertModule(m)
    /\ UNCHANGED <<os, saw_initial_bp, stop_error, exited, history>>

\* unload_module drops the module with its breakpoints; the recorder keeps it.
UnloadDll(m) ==
    /\ ~exited /\ saw_initial_bp /\ m \in loaded \ {Exe} /\ Stopped(m)
    /\ loaded' = loaded \ {m}
    /\ bps' = [a \in Addr |-> IF a \in {m} \X Off THEN None ELSE bps[a]]
    /\ unloaded' = unloaded \cup {m}
    /\ UNCHANGED <<os, saw_initial_bp, unresolved, count, recorder, exited, executed, returned>>

\* initial_bp resolves what can be resolved, unless the symbols cannot be
\* initialised: that error keeps every breakpoint unresolved.
Resolved == {u \in unresolved : u[2][1] \in loaded}

InitialBreak ==
    /\ ~exited /\ ~saw_initial_bp /\ Exe \in loaded /\ saw_initial_bp' = TRUE
    /\ \/ /\ unresolved' = unresolved \ Resolved
          /\ bps' = [a \in Addr |-> IF \E u \in Resolved : u[2] = a
                         THEN NewBreakpoint(bps[a], (CHOOSE u \in Resolved : u[2] = a)[1])
                         ELSE bps[a]]
       \/ SymFails /\ unresolved # {} /\ UNCHANGED <<unresolved, bps>>
    /\ UNCHANGED <<os, loaded, count, exited, recorder, history>>

\* The threads run.  The call of a trigger function ends at its return address.
Step(t, a) ==
    /\ pc' = [pc EXCEPT ![t] = None]
    /\ executed' = IF a \in Site /\ a[1] \in entries \ unloaded THEN executed \cup {a} ELSE executed
    /\ LET top == IF calls[t] = <<>> THEN None ELSE Head(calls[t]) IN
       IF top # None /\ a = RetOf[top]
       THEN calls' = [calls EXCEPT ![t] = Tail(@)] /\ returned' = returned \cup {top}
       ELSE /\ calls' = IF a \in Site /\ Trigger[a[1]] = a[2]
                        THEN [calls EXCEPT ![t] = <<a[1]>> \o @] ELSE calls
            /\ UNCHANGED returned

\* Addresses a thread may come to.  The loader lets one thread at a time into
\* the trigger functions.
AtTrigger(u) ==
    \/ calls[u] # <<>>
    \/ \E m \in Module : Trigger[m] # None /\ <<m, Trigger[m]>> \in {event[u], pc[u]}

Reach(t) ==
    {s \in Site : /\ s[1] \in loaded
                  /\ Trigger[s[1]] = s[2] =>
                       Len(calls[t]) < MaxDepth /\ \A u \in Thread \ {t} : ~AtTrigger(u)}
      \cup (IF calls[t] # <<>> THEN {RetOf[Head(calls[t])]} ELSE {})
      \cup (IF OthersReturn THEN {RetOf[m] : m \in loaded} ELSE {})

Execute(t) ==
    /\ ~exited /\ saw_initial_bp /\ event[t] = None
    /\ \E a \in IF pc[t] = None THEN Reach(t) ELSE {pc[t]} :
         IF bps[a] # None /\ bps[a].applied
         THEN event' = [event EXCEPT ![t] = a] /\ UNCHANGED <<pc, calls, executed, returned>>
         ELSE Step(t, a) /\ UNCHANGED event
    /\ UNCHANGED <<target, recorder, unloaded>>

-----------------------------------------------------------------------------
(* on_breakpoint, after handle_breakpoint has disabled the breakpoint and    *)
(* moved the thread back to its address.                                     *)

Disabled(a) ==
    [bps EXCEPT ![a] = [id |-> @.id, disabled |-> @.disabled + 1, applied |-> FALSE]]

Hit(t) ==
    /\ ~exited /\ event[t] # None /\ bps[event[t]] # None
    /\ event' = [event EXCEPT ![t] = None] /\ pc' = [pc EXCEPT ![t] = event[t]]
    /\ UNCHANGED <<calls, saw_initial_bp, loaded, modules, history>>

DeferralAt(t) == deferred[bps[event[t]].id]
Undeferred(t) == [deferred EXCEPT ![bps[event[t]].id] = None]

\* The deferral goes on under the id of the breakpoint at the return address.
Rekeyed_Same(t) == [deferred EXCEPT ![bps[event[t]].id] = [@ EXCEPT !.thread = t]]
Rekeyed(t) == [Undeferred(t) EXCEPT ![count] = [DeferralAt(t) EXCEPT !.thread = t]]

\* NotEntered: a breakpoint at the return address of the call.
OnTriggerEntered(t) ==
    /\ Hit(t) /\ DeferralAt(t) # None /\ DeferralAt(t).thread = None
    /\ count <= MaxId /\ count' = count + 1
    /\ bps' = [Disabled(event[t]) EXCEPT ![RetOf[DeferralAt(t).module]] = NewBreakpoint(@, count)]
    /\ deferred' = Rekeyed(t)
    /\ UNCHANGED <<unresolved, index, entries, coverage, stop_error, exited>>

\* PendingReturn on the thread of the call, or on another one.
RightThread(t, d) == d.thread = t

OnTriggerReturned(t) ==
    /\ Hit(t) /\ DeferralAt(t) # None /\ DeferralAt(t).thread # None
    /\ LET d == DeferralAt(t)
       IN  IF RightThread(t, d)
           THEN SetModuleBreakpoints(Disabled(event[t]), Undeferred(t), d.module)
           ELSE SetTrigger(Disabled(event[t]), Undeferred(t), d.module, d.thread)
    /\ UNCHANGED <<stop_error, exited>>

\* A coverage breakpoint is taken from the index and counted; an id that is
\* not in the index stops the recording and terminates the target.
Counted(s) == coverage \cup {s}

OnSite(t) ==
    LET id == bps[event[t]].id
    IN  /\ Hit(t) /\ DeferralAt(t) = None
        /\ IF index[id] # None
           THEN /\ coverage' = Counted(index[id])
                /\ index' = [index EXCEPT ![id] = None]
                /\ UNCHANGED <<stop_error, exited>>
           ELSE stop_error' = TRUE /\ exited' = TRUE /\ UNCHANGED <<coverage, index>>
        /\ bps' = Disabled(event[t])
        /\ UNCHANGED <<unresolved, count, deferred, entries>>

ExitProcess ==
    /\ ~exited /\ exited' = TRUE
    /\ UNCHANGED <<os, saw_initial_bp, loaded, bps, unresolved, count, recorder, history>>

Next ==
    \/ \E m \in Module : LoadDll(m) \/ UnloadDll(m)
    \/ InitialBreak \/ ExitProcess
    \/ \E t \in Thread : \/ Execute(t) \/ OnTriggerEntered(t)
                         \/ OnTriggerReturned(t) \/ OnSite(t)

Spec == Init /\ [][Next]_vars

-----------------------------------------------------------------------------
(* Properties.                                                             *)

\* As long as the recording is valid, every block executed in a module after
\* its breakpoints were set and before the module is unloaded is counted, and
\* stays so, whichever threads reach it and however often it changes its id.
\* A library that is loaded again gets no breakpoints (insert_module skips a
\* module it has): what it executes for the first time then is not counted.
ExecutedIsCounted == ~stop_error => executed \subseteq coverage

\* windows.rs: "This avoids breaking hotpatching routines in the ASan
\* interceptor initializers."  No breakpoint of a module with a trigger
\* function, other than the trigger's own, is written while the call that
\* initialises the module has not come back.
NotInitializing ==
    \A m \in entries : Trigger[m] # None =>
        \A t \in Thread : \A i \in DOMAIN calls[t] :
            calls[t][i] = m => m \in returned \/ pc[t] = RetOf[m]

\* Every breakpoint that is written has an owner: a deferral or the index.
Owned == \A a \in Addr : (bps[a] # None /\ bps[a].applied) =>
            deferred[bps[a].id] # None \/ index[bps[a].id] # None
=============================================================================
