---------------------------- MODULE LinuxRecorder ----------------------------
(***************************************************************************)
(* The recording of block coverage on Linux (coverage/src/record/linux):   *)
(* a ptrace debugger puts a one-shot software breakpoint on every block of *)
(* every allowed module that the target maps, and counts the blocks whose  *)
(* breakpoint is hit.  The threads of the target run while the debugger    *)
(* handles the stop of one of them.  CoverageRecorder::record runs all     *)
(* this under a timer.                                                     *)
(***************************************************************************)
EXTENDS Naturals, FiniteSets

CONSTANTS
    Thread, Module, Base, Off,
    Blocks,     \* the offsets DebugInfoCache has for each module
    Allowed,    \* modules on the allowlist that can be loaded and debugged
    None,
    Reload,     \* may the target map a module where one has been?
    MaxMaps     \* bound on the mappings the target makes

RecorderAssumption ==
    /\ Blocks \in [Module -> SUBSET Off] /\ Allowed \subseteq Module
    /\ None \notin Module \cup Thread /\ MaxMaps \in Nat \ {0} /\ Reload \in BOOLEAN

Addr == Base \X Off

VARIABLES
    mapped,    \* the module at each base address of the target
    ready,     \* bases whose mapping call has returned to the target
    used,      \* history: bases where a module has been mapped
    maps,      \* how many mappings the target has made
    int3,      \* addresses that hold the breakpoint instruction
    thread,    \* each thread: unborn, running, stopped (syscall, trap), off track, gone
    ip,        \* the address of the last trap of a thread
    images,    \* Images::mapped
    saved,     \* Breakpoints::saved
    coverage,  \* BinaryCoverage: the offsets reached of each module with an entry
    entries,   \* the modules that have an entry
    handling,  \* the thread whose breakpoint is being counted, or None
    pidSaved,  \* child_pid
    outcome,   \* the result of timer::timed
    executed,  \* history: blocks executed
    lost       \* history: blocks whose count was dropped, and that did not run since

target == <<mapped, ready, used, maps, int3, thread, ip>>
debugger == <<images, saved, coverage, entries, handling>>
history == <<executed, lost>>
vars == <<target, debugger, pidSaved, outcome, history>>

TypeOK ==
    /\ mapped \in [Base -> Module \cup {None}] /\ ready \subseteq Base /\ used \subseteq Base
    /\ maps \in 0..MaxMaps /\ int3 \subseteq Addr
    /\ thread \in [Thread -> {"unborn", "run", "syscall", "trap", "off_track", "gone"}]
    /\ ip \in [Thread -> Addr \cup {None}]
    /\ images \in [Base -> Module \cup {None}] /\ saved \subseteq Addr
    /\ coverage \in [Module -> SUBSET Off] /\ entries \subseteq Module
    /\ handling \in Thread \cup {None}
    /\ pidSaved \in BOOLEAN /\ outcome \in {"running", "done", "error", "timeout"}
    /\ executed \subseteq Module \X Off /\ lost \subseteq executed

\* The state at the first execve: the first thread is stopped and the
\* executable is mapped, not yet instrumented.
Init ==
    /\ \E m \in Module, b \in Base :
         mapped = [c \in Base |-> IF c = b THEN m ELSE None] /\ used = {b}
    /\ ready = {} /\ maps = 1 /\ int3 = {}
    /\ \E t \in Thread : thread = [u \in Thread |-> IF u = t THEN "syscall" ELSE "unborn"]
    /\ ip = [t \in Thread |-> None]
    /\ images = [b \in Base |-> None] /\ saved = {}
    /\ coverage = [m \in Module |-> {}] /\ entries = {}
    /\ handling = None /\ pidSaved = FALSE /\ outcome = "running"
    /\ executed = {} /\ lost = {}

-----------------------------------------------------------------------------
(* The target.  A thread executes a block of a module whose mapping call    *)
(* has returned: an int3 there stops it.                                    *)

Ran(m, o) == executed' = executed \cup {<<m, o>>} /\ lost' = lost \ {<<m, o>>}

Exec(t) ==
    /\ thread[t] = "run"
    /\ \E b \in ready : \E o \in Blocks[mapped[b]] :
         IF <<b, o>> \in int3
         THEN /\ thread' = [thread EXCEPT ![t] = "trap"]
              /\ ip' = [ip EXCEPT ![t] = <<b, o>>]
              /\ UNCHANGED history
         ELSE /\ Ran(mapped[b], o)
              /\ UNCHANGED <<thread, ip>>
    /\ UNCHANGED <<mapped, ready, used, maps, int3, debugger, pidSaved, outcome>>

\* mmap and munmap; the thread stops at the exit of the call.
Map(t) ==
    /\ thread[t] = "run" /\ maps < MaxMaps
    /\ \E b \in Base, m \in Module :
         /\ mapped[b] = None /\ \A c \in Base : mapped[c] # m
         /\ Reload \/ b \notin used
         /\ used' = used \cup {b}
         /\ mapped' = [mapped EXCEPT ![b] = m]
    /\ maps' = maps + 1
    /\ thread' = [thread EXCEPT ![t] = "syscall"]
    /\ UNCHANGED <<ready, int3, ip, debugger, pidSaved, outcome, history>>

Unmap(t) ==
    /\ thread[t] = "run"
    /\ \E b \in ready :
         /\ mapped' = [mapped EXCEPT ![b] = None]
         /\ ready' = ready \ {b}
         /\ int3' = {a \in int3 : a[1] # b}
    /\ thread' = [thread EXCEPT ![t] = "syscall"]
    /\ UNCHANGED <<used, maps, ip, debugger, pidSaved, outcome, history>>

Clone(t) ==
    /\ thread[t] = "run"
    /\ \E u \in Thread : thread[u] = "unborn" /\ thread' = [thread EXCEPT ![u] = "run"]
    /\ UNCHANGED <<mapped, ready, used, maps, int3, ip, debugger, pidSaved, outcome, history>>

\* The target exits: all its threads are gone.
Gone == [t \in Thread |-> IF thread[t] = "unborn" THEN "unborn" ELSE "gone"]

ExitGroup(t) ==
    /\ thread[t] = "run" /\ thread' = Gone
    /\ UNCHANGED <<mapped, ready, used, maps, int3, ip, debugger, pidSaved, outcome, history>>

-----------------------------------------------------------------------------
(* The debugger.                                                           *)

Idle == outcome \in {"running", "timeout"} /\ handling = None

\* Images::update: the executable, file-backed mappings of the target now,
\* grouped by file.
CurrentImages == mapped

\* LoadEvents::new: the images that are new at their base address.
LoadedImages == {b \in Base : CurrentImages[b] # None /\ images[b] # CurrentImages[b]}

\* find_image_for_addr
ImageAt(a) == images[a[1]]

\* The breakpoints do_on_module_load asks for: the blocks DebugInfoCache has
\* for an allowed module, at the image's base.
Sites(bases) == {a \in Addr : a[1] \in bases /\ a[2] \in Blocks[mapped[a[1]]]}

\* Breakpoints::set leaves an address alone that it has a saved byte for.
ToSet(addrs) == addrs \ saved

\* update_images at the exit of a syscall, with do_on_module_load for every
\* new image, then the restart of the thread.  A module that is mapped again
\* gets a new, empty entry in the place of the one that it had.
UpdateImages(t) ==
    LET new == {b \in LoadedImages : mapped[b] \in Allowed}
        bps == ToSet(Sites(new))
        mods == {mapped[b] : b \in new}
    IN  /\ Idle /\ thread[t] = "syscall"
        /\ images' = CurrentImages
        /\ saved' = saved \cup bps /\ int3' = int3 \cup bps
        /\ entries' = entries \cup mods
        /\ coverage' = [m \in Module |-> IF m \in mods THEN {} ELSE coverage[m]]
        /\ lost' = lost \cup {e \in executed : e[1] \in mods /\ e[2] \in coverage[e[1]]}
        /\ ready' = {b \in Base : mapped[b] # None
                         /\ (b \in ready \/ ~ \E u \in Thread \ {t} : thread[u] = "syscall")}
        /\ thread' = [thread EXCEPT ![t] = "run"]
        /\ UNCHANGED <<mapped, used, maps, ip, handling, pidSaved, outcome, executed>>

\* An error of the debugger ends the recording and kills the child.
DebuggerError ==
    /\ thread' = Gone
    /\ outcome' = IF outcome = "running" THEN "error" ELSE outcome

\* Breakpoints::clear forgets the saved byte.
Forget(a) == saved \ {a}

\* restore_and_call_if_breakpoint: clear restores the instruction and the
\* thread will execute it; a trap without a saved byte leaves the registers
\* behind the breakpoint instruction.
Trap(t) ==
    /\ Idle /\ thread[t] = "trap"
    /\ IF ip[t] \in saved
       THEN /\ saved' = Forget(ip[t])
            /\ IF mapped[ip[t][1]] = None
               THEN DebuggerError /\ UNCHANGED <<int3, handling>>
               ELSE /\ int3' = int3 \ {ip[t]} /\ handling' = t
                    /\ UNCHANGED <<thread, outcome>>
       ELSE /\ thread' = [thread EXCEPT ![t] = "off_track"]
            /\ UNCHANGED <<saved, int3, handling, outcome>>
    /\ UNCHANGED <<mapped, ready, used, maps, ip, images, coverage, entries, pidSaved, history>>

Increment(m, o) == [coverage EXCEPT ![m] = @ \cup {o}]

\* do_on_breakpoint, and the restart of the thread at the restored instruction, which
\* executes only if another thread has not unmapped it in the meantime.
OnBreakpoint(t) ==
    LET image == ImageAt(ip[t])
        o == ip[t][2]
    IN  /\ handling = t /\ handling' = None
        /\ IF image # None /\ image \in entries
           THEN /\ coverage' = Increment(image, o)
                /\ thread' = [thread EXCEPT ![t] = IF @ = "gone" THEN @ ELSE "run"]
                /\ IF mapped[ip[t][1]] = image THEN Ran(image, o) ELSE UNCHANGED history
                /\ UNCHANGED outcome
           ELSE DebuggerError /\ UNCHANGED <<coverage, history>>
        /\ UNCHANGED <<mapped, ready, used, maps, int3, ip, images, saved, entries, pidSaved>>

\* wait returns when no tracee is left.
WaitDone ==
    /\ Idle /\ outcome = "running"
    /\ \A t \in Thread : thread[t] \in {"unborn", "gone"}
    /\ outcome' = "done"
    /\ UNCHANGED <<target, debugger, pidSaved, history>>

-----------------------------------------------------------------------------
(* The timer of CoverageRecorder::record.                                   *)

SavePid ==
    /\ ~pidSaved /\ outcome \in {"running", "timeout"} /\ pidSaved' = TRUE
    /\ UNCHANGED <<target, debugger, outcome, history>>

Killed == IF pidSaved THEN Gone ELSE thread

\* On a timeout record kills the child, if the worker has saved its pid; the
\* worker thread goes on with the stops that are left.
Timeout ==
    /\ outcome = "running" /\ outcome' = "timeout"
    /\ thread' = Killed
    /\ UNCHANGED <<mapped, ready, used, maps, int3, ip, debugger, pidSaved, history>>

Next ==
    \/ \E t \in Thread : \/ Exec(t) \/ Map(t) \/ Unmap(t) \/ Clone(t) \/ ExitGroup(t)
                         \/ UpdateImages(t) \/ Trap(t) \/ OnBreakpoint(t)
    \/ WaitDone \/ SavePid \/ Timeout

Spec == Init /\ [][Next]_vars

-----------------------------------------------------------------------------
(* Properties.                                                             *)

Mapped(m) == \E b \in ready : mapped[b] = m

\* Whatever the threads do, a block of an instrumented module that has been
\* executed is counted: its breakpoint is cleared only by the stop that counts
\* it, even though other threads run into the restored instruction before the
\* debugger has done so, and the count outlives the module.  Only when the module is
\* mapped again are the counts of the earlier mapping dropped (do_on_module_load).
ExecutedIsCounted ==
    \A e \in executed \ lost :
        e[1] \in entries => \/ e[2] \in coverage[e[1]]
                            \/ handling # None /\ ip[handling][2] = e[2]

\* Nothing else is counted: a counted block of a module that is mapped has been executed,
\* and since its last mapping.
CountedIsExecuted ==
    \A m \in entries : Mapped(m) => coverage[m] \subseteq {o \in Off : <<m, o>> \in executed \ lost}

\* debugger.rs, Breakpoints::set: "Return if the breakpoint exists."  An address
\* with a saved byte that is mapped holds the breakpoint instruction.
SavedIsSet == \A a \in saved : a[1] \in ready => a \in int3
=============================================================================
