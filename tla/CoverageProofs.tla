---------------------------- MODULE CoverageProofs ----------------------------
(***************************************************************************)
(* For any threads, modules, blocks and addresses the recorders count what  *)
(* is executed, for any code its blocks are exact, for any files a report   *)
(* has their lines, for any options a command is what it is meant to be,    *)
(* and for any segments a blob is read back from its URL.                   *)
(* Each part of MCCoverage has an inductive invariant of its own: LinuxInv, *)
(* WinInv, SweepInv, SourceInv, ExpandInv and UrlInv.  A block is counted,  *)
(* or its breakpoint is set, or its stop is being handled: which of the     *)
(* three holds says where every step of the debugger may leave a block.     *)
(***************************************************************************)
EXTENDS MCCoverage, Integers, FiniteSetTheorems, SequenceTheorems, WellFoundedInduction, TLAPS

-----------------------------------------------------------------------------
(* The Linux recorder.                                                      *)

\* A block that was reached is counted, or its stop is being handled.
Counting(b, o) ==
    o \in coverage[mapped[b]] \/ (handling # None /\ ip[handling] = <<b, o>>)

\* What is mapped where, and what the recorder knows of it: its images are those of the
\* last system call, and no base address is used twice.
LinuxMaps(cfg) ==
    /\ \A b \in cfg.Base : mapped[b] # None \/ images[b] # None => b \in used
    /\ \A b \in ready : mapped[b] # None /\ images[b] = mapped[b]
    /\ \A b \in cfg.Base : images[b] # None => mapped[b] = images[b] \/ mapped[b] = None
    /\ \A b, c \in cfg.Base : mapped[b] = mapped[c] /\ mapped[b] # None => b = c
    /\ \A b, c \in cfg.Base : images[b] = images[c] /\ images[b] # None => b = c

\* A saved byte in a module that is mapped is that of a breakpoint.
LinuxSaved(cfg) ==
    \A a \in saved : /\ a[1] \in used
                     /\ mapped[a[1]] # None => images[a[1]] = mapped[a[1]] /\ a \in int3

\* Every block of an instrumented module has its breakpoint or is counted, and what is
\* counted was executed.
LinuxBlocks(cfg) ==
    /\ entries \subseteq cfg.Allowed
    /\ \A b \in cfg.Base : images[b] = mapped[b] /\ mapped[b] \in cfg.Allowed =>
         /\ mapped[b] \in entries
         /\ \A o \in cfg.Blocks[mapped[b]] : <<b, o>> \in int3 \/ Counting(b, o)
         /\ \A o \in coverage[mapped[b]] : <<mapped[b], o>> \in executed \ lost

\* What was executed is in a module that the recorder has seen, and is counted, being
\* counted or dropped with the counts of an earlier mapping.
Noted(m, o) ==
    o \in coverage[m] \/ (handling # None /\ ip[handling][2] = o /\ images[ip[handling][1]] = m)

LinuxExecuted(cfg) ==
    \A e \in executed : e[1] \in cfg.Allowed =>
        e[1] \in entries /\ (e \in lost \/ Noted(e[1], e[2]))

LinuxInv(cfg) ==
    /\ Linux(cfg)!TypeOK
    /\ handling # None => thread[handling] \in {"trap", "gone"} /\ ip[handling] \in Linux(cfg)!Addr
    /\ LinuxMaps(cfg) /\ LinuxSaved(cfg) /\ LinuxBlocks(cfg) /\ LinuxExecuted(cfg)

\* Only the executable is mapped, and nothing is known of it.
LEMMA LinuxInit ==
    ASSUME NEW cfg, Linux(cfg)!RecorderAssumption, Linux(cfg)!Init
    PROVE  LinuxInv(cfg)
<1>1. PICK m \in cfg.Module, b \in cfg.Base :
        mapped = [c \in cfg.Base |-> IF c = b THEN m ELSE None] /\ used = {b}
  BY DEF Linux!Init
<1>2. PICK t \in cfg.Thread : thread = [u \in cfg.Thread |-> IF u = t THEN "syscall" ELSE "unborn"]
  BY DEF Linux!Init
<1>3. Linux(cfg)!TypeOK
  <2>1. 1 \in 0..cfg.MaxMaps
    BY DEF Linux!RecorderAssumption
  <2>2. mapped \in [cfg.Base -> cfg.Module \cup {None}] /\ used \subseteq cfg.Base
    BY <1>1
  <2>3. thread \in [cfg.Thread -> {"unborn", "run", "syscall", "trap", "off_track", "gone"}]
    BY <1>2
  <2>4. /\ ip \in [cfg.Thread -> Linux(cfg)!Addr \cup {None}]
        /\ images \in [cfg.Base -> cfg.Module \cup {None}]
        /\ coverage \in [cfg.Module -> SUBSET cfg.Off]
    BY DEF Linux!Init
  <2> QED
    BY <2>1, <2>2, <2>3, <2>4 DEF Linux!Init, Linux!TypeOK
<1> QED
  BY <1>1, <1>3 DEF Linux!Init, LinuxInv, LinuxMaps, LinuxSaved, LinuxBlocks, LinuxExecuted,
     Linux!RecorderAssumption

\* The target: executions, mappings, threads and exits.
LEMMA LinuxTargetSteps ==
    ASSUME NEW cfg, Linux(cfg)!RecorderAssumption, ~cfg.Reload, LinuxInv(cfg), NEW t \in cfg.Thread,
           \/ Linux(cfg)!Exec(t) \/ Linux(cfg)!Map(t) \/ Linux(cfg)!Unmap(t)
           \/ Linux(cfg)!Clone(t) \/ Linux(cfg)!ExitGroup(t)
    PROVE  LinuxInv(cfg)'
<1> USE DEF LinuxInv, Counting
<1>a. /\ mapped \in [cfg.Base -> cfg.Module \cup {None}] /\ images \in [cfg.Base -> cfg.Module \cup {None}]
      /\ ready \subseteq cfg.Base /\ None \notin cfg.Module
      /\ thread \in [cfg.Thread -> {"unborn", "run", "syscall", "trap", "off_track", "gone"}]
  BY DEF Linux!TypeOK, Linux!RecorderAssumption
<1>1. CASE Linux(cfg)!Exec(t)
  <2>1. PICK b \in ready : \E o \in cfg.Blocks[mapped[b]] :
          IF <<b, o>> \in int3
          THEN /\ thread' = [thread EXCEPT ![t] = "trap"]
               /\ ip' = [ip EXCEPT ![t] = <<b, o>>]
               /\ UNCHANGED <<executed, lost>>
          ELSE /\ executed' = executed \cup {<<mapped[b], o>>} /\ lost' = lost \ {<<mapped[b], o>>}
               /\ UNCHANGED <<thread, ip>>
    BY <1>1 DEF Linux!Exec, Linux!Ran, Linux!history
  <2>2. PICK o \in cfg.Blocks[mapped[b]] :
          IF <<b, o>> \in int3
          THEN /\ thread' = [thread EXCEPT ![t] = "trap"]
               /\ ip' = [ip EXCEPT ![t] = <<b, o>>]
               /\ UNCHANGED <<executed, lost>>
          ELSE /\ executed' = executed \cup {<<mapped[b], o>>} /\ lost' = lost \ {<<mapped[b], o>>}
               /\ UNCHANGED <<thread, ip>>
    BY <2>1
  <2>3. /\ thread[t] = "run"
        /\ UNCHANGED <<mapped, ready, used, maps, int3, images, saved, coverage, entries, handling,
                       pidSaved, outcome>>
    BY <1>1 DEF Linux!Exec, Linux!debugger
  <2>4. mapped[b] # None /\ mapped[b] \in cfg.Module /\ images[b] = mapped[b] /\ b \in cfg.Base
    BY <1>a DEF LinuxMaps
  <2>5. o \in cfg.Off /\ <<b, o>> \in Linux(cfg)!Addr
    BY <2>4 DEF Linux!RecorderAssumption, Linux!Addr
  <2>6. Linux(cfg)!TypeOK'
    BY <2>2, <2>3, <2>4, <2>5 DEF Linux!TypeOK, Linux!Addr
  <2>7. handling # t /\ handling' = handling
    BY <2>3 DEF Linux!RecorderAssumption
  <2>8. handling # None => ip'[handling] = ip[handling] /\ thread'[handling] = thread[handling]
    BY <2>2, <2>7 DEF Linux!TypeOK
  <2>9. LinuxMaps(cfg)' /\ LinuxSaved(cfg)'
    BY <2>3 DEF LinuxMaps, LinuxSaved
  <2>10. executed \subseteq executed' /\ lost' \subseteq lost /\ LinuxBlocks(cfg)'
    BY <2>2, <2>3, <2>8 DEF LinuxBlocks
  <2>11. LinuxExecuted(cfg)'
    <3> SUFFICES ASSUME NEW e \in executed', e[1] \in cfg.Allowed
                 PROVE  e[1] \in entries /\ (e \in lost' \/ Noted(e[1], e[2])')
      BY <2>3 DEF LinuxExecuted
    <3>1. CASE e \in executed /\ (e \in lost => e \in lost')
      BY <2>3, <2>8, <3>1 DEF LinuxExecuted, Noted
    <3>2. CASE ~(e \in executed /\ (e \in lost => e \in lost'))
      <4>1. <<b, o>> \notin int3 /\ e = <<mapped[b], o>>
        BY <2>2, <3>2
      <4>2. mapped[b] \in entries /\ Counting(b, o)
        BY <2>4, <4>1 DEF LinuxBlocks
      <4> QED
        BY <2>3, <2>4, <2>8, <4>1, <4>2 DEF Noted
    <3> QED
      BY <3>1, <3>2
  <2> QED
    BY <2>3, <2>6, <2>8, <2>9, <2>10, <2>11 DEF Linux!Addr
<1>2. CASE Linux(cfg)!Map(t)
  <2>1. PICK b \in cfg.Base, m \in cfg.Module :
          /\ mapped[b] = None /\ \A c \in cfg.Base : mapped[c] # m
          /\ cfg.Reload \/ b \notin used
          /\ used' = used \cup {b}
          /\ mapped' = [mapped EXCEPT ![b] = m]
    BY <1>2 DEF Linux!Map
  <2>2. /\ thread[t] = "run" /\ maps < cfg.MaxMaps /\ maps' = maps + 1
        /\ thread' = [thread EXCEPT ![t] = "syscall"]
        /\ UNCHANGED <<ready, int3, ip, images, saved, coverage, entries, handling, pidSaved, outcome,
                       executed, lost>>
    BY <1>2 DEF Linux!Map, Linux!debugger, Linux!history
  <2>3. Linux(cfg)!TypeOK'
    BY <2>1, <2>2 DEF Linux!TypeOK, Linux!RecorderAssumption, Linux!Addr
  <2>4. b \notin used /\ images[b] = None /\ b \notin ready /\ m # None
    BY <2>1, <1>a DEF LinuxMaps
  <2>5. /\ mapped'[b] = m /\ \A c \in cfg.Base : c # b => mapped'[c] = mapped[c]
    BY <2>1, <1>a
  <2>6. handling # None => thread'[handling] = thread[handling]
    BY <2>2 DEF Linux!TypeOK
  <2>7. LinuxMaps(cfg)'
    BY <2>1, <2>2, <2>4, <2>5, <1>a DEF LinuxMaps
  <2>8. LinuxSaved(cfg)'
    BY <2>1, <2>2, <2>4, <2>5 DEF LinuxSaved, Linux!TypeOK, Linux!Addr
  <2>9. LinuxBlocks(cfg)'
    BY <2>1, <2>2, <2>4, <2>5 DEF LinuxBlocks
  <2>10. LinuxExecuted(cfg)'
    BY <2>2 DEF LinuxExecuted, Noted
  <2> QED
    BY <2>2, <2>3, <2>6, <2>7, <2>8, <2>9, <2>10 DEF Linux!Addr
<1>3. CASE Linux(cfg)!Unmap(t)
  <2>1. PICK b \in ready :
          /\ mapped' = [mapped EXCEPT ![b] = None]
          /\ ready' = ready \ {b}
          /\ int3' = {a \in int3 : a[1] # b}
    BY <1>3 DEF Linux!Unmap
  <2>2. /\ thread[t] = "run" /\ thread' = [thread EXCEPT ![t] = "syscall"]
        /\ UNCHANGED <<used, maps, ip, images, saved, coverage, entries, handling, pidSaved, outcome,
                       executed, lost>>
    BY <1>3 DEF Linux!Unmap, Linux!debugger, Linux!history
  <2>3. Linux(cfg)!TypeOK'
    BY <2>1, <2>2 DEF Linux!TypeOK, Linux!Addr
  <2>4. b \in cfg.Base /\ mapped'[b] = None /\ \A c \in cfg.Base : c # b => mapped'[c] = mapped[c]
    BY <2>1, <1>a
  <2>5. handling # None => thread'[handling] = thread[handling]
    BY <2>2 DEF Linux!TypeOK
  <2>6. LinuxMaps(cfg)'
    BY <2>1, <2>2, <2>4, <1>a DEF LinuxMaps
  <2>7. LinuxSaved(cfg)'
    BY <2>1, <2>2, <2>4 DEF LinuxSaved, Linux!TypeOK, Linux!Addr
  <2>8. LinuxBlocks(cfg)'
    <3> SUFFICES ASSUME NEW c \in cfg.Base, images[c] = mapped'[c], mapped'[c] \in cfg.Allowed
                 PROVE  /\ mapped'[c] \in entries
                        /\ \A o \in cfg.Blocks[mapped'[c]] : <<c, o>> \in int3' \/ Counting(c, o)'
                        /\ \A o \in coverage[mapped'[c]] : <<mapped'[c], o>> \in executed \ lost
      BY <2>2 DEF LinuxBlocks
    <3>1. c # b /\ mapped'[c] = mapped[c]
      BY <2>4, <1>a DEF Linux!RecorderAssumption
    <3> QED
      BY <2>1, <2>2, <3>1 DEF LinuxBlocks
  <2>9. LinuxExecuted(cfg)'
    BY <2>2 DEF LinuxExecuted, Noted
  <2> QED
    BY <2>2, <2>3, <2>5, <2>6, <2>7, <2>8, <2>9 DEF Linux!Addr
<1>4. CASE Linux(cfg)!Clone(t) \/ Linux(cfg)!ExitGroup(t)
  <2>1. /\ UNCHANGED <<mapped, ready, used, maps, int3, ip, images, saved, coverage, entries, handling,
                       pidSaved, outcome, executed, lost>>
        /\ thread' \in [cfg.Thread -> {"unborn", "run", "syscall", "trap", "off_track", "gone"}]
        /\ \A u \in cfg.Thread : thread[u] \in {"trap", "gone"} => thread'[u] \in {"trap", "gone"}
    BY <1>4, <1>a DEF Linux!Clone, Linux!ExitGroup, Linux!Gone, Linux!debugger, Linux!history
  <2> QED
    BY <2>1 DEF Linux!TypeOK, LinuxMaps, LinuxSaved, LinuxBlocks, LinuxExecuted, Noted, Linux!Addr
<1> QED
  BY <1>1, <1>2, <1>3, <1>4

\* The debugger after a system call: the new images get their breakpoints.
LEMMA LinuxUpdate ==
    ASSUME NEW cfg, Linux(cfg)!RecorderAssumption, ~cfg.Reload, LinuxInv(cfg), NEW t \in cfg.Thread,
           Linux(cfg)!UpdateImages(t)
    PROVE  LinuxInv(cfg)'
<1> USE DEF LinuxInv, Counting
<1> DEFINE new == {b \in Linux(cfg)!LoadedImages : mapped[b] \in cfg.Allowed}
           bpset == Linux(cfg)!ToSet(Linux(cfg)!Sites(new))
           mods == {mapped[b] : b \in new}
<1>a. /\ mapped \in [cfg.Base -> cfg.Module \cup {None}] /\ images \in [cfg.Base -> cfg.Module \cup {None}]
      /\ ready \subseteq cfg.Base /\ None \notin cfg.Module /\ cfg.Allowed \subseteq cfg.Module
      /\ coverage \in [cfg.Module -> SUBSET cfg.Off] /\ saved \subseteq Linux(cfg)!Addr
      /\ None \notin cfg.Thread
  BY DEF Linux!TypeOK, Linux!RecorderAssumption
<1>1. /\ handling = None /\ thread[t] = "syscall" /\ images' = mapped
      /\ saved' = saved \cup bpset /\ int3' = int3 \cup bpset /\ entries' = entries \cup mods
      /\ coverage' = [m \in cfg.Module |-> IF m \in mods THEN {} ELSE coverage[m]]
      /\ ready' = {b \in cfg.Base : mapped[b] # None
                       /\ (b \in ready \/ ~ \E u \in cfg.Thread \ {t} : thread[u] = "syscall")}
      /\ thread' = [thread EXCEPT ![t] = "run"]
      /\ lost' = lost \cup {e \in executed : e[1] \in mods /\ e[2] \in coverage[e[1]]}
      /\ UNCHANGED <<mapped, used, maps, ip, handling, pidSaved, outcome, executed>>
  BY DEF Linux!UpdateImages, Linux!CurrentImages, Linux!Idle
<1>2. new \subseteq cfg.Base /\ \A b \in new : mapped[b] \in cfg.Allowed /\ images[b] # mapped[b]
  BY DEF Linux!LoadedImages, Linux!CurrentImages
<1>3. \A b \in cfg.Base : mapped[b] \in cfg.Allowed /\ images[b] # mapped[b] => b \in new
  BY <1>a DEF Linux!LoadedImages, Linux!CurrentImages
<1>4. \A b \in new : images[b] = None
  BY <1>2, <1>a DEF LinuxMaps
<1>5. \A a \in saved : a[1] \notin new
  BY <1>2, <1>a DEF LinuxSaved, Linux!Addr
<1>6. /\ bpset \subseteq Linux(cfg)!Addr /\ \A a \in bpset : a[1] \in new
      /\ \A b \in new : \A o \in cfg.Blocks[mapped[b]] : <<b, o>> \in bpset
  <2>1. \A b \in new : \A o \in cfg.Blocks[mapped[b]] :
          <<b, o>> \in Linux(cfg)!Addr /\ <<b, o>>[1] = b /\ <<b, o>>[2] = o
    BY <1>2, <1>a DEF Linux!Addr, Linux!RecorderAssumption
  <2> QED
    BY <1>5, <2>1 DEF Linux!ToSet, Linux!Sites
<1>7. mods \subseteq cfg.Allowed /\ mods \subseteq cfg.Module
  BY <1>2, <1>a
<1>8. \A b \in cfg.Base : b \notin new => mapped[b] \notin mods
  BY <1>2, <1>a DEF LinuxMaps
<1>9. Linux(cfg)!TypeOK'
  <2>1. coverage' \in [cfg.Module -> SUBSET cfg.Off]
    BY <1>1, <1>a
  <2> QED
    BY <1>1, <1>6, <1>7, <2>1 DEF Linux!TypeOK, Linux!Addr
<1>10. LinuxMaps(cfg)'
  BY <1>1, <1>a DEF LinuxMaps
<1>11. LinuxSaved(cfg)'
  BY <1>1, <1>2, <1>6, <1>a DEF LinuxSaved, LinuxMaps
<1>12. LinuxBlocks(cfg)'
  <2>1. entries' \subseteq cfg.Allowed
    BY <1>1, <1>7 DEF LinuxBlocks
  <2>2. ASSUME NEW b \in cfg.Base, mapped[b] \in cfg.Allowed
        PROVE  /\ mapped[b] \in entries'
               /\ \A o \in cfg.Blocks[mapped[b]] : <<b, o>> \in int3' \/ Counting(b, o)'
               /\ \A o \in coverage'[mapped[b]] : <<mapped[b], o>> \in executed' \ lost'
    <3>1. CASE b \in new
      <4>1. coverage'[mapped[b]] = {}
        BY <1>1, <1>a, <2>2, <3>1
      <4> QED
        BY <1>1, <1>6, <3>1, <4>1
    <3>2. CASE b \notin new
      <4>1. images[b] = mapped[b]
        BY <1>3, <2>2, <3>2
      <4>2. coverage'[mapped[b]] = coverage[mapped[b]]
        BY <1>1, <1>8, <1>a, <2>2, <3>2
      <4>3. \A o \in coverage[mapped[b]] : <<mapped[b], o>> \in executed' \ lost'
        <5>1. mapped[b] \notin mods /\ \A o \in coverage[mapped[b]] : <<mapped[b], o>> \in executed \ lost
          BY <1>8, <2>2, <3>2, <4>1 DEF LinuxBlocks
        <5> HIDE DEF mods
        <5> QED
          BY <1>1, <5>1
      <4> QED
        BY <1>1, <2>2, <4>1, <4>2, <4>3 DEF LinuxBlocks
    <3> QED
      BY <3>1, <3>2
  <2> QED
    BY <1>1, <2>1, <2>2 DEF LinuxBlocks
<1>13. LinuxExecuted(cfg)'
  <2> SUFFICES ASSUME NEW e \in executed, e[1] \in cfg.Allowed
               PROVE  e[1] \in entries' /\ (e \in lost' \/ e[2] \in coverage'[e[1]])
    BY <1>1 DEF LinuxExecuted, Noted
  <2>1. e[1] \in entries /\ (e \in lost \/ e[2] \in coverage[e[1]])
    BY <1>1 DEF LinuxExecuted, Noted
  <2> QED
    BY <1>1, <1>a, <2>1
<1> QED
  BY <1>1, <1>9, <1>10, <1>11, <1>12, <1>13

\* A stop: the breakpoint is taken out, and counted in a step of its own.
LEMMA LinuxStops ==
    ASSUME NEW cfg, Linux(cfg)!RecorderAssumption, ~cfg.Reload, LinuxInv(cfg), NEW t \in cfg.Thread,
           Linux(cfg)!Trap(t) \/ Linux(cfg)!OnBreakpoint(t)
    PROVE  LinuxInv(cfg)'
<1> USE DEF LinuxInv, Counting
<1>a. /\ mapped \in [cfg.Base -> cfg.Module \cup {None}] /\ images \in [cfg.Base -> cfg.Module \cup {None}]
      /\ ready \subseteq cfg.Base /\ None \notin cfg.Module /\ cfg.Allowed \subseteq cfg.Module
      /\ coverage \in [cfg.Module -> SUBSET cfg.Off] /\ saved \subseteq Linux(cfg)!Addr
      /\ None \notin cfg.Thread /\ handling \in cfg.Thread \cup {None}
      /\ thread \in [cfg.Thread -> {"unborn", "run", "syscall", "trap", "off_track", "gone"}]
      /\ executed \subseteq cfg.Module \X cfg.Off /\ lost \subseteq executed
  BY DEF Linux!TypeOK, Linux!RecorderAssumption
<1>g. /\ Linux(cfg)!Gone \in [cfg.Thread -> {"unborn", "run", "syscall", "trap", "off_track", "gone"}]
      /\ \A u \in cfg.Thread : thread[u] \in {"trap", "gone"} => Linux(cfg)!Gone[u] \in {"trap", "gone"}
  BY <1>a DEF Linux!Gone
<1>1. CASE Linux(cfg)!Trap(t)
  <2>1. /\ handling = None /\ thread[t] = "trap"
        /\ UNCHANGED <<mapped, ready, used, maps, ip, images, coverage, entries, pidSaved, executed, lost>>
    BY <1>1 DEF Linux!Trap, Linux!Idle, Linux!history
  <2>2. CASE ip[t] \notin saved
    <3>1. thread' = [thread EXCEPT ![t] = "off_track"] /\ UNCHANGED <<saved, int3, handling, outcome>>
      BY <1>1, <2>2 DEF Linux!Trap
    <3> QED
      BY <2>1, <3>1 DEF Linux!TypeOK, LinuxMaps, LinuxSaved, LinuxBlocks, LinuxExecuted, Noted
  <2>3. CASE ip[t] \in saved /\ mapped[ip[t][1]] = None
    <3>1. saved' = saved \ {ip[t]} /\ Linux(cfg)!DebuggerError /\ UNCHANGED <<int3, handling>>
      BY <1>1, <2>3 DEF Linux!Trap, Linux!Forget
    <3>2. thread' = Linux(cfg)!Gone /\ outcome' \in {outcome, "error"}
      BY <3>1 DEF Linux!DebuggerError
    <3> QED
      BY <2>1, <3>1, <3>2, <1>g DEF Linux!TypeOK, LinuxMaps, LinuxSaved, LinuxBlocks, LinuxExecuted, Noted
  <2>4. CASE ip[t] \in saved /\ mapped[ip[t][1]] # None
    <3>1. /\ saved' = saved \ {ip[t]} /\ int3' = int3 \ {ip[t]} /\ handling' = t
          /\ UNCHANGED <<thread, outcome>>
      BY <1>1, <2>4 DEF Linux!Trap, Linux!Forget
    <3>2. Linux(cfg)!TypeOK'
      BY <2>1, <3>1 DEF Linux!TypeOK
    <3>3. LinuxMaps(cfg)' /\ LinuxSaved(cfg)'
      BY <2>1, <3>1 DEF LinuxMaps, LinuxSaved
    <3>4. LinuxBlocks(cfg)' /\ LinuxExecuted(cfg)'
      BY <2>1, <3>1, <1>a DEF LinuxBlocks, LinuxExecuted, Noted
    <3> QED
      BY <2>1, <2>4, <3>1, <3>2, <3>3, <3>4, <1>a DEF Linux!Addr
  <2> QED
    BY <2>2, <2>3, <2>4
<1>2. CASE Linux(cfg)!OnBreakpoint(t)
  <2> DEFINE image == images[ip[t][1]]
             o == ip[t][2]
  <2>1. /\ handling = t /\ handling' = None
        /\ UNCHANGED <<mapped, ready, used, maps, int3, ip, images, saved, entries, pidSaved>>
    BY <1>2 DEF Linux!OnBreakpoint
  <2>2. ip[t] \in Linux(cfg)!Addr /\ ip[t] = <<ip[t][1], o>> /\ ip[t][1] \in cfg.Base /\ o \in cfg.Off
    BY <2>1, <1>a DEF Linux!Addr
  <2>3. LinuxMaps(cfg)' /\ LinuxSaved(cfg)'
    BY <2>1 DEF LinuxMaps, LinuxSaved
  <2>4. CASE image # None /\ image \in entries
    <3>1. /\ coverage' = [coverage EXCEPT ![image] = @ \cup {o}]
          /\ thread' = [thread EXCEPT ![t] = IF @ = "gone" THEN @ ELSE "run"]
          /\ executed' = IF mapped[ip[t][1]] = image THEN executed \cup {<<image, o>>} ELSE executed
          /\ lost' = IF mapped[ip[t][1]] = image THEN lost \ {<<image, o>>} ELSE lost
          /\ UNCHANGED outcome
      BY <1>2, <2>4 DEF Linux!OnBreakpoint, Linux!ImageAt, Linux!Increment, Linux!Ran, Linux!history
    <3>2. image \in cfg.Module
      BY <2>2, <2>4, <1>a
    <3>3. /\ coverage' \in [cfg.Module -> SUBSET cfg.Off]
          /\ coverage'[image] = coverage[image] \cup {o}
          /\ \A m \in cfg.Module : m # image => coverage'[m] = coverage[m]
      BY <3>1, <3>2, <2>2, <1>a
    <3>4. Linux(cfg)!TypeOK'
      BY <2>1, <2>2, <3>1, <3>2, <3>3 DEF Linux!TypeOK
    <3>5. LinuxBlocks(cfg)'
      <4> SUFFICES ASSUME NEW b \in cfg.Base, images[b] = mapped[b], mapped[b] \in cfg.Allowed
                   PROVE  /\ \A p \in cfg.Blocks[mapped[b]] : <<b, p>> \in int3 \/ p \in coverage'[mapped[b]]
                          /\ \A p \in coverage'[mapped[b]] : <<mapped[b], p>> \in executed' \ lost'
        BY <2>1 DEF LinuxBlocks
      <4>1. /\ \A p \in cfg.Blocks[mapped[b]] : <<b, p>> \in int3 \/ p \in coverage[mapped[b]] \/ ip[t] = <<b, p>>
            /\ \A p \in coverage[mapped[b]] : <<mapped[b], p>> \in executed \ lost
        BY <2>1 DEF LinuxBlocks
      <4>2. CASE b = ip[t][1]
        BY <2>2, <3>1, <3>3, <4>1, <4>2
      <4>3. CASE b # ip[t][1]
        <5>1. mapped[b] # image
          BY <2>2, <2>4, <4>3 DEF LinuxMaps
        <5> QED
          BY <2>2, <3>1, <3>3, <4>1, <4>3, <5>1, <1>a
      <4> QED
        BY <4>2, <4>3
    <3>6. LinuxExecuted(cfg)'
      <4> SUFFICES ASSUME NEW e \in executed', e[1] \in cfg.Allowed
                   PROVE  e[1] \in entries /\ (e \in lost' \/ e[2] \in coverage'[e[1]])
        BY <2>1 DEF LinuxExecuted, Noted
      <4>1. CASE e = <<image, o>>
        BY <2>4, <3>3, <4>1
      <4>2. CASE e # <<image, o>>
        <5>1. e \in executed /\ (e \in lost => e \in lost') /\ e = <<e[1], e[2]>> /\ e[1] \in cfg.Module
          BY <3>1, <4>2, <1>a
        <5>2. /\ e[1] \in entries
              /\ e \in lost \/ e[2] \in coverage[e[1]] \/ (o = e[2] /\ image = e[1])
          BY <2>1, <5>1 DEF LinuxExecuted, Noted
        <5>3. e[2] \in coverage[e[1]] => e[2] \in coverage'[e[1]]
          BY <3>3, <5>1
        <5> QED
          BY <4>2, <5>1, <5>2, <5>3
      <4> QED
        BY <4>1, <4>2
    <3> QED
      BY <2>1, <2>3, <3>4, <3>5, <3>6
  <2>5. CASE ~(image # None /\ image \in entries)
    <3>1. Linux(cfg)!DebuggerError /\ UNCHANGED <<coverage, executed, lost>>
      BY <1>2, <2>5 DEF Linux!OnBreakpoint, Linux!ImageAt, Linux!history
    <3>2. thread' = Linux(cfg)!Gone /\ outcome' \in {outcome, "error"}
      BY <3>1 DEF Linux!DebuggerError
    <3>3. Linux(cfg)!TypeOK'
      BY <2>1, <3>1, <3>2, <1>g DEF Linux!TypeOK
    <3>4. \A b \in cfg.Base : images[b] = mapped[b] /\ mapped[b] \in cfg.Allowed => \A p : ip[t] # <<b, p>>
      BY <2>2, <2>5, <1>a DEF LinuxBlocks
    <3>5. LinuxBlocks(cfg)'
      BY <2>1, <3>1, <3>4 DEF LinuxBlocks
    <3>6. LinuxExecuted(cfg)'
      BY <2>1, <2>5, <3>1, <1>a DEF LinuxExecuted, Noted, Linux!RecorderAssumption
    <3> QED
      BY <2>1, <2>3, <3>3, <3>5, <3>6
  <2> QED
    BY <2>4, <2>5
<1> QED
  BY <1>1, <1>2

\* The end of the target, and the timer.
LEMMA LinuxEnds ==
    ASSUME NEW cfg, LinuxInv(cfg),
           Linux(cfg)!WaitDone \/ Linux(cfg)!SavePid \/ Linux(cfg)!Timeout
    PROVE  LinuxInv(cfg)'
<1> USE DEF LinuxInv, Counting
<1>1. /\ UNCHANGED <<mapped, ready, used, maps, int3, ip, images, saved, coverage, entries, handling,
                     executed, lost>>
      /\ pidSaved' \in BOOLEAN /\ outcome' \in {"running", "done", "error", "timeout"}
      /\ thread' \in {thread, Linux(cfg)!Gone}
  BY DEF Linux!WaitDone, Linux!SavePid, Linux!Timeout, Linux!Killed, Linux!target, Linux!debugger,
     Linux!history, Linux!TypeOK
<1>2. thread' \in [cfg.Thread -> {"unborn", "run", "syscall", "trap", "off_track", "gone"}]
  BY <1>1 DEF Linux!TypeOK, Linux!Gone
<1>3. handling \in cfg.Thread \cup {None}
      /\ \A u \in cfg.Thread : thread[u] \in {"trap", "gone"} => thread'[u] \in {"trap", "gone"}
  BY <1>1 DEF Linux!Gone, Linux!TypeOK
<1>4. handling # None => thread'[handling] \in {"trap", "gone"}
  BY <1>3
<1> QED
  BY <1>1, <1>2, <1>4 DEF Linux!TypeOK, LinuxMaps, LinuxSaved, LinuxBlocks, LinuxExecuted, Noted, Linux!Addr

\* Every step of the recorder and its target.
LEMMA LinuxSteps ==
    ASSUME NEW cfg, Linux(cfg)!RecorderAssumption, ~cfg.Reload, LinuxInv(cfg), Linux(cfg)!Next
    PROVE  LinuxInv(cfg)'
BY LinuxTargetSteps, LinuxUpdate, LinuxStops, LinuxEnds DEF Linux!Next

\* What the invariant says of the properties.
LEMMA LinuxMeans ==
    ASSUME NEW cfg, Linux(cfg)!RecorderAssumption, LinuxInv(cfg)
    PROVE  /\ Linux(cfg)!TypeOK /\ Linux(cfg)!ExecutedIsCounted
           /\ Linux(cfg)!CountedIsExecuted /\ Linux(cfg)!SavedIsSet
<1> USE DEF LinuxInv, Counting
<1>a. ready \subseteq cfg.Base /\ coverage \in [cfg.Module -> SUBSET cfg.Off]
  BY DEF Linux!TypeOK
<1>1. Linux(cfg)!ExecutedIsCounted
  BY <1>a DEF Linux!ExecutedIsCounted, LinuxExecuted, LinuxBlocks, Noted
<1>2. Linux(cfg)!CountedIsExecuted
  <2> SUFFICES ASSUME NEW m \in entries, NEW b \in ready, mapped[b] = m
               PROVE  coverage[m] \subseteq {o \in cfg.Off : <<m, o>> \in executed \ lost}
    BY DEF Linux!CountedIsExecuted, Linux!Mapped
  <2>1. m \in cfg.Allowed /\ images[b] = mapped[b] /\ m \in cfg.Module /\ b \in cfg.Base
    BY <1>a DEF LinuxMaps, LinuxBlocks, Linux!TypeOK
  <2> QED
    BY <1>a, <2>1 DEF LinuxBlocks
<1>3. Linux(cfg)!SavedIsSet
  BY DEF Linux!SavedIsSet, LinuxSaved, LinuxMaps
<1> QED
  BY <1>1, <1>2, <1>3

-----------------------------------------------------------------------------
(* The Windows recorder.                                                    *)

\* Where the breakpoint of a deferral is: at the trigger, and then at its return address.
Spot(cfg, d) == IF d.thread = None THEN <<d.module, cfg.Trigger[d.module]>> ELSE cfg.RetOf[d.module]

\* Ids are not used again, and an id means one thing.
WinIds(cfg) ==
    /\ \A i \in 0..cfg.MaxId : i >= count => deferred[i] = None /\ index[i] = None
    /\ \A a \in Windows(cfg)!Addr : bps[a] # None => bps[a].id < count
    /\ \A u \in unresolved : u[1] < count
    /\ \A i \in 0..cfg.MaxId : deferred[i] = None \/ index[i] = None

\* A module is deferred at most once, and then instrumented; it is loaded all the while
\* unless it has been unloaded.
WinModules(cfg) ==
    /\ entries \subseteq modules /\ \A m \in modules : m \in loaded \/ m \in unloaded
    /\ \A i \in 0..cfg.MaxId : deferred[i] # None =>
         /\ deferred[i].module \in modules /\ deferred[i].module \notin entries
         /\ cfg.Trigger[deferred[i].module] # None
    /\ \A i, j \in 0..cfg.MaxId :
         deferred[i] # None /\ deferred[j] # None /\ deferred[i].module = deferred[j].module => i = j
    /\ \A i \in 0..cfg.MaxId : index[i] # None => index[i][1] \in entries

\* Every breakpoint that is written has an owner, and its id leads back to it.
WinOwners(cfg) ==
    \A a \in Windows(cfg)!Addr : bps[a] # None =>
        /\ bps[a].disabled = 0 => bps[a].applied
        /\ deferred[bps[a].id] # None => a = Spot(cfg, deferred[bps[a].id])
        /\ index[bps[a].id] # None => a = index[bps[a].id]
        /\ bps[a].applied => deferred[bps[a].id] # None \/ index[bps[a].id] # None
        /\ a \in Windows(cfg)!Site => a[1] \in loaded

\* Before the initial break all breakpoints are unresolved, each place once; after it none.
WinStart(cfg) ==
    /\ saw_initial_bp => unresolved = {}
    /\ ~saw_initial_bp =>
         /\ \A a \in Windows(cfg)!Addr : bps[a] = None
         /\ unloaded = {}
         /\ \A t \in cfg.Thread : event[t] = None /\ pc[t] = None /\ calls[t] = <<>>
         /\ \A i \in 0..cfg.MaxId : deferred[i] # None => deferred[i].thread = None
         /\ \A s \in Windows(cfg)!Site : s[1] \in entries => \E u \in unresolved : u[2] = s
    /\ \A u \in unresolved :
         /\ u[2][1] \in loaded
         /\ \/ deferred[u[1]] # None /\ u[2] = Spot(cfg, deferred[u[1]])
            \/ index[u[1]] = u[2]
    /\ \A u, v \in unresolved : u[2] = v[2] => u = v

\* A block of an instrumented module has its breakpoint or is counted.
WinCounts(cfg) ==
    /\ stop_error => exited
    /\ saw_initial_bp /\ ~stop_error =>
         \A s \in Windows(cfg)!Site : s[1] \in entries /\ s[1] \notin unloaded =>
             bps[s] # None /\ (bps[s].applied \/ s \in coverage)
    /\ \A s \in executed : s[1] \in entries /\ (~stop_error => s \in coverage)

\* One thread at a time is in trigger functions, and only from there it comes to a return
\* address.
WinThreads(cfg) ==
    /\ \A t, u \in cfg.Thread : Windows(cfg)!AtTrigger(t) /\ Windows(cfg)!AtTrigger(u) => t = u
    /\ \A t \in cfg.Thread, m \in cfg.Module :
         event[t] = cfg.RetOf[m] \/ pc[t] = cfg.RetOf[m] => calls[t] # <<>> /\ Head(calls[t]) = m
    /\ \A t \in cfg.Thread : event[t] # None /\ pc[t] # None => event[t] = pc[t]

\* A thread is in the trigger function of m, or about to enter it.
Inside(cfg, m, u) ==
    (\E k \in DOMAIN calls[u] : calls[u][k] = m) \/ pc[u] = <<m, cfg.Trigger[m]>>

\* The breakpoint at the return address waits for the thread that entered.
Awaited(cfg, i, m, u) ==
    /\ bps[cfg.RetOf[m]] # None /\ bps[cfg.RetOf[m]].id = i /\ bps[cfg.RetOf[m]].applied
    /\ m \in loaded /\ Inside(cfg, m, u)

\* A trigger that was entered is awaited; when its module is instrumented it has returned,
\* or its thread is at the return address.
WinPending(cfg) ==
    /\ \A i \in 0..cfg.MaxId : deferred[i] # None /\ deferred[i].thread # None =>
         Awaited(cfg, i, deferred[i].module, deferred[i].thread)
    /\ \A m \in entries : cfg.Trigger[m] # None /\ m \notin returned =>
         \E t \in cfg.Thread : pc[t] = cfg.RetOf[m]

WinInv(cfg) ==
    /\ Windows(cfg)!TypeOK
    /\ WinIds(cfg) /\ WinModules(cfg) /\ WinOwners(cfg) /\ WinStart(cfg)
    /\ WinCounts(cfg) /\ WinThreads(cfg) /\ WinPending(cfg)

\* The types of the parts of breakpoints and deferrals.
LEMMA WinTyped ==
    ASSUME NEW cfg, Windows(cfg)!RecorderAssumption, Windows(cfg)!TypeOK
    PROVE  /\ \A a \in Windows(cfg)!Addr : bps[a] # None =>
                /\ bps[a] \in Windows(cfg)!Bp /\ bps[a].id \in 0..cfg.MaxId
                /\ bps[a].disabled \in Nat /\ bps[a].applied \in BOOLEAN
           /\ \A i \in 0..cfg.MaxId : deferred[i] # None =>
                /\ deferred[i] \in Windows(cfg)!Deferral /\ deferred[i].module \in cfg.Module
                /\ deferred[i].thread \in cfg.Thread \cup {None}
           /\ \A i \in 0..cfg.MaxId : index[i] # None => index[i] \in Windows(cfg)!Site
           /\ Windows(cfg)!Site \subseteq Windows(cfg)!Addr
           /\ \A m \in cfg.Module : cfg.RetOf[m] \in Windows(cfg)!Addr /\ cfg.RetOf[m] \notin Windows(cfg)!Site
           /\ \A m \in cfg.Module, o \in cfg.Off : <<m, o>> \in Windows(cfg)!Site
           /\ count \in Nat /\ count <= cfg.MaxId + 1 /\ cfg.MaxId \in Nat
           /\ \A u \in unresolved : u[1] \in 0..cfg.MaxId /\ u[2] \in Windows(cfg)!Site
           /\ \A m \in cfg.Module : cfg.Trigger[m] # None => cfg.Trigger[m] \in cfg.Off
<1>1. /\ bps \in [Windows(cfg)!Addr -> Windows(cfg)!Bp \cup {None}]
      /\ deferred \in [0..cfg.MaxId -> Windows(cfg)!Deferral \cup {None}]
      /\ index \in [0..cfg.MaxId -> Windows(cfg)!Site \cup {None}]
      /\ unresolved \subseteq (0..cfg.MaxId) \X Windows(cfg)!Site /\ count \in 0..cfg.MaxId + 1
  BY DEF Windows!TypeOK
<1>2. \A b \in Windows(cfg)!Bp : b.id \in 0..cfg.MaxId /\ b.disabled \in Nat /\ b.applied \in BOOLEAN
  BY DEF Windows!Bp
<1>3. \A d \in Windows(cfg)!Deferral : d.module \in cfg.Module /\ d.thread \in cfg.Thread \cup {None}
  BY DEF Windows!Deferral
<1>4. Windows(cfg)!Site \subseteq Windows(cfg)!Addr
      /\ \A m \in cfg.Module : cfg.RetOf[m] \in Windows(cfg)!Addr
  BY DEF Windows!Addr
<1>5. \A m \in cfg.Module, o \in cfg.Off : <<m, o>> \in Windows(cfg)!Site
  BY DEF Windows!Site
<1>6. cfg.MaxId \in Nat /\ cfg.Trigger \in [cfg.Module -> cfg.Off \cup {None}]
      /\ \A m \in cfg.Module : cfg.RetOf[m] \notin Windows(cfg)!Site
  BY DEF Windows!RecorderAssumption
<1>7. count \in Nat /\ count <= cfg.MaxId + 1
  BY <1>1, <1>6
<1> QED
  BY <1>1, <1>2, <1>3, <1>4, <1>5, <1>6, <1>7

\* Nothing is loaded.
LEMMA WinInit ==
    ASSUME NEW cfg, Windows(cfg)!RecorderAssumption, Windows(cfg)!Init
    PROVE  WinInv(cfg)
<1>1. Windows(cfg)!TypeOK
  <2>1. 0 \in 0..cfg.MaxId + 1 /\ <<>> \in Seq(cfg.Module)
    BY DEF Windows!RecorderAssumption
  <2> QED
    BY <2>1 DEF Windows!Init, Windows!TypeOK
<1>2. WinIds(cfg) /\ WinModules(cfg) /\ WinOwners(cfg) /\ WinStart(cfg) /\ WinCounts(cfg)
  BY DEF Windows!Init, WinIds, WinModules, WinOwners, WinStart, WinCounts
<1>3. WinThreads(cfg)
  <2>1. \A t \in cfg.Thread : event[t] = None /\ pc[t] = None /\ calls[t] = <<>>
    BY DEF Windows!Init
  <2>2. \A m \in cfg.Module : cfg.RetOf[m] # None
    BY DEF Windows!RecorderAssumption, Windows!Addr
  <2>3. \A m \in cfg.Module : cfg.Trigger[m] # None => <<m, cfg.Trigger[m]>> # None
    BY DEF Windows!RecorderAssumption, Windows!Addr, Windows!Site
  <2>4. \A t \in cfg.Thread : ~Windows(cfg)!AtTrigger(t)
    BY <2>1, <2>3 DEF Windows!AtTrigger
  <2> QED
    BY <2>1, <2>2, <2>4 DEF WinThreads
<1>4. WinPending(cfg)
  BY DEF Windows!Init, WinPending
<1> QED
  BY <1>1, <1>2, <1>3, <1>4 DEF WinInv

\* The cardinality that the recorder's module uses is that of the library.
LEMMA SameCardinality ==
    ASSUME NEW cfg, NEW S
    PROVE  /\ Windows(cfg)!IsFiniteSet(S) = IsFiniteSet(S)
           /\ Windows(cfg)!Cardinality(S) = Cardinality(S)
<1>1. Windows(cfg)!IsFiniteSet(S) = IsFiniteSet(S)
  BY DEF Windows!IsFiniteSet, IsFiniteSet
<1>2. Windows(cfg)!Cardinality(S) = Cardinality(S)
  BY DEF Windows!Cardinality, Cardinality
<1> QED
  BY <1>1, <1>2

\* The ids of a set of offsets are new, and different for different offsets.
LEMMA IdsApart ==
    ASSUME NEW cfg, Windows(cfg)!RecorderAssumption, count \in Nat, NEW S \in SUBSET cfg.Off
    PROVE  /\ Windows(cfg)!Cardinality(S) \in Nat
           /\ \A o \in S : /\ Windows(cfg)!IdOf(S, o) \in Nat /\ count <= Windows(cfg)!IdOf(S, o)
                           /\ Windows(cfg)!IdOf(S, o) < count + Windows(cfg)!Cardinality(S)
           /\ \A o, p \in S : Windows(cfg)!IdOf(S, o) = Windows(cfg)!IdOf(S, p) => o = p
<1> DEFINE Below(o) == {p \in S : p < o}
<1>1. IsFiniteSet(S) /\ S \subseteq Nat /\ Cardinality(S) \in Nat
  BY FS_Subset, FS_CardinalityType, SameCardinality DEF Windows!RecorderAssumption
<1>2. \A o \in S : Below(o) \in SUBSET S /\ o \notin Below(o)
  BY <1>1
<1>3. \A o \in S : /\ IsFiniteSet(Below(o)) /\ Cardinality(Below(o)) \in Nat
                   /\ Cardinality(Below(o)) <= Cardinality(S) /\ Cardinality(S) # Cardinality(Below(o))
  BY <1>1, <1>2, FS_Subset, FS_CardinalityType
<1>4. ASSUME NEW o \in S, NEW p \in S, o < p PROVE Cardinality(Below(o)) # Cardinality(Below(p))
  <2>1. Below(o) \in SUBSET Below(p) /\ o \in Below(p) /\ o \notin Below(o)
    BY <1>1, <1>4
  <2> QED
    BY <1>3, <2>1, FS_Subset
<1>5. \A o \in S : Windows(cfg)!IdOf(S, o) = count + Cardinality(Below(o))
  BY SameCardinality DEF Windows!IdOf
<1>6. Windows(cfg)!Cardinality(S) = Cardinality(S)
  BY SameCardinality
<1>7. ASSUME NEW o \in S, NEW p \in S, Windows(cfg)!IdOf(S, o) = Windows(cfg)!IdOf(S, p) PROVE o = p
  <2> HIDE DEF Below
  <2>1. Cardinality(Below(o)) = Cardinality(Below(p))
    BY <1>3, <1>5, <1>7
  <2>2. o \in Nat /\ p \in Nat
    BY <1>1
  <2> QED
    BY <1>4, <2>1, <2>2
<1>8. ASSUME NEW o \in S
      PROVE  /\ Windows(cfg)!IdOf(S, o) \in Nat /\ count <= Windows(cfg)!IdOf(S, o)
             /\ Windows(cfg)!IdOf(S, o) < count + Cardinality(S)
  <2> HIDE DEF Below
  <2> QED
    BY <1>1, <1>3, <1>5
<1> QED
  BY <1>1, <1>6, <1>7, <1>8

\* Asking for a breakpoint writes it, whether it is new, disabled or there already.
LEMMA NewBreakpointFacts ==
    ASSUME NEW cfg, Windows(cfg)!RecorderAssumption, NEW old \in Windows(cfg)!Bp \cup {None},
           old # None /\ old.disabled = 0 => old.applied, NEW id \in 0..cfg.MaxId
    PROVE  LET new == Windows(cfg)!NewBreakpoint(old, id)
           IN  /\ new \in Windows(cfg)!Bp /\ new # None /\ new.id = id /\ new.applied
<1> DEFINE new == Windows(cfg)!NewBreakpoint(old, id)
<1>1. CASE old = None
  <2>1. new = [id |-> id, disabled |-> 0, applied |-> TRUE]
    BY <1>1 DEF Windows!NewBreakpoint
  <2> HIDE DEF new
  <2>2. new \in [id : 0..cfg.MaxId, disabled : Nat, applied : BOOLEAN] /\ new.id = id /\ new.applied
    BY <2>1
  <2> QED
    BY <2>2 DEF Windows!Bp, Windows!RecorderAssumption, new
<1>2. CASE old # None
  <2>1. old \in [id : 0..cfg.MaxId, disabled : Nat, applied : BOOLEAN]
    BY <1>2 DEF Windows!Bp
  <2>2. CASE old.disabled > 0
    <3>1. [old EXCEPT !.id = id].id = id /\ [old EXCEPT !.id = id].disabled = old.disabled
      BY <2>1
    <3>2. new = [id |-> id, disabled |-> old.disabled - 1, applied |-> TRUE]
      <4>1. new = Windows(cfg)!Enabled([old EXCEPT !.id = id])
        BY <1>2, <2>2 DEF Windows!NewBreakpoint
      <4>2. old.disabled # 0
        BY <2>1, <2>2
      <4>3. \A x : x.id = id /\ x.disabled = old.disabled =>
              Windows(cfg)!Enabled(x) = [id |-> id, disabled |-> old.disabled - 1, applied |-> TRUE]
        BY <4>2 DEF Windows!Enabled
      <4> HIDE DEF new
      <4> QED
        BY <3>1, <4>1, <4>3
    <3> HIDE DEF new
    <3>3. new \in [id : 0..cfg.MaxId, disabled : Nat, applied : BOOLEAN] /\ new.id = id /\ new.applied
      BY <2>1, <2>2, <3>2
    <3> QED
      BY <3>3 DEF Windows!Bp, Windows!RecorderAssumption, new
  <2>3. CASE ~(old.disabled > 0)
    <3>1. new = [old EXCEPT !.id = id] /\ old.disabled = 0
      BY <1>2, <2>1, <2>3 DEF Windows!NewBreakpoint
    <3>2. new \in [id : 0..cfg.MaxId, disabled : Nat, applied : BOOLEAN] /\ new.id = id /\ new.applied
      <4> HIDE DEF new
      <4> QED
        BY <1>2, <2>1, <3>1
    <3> QED
      BY <3>2 DEF Windows!Bp, Windows!RecorderAssumption
  <2> QED
    BY <2>2, <2>3
<1> QED
  BY <1>1, <1>2

\* The breakpoints of module m are asked for, over the table tab, with the ids f.
Numbered(cfg, tab, m, f) ==
    /\ \A o \in cfg.Off : count <= f[o] /\ f[o] < count' /\ index'[f[o]] = <<m, o>>
    /\ \A o, p \in cfg.Off : f[o] = f[p] => o = p
    /\ index' \in [0..cfg.MaxId -> Windows(cfg)!Site \cup {None}]
    /\ \A i \in 0..cfg.MaxId : (\A o \in cfg.Off : f[o] # i) => index'[i] = index[i]
    /\ IF saw_initial_bp /\ m \in loaded'
       THEN /\ bps' = [x \in Windows(cfg)!Addr |->
                         IF x \in {m} \X cfg.Off THEN Windows(cfg)!NewBreakpoint(tab[x], f[x[2]]) ELSE tab[x]]
            /\ UNCHANGED unresolved
       ELSE bps' = tab /\ unresolved' = unresolved \cup {<<f[o], <<m, o>>>> : o \in cfg.Off}

\* set_module_breakpoints: one new id for each offset, which the index maps back to it.
LEMMA SetModuleEffect ==
    ASSUME NEW cfg, Windows(cfg)!RecorderAssumption, Windows(cfg)!TypeOK, NEW m \in cfg.Module,
           NEW tab, NEW defs, Windows(cfg)!SetModuleBreakpoints(tab, defs, m)
    PROVE  /\ count' \in 0..(cfg.MaxId + 1) /\ count <= count'
           /\ entries' = entries \cup {m} /\ coverage' = {s \in coverage : s[1] # m} /\ deferred' = defs
           /\ \E f \in [cfg.Off -> 0..cfg.MaxId] : Numbered(cfg, tab, m, f)
<1> DEFINE f == [o \in cfg.Off |-> Windows(cfg)!IdOf(cfg.Off, o)]
<1>1. /\ count \in Nat /\ cfg.MaxId \in Nat /\ index \in [0..cfg.MaxId -> Windows(cfg)!Site \cup {None}]
      /\ \A o \in cfg.Off : <<m, o>> \in Windows(cfg)!Site
  BY WinTyped DEF Windows!TypeOK
<1>2. /\ Windows(cfg)!Cardinality(cfg.Off) \in Nat
      /\ \A o \in cfg.Off : /\ f[o] \in Nat /\ count <= f[o]
                             /\ f[o] < count + Windows(cfg)!Cardinality(cfg.Off)
      /\ \A o, p \in cfg.Off : f[o] = f[p] => o = p
  BY <1>1, IdsApart
<1>3. /\ count + Windows(cfg)!Cardinality(cfg.Off) <= cfg.MaxId + 1
      /\ count' = count + Windows(cfg)!Cardinality(cfg.Off)
      /\ entries' = entries \cup {m} /\ coverage' = {s \in coverage : s[1] # m} /\ deferred' = defs
  BY DEF Windows!SetModuleBreakpoints, Windows!SetRva
<1>4. f \in [cfg.Off -> 0..cfg.MaxId]
  <2>1. \A o \in cfg.Off : f[o] \in 0..cfg.MaxId
    <3> HIDE DEF f
    <3> QED
      BY <1>1, <1>2, <1>3
  <2> QED
    BY <2>1
<1>5. index' = [i \in 0..cfg.MaxId |-> IF \E o \in cfg.Off : f[o] = i
                                    THEN <<m, CHOOSE o \in cfg.Off : f[o] = i>> ELSE index[i]]
  <2>1. index' = [i \in 0..cfg.MaxId |->
                    IF \E o \in cfg.Off : Windows(cfg)!IdOf(cfg.Off, o) = i
                    THEN <<m, CHOOSE o \in cfg.Off : Windows(cfg)!IdOf(cfg.Off, o) = i>> ELSE index[i]]
    BY DEF Windows!SetModuleBreakpoints
  <2>2. \A o \in cfg.Off : f[o] = Windows(cfg)!IdOf(cfg.Off, o)
    OBVIOUS
  <2>3. \A i : (CHOOSE o \in cfg.Off : Windows(cfg)!IdOf(cfg.Off, o) = i) = (CHOOSE o \in cfg.Off : f[o] = i)
    BY <2>2
  <2> QED
    BY <2>1, <2>2, <2>3
<1>6. IF saw_initial_bp /\ m \in loaded'
      THEN /\ bps' = [a \in Windows(cfg)!Addr |->
                       IF a \in {m} \X cfg.Off THEN Windows(cfg)!NewBreakpoint(tab[a], f[a[2]]) ELSE tab[a]]
           /\ UNCHANGED unresolved
      ELSE bps' = tab /\ unresolved' = unresolved \cup {<<f[o], <<m, o>>>> : o \in cfg.Off}
  BY DEF Windows!SetModuleBreakpoints, Windows!SetRva
<1>7. \A i \in 0..cfg.MaxId : (\A o \in cfg.Off : f[o] # i) => index'[i] = index[i]
  <2> HIDE DEF f
  <2> QED
    BY <1>5
<1>8. \A o \in cfg.Off : index'[f[o]] = <<m, o>>
  <2> HIDE DEF f
  <2> SUFFICES ASSUME NEW o \in cfg.Off PROVE index'[f[o]] = <<m, o>>
    OBVIOUS
  <2>1. (CHOOSE p \in cfg.Off : f[p] = f[o]) = o
    BY <1>2
  <2>2. f[o] \in 0..cfg.MaxId
    BY <1>4
  <2> QED
    BY <1>5, <2>1, <2>2
<1>9. index' \in [0..cfg.MaxId -> Windows(cfg)!Site \cup {None}]
  <2> HIDE DEF f
  <2>1. \A i \in 0..cfg.MaxId : index'[i] \in Windows(cfg)!Site \cup {None}
    BY <1>1, <1>7, <1>8
  <2>2. index' = [i \in 0..cfg.MaxId |-> index'[i]]
    BY <1>5
  <2> QED
    BY <2>1, <2>2
<1> HIDE DEF f
<1>10. count' \in 0..(cfg.MaxId + 1) /\ count <= count'
  BY <1>1, <1>2, <1>3
<1> QED
  <2>1. Numbered(cfg, tab, m, f)
    BY <1>2, <1>3, <1>6, <1>7, <1>8, <1>9 DEF Numbered
  <2> QED
    BY <1>3, <1>4, <1>10, <2>1

\* The breakpoint at a trigger function: one new id, for the deferral.
LEMMA SetTriggerEffect ==
    ASSUME NEW cfg, Windows(cfg)!RecorderAssumption, Windows(cfg)!TypeOK, NEW m \in cfg.Module,
           cfg.Trigger[m] # None, NEW tab, NEW defs, NEW th, Windows(cfg)!SetTrigger(tab, defs, m, th)
    PROVE  /\ count \in 0..cfg.MaxId /\ count' = count + 1
           /\ deferred' = [defs EXCEPT ![count] = [module |-> m, thread |-> th]]
           /\ UNCHANGED <<index, entries, coverage>>
           /\ IF saw_initial_bp /\ m \in loaded'
              THEN /\ bps' = [a \in Windows(cfg)!Addr |->
                               IF a = <<m, cfg.Trigger[m]>> THEN Windows(cfg)!NewBreakpoint(tab[a], count)
                                                          ELSE tab[a]]
                   /\ UNCHANGED unresolved
              ELSE bps' = tab /\ unresolved' = unresolved \cup {<<count, <<m, cfg.Trigger[m]>>>>}
<1> DEFINE o == cfg.Trigger[m]
<1>1. o \in cfg.Off /\ o \in Nat /\ count \in Nat /\ cfg.MaxId \in Nat
  BY WinTyped DEF Windows!RecorderAssumption
<1>2. Windows(cfg)!Cardinality({o}) = 1 /\ Windows(cfg)!Cardinality({p \in {o} : p < o}) = 0
  <2>1. {p \in {o} : p < o} = {}
    BY <1>1
  <2>2. Cardinality({o}) = 1 /\ Cardinality({}) = 0
    BY FS_Singleton, FS_EmptySet
  <2>3. Windows(cfg)!Cardinality({o}) = Cardinality({o})
    BY SameCardinality
  <2>4. Windows(cfg)!Cardinality({}) = Cardinality({})
    BY SameCardinality
  <2> QED
    BY <2>1, <2>2, <2>3, <2>4
<1>3. Windows(cfg)!IdOf({o}, o) = count
  BY <1>1, <1>2 DEF Windows!IdOf
<1>4. Windows(cfg)!SetRva(tab, m, {o}) /\ UNCHANGED <<index, entries, coverage>>
      /\ deferred' = [defs EXCEPT ![count] = [module |-> m, thread |-> th]]
  BY DEF Windows!SetTrigger
<1>5. count \in 0..cfg.MaxId /\ count' = count + 1
  <2>1. count + 1 <= cfg.MaxId + 1 /\ count' = count + 1
    BY <1>2, <1>4 DEF Windows!SetRva
  <2> QED
    BY <1>1, <2>1
<1>6. CASE saw_initial_bp /\ m \in loaded'
  <2>1. /\ bps' = [a \in Windows(cfg)!Addr |->
                    IF a \in {m} \X {o} THEN Windows(cfg)!NewBreakpoint(tab[a], Windows(cfg)!IdOf({o}, a[2]))
                                        ELSE tab[a]]
        /\ UNCHANGED unresolved
    BY <1>4, <1>6 DEF Windows!SetRva
  <2>2. \A a : a \in {m} \X {o} <=> a = <<m, o>>
    OBVIOUS
  <2>3. bps' = [a \in Windows(cfg)!Addr |->
                  IF a = <<m, o>> THEN Windows(cfg)!NewBreakpoint(tab[a], count) ELSE tab[a]]
    BY <1>3, <2>1, <2>2
  <2> QED
    BY <1>4, <1>5, <1>6, <2>1, <2>3
<1>7. CASE ~(saw_initial_bp /\ m \in loaded')
  <2>1. bps' = tab /\ unresolved' = unresolved \cup {<<Windows(cfg)!IdOf({o}, p), <<m, p>>>> : p \in {o}}
    BY <1>4, <1>7 DEF Windows!SetRva
  <2>2. {<<Windows(cfg)!IdOf({o}, p), <<m, p>>>> : p \in {o}} = {<<count, <<m, o>>>>}
    BY <1>3
  <2> QED
    BY <1>4, <1>5, <1>7, <2>1, <2>2
<1> QED
  BY <1>6, <1>7

\* What is left of a sequence without its head, and with one more.
LEMMA Shifts ==
    ASSUME NEW M, NEW s \in Seq(M), NEW x \in M
    PROVE  /\ s # <<>> => /\ Tail(s) \in Seq(M) /\ Head(s) = s[1] /\ 1 \in DOMAIN s
                          /\ \A k \in DOMAIN s : k # 1 => k - 1 \in DOMAIN Tail(s) /\ Tail(s)[k - 1] = s[k]
           /\ <<x>> \o s \in Seq(M) /\ <<x>> \o s # <<>>
           /\ 1 \in DOMAIN (<<x>> \o s) /\ (<<x>> \o s)[1] = x
           /\ \A k \in DOMAIN s : k + 1 \in DOMAIN (<<x>> \o s) /\ (<<x>> \o s)[k + 1] = s[k]
<1>1. DOMAIN s = 1..Len(s) /\ Len(s) \in Nat
  OBVIOUS
<1>2. ASSUME s # <<>>
      PROVE  /\ Tail(s) \in Seq(M) /\ Head(s) = s[1] /\ 1 \in DOMAIN s
             /\ \A k \in DOMAIN s : k # 1 => k - 1 \in DOMAIN Tail(s) /\ Tail(s)[k - 1] = s[k]
  <2>1. Len(s) > 0 /\ Tail(s) \in Seq(M) /\ Len(Tail(s)) = Len(s) - 1 /\ Head(s) = s[1]
    BY <1>2
  <2>2. \A k \in 1..(Len(s) - 1) : Tail(s)[k] = s[k + 1]
    BY <1>2, <2>1
  <2>3. DOMAIN Tail(s) = 1..(Len(s) - 1)
    BY <2>1
  <2> QED
    BY <1>1, <2>1, <2>2, <2>3
<1>3. <<x>> \in Seq(M) /\ Len(<<x>>) = 1 /\ <<x>>[1] = x
  OBVIOUS
<1>4. <<x>> \o s \in Seq(M) /\ Len(<<x>> \o s) = 1 + Len(s)
  BY <1>3
<1>5. \A k \in 1..(1 + Len(s)) : (<<x>> \o s)[k] = IF k <= 1 THEN <<x>>[k] ELSE s[k - 1]
  BY <1>1, <1>3
<1>6. DOMAIN (<<x>> \o s) = 1..(1 + Len(s))
  BY <1>4
<1>7. (<<x>> \o s)[1] = x
  BY <1>1, <1>3, <1>5
<1>8. <<x>> \o s # <<>>
  BY <1>1, <1>4
<1>9. \A k \in DOMAIN s : k + 1 \in DOMAIN (<<x>> \o s) /\ (<<x>> \o s)[k + 1] = s[k]
  BY <1>1, <1>5, <1>6
<1> QED
  BY <1>1, <1>2, <1>4, <1>6, <1>7, <1>8, <1>9

\* Where a thread may be next: a return address is that of its innermost call, and no other
\* thread is in a trigger function when it comes to one.
LEMMA WinReach ==
    ASSUME NEW cfg, Windows(cfg)!RecorderAssumption, ~cfg.OthersReturn, WinInv(cfg), NEW t \in cfg.Thread,
           NEW a \in IF pc[t] = None THEN Windows(cfg)!Reach(t) ELSE {pc[t]}
    PROVE  /\ a \in Windows(cfg)!Addr
           /\ \A m \in cfg.Module : a = cfg.RetOf[m] => calls[t] # <<>> /\ Head(calls[t]) = m
           /\ \A m \in cfg.Module : cfg.Trigger[m] # None /\ a = <<m, cfg.Trigger[m]>> =>
                \A u \in cfg.Thread : u # t => ~Windows(cfg)!AtTrigger(u)
<1>t. /\ calls[t] \in Seq(cfg.Module) /\ pc[t] \in Windows(cfg)!Addr \cup {None}
      /\ \A m, n \in cfg.Module : cfg.RetOf[m] = cfg.RetOf[n] => m = n
  BY DEF WinInv, Windows!TypeOK, Windows!RecorderAssumption
<1>s. /\ Windows(cfg)!Site \subseteq Windows(cfg)!Addr
      /\ \A m \in cfg.Module : cfg.RetOf[m] \in Windows(cfg)!Addr /\ cfg.RetOf[m] \notin Windows(cfg)!Site
      /\ \A m \in cfg.Module : cfg.Trigger[m] # None => <<m, cfg.Trigger[m]>> \in Windows(cfg)!Site
  BY WinTyped DEF WinInv
<1>1. CASE pc[t] # None
  <2>1. a = pc[t]
    BY <1>1
  <2>2. \A m \in cfg.Module : cfg.Trigger[m] # None /\ a = <<m, cfg.Trigger[m]>> => Windows(cfg)!AtTrigger(t)
    BY <2>1 DEF Windows!AtTrigger
  <2> QED
    BY <1>1, <1>t, <2>1, <2>2 DEF WinInv, WinThreads
<1>2. CASE pc[t] = None
  <2>1. a \in Windows(cfg)!Reach(t)
    BY <1>2
  <2>2. CASE calls[t] # <<>> /\ a = cfg.RetOf[Head(calls[t])]
    <3>1. Head(calls[t]) \in cfg.Module
      BY <1>t, <2>2
    <3> QED
      BY <1>t, <1>s, <2>2, <3>1
  <2>3. CASE ~(calls[t] # <<>> /\ a = cfg.RetOf[Head(calls[t])])
    <3>1. /\ a \in Windows(cfg)!Site
          /\ cfg.Trigger[a[1]] = a[2] => \A u \in cfg.Thread \ {t} : ~Windows(cfg)!AtTrigger(u)
      BY <2>1, <2>3 DEF Windows!Reach
    <3> QED
      BY <1>s, <3>1
  <2> QED
    BY <2>2, <2>3
<1> QED
  BY <1>1, <1>2

\* A thread runs into a breakpoint.
LEMMA WinStopsThread ==
    ASSUME NEW cfg, Windows(cfg)!RecorderAssumption, ~cfg.OthersReturn, WinInv(cfg), NEW t \in cfg.Thread,
           saw_initial_bp, event[t] = None,
           NEW a \in IF pc[t] = None THEN Windows(cfg)!Reach(t) ELSE {pc[t]},
           event' = [event EXCEPT ![t] = a], UNCHANGED <<pc, calls, executed, returned>>,
           UNCHANGED <<saw_initial_bp, loaded, bps, unresolved, count, exited, modules, deferred, index,
                       entries, coverage, stop_error, unloaded>>
    PROVE  WinInv(cfg)'
<1>1. /\ a \in Windows(cfg)!Addr
      /\ \A m \in cfg.Module : a = cfg.RetOf[m] => calls[t] # <<>> /\ Head(calls[t]) = m
      /\ \A m \in cfg.Module : cfg.Trigger[m] # None /\ a = <<m, cfg.Trigger[m]>> =>
           \A u \in cfg.Thread : u # t => ~Windows(cfg)!AtTrigger(u)
  BY WinReach
<1>2. Windows(cfg)!TypeOK'
  BY <1>1 DEF WinInv, Windows!TypeOK
<1>3. event'[t] = a /\ \A u \in cfg.Thread : u # t => event'[u] = event[u]
  BY DEF WinInv, Windows!TypeOK
<1>4. /\ \A u \in cfg.Thread : u # t => Windows(cfg)!AtTrigger(u)' = Windows(cfg)!AtTrigger(u)
      /\ Windows(cfg)!AtTrigger(t)' => \/ Windows(cfg)!AtTrigger(t)
                                       \/ \E m \in cfg.Module : cfg.Trigger[m] # None /\ a = <<m, cfg.Trigger[m]>>
  BY <1>3 DEF Windows!AtTrigger
<1>5. WinThreads(cfg)'
  <2>1. \A u, v \in cfg.Thread : Windows(cfg)!AtTrigger(u)' /\ Windows(cfg)!AtTrigger(v)' => u = v
    BY <1>1, <1>4 DEF WinInv, WinThreads
  <2>2. \A u \in cfg.Thread, m \in cfg.Module :
          event'[u] = cfg.RetOf[m] \/ pc'[u] = cfg.RetOf[m] => calls'[u] # <<>> /\ Head(calls'[u]) = m
    BY <1>1, <1>3 DEF WinInv, WinThreads
  <2>3. \A u \in cfg.Thread : event'[u] # None /\ pc'[u] # None => event'[u] = pc'[u]
    BY <1>3 DEF WinInv, WinThreads
  <2> QED
    BY <2>1, <2>2, <2>3 DEF WinThreads
<1>6. WinIds(cfg)' /\ WinModules(cfg)' /\ WinOwners(cfg)'
  BY DEF WinInv, WinIds, WinModules, WinOwners, Spot
<1>7. WinStart(cfg)' /\ WinCounts(cfg)' /\ WinPending(cfg)'
  BY DEF WinInv, WinStart, WinCounts, WinPending, Awaited, Inside, Spot
<1> QED
  BY <1>2, <1>5, <1>6, <1>7 DEF WinInv

\* A thread goes on: it enters or leaves a trigger function, or executes a block.
LEMMA WinRunsThread ==
    ASSUME NEW cfg, Windows(cfg)!RecorderAssumption, ~cfg.OthersReturn, WinInv(cfg), NEW t \in cfg.Thread,
           saw_initial_bp, event[t] = None,
           NEW a \in IF pc[t] = None THEN Windows(cfg)!Reach(t) ELSE {pc[t]},
           ~(bps[a] # None /\ bps[a].applied), Windows(cfg)!Step(t, a), UNCHANGED event,
           UNCHANGED <<saw_initial_bp, loaded, bps, unresolved, count, exited, modules, deferred, index,
                       entries, coverage, stop_error, unloaded>>
    PROVE  WinInv(cfg)'
<1> DEFINE top == IF calls[t] = <<>> THEN None ELSE Head(calls[t])
           pop == top # None /\ a = cfg.RetOf[top]
           push == a \in Windows(cfg)!Site /\ cfg.Trigger[a[1]] = a[2]
<1>1. /\ a \in Windows(cfg)!Addr
      /\ \A m \in cfg.Module : a = cfg.RetOf[m] => calls[t] # <<>> /\ Head(calls[t]) = m
      /\ \A m \in cfg.Module : cfg.Trigger[m] # None /\ a = <<m, cfg.Trigger[m]>> =>
           \A u \in cfg.Thread : u # t => ~Windows(cfg)!AtTrigger(u)
  BY WinReach
<1>2. /\ pc' = [pc EXCEPT ![t] = None]
      /\ executed' = IF a \in Windows(cfg)!Site /\ a[1] \in entries \ unloaded THEN executed \cup {a} ELSE executed
      /\ pop => calls' = [calls EXCEPT ![t] = Tail(@)] /\ returned' = returned \cup {top}
      /\ ~pop /\ push => calls' = [calls EXCEPT ![t] = <<a[1]>> \o @] /\ UNCHANGED returned
      /\ ~pop /\ ~push => UNCHANGED <<calls, returned>>
  BY DEF Windows!Step
<1>t. /\ calls \in [cfg.Thread -> Seq(cfg.Module)] /\ calls[t] \in Seq(cfg.Module)
      /\ pc \in [cfg.Thread -> Windows(cfg)!Addr \cup {None}] /\ executed \subseteq Windows(cfg)!Site
      /\ returned \subseteq cfg.Module /\ None \notin cfg.Module /\ None \notin cfg.Off
      /\ None \notin Windows(cfg)!Addr
  BY DEF WinInv, Windows!TypeOK, Windows!RecorderAssumption
<1>s. /\ \A m \in cfg.Module : cfg.RetOf[m] \in Windows(cfg)!Addr /\ cfg.RetOf[m] \notin Windows(cfg)!Site
      /\ \A m \in cfg.Module : cfg.Trigger[m] # None => <<m, cfg.Trigger[m]>> \in Windows(cfg)!Site
  BY WinTyped DEF WinInv
<1>3. a \in Windows(cfg)!Site => a[1] \in cfg.Module /\ a[2] \in cfg.Off /\ a = <<a[1], a[2]>>
  BY DEF Windows!Site
<1>4. /\ calls[t] # <<>> => top \in cfg.Module /\ top = Head(calls[t])
      /\ top # None <=> calls[t] # <<>>
  BY <1>t
<1>5. push => cfg.Trigger[a[1]] # None /\ a = <<a[1], cfg.Trigger[a[1]]>> /\ a[1] \in cfg.Module
  BY <1>3, <1>t
<1> HIDE DEF top
<1>6. /\ calls' \in [cfg.Thread -> Seq(cfg.Module)]
      /\ \A u \in cfg.Thread : u # t => calls'[u] = calls[u] /\ pc'[u] = pc[u]
      /\ pc'[t] = None /\ pc' \in [cfg.Thread -> Windows(cfg)!Addr \cup {None}]
  <2>1. pop => Tail(calls[t]) \in Seq(cfg.Module)
    BY <1>4, <1>t, Shifts
  <2>2. push => <<a[1]>> \o calls[t] \in Seq(cfg.Module)
    BY <1>5, <1>t, Shifts
  <2>3. /\ \A u \in cfg.Thread : u # t => pc'[u] = pc[u]
        /\ pc'[t] = None /\ pc' \in [cfg.Thread -> Windows(cfg)!Addr \cup {None}]
    BY <1>2, <1>t
  <2>4. CASE pop
    <3> DEFINE c == Tail(calls[t])
    <3>1. calls' = [calls EXCEPT ![t] = c] /\ c \in Seq(cfg.Module)
      BY <1>2, <2>1, <2>4
    <3> HIDE DEF c
    <3>2. calls' \in [cfg.Thread -> Seq(cfg.Module)] /\ \A u \in cfg.Thread : u # t => calls'[u] = calls[u]
      BY <1>t, <3>1
    <3> QED
      BY <2>3, <3>2
  <2>5. CASE ~pop /\ push
    <3> DEFINE c == <<a[1]>> \o calls[t]
    <3>1. calls' = [calls EXCEPT ![t] = c] /\ c \in Seq(cfg.Module)
      BY <1>2, <2>2, <2>5
    <3> HIDE DEF c
    <3>2. calls' \in [cfg.Thread -> Seq(cfg.Module)] /\ \A u \in cfg.Thread : u # t => calls'[u] = calls[u]
      BY <1>t, <3>1
    <3> QED
      BY <2>3, <3>2
  <2>6. CASE ~pop /\ ~push
    BY <1>2, <1>t, <2>3, <2>6
  <2> QED
    BY <2>4, <2>5, <2>6
<1>7. /\ pop => calls'[t] = Tail(calls[t])
      /\ ~pop /\ push => calls'[t] = <<a[1]>> \o calls[t]
      /\ ~pop /\ ~push => calls'[t] = calls[t]
  BY <1>2, <1>t
<1> HIDE DEF pop, push
<1>8. Windows(cfg)!TypeOK'
  <2>1. executed' \subseteq Windows(cfg)!Site /\ returned' \subseteq cfg.Module
    BY <1>2, <1>4, <1>t DEF pop
  <2> QED
    BY <1>6, <2>1 DEF WinInv, Windows!TypeOK
<1>9. /\ \A u \in cfg.Thread : u # t => Windows(cfg)!AtTrigger(u)' = Windows(cfg)!AtTrigger(u)
      /\ Windows(cfg)!AtTrigger(t)' => \/ Windows(cfg)!AtTrigger(t)
                                       \/ \E m \in cfg.Module : cfg.Trigger[m] # None /\ a = <<m, cfg.Trigger[m]>>
  <2>1. \A u \in cfg.Thread : u # t => Windows(cfg)!AtTrigger(u)' = Windows(cfg)!AtTrigger(u)
    BY <1>6 DEF Windows!AtTrigger
  <2>2. \A m \in cfg.Module : cfg.Trigger[m] # None => <<m, cfg.Trigger[m]>> # None
    BY <1>s, <1>t, WinTyped DEF WinInv
  <2>3. Windows(cfg)!AtTrigger(t)' => calls'[t] # <<>>
    BY <1>6, <2>2 DEF Windows!AtTrigger
  <2>4. pop => calls[t] # <<>>
    BY <1>4 DEF pop
  <2> QED
    BY <1>5, <1>7, <2>1, <2>3, <2>4 DEF Windows!AtTrigger
<1>10. WinThreads(cfg)'
  <2>1. \A u, v \in cfg.Thread : Windows(cfg)!AtTrigger(u)' /\ Windows(cfg)!AtTrigger(v)' => u = v
    BY <1>1, <1>9 DEF WinInv, WinThreads
  <2>2. \A u \in cfg.Thread, m \in cfg.Module :
          event'[u] = cfg.RetOf[m] \/ pc'[u] = cfg.RetOf[m] => calls'[u] # <<>> /\ Head(calls'[u]) = m
    BY <1>6, <1>s, <1>t DEF WinInv, WinThreads
  <2>3. \A u \in cfg.Thread : event'[u] # None /\ pc'[u] # None => event'[u] = pc'[u]
    BY <1>6 DEF WinInv, WinThreads
  <2> QED
    BY <2>1, <2>2, <2>3 DEF WinThreads
<1>11. WinIds(cfg)' /\ WinModules(cfg)' /\ WinOwners(cfg)' /\ WinStart(cfg)'
  BY DEF WinInv, WinIds, WinModules, WinOwners, WinStart, Spot
<1>12. WinCounts(cfg)'
  <2>1. ASSUME a \in Windows(cfg)!Site, a[1] \in entries, a[1] \notin unloaded, ~stop_error
        PROVE  a \in coverage
    BY <2>1 DEF WinInv, WinCounts
  <2>2. \A s \in executed' : s[1] \in entries /\ (~stop_error => s \in coverage)
    BY <1>2, <2>1 DEF WinInv, WinCounts
  <2> QED
    BY <2>2 DEF WinInv, WinCounts
<1>13. WinPending(cfg)'
  <2>1. ASSUME NEW i \in 0..cfg.MaxId, NEW m, NEW u, deferred[i] # None, deferred[i].thread # None,
               m = deferred[i].module, u = deferred[i].thread
        PROVE  Awaited(cfg, i, m, u)'
    <3>1. /\ Awaited(cfg, i, m, u) /\ m \in cfg.Module /\ u \in cfg.Thread /\ cfg.Trigger[m] # None
      BY <2>1, WinTyped DEF WinInv, WinPending, WinModules
    <3>2. bps[cfg.RetOf[m]] # None /\ bps[cfg.RetOf[m]].applied /\ Inside(cfg, m, u)
      BY <3>1 DEF Awaited
    <3>3. a # cfg.RetOf[m]
      BY <3>2
    <3>4. Inside(cfg, m, u)'
      <4>1. CASE u # t
        BY <1>6, <3>1, <3>2, <4>1 DEF Inside
      <4>2. CASE u = t /\ pc[t] = <<m, cfg.Trigger[m]>>
        <5>1. a = <<m, cfg.Trigger[m]>> /\ a \in Windows(cfg)!Site
          BY <1>s, <1>t, <3>1, <4>2, WinTyped DEF WinInv
        <5>2. push /\ a[1] = m
          BY <5>1 DEF push
        <5>3. ~pop
          BY <1>4, <1>s, <5>1 DEF pop
        <5>4. calls'[t] = <<m>> \o calls[t]
          BY <1>7, <5>2, <5>3
        <5>5. calls[t] \in Seq(cfg.Module) /\ m \in cfg.Module
          BY <1>t, <3>1
        <5>6. 1 \in DOMAIN calls'[t] /\ calls'[t][1] = m
          BY <5>4, <5>5, Shifts
        <5> QED
          BY <4>2, <5>6 DEF Inside
      <4>3. CASE u = t /\ pc[t] # <<m, cfg.Trigger[m]>>
        <5>1. PICK k \in DOMAIN calls[t] : calls[t][k] = m
          BY <3>2, <4>3 DEF Inside
        <5>2. CASE pop
          <6>1. calls[t] # <<>> /\ top = Head(calls[t]) /\ top # m
            BY <1>4, <3>3, <5>2 DEF pop
          <6>2. k # 1 /\ k - 1 \in DOMAIN Tail(calls[t]) /\ Tail(calls[t])[k - 1] = m
            BY <1>t, <3>1, <5>1, <6>1, Shifts
          <6> QED
            BY <1>7, <4>3, <5>2, <6>2 DEF Inside
        <5>3. CASE ~pop /\ push
          <6>1. k + 1 \in DOMAIN (<<a[1]>> \o calls[t]) /\ (<<a[1]>> \o calls[t])[k + 1] = m
            BY <1>t, <1>5, <5>1, <5>3, Shifts
          <6> QED
            BY <1>7, <4>3, <5>3, <6>1 DEF Inside
        <5>4. CASE ~pop /\ ~push
          BY <1>7, <4>3, <5>1, <5>4 DEF Inside
        <5> QED
          BY <5>2, <5>3, <5>4
      <4> QED
        BY <4>1, <4>2, <4>3
    <3> QED
      BY <3>1, <3>4 DEF Awaited
  <2>2. ASSUME NEW m \in entries, cfg.Trigger[m] # None, m \notin returned'
        PROVE  \E u \in cfg.Thread : pc'[u] = cfg.RetOf[m]
    <3>1. m \notin returned /\ m \in cfg.Module
      BY <1>2, <2>2 DEF WinInv, Windows!TypeOK
    <3>2. PICK u \in cfg.Thread : pc[u] = cfg.RetOf[m]
      BY <2>2, <3>1 DEF WinInv, WinPending
    <3>3. u # t
      <4> SUFFICES ASSUME u = t PROVE FALSE
        OBVIOUS
      <4>1. a = cfg.RetOf[m]
        BY <1>s, <1>t, <3>1, <3>2
      <4>2. top = m /\ pop
        BY <1>1, <1>4, <1>t, <3>1, <4>1 DEF pop
      <4> QED
        BY <1>2, <2>2, <4>2
    <3> QED
      BY <1>6, <3>2, <3>3
  <2>3. \A i \in 0..cfg.MaxId : deferred'[i] # None /\ deferred'[i].thread # None =>
          Awaited(cfg, i, deferred[i].module, deferred[i].thread)'
    <3> SUFFICES ASSUME NEW i \in 0..cfg.MaxId, deferred'[i] # None, deferred'[i].thread # None
                 PROVE  Awaited(cfg, i, deferred[i].module, deferred[i].thread)'
      OBVIOUS
    <3>1. PICK m, u : m = deferred[i].module /\ u = deferred[i].thread
      OBVIOUS
    <3>2. deferred' = deferred
      OBVIOUS
    <3>3. Awaited(cfg, i, m, u)'
      BY <2>1, <3>1, <3>2
    <3> QED
      BY <3>1, <3>2, <3>3 DEF Awaited, Inside
  <2> QED
    BY <2>2, <2>3 DEF WinPending
<1> QED
  BY <1>8, <1>10, <1>11, <1>12, <1>13 DEF WinInv

\* The threads run.
LEMMA WinExecute ==
    ASSUME NEW cfg, Windows(cfg)!RecorderAssumption, ~cfg.OthersReturn, WinInv(cfg), NEW t \in cfg.Thread,
           Windows(cfg)!Execute(t)
    PROVE  WinInv(cfg)'
<1>1. /\ saw_initial_bp /\ event[t] = None
      /\ UNCHANGED <<saw_initial_bp, loaded, bps, unresolved, count, exited, modules, deferred, index,
                     entries, coverage, stop_error, unloaded>>
  BY DEF Windows!Execute, Windows!target, Windows!recorder
<1>2. PICK a \in IF pc[t] = None THEN Windows(cfg)!Reach(t) ELSE {pc[t]} :
         IF bps[a] # None /\ bps[a].applied
         THEN event' = [event EXCEPT ![t] = a] /\ UNCHANGED <<pc, calls, executed, returned>>
         ELSE Windows(cfg)!Step(t, a) /\ UNCHANGED event
  BY DEF Windows!Execute
<1>3. CASE bps[a] # None /\ bps[a].applied
  <2>1. event' = [event EXCEPT ![t] = a] /\ UNCHANGED <<pc, calls, executed, returned>>
    BY <1>2, <1>3
  <2> QED
    BY <1>1, <2>1, WinStopsThread
<1>4. CASE ~(bps[a] # None /\ bps[a].applied)
  <2>1. Windows(cfg)!Step(t, a) /\ UNCHANGED event
    BY <1>2, <1>4
  <2> QED
    BY <1>1, <1>4, <2>1, WinRunsThread
<1> QED
  BY <1>3, <1>4

\* The target ends.
LEMMA WinExit ==
    ASSUME NEW cfg, WinInv(cfg), Windows(cfg)!ExitProcess
    PROVE  WinInv(cfg)'
<1>1. /\ exited' = TRUE
      /\ UNCHANGED <<event, pc, calls, saw_initial_bp, loaded, bps, unresolved, count, modules, deferred, index,
                     entries, coverage, stop_error, executed, unloaded, returned>>
  BY DEF Windows!ExitProcess, Windows!os, Windows!recorder, Windows!history
<1>2. Windows(cfg)!TypeOK'
  BY <1>1 DEF WinInv, Windows!TypeOK
<1>3. WinIds(cfg)' /\ WinModules(cfg)' /\ WinOwners(cfg)'
  BY <1>1 DEF WinInv, WinIds, WinModules, WinOwners, Spot
<1>4. WinStart(cfg)' /\ WinCounts(cfg)'
  BY <1>1 DEF WinInv, WinStart, WinCounts, Spot
<1>5. WinThreads(cfg)'
  BY <1>1 DEF WinInv, WinThreads, Windows!AtTrigger
<1>6. WinPending(cfg)'
  BY <1>1 DEF WinInv, WinPending, Awaited, Inside
<1> QED
  BY <1>2, <1>3, <1>4, <1>5, <1>6 DEF WinInv

\* The table after handle_breakpoint: only the breakpoint that was hit is out of the code.
LEMMA WinDisabled ==
    ASSUME NEW cfg, Windows(cfg)!RecorderAssumption, WinInv(cfg), NEW a \in Windows(cfg)!Addr, bps[a] # None,
           NEW tab, tab = Windows(cfg)!Disabled(a)
    PROVE  /\ tab \in [Windows(cfg)!Addr -> Windows(cfg)!Bp \cup {None}]
           /\ tab[a] # None /\ tab[a].id = bps[a].id /\ tab[a].disabled > 0 /\ ~tab[a].applied
           /\ \A x \in Windows(cfg)!Addr : x # a => tab[x] = bps[x]
<1> DEFINE new == [id |-> bps[a].id, disabled |-> bps[a].disabled + 1, applied |-> FALSE]
<1>1. /\ bps \in [Windows(cfg)!Addr -> Windows(cfg)!Bp \cup {None}]
      /\ bps[a].id \in 0..cfg.MaxId /\ bps[a].disabled \in Nat
  BY WinTyped DEF WinInv, Windows!TypeOK
<1>2. tab = [bps EXCEPT ![a] = new]
  BY DEF Windows!Disabled
<1>3. new.id = bps[a].id /\ new.disabled > 0 /\ ~new.applied
  BY <1>1
<1>4. new \in Windows(cfg)!Bp
  BY <1>1 DEF Windows!Bp
<1>5. new # None
  BY <1>4 DEF Windows!RecorderAssumption
<1> HIDE DEF new
<1>6. tab[a] = new /\ tab \in [Windows(cfg)!Addr -> Windows(cfg)!Bp \cup {None}]
  BY <1>1, <1>2, <1>4
<1>7. \A x \in Windows(cfg)!Addr : x # a => tab[x] = bps[x]
  BY <1>1, <1>2
<1> QED
  BY <1>3, <1>5, <1>6, <1>7

\* The thread that hit a breakpoint is moved back to it.
LEMMA WinHit ==
    ASSUME NEW cfg, Windows(cfg)!RecorderAssumption, WinInv(cfg), NEW t \in cfg.Thread, Windows(cfg)!Hit(t)
    PROVE  /\ saw_initial_bp /\ event[t] \in Windows(cfg)!Addr /\ bps[event[t]] # None
           /\ UNCHANGED <<calls, saw_initial_bp, loaded, modules, executed, unloaded, returned>>
           /\ event' \in [cfg.Thread -> Windows(cfg)!Addr \cup {None}]
           /\ pc' \in [cfg.Thread -> Windows(cfg)!Addr \cup {None}]
           /\ pc'[t] = event[t] /\ \A u \in cfg.Thread : pc[u] # None => pc'[u] = pc[u]
           /\ WinThreads(cfg)'
           /\ \A m \in cfg.Module, u \in cfg.Thread : cfg.Trigger[m] # None /\ Inside(cfg, m, u) => Inside(cfg, m, u)'
<1>1. /\ event[t] # None /\ bps[event[t]] # None
      /\ event' = [event EXCEPT ![t] = None] /\ pc' = [pc EXCEPT ![t] = event[t]]
      /\ UNCHANGED <<calls, saw_initial_bp, loaded, modules, executed, unloaded, returned>>
  BY DEF Windows!Hit, Windows!history
<1>2. /\ event \in [cfg.Thread -> Windows(cfg)!Addr \cup {None}] /\ event[t] \in Windows(cfg)!Addr
      /\ pc \in [cfg.Thread -> Windows(cfg)!Addr \cup {None}]
  BY <1>1 DEF WinInv, Windows!TypeOK
<1>3. saw_initial_bp
  BY <1>1 DEF WinInv, WinStart
<1>4. /\ event' \in [cfg.Thread -> Windows(cfg)!Addr \cup {None}]
      /\ pc' \in [cfg.Thread -> Windows(cfg)!Addr \cup {None}]
      /\ pc'[t] = event[t] /\ event'[t] = None
      /\ \A u \in cfg.Thread : u # t => pc'[u] = pc[u] /\ event'[u] = event[u]
  BY <1>1, <1>2
<1>5. \A u \in cfg.Thread : pc[u] # None => pc'[u] = pc[u]
  BY <1>1, <1>4 DEF WinInv, WinThreads
<1>6. \A m \in cfg.Module : cfg.RetOf[m] # None /\ (cfg.Trigger[m] # None => <<m, cfg.Trigger[m]>> # None)
  BY WinTyped DEF WinInv, Windows!RecorderAssumption
<1>7. \A u \in cfg.Thread : Windows(cfg)!AtTrigger(u)' => Windows(cfg)!AtTrigger(u)
  <2> SUFFICES ASSUME NEW u \in cfg.Thread, Windows(cfg)!AtTrigger(u)' PROVE Windows(cfg)!AtTrigger(u)
    OBVIOUS
  <2>1. CASE calls[u] # <<>>
    BY <2>1 DEF Windows!AtTrigger
  <2>2. CASE calls[u] = <<>>
    <3>1. PICK m \in cfg.Module : cfg.Trigger[m] # None /\ <<m, cfg.Trigger[m]>> \in {event'[u], pc'[u]}
      BY <1>1, <2>2 DEF Windows!AtTrigger
    <3>2. <<m, cfg.Trigger[m]>> \in {event[u], pc[u]}
      BY <1>4, <1>6, <3>1
    <3> QED
      BY <3>1, <3>2 DEF Windows!AtTrigger
  <2> QED
    BY <2>1, <2>2
<1>8. WinThreads(cfg)'
  <2>1. \A u, v \in cfg.Thread : Windows(cfg)!AtTrigger(u)' /\ Windows(cfg)!AtTrigger(v)' => u = v
    BY <1>7 DEF WinInv, WinThreads
  <2>2. \A u \in cfg.Thread, m \in cfg.Module :
          event'[u] = cfg.RetOf[m] \/ pc'[u] = cfg.RetOf[m] => calls'[u] # <<>> /\ Head(calls'[u]) = m
    BY <1>1, <1>4, <1>6 DEF WinInv, WinThreads
  <2>3. \A u \in cfg.Thread : event'[u] # None /\ pc'[u] # None => event'[u] = pc'[u]
    BY <1>4 DEF WinInv, WinThreads
  <2> QED
    BY <2>1, <2>2, <2>3 DEF WinThreads
<1>9. \A m \in cfg.Module, u \in cfg.Thread : cfg.Trigger[m] # None /\ Inside(cfg, m, u) => Inside(cfg, m, u)'
  BY <1>1, <1>5, <1>6 DEF Inside
<1> QED
  BY <1>1, <1>2, <1>3, <1>4, <1>5, <1>8, <1>9

\* The trigger function is entered: the deferral goes on at its return address.
LEMMA WinEntered ==
    ASSUME NEW cfg, Windows(cfg)!RecorderAssumption, WinInv(cfg), NEW t \in cfg.Thread,
           Windows(cfg)!OnTriggerEntered(t)
    PROVE  WinInv(cfg)'
<1>a. PICK a : a = event[t]
  OBVIOUS
<1>i. PICK i0 : i0 = bps[a].id
  OBVIOUS
<1>m. PICK m : m = deferred[i0].module
  OBVIOUS
<1>r. PICK r : r = cfg.RetOf[m]
  OBVIOUS
<1>b. PICK tab : tab = Windows(cfg)!Disabled(a)
  OBVIOUS
<1>n. PICK new : new = Windows(cfg)!NewBreakpoint(bps[r], count)
  OBVIOUS
<1>d. PICK d : d = [module |-> m, thread |-> t]
  OBVIOUS
<1>h. Windows(cfg)!Hit(t)
  BY DEF Windows!OnTriggerEntered
<1>1. /\ saw_initial_bp /\ a \in Windows(cfg)!Addr /\ bps[a] # None
      /\ UNCHANGED <<calls, saw_initial_bp, loaded, modules, executed, unloaded, returned>>
      /\ event' \in [cfg.Thread -> Windows(cfg)!Addr \cup {None}]
      /\ pc' \in [cfg.Thread -> Windows(cfg)!Addr \cup {None}]
      /\ pc'[t] = a /\ \A u \in cfg.Thread : pc[u] # None => pc'[u] = pc[u]
      /\ WinThreads(cfg)'
      /\ \A n \in cfg.Module, u \in cfg.Thread : cfg.Trigger[n] # None /\ Inside(cfg, n, u) => Inside(cfg, n, u)'
  BY <1>a, <1>h, WinHit
<1>2. /\ deferred[i0] # None /\ deferred[i0].thread = None
      /\ count <= cfg.MaxId /\ count' = count + 1
      /\ UNCHANGED <<unresolved, index, entries, coverage, stop_error, exited>>
  <2>1. Windows(cfg)!DeferralAt(t) = deferred[i0]
    BY <1>a, <1>i DEF Windows!DeferralAt
  <2> QED
    BY <2>1 DEF Windows!OnTriggerEntered
<1>3. /\ i0 \in 0..cfg.MaxId /\ i0 < count /\ count \in 0..cfg.MaxId /\ count \in Nat /\ m \in cfg.Module
      /\ r \in Windows(cfg)!Addr /\ r \notin Windows(cfg)!Site
      /\ cfg.Trigger[m] # None /\ <<m, cfg.Trigger[m]>> \in Windows(cfg)!Site
      /\ m \in modules /\ m \notin entries /\ deferred[i0] \in Windows(cfg)!Deferral
  BY <1>i, <1>m, <1>r, <1>1, <1>2, WinTyped DEF WinInv, WinIds, WinModules
<1>4. a = <<m, cfg.Trigger[m]>> /\ m \in loaded /\ r # a
  <2>1. a = Spot(cfg, deferred[i0])
    BY <1>i, <1>1, <1>2 DEF WinInv, WinOwners
  <2>2. a = <<m, cfg.Trigger[m]>>
    BY <1>m, <1>2, <2>1 DEF Spot
  <2> QED
    BY <1>1, <1>3, <2>2 DEF WinInv, WinOwners
<1>5. /\ tab \in [Windows(cfg)!Addr -> Windows(cfg)!Bp \cup {None}]
      /\ tab[a] # None /\ tab[a].id = i0 /\ tab[a].disabled > 0 /\ ~tab[a].applied
      /\ \A x \in Windows(cfg)!Addr : x # a => tab[x] = bps[x]
  <2>1. a \in Windows(cfg)!Addr /\ bps[a] # None
    BY <1>1
  <2> QED
    BY <1>b, <1>i, <2>1, WinDisabled
<1>6. new \in Windows(cfg)!Bp /\ new # None /\ new.id = count /\ new.applied
  <2>1. bps[r] \in Windows(cfg)!Bp \cup {None} /\ (bps[r] # None /\ bps[r].disabled = 0 => bps[r].applied)
    BY <1>3 DEF WinInv, Windows!TypeOK, WinOwners
  <2> QED
    BY <1>3, <1>n, <2>1, NewBreakpointFacts
<1>7. bps' = [tab EXCEPT ![r] = new]
  <2>1. Windows(cfg)!DeferralAt(t) = deferred[i0]
    BY <1>a, <1>i DEF Windows!DeferralAt
  <2>2. bps' = [tab EXCEPT ![r] = Windows(cfg)!NewBreakpoint(tab[r], count)]
    <3>1. bps' = [Windows(cfg)!Disabled(event[t]) EXCEPT ![cfg.RetOf[Windows(cfg)!DeferralAt(t).module]]
                   = Windows(cfg)!NewBreakpoint(@, count)]
      BY DEF Windows!OnTriggerEntered
    <3>2. Windows(cfg)!Disabled(event[t]) = tab /\ cfg.RetOf[Windows(cfg)!DeferralAt(t).module] = r
      BY <1>a, <1>b, <1>m, <1>r, <2>1
    <3> QED
      BY <3>1, <3>2, Zenon
  <2>3. tab[r] = bps[r]
    BY <1>3, <1>4, <1>5
  <2> QED
    BY <1>n, <2>2, <2>3
<1>8. deferred' = [[deferred EXCEPT ![i0] = None] EXCEPT ![count] = d]
  <2>1. Windows(cfg)!DeferralAt(t) = deferred[i0] /\ Windows(cfg)!Undeferred(t) = [deferred EXCEPT ![i0] = None]
    BY <1>a, <1>i DEF Windows!DeferralAt, Windows!Undeferred
  <2>2. deferred' = Windows(cfg)!Rekeyed(t)
    BY DEF Windows!OnTriggerEntered
  <2>3. Windows(cfg)!Rekeyed(t)
          = [[deferred EXCEPT ![i0] = None] EXCEPT ![count] = [deferred[i0] EXCEPT !.thread = t]]
    BY <2>1 DEF Windows!Rekeyed
  <2>4. [deferred[i0] EXCEPT !.thread = t] = d
    <3>1. \A q \in [module : cfg.Module, thread : cfg.Thread \cup {None}] :
            [q EXCEPT !.thread = t] = [module |-> q.module, thread |-> t]
      OBVIOUS
    <3> QED
      BY <1>m, <1>3, <1>d, <3>1 DEF Windows!Deferral
  <2> QED
    BY <2>2, <2>3, <2>4
<1>9. d \in Windows(cfg)!Deferral /\ d # None /\ d.module = m /\ d.thread = t /\ t # None
  BY <1>3, <1>d DEF Windows!Deferral, Windows!RecorderAssumption
<1>10. /\ bps' \in [Windows(cfg)!Addr -> Windows(cfg)!Bp \cup {None}]
       /\ bps'[r] = new /\ bps'[a] = tab[a]
       /\ \A x \in Windows(cfg)!Addr : x # a /\ x # r => bps'[x] = bps[x]
  BY <1>1, <1>3, <1>4, <1>5, <1>6, <1>7
<1>11. /\ deferred' \in [0..cfg.MaxId -> Windows(cfg)!Deferral \cup {None}]
       /\ deferred'[count] = d /\ deferred'[i0] = None
       /\ \A i \in 0..cfg.MaxId : i # count /\ i # i0 => deferred'[i] = deferred[i]
  <2>1. deferred \in [0..cfg.MaxId -> Windows(cfg)!Deferral \cup {None}] /\ i0 # count
    BY <1>3 DEF WinInv, Windows!TypeOK
  <2> QED
    BY <1>3, <1>8, <1>9, <2>1
<1>12. \A x \in Windows(cfg)!Addr : bps[x] # None => bps[x].id \in 0..cfg.MaxId /\ bps[x].id < count
  BY WinTyped DEF WinInv, WinIds
<1>13. \A i \in 0..cfg.MaxId : deferred[i] # None /\ i # i0 => i # count /\ deferred[i].module # m
  <2>1. \A i \in 0..cfg.MaxId : deferred[i] # None => i # count
    BY <1>3 DEF WinInv, WinIds
  <2> QED
    BY <1>m, <1>2, <1>3, <2>1 DEF WinInv, WinModules
<1>14. Windows(cfg)!TypeOK'
  <2>1. count' \in 0..(cfg.MaxId + 1)
    BY <1>2, <1>3 DEF Windows!RecorderAssumption
  <2> QED
    BY <1>1, <1>2, <1>10, <1>11, <2>1 DEF WinInv, Windows!TypeOK
<1>15. WinIds(cfg)'
  <2>1. \A i \in 0..cfg.MaxId : i >= count' => deferred'[i] = None /\ index'[i] = None
    <3>1. \A i \in 0..cfg.MaxId : i >= count' => i >= count /\ i # count /\ i # i0
      BY <1>2, <1>3
    <3> QED
      BY <1>2, <1>11, <3>1 DEF WinInv, WinIds
  <2>2. \A x \in Windows(cfg)!Addr : bps'[x] # None => bps'[x].id < count'
    BY <1>2, <1>3, <1>5, <1>6, <1>10, <1>12
  <2>3. \A u \in unresolved' : u[1] < count'
    BY <1>1, <1>2 DEF WinInv, WinStart
  <2>4. \A i \in 0..cfg.MaxId : deferred'[i] = None \/ index'[i] = None
    BY <1>2, <1>3, <1>11 DEF WinInv, WinIds
  <2> QED
    BY <2>1, <2>2, <2>3, <2>4 DEF WinIds
<1>16. WinModules(cfg)'
  <2>1. \A i \in 0..cfg.MaxId : deferred'[i] # None =>
          /\ deferred'[i].module \in modules' /\ deferred'[i].module \notin entries'
          /\ cfg.Trigger[deferred'[i].module] # None
    BY <1>1, <1>2, <1>3, <1>9, <1>11 DEF WinInv, WinModules
  <2>2. \A i, j \in 0..cfg.MaxId :
          deferred'[i] # None /\ deferred'[j] # None /\ deferred'[i].module = deferred'[j].module => i = j
    BY <1>9, <1>11, <1>13 DEF WinInv, WinModules
  <2>3. entries' \subseteq modules' /\ \A n \in modules' : n \in loaded' \/ n \in unloaded'
    BY <1>1, <1>2 DEF WinInv, WinModules
  <2>4. \A i \in 0..cfg.MaxId : index'[i] # None => index'[i][1] \in entries'
    BY <1>2 DEF WinInv, WinModules
  <2> QED
    BY <2>1, <2>2, <2>3, <2>4 DEF WinModules
<1>17. WinOwners(cfg)'
  <2> SUFFICES ASSUME NEW x \in Windows(cfg)!Addr, bps'[x] # None
               PROVE  /\ bps'[x].disabled = 0 => bps'[x].applied
                      /\ deferred'[bps'[x].id] # None => x = Spot(cfg, deferred'[bps'[x].id])
                      /\ index'[bps'[x].id] # None => x = index'[bps'[x].id]
                      /\ bps'[x].applied => deferred'[bps'[x].id] # None \/ index'[bps'[x].id] # None
                      /\ x \in Windows(cfg)!Site => x[1] \in loaded'
    BY DEF WinOwners, Spot
  <2>1. CASE x = r
    <3>1. Spot(cfg, d) = r
      BY <1>r, <1>9 DEF Spot
    <3>2. index'[count] = None
      BY <1>2, <1>3 DEF WinInv, WinIds
    <3> QED
      BY <1>3, <1>6, <1>9, <1>10, <1>11, <2>1, <3>1, <3>2
  <2>2. CASE x = a
    <3>1. index[i0] # None => a = index[i0]
      BY <1>i, <1>1 DEF WinInv, WinOwners
    <3>2. a[1] \in loaded'
      BY <1>1, <1>4
    <3> QED
      BY <1>2, <1>5, <1>10, <1>11, <2>2, <3>1, <3>2
  <2>3. CASE x # a /\ x # r
    <3>1. bps'[x] = bps[x] /\ bps[x].id \in 0..cfg.MaxId /\ bps[x].id < count
      BY <1>10, <1>12, <2>3
    <3>2. bps[x].id # i0
      <4>1. bps[x].id = i0 => x = Spot(cfg, deferred[i0])
        BY <1>2, <3>1 DEF WinInv, WinOwners
      <4>2. a = Spot(cfg, deferred[i0])
        BY <1>i, <1>1, <1>2 DEF WinInv, WinOwners
      <4> QED
        BY <2>3, <4>1, <4>2
    <3>3. deferred'[bps[x].id] = deferred[bps[x].id]
      BY <1>3, <1>11, <3>1, <3>2
    <3> QED
      BY <1>1, <1>2, <3>1, <3>3 DEF WinInv, WinOwners
  <2> QED
    BY <2>1, <2>2, <2>3
<1>18. WinStart(cfg)'
  BY <1>1, <1>2 DEF WinInv, WinStart
<1>19. WinCounts(cfg)'
  <2>1. \A s \in Windows(cfg)!Site : s[1] \in entries => s \in Windows(cfg)!Addr /\ bps'[s] = bps[s]
    BY <1>3, <1>4, <1>10, WinTyped DEF WinInv
  <2> QED
    BY <1>1, <1>2, <2>1 DEF WinInv, WinCounts
<1>20. WinPending(cfg)'
  <2>1. ASSUME NEW i \in 0..cfg.MaxId, NEW n, NEW u, deferred'[i] # None, deferred'[i].thread # None,
               n = deferred'[i].module, u = deferred'[i].thread
        PROVE  Awaited(cfg, i, n, u)'
    <3>1. CASE i = count
      <4>1. n = m /\ u = t
        BY <1>9, <1>11, <2>1, <3>1
      <4>2. bps'[cfg.RetOf[n]] = new /\ pc'[u] = <<n, cfg.Trigger[n]>> /\ n \in loaded'
        BY <1>r, <1>1, <1>4, <1>10, <4>1
      <4> QED
        BY <1>6, <3>1, <4>2 DEF Awaited, Inside
    <3>2. CASE i # count
      <4>1. i # i0 /\ deferred'[i] = deferred[i]
        BY <1>11, <2>1, <3>2
      <4>2. n # m /\ n \in cfg.Module /\ u \in cfg.Thread /\ cfg.Trigger[n] # None /\ Awaited(cfg, i, n, u)
        BY <1>13, <2>1, <4>1, WinTyped DEF WinInv, WinPending, WinModules
      <4>3. cfg.RetOf[n] # r /\ cfg.RetOf[n] # a /\ cfg.RetOf[n] \in Windows(cfg)!Addr
        BY <1>r, <1>3, <1>4, <4>2, WinTyped DEF WinInv, Windows!RecorderAssumption
      <4>4. bps'[cfg.RetOf[n]] = bps[cfg.RetOf[n]] /\ Inside(cfg, n, u)'
        BY <1>1, <1>10, <4>2, <4>3 DEF Awaited
      <4> QED
        BY <1>1, <4>2, <4>4 DEF Awaited
    <3> QED
      BY <3>1, <3>2
  <2>2. ASSUME NEW i \in 0..cfg.MaxId, deferred'[i] # None, deferred'[i].thread # None
        PROVE  Awaited(cfg, i, deferred[i].module, deferred[i].thread)'
    <3>1. PICK n : n = deferred'[i].module
      OBVIOUS
    <3>2. PICK u : u = deferred'[i].thread
      OBVIOUS
    <3>3. Awaited(cfg, i, n, u)'
      BY <2>1, <2>2, <3>1, <3>2
    <3> QED
      BY <3>1, <3>2, <3>3 DEF Awaited, Inside
  <2>3. entries \subseteq cfg.Module /\ None \notin Windows(cfg)!Addr
    BY DEF WinInv, Windows!TypeOK, Windows!RecorderAssumption
  <2>4. \A n \in entries : cfg.RetOf[n] # None
    BY <2>3, WinTyped DEF WinInv
  <2> QED
    BY <1>1, <1>2, <2>2, <2>4 DEF WinInv, WinPending
<1> QED
  BY <1>1, <1>14, <1>15, <1>16, <1>17, <1>18, <1>19, <1>20 DEF WinInv

\* The trigger function returns, on the thread that entered it: the module is instrumented.
LEMMA WinReturned ==
    ASSUME NEW cfg, Windows(cfg)!RecorderAssumption, WinInv(cfg), NEW t \in cfg.Thread,
           Windows(cfg)!OnTriggerReturned(t)
    PROVE  WinInv(cfg)'
<1>a. PICK a : a = event[t]
  OBVIOUS
<1>i. PICK i0 : i0 = bps[a].id
  OBVIOUS
<1>m. PICK m : m = deferred[i0].module
  OBVIOUS
<1>b. PICK tab : tab = Windows(cfg)!Disabled(a)
  OBVIOUS
<1>d. PICK defs : defs = Windows(cfg)!Undeferred(t)
  OBVIOUS
<1>h. Windows(cfg)!Hit(t)
  BY DEF Windows!OnTriggerReturned
<1>1. /\ saw_initial_bp /\ a \in Windows(cfg)!Addr /\ bps[a] # None
      /\ UNCHANGED <<calls, saw_initial_bp, loaded, modules, executed, unloaded, returned>>
      /\ event' \in [cfg.Thread -> Windows(cfg)!Addr \cup {None}]
      /\ pc' \in [cfg.Thread -> Windows(cfg)!Addr \cup {None}]
      /\ pc'[t] = a /\ \A u \in cfg.Thread : pc[u] # None => pc'[u] = pc[u]
      /\ WinThreads(cfg)'
      /\ \A n \in cfg.Module, u \in cfg.Thread : cfg.Trigger[n] # None /\ Inside(cfg, n, u) => Inside(cfg, n, u)'
  BY <1>a, <1>h, WinHit
<1>e. Windows(cfg)!DeferralAt(t) = deferred[i0] /\ defs = [deferred EXCEPT ![i0] = None]
  BY <1>a, <1>i, <1>d DEF Windows!DeferralAt, Windows!Undeferred
<1>2. deferred[i0] # None /\ deferred[i0].thread # None /\ UNCHANGED <<stop_error, exited>>
  BY <1>e DEF Windows!OnTriggerReturned
<1>3. /\ i0 \in 0..cfg.MaxId /\ i0 < count /\ count \in Nat /\ m \in cfg.Module
      /\ cfg.RetOf[m] \in Windows(cfg)!Addr /\ cfg.RetOf[m] \notin Windows(cfg)!Site
      /\ cfg.Trigger[m] # None /\ m \in modules /\ m \notin entries
      /\ deferred[i0].thread \in cfg.Thread
  BY <1>i, <1>m, <1>1, <1>2, WinTyped DEF WinInv, WinIds, WinModules
<1>4. a = cfg.RetOf[m] /\ a \notin Windows(cfg)!Site
  <2>1. a = Spot(cfg, deferred[i0])
    BY <1>i, <1>1, <1>2 DEF WinInv, WinOwners
  <2> QED
    BY <1>m, <1>2, <1>3, <2>1 DEF Spot
<1>5. m \in loaded /\ deferred[i0].thread = t
  <2>1. PICK u \in cfg.Thread : u = deferred[i0].thread
    BY <1>3
  <2>2. Awaited(cfg, i0, m, u)
    BY <1>m, <1>2, <1>3, <2>1 DEF WinInv, WinPending
  <2>3. Windows(cfg)!AtTrigger(u)
    <3>1. (\E k \in DOMAIN calls[u] : calls[u][k] = m) \/ pc[u] = <<m, cfg.Trigger[m]>>
      BY <2>2 DEF Awaited, Inside
    <3>2. (\E k \in DOMAIN calls[u] : calls[u][k] = m) => calls[u] # <<>>
      OBVIOUS
    <3> QED
      BY <1>3, <3>1, <3>2 DEF Windows!AtTrigger
  <2>4. Windows(cfg)!AtTrigger(t)
    BY <1>a, <1>3, <1>4 DEF WinInv, WinThreads, Windows!AtTrigger
  <2> QED
    BY <2>1, <2>2, <2>3, <2>4 DEF WinInv, WinThreads, Awaited
<1>6. Windows(cfg)!SetModuleBreakpoints(tab, defs, m)
  <2>1. Windows(cfg)!RightThread(t, deferred[i0])
    BY <1>5 DEF Windows!RightThread
  <2>2. LET d == Windows(cfg)!DeferralAt(t)
        IN  Windows(cfg)!RightThread(t, d) =>
              Windows(cfg)!SetModuleBreakpoints(Windows(cfg)!Disabled(event[t]), Windows(cfg)!Undeferred(t), d.module)
    BY DEF Windows!OnTriggerReturned
  <2> QED
    BY <1>a, <1>b, <1>d, <1>m, <1>e, <2>1, <2>2, Zenon
<1>7. /\ tab \in [Windows(cfg)!Addr -> Windows(cfg)!Bp \cup {None}]
      /\ tab[a] # None /\ tab[a].id = i0 /\ tab[a].disabled > 0 /\ ~tab[a].applied
      /\ \A x \in Windows(cfg)!Addr : x # a => tab[x] = bps[x]
  <2>1. a \in Windows(cfg)!Addr /\ bps[a] # None
    BY <1>1
  <2> QED
    BY <1>b, <1>i, <2>1, WinDisabled
<1>8. /\ defs \in [0..cfg.MaxId -> Windows(cfg)!Deferral \cup {None}] /\ defs[i0] = None
      /\ \A i \in 0..cfg.MaxId : i # i0 => defs[i] = deferred[i]
  BY <1>3, <1>e DEF WinInv, Windows!TypeOK
<1>9. /\ count' \in 0..(cfg.MaxId + 1) /\ count <= count'
      /\ entries' = entries \cup {m} /\ coverage' = {s \in coverage : s[1] # m} /\ deferred' = defs
  BY <1>3, <1>6, SetModuleEffect DEF WinInv
<1>g. PICK f \in [cfg.Off -> 0..cfg.MaxId] : Numbered(cfg, tab, m, f)
  BY <1>3, <1>6, SetModuleEffect DEF WinInv
<1>f. /\ \A o \in cfg.Off : /\ f[o] \in 0..cfg.MaxId /\ count <= f[o] /\ f[o] < count'
                             /\ index'[f[o]] = <<m, o>>
      /\ index' \in [0..cfg.MaxId -> Windows(cfg)!Site \cup {None}]
      /\ \A i \in 0..cfg.MaxId : (\A o \in cfg.Off : f[o] # i) => index'[i] = index[i]
  BY <1>g DEF Numbered
<1>k. /\ bps' = [x \in Windows(cfg)!Addr |->
                   IF x \in {m} \X cfg.Off THEN Windows(cfg)!NewBreakpoint(tab[x], f[x[2]]) ELSE tab[x]]
      /\ UNCHANGED unresolved
  <2>1. m \in loaded' /\ saw_initial_bp
    BY <1>1, <1>5
  <2> QED
    BY <1>g, <2>1 DEF Numbered
<1>10. \A o \in cfg.Off : /\ <<m, o>> \in Windows(cfg)!Addr /\ <<m, o>> # a /\ tab[<<m, o>>] = bps[<<m, o>>]
                          /\ bps'[<<m, o>>] = Windows(cfg)!NewBreakpoint(bps[<<m, o>>], f[o])
  <2> SUFFICES ASSUME NEW o \in cfg.Off
               PROVE  /\ <<m, o>> \in Windows(cfg)!Addr /\ <<m, o>> # a /\ tab[<<m, o>>] = bps[<<m, o>>]
                      /\ bps'[<<m, o>>] = Windows(cfg)!NewBreakpoint(bps[<<m, o>>], f[o])
    OBVIOUS
  <2>1. <<m, o>> \in Windows(cfg)!Addr /\ <<m, o>> # a
    BY <1>3, <1>4, WinTyped DEF WinInv
  <2>2. tab[<<m, o>>] = bps[<<m, o>>]
    BY <1>7, <2>1
  <2>3. PICK x : x = <<m, o>>
    OBVIOUS
  <2>4. x \in {m} \X cfg.Off /\ x[2] = o
    BY <2>3
  <2>5. bps'[x] = Windows(cfg)!NewBreakpoint(tab[x], f[x[2]])
    BY <1>k, <2>1, <2>3, <2>4
  <2> QED
    BY <2>1, <2>2, <2>3, <2>4, <2>5
<1>11. \A o \in cfg.Off : /\ bps'[<<m, o>>] \in Windows(cfg)!Bp /\ bps'[<<m, o>>] # None
                          /\ bps'[<<m, o>>].id = f[o] /\ bps'[<<m, o>>].applied
  <2> SUFFICES ASSUME NEW o \in cfg.Off
               PROVE  /\ bps'[<<m, o>>] \in Windows(cfg)!Bp /\ bps'[<<m, o>>] # None
                      /\ bps'[<<m, o>>].id = f[o] /\ bps'[<<m, o>>].applied
    OBVIOUS
  <2>1. PICK old : old = bps[<<m, o>>]
    OBVIOUS
  <2>2. old \in Windows(cfg)!Bp \cup {None} /\ (old # None /\ old.disabled = 0 => old.applied)
    BY <1>10, <2>1 DEF WinInv, Windows!TypeOK, WinOwners
  <2>3. f[o] \in 0..cfg.MaxId /\ bps'[<<m, o>>] = Windows(cfg)!NewBreakpoint(old, f[o])
    BY <1>10, <1>f, <2>1
  <2> QED
    BY <2>2, <2>3, NewBreakpointFacts
<1>12. \A x \in Windows(cfg)!Addr : x \notin {m} \X cfg.Off => bps'[x] = tab[x]
  BY <1>k
<1>13. \A x \in Windows(cfg)!Addr :
         \/ \E o \in cfg.Off : x = <<m, o>>
         \/ x = a /\ bps'[x] = tab[a]
         \/ x # a /\ x \notin {m} \X cfg.Off /\ bps'[x] = bps[x]
  BY <1>7, <1>10, <1>12
<1>14. bps' \in [Windows(cfg)!Addr -> Windows(cfg)!Bp \cup {None}]
  <2>1. bps' = [x \in Windows(cfg)!Addr |-> bps'[x]]
    BY <1>k
  <2>2. \A x \in Windows(cfg)!Addr : bps'[x] \in Windows(cfg)!Bp \cup {None}
    BY <1>7, <1>11, <1>12
  <2> QED
    BY <2>1, <2>2
<1>15. Windows(cfg)!TypeOK'
  <2>1. entries' \subseteq cfg.Module /\ coverage' \subseteq Windows(cfg)!Site
    BY <1>3, <1>9 DEF WinInv, Windows!TypeOK
  <2>2. /\ index' \in [0..cfg.MaxId -> Windows(cfg)!Site \cup {None}] /\ UNCHANGED unresolved
        /\ deferred' \in [0..cfg.MaxId -> Windows(cfg)!Deferral \cup {None}]
    BY <1>f, <1>k, <1>8, <1>9
  <2> QED
    BY <1>1, <1>2, <1>9, <1>14, <2>1, <2>2 DEF WinInv, Windows!TypeOK
<1>16. \A i \in 0..cfg.MaxId : i < count => index'[i] = index[i]
  <2> SUFFICES ASSUME NEW i \in 0..cfg.MaxId, i < count PROVE index'[i] = index[i]
    OBVIOUS
  <2>1. \A o \in cfg.Off : f[o] # i
    BY <1>3, <1>f
  <2> QED
    BY <1>f, <2>1
<1>17. \A x \in Windows(cfg)!Addr : bps[x] # None => bps[x].id \in 0..cfg.MaxId /\ bps[x].id < count
  BY WinTyped DEF WinInv, WinIds
<1>18. \A i \in 0..cfg.MaxId : deferred'[i] # None =>
         /\ i # i0 /\ deferred'[i] = deferred[i] /\ i < count /\ deferred[i].module # m
  <2>1. \A i \in 0..cfg.MaxId : deferred[i] # None => i < count
    BY <1>3 DEF WinInv, WinIds
  <2> QED
    BY <1>m, <1>2, <1>3, <1>8, <1>9, <2>1 DEF WinInv, WinModules
<1>19. WinIds(cfg)'
  <2>1. \A i \in 0..cfg.MaxId : i >= count' => deferred'[i] = None /\ index'[i] = None
    <3> SUFFICES ASSUME NEW i \in 0..cfg.MaxId, i >= count' PROVE deferred'[i] = None /\ index'[i] = None
      OBVIOUS
    <3>1. i >= count /\ ~(i < count)
      BY <1>3, <1>9
    <3>2. \A o \in cfg.Off : f[o] # i
      BY <1>9, <1>f
    <3> QED
      BY <1>18, <1>f, <3>1, <3>2 DEF WinInv, WinIds
  <2>2. \A x \in Windows(cfg)!Addr : bps'[x] # None => bps'[x].id < count'
    <3>1. \A o \in cfg.Off : f[o] < count' /\ bps'[<<m, o>>].id = f[o]
      BY <1>11, <1>f
    <3>2. \A i \in 0..cfg.MaxId : i < count => i < count'
      BY <1>3, <1>9
    <3> QED
      BY <1>3, <1>7, <1>13, <1>17, <3>1, <3>2
  <2>3. \A u \in unresolved' : u[1] < count'
    BY <1>1, <1>k DEF WinInv, WinStart
  <2>4. \A i \in 0..cfg.MaxId : deferred'[i] = None \/ index'[i] = None
    BY <1>16, <1>18 DEF WinInv, WinIds
  <2> QED
    BY <2>1, <2>2, <2>3, <2>4 DEF WinIds
<1>20. WinModules(cfg)'
  <2>1. \A i \in 0..cfg.MaxId : deferred'[i] # None =>
          /\ deferred'[i].module \in modules' /\ deferred'[i].module \notin entries'
          /\ cfg.Trigger[deferred'[i].module] # None
    BY <1>1, <1>9, <1>18 DEF WinInv, WinModules
  <2>2. \A i, j \in 0..cfg.MaxId :
          deferred'[i] # None /\ deferred'[j] # None /\ deferred'[i].module = deferred'[j].module => i = j
    BY <1>18 DEF WinInv, WinModules
  <2>3. entries' \subseteq modules' /\ \A n \in modules' : n \in loaded' \/ n \in unloaded'
    BY <1>1, <1>3, <1>9 DEF WinInv, WinModules
  <2>4. \A i \in 0..cfg.MaxId : index'[i] # None => index'[i][1] \in entries'
    <3> SUFFICES ASSUME NEW i \in 0..cfg.MaxId, index'[i] # None PROVE index'[i][1] \in entries'
      OBVIOUS
    <3>1. CASE \E o \in cfg.Off : f[o] = i
      BY <1>9, <1>f, <3>1
    <3>2. CASE \A o \in cfg.Off : f[o] # i
      BY <1>9, <1>f, <3>2 DEF WinInv, WinModules
    <3> QED
      BY <3>1, <3>2
  <2> QED
    BY <2>1, <2>2, <2>3, <2>4 DEF WinModules
<1>21. WinOwners(cfg)'
  <2> SUFFICES ASSUME NEW x \in Windows(cfg)!Addr, bps'[x] # None
               PROVE  /\ bps'[x].disabled = 0 => bps'[x].applied
                      /\ deferred'[bps'[x].id] # None => x = Spot(cfg, deferred'[bps'[x].id])
                      /\ index'[bps'[x].id] # None => x = index'[bps'[x].id]
                      /\ bps'[x].applied => deferred'[bps'[x].id] # None \/ index'[bps'[x].id] # None
                      /\ x \in Windows(cfg)!Site => x[1] \in loaded'
    BY DEF WinOwners, Spot
  <2>1. CASE \E o \in cfg.Off : x = <<m, o>>
    <3>1. PICK o \in cfg.Off : x = <<m, o>>
      BY <2>1
    <3>2. bps'[x].id = f[o] /\ bps'[x].applied /\ f[o] \in 0..cfg.MaxId /\ count <= f[o]
      BY <1>11, <1>f, <3>1
    <3>3. deferred'[f[o]] = None
      BY <1>3, <1>18, <3>2
    <3>4. index'[f[o]] = x /\ x # None
      BY <1>f, <3>1 DEF Windows!RecorderAssumption
    <3>5. x[1] \in loaded'
      BY <1>1, <1>5, <3>1
    <3> QED
      BY <3>2, <3>3, <3>4, <3>5
  <2>2. CASE x = a /\ bps'[x] = tab[a]
    <3>1. index'[i0] = None /\ deferred'[i0] = None
      BY <1>2, <1>3, <1>8, <1>9, <1>16 DEF WinInv, WinIds
    <3> QED
      BY <1>4, <1>7, <2>2, <3>1
  <2>3. CASE x # a /\ bps'[x] = bps[x]
    <3>1. bps'[x] = bps[x] /\ bps[x].id \in 0..cfg.MaxId /\ bps[x].id < count
      BY <1>17, <2>3
    <3>2. bps[x].id # i0
      <4>1. bps[x].id = i0 => x = Spot(cfg, deferred[i0])
        BY <1>2, <3>1 DEF WinInv, WinOwners
      <4>2. a = Spot(cfg, deferred[i0])
        BY <1>i, <1>1, <1>2 DEF WinInv, WinOwners
      <4> QED
        BY <2>3, <4>1, <4>2
    <3>3. deferred'[bps[x].id] = deferred[bps[x].id] /\ index'[bps[x].id] = index[bps[x].id]
      BY <1>8, <1>9, <1>16, <3>1, <3>2
    <3> QED
      BY <1>1, <3>1, <3>3 DEF WinInv, WinOwners
  <2> QED
    BY <1>13, <2>1, <2>2, <2>3
<1>22. WinStart(cfg)'
  BY <1>1, <1>k DEF WinInv, WinStart
<1>23. WinCounts(cfg)'
  <2>1. ASSUME NEW s \in Windows(cfg)!Site, s[1] \in entries', s[1] \notin unloaded, ~stop_error
        PROVE  bps'[s] # None /\ (bps'[s].applied \/ s \in coverage')
    <3>1. CASE s[1] = m
      <4>1. s[2] \in cfg.Off /\ s = <<m, s[2]>>
        BY <3>1 DEF Windows!Site
      <4> QED
        BY <1>11, <4>1
    <3>2. CASE s[1] # m
      <4>1. s \in Windows(cfg)!Addr /\ s # a
        BY <1>4, WinTyped DEF WinInv
      <4>2. bps'[s] = bps[s]
        BY <1>13, <3>2, <4>1
      <4> QED
        BY <1>1, <1>9, <2>1, <3>2, <4>2 DEF WinInv, WinCounts
    <3> QED
      BY <3>1, <3>2
  <2>2. \A s \in executed : s[1] \in entries' /\ (~stop_error => s \in coverage')
    BY <1>3, <1>9 DEF WinInv, WinCounts
  <2> QED
    BY <1>1, <1>2, <2>1, <2>2 DEF WinInv, WinCounts
<1>24. WinPending(cfg)'
  <2>1. ASSUME NEW i \in 0..cfg.MaxId, NEW n, NEW u, deferred'[i] # None, deferred'[i].thread # None,
               n = deferred'[i].module, u = deferred'[i].thread
        PROVE  Awaited(cfg, i, n, u)'
    <3>1. deferred'[i] = deferred[i] /\ n # m
      BY <1>18, <2>1
    <3>2. n \in cfg.Module /\ u \in cfg.Thread /\ cfg.Trigger[n] # None /\ Awaited(cfg, i, n, u)
      BY <2>1, <3>1, WinTyped DEF WinInv, WinPending, WinModules
    <3>3. cfg.RetOf[n] # a /\ cfg.RetOf[n] \in Windows(cfg)!Addr /\ \A o \in cfg.Off : cfg.RetOf[n] # <<m, o>>
      <4>1. \A p, q \in cfg.Module : cfg.RetOf[p] = cfg.RetOf[q] => p = q
        BY DEF Windows!RecorderAssumption
      <4>2. /\ cfg.RetOf[n] \in Windows(cfg)!Addr /\ cfg.RetOf[n] \notin Windows(cfg)!Site
            /\ \A o \in cfg.Off : <<m, o>> \in Windows(cfg)!Site
        BY <1>3, <3>2, WinTyped DEF WinInv
      <4> QED
        BY <1>3, <1>4, <3>1, <3>2, <4>1, <4>2
    <3>4. bps'[cfg.RetOf[n]] = bps[cfg.RetOf[n]] /\ Inside(cfg, n, u)'
      BY <1>1, <1>13, <3>2, <3>3 DEF Awaited
    <3> QED
      BY <1>1, <3>2, <3>4 DEF Awaited
  <2>2. ASSUME NEW i \in 0..cfg.MaxId, deferred'[i] # None, deferred'[i].thread # None
        PROVE  Awaited(cfg, i, deferred[i].module, deferred[i].thread)'
    <3>1. PICK n : n = deferred'[i].module
      OBVIOUS
    <3>2. PICK u : u = deferred'[i].thread
      OBVIOUS
    <3>3. Awaited(cfg, i, n, u)'
      BY <2>1, <2>2, <3>1, <3>2
    <3> QED
      BY <3>1, <3>2, <3>3 DEF Awaited, Inside
  <2>3. entries \subseteq cfg.Module /\ None \notin Windows(cfg)!Addr
    BY DEF WinInv, Windows!TypeOK, Windows!RecorderAssumption
  <2>4. \A n \in entries : cfg.RetOf[n] # None
    BY <2>3, WinTyped DEF WinInv
  <2>5. \A n \in entries' : cfg.Trigger[n] # None /\ n \notin returned' => \E u \in cfg.Thread : pc'[u] = cfg.RetOf[n]
    BY <1>1, <1>4, <1>9, <2>4 DEF WinInv, WinPending
  <2> QED
    BY <2>2, <2>5 DEF WinPending
<1> QED
  BY <1>1, <1>15, <1>19, <1>20, <1>21, <1>22, <1>23, <1>24 DEF WinInv

\* A block is executed for the first time: it is counted.
LEMMA WinSite ==
    ASSUME NEW cfg, Windows(cfg)!RecorderAssumption, WinInv(cfg), NEW t \in cfg.Thread,
           Windows(cfg)!OnSite(t)
    PROVE  WinInv(cfg)'
<1>a. PICK a : a = event[t]
  OBVIOUS
<1>i. PICK i0 : i0 = bps[a].id
  OBVIOUS
<1>b. PICK tab : tab = Windows(cfg)!Disabled(a)
  OBVIOUS
<1>h. Windows(cfg)!Hit(t)
  BY DEF Windows!OnSite
<1>1. /\ saw_initial_bp /\ a \in Windows(cfg)!Addr /\ bps[a] # None
      /\ UNCHANGED <<calls, saw_initial_bp, loaded, modules, executed, unloaded, returned>>
      /\ event' \in [cfg.Thread -> Windows(cfg)!Addr \cup {None}]
      /\ pc' \in [cfg.Thread -> Windows(cfg)!Addr \cup {None}]
      /\ pc'[t] = a /\ \A u \in cfg.Thread : pc[u] # None => pc'[u] = pc[u]
      /\ WinThreads(cfg)'
      /\ \A n \in cfg.Module, u \in cfg.Thread : cfg.Trigger[n] # None /\ Inside(cfg, n, u) => Inside(cfg, n, u)'
  BY <1>a, <1>h, WinHit
<1>2. /\ deferred[i0] = None /\ UNCHANGED <<unresolved, count, deferred, entries>>
      /\ bps' = Windows(cfg)!Disabled(a)
      /\ \/ /\ index[i0] # None /\ coverage' = coverage \cup {index[i0]}
            /\ index' = [index EXCEPT ![i0] = None] /\ UNCHANGED <<stop_error, exited>>
         \/ /\ index[i0] = None
            /\ stop_error' = TRUE /\ exited' = TRUE /\ UNCHANGED <<coverage, index>>
  <2>1. Windows(cfg)!DeferralAt(t) = deferred[i0]
    BY <1>a, <1>i DEF Windows!DeferralAt
  <2> QED
    BY <1>a, <1>i, <2>1 DEF Windows!OnSite, Windows!Counted
<1>3. i0 \in 0..cfg.MaxId /\ index \in [0..cfg.MaxId -> Windows(cfg)!Site \cup {None}]
  BY <1>i, <1>1, WinTyped DEF WinInv, Windows!TypeOK
<1>4. index[i0] # None => index[i0] = a /\ a \in Windows(cfg)!Site
  BY <1>i, <1>1, <1>3, WinTyped DEF WinInv, WinOwners
<1>5. /\ bps' \in [Windows(cfg)!Addr -> Windows(cfg)!Bp \cup {None}]
      /\ bps'[a] # None /\ bps'[a].id = i0 /\ bps'[a].disabled > 0 /\ ~bps'[a].applied
      /\ \A x \in Windows(cfg)!Addr : x # a => bps'[x] = bps[x]
  <2>1. a \in Windows(cfg)!Addr /\ bps[a] # None
    BY <1>1
  <2>2. /\ tab \in [Windows(cfg)!Addr -> Windows(cfg)!Bp \cup {None}]
        /\ tab[a] # None /\ tab[a].id = bps[a].id /\ tab[a].disabled > 0 /\ ~tab[a].applied
        /\ \A x \in Windows(cfg)!Addr : x # a => tab[x] = bps[x]
    BY <1>b, <2>1, WinDisabled
  <2>3. tab = bps'
    BY <1>b, <1>2
  <2> QED
    BY <1>i, <2>2, <2>3
<1>6. /\ index' \in [0..cfg.MaxId -> Windows(cfg)!Site \cup {None}] /\ index'[i0] = None
      /\ \A i \in 0..cfg.MaxId : i # i0 => index'[i] = index[i]
  BY <1>2, <1>3
<1>7. Windows(cfg)!TypeOK'
  <2>1. coverage' \subseteq Windows(cfg)!Site /\ stop_error' \in BOOLEAN /\ exited' \in BOOLEAN
    BY <1>2, <1>4 DEF WinInv, Windows!TypeOK
  <2> QED
    BY <1>1, <1>2, <1>5, <1>6, <2>1 DEF WinInv, Windows!TypeOK
<1>8. \A x \in Windows(cfg)!Addr : bps[x] # None => bps[x].id \in 0..cfg.MaxId
  BY WinTyped DEF WinInv
<1>9. WinIds(cfg)'
  <2>1. \A x \in Windows(cfg)!Addr : bps'[x] # None => bps'[x].id < count'
    BY <1>i, <1>1, <1>2, <1>5 DEF WinInv, WinIds
  <2>2. \A i \in 0..cfg.MaxId : index[i] = None => index'[i] = None
    BY <1>6
  <2> QED
    BY <1>2, <2>1, <2>2 DEF WinInv, WinIds
<1>10. WinModules(cfg)'
  <2>1. \A i \in 0..cfg.MaxId : index'[i] # None => index'[i] = index[i]
    BY <1>6
  <2> QED
    BY <1>1, <1>2, <2>1 DEF WinInv, WinModules
<1>11. WinOwners(cfg)'
  <2> SUFFICES ASSUME NEW x \in Windows(cfg)!Addr, bps'[x] # None
               PROVE  /\ bps'[x].disabled = 0 => bps'[x].applied
                      /\ deferred'[bps'[x].id] # None => x = Spot(cfg, deferred'[bps'[x].id])
                      /\ index'[bps'[x].id] # None => x = index'[bps'[x].id]
                      /\ bps'[x].applied => deferred'[bps'[x].id] # None \/ index'[bps'[x].id] # None
                      /\ x \in Windows(cfg)!Site => x[1] \in loaded'
    BY DEF WinOwners, Spot
  <2>1. CASE x = a
    <3>1. a \in Windows(cfg)!Site => a[1] \in loaded'
      BY <1>1 DEF WinInv, WinOwners
    <3>2. deferred'[bps'[x].id] = None /\ index'[bps'[x].id] = None
      BY <1>2, <1>5, <1>6, <2>1
    <3> QED
      BY <1>5, <2>1, <3>1, <3>2
  <2>2. CASE x # a
    <3>1. bps'[x] = bps[x] /\ bps[x].id \in 0..cfg.MaxId
      BY <1>5, <1>8, <2>2
    <3>2. CASE bps[x].id # i0
      <4>1. index'[bps[x].id] = index[bps[x].id]
        BY <1>6, <3>1, <3>2
      <4> QED
        BY <1>1, <1>2, <3>1, <4>1 DEF WinInv, WinOwners
    <3>3. CASE bps[x].id = i0
      <4>1. index[i0] = None
        BY <1>4, <2>2, <3>1, <3>3 DEF WinInv, WinOwners
      <4>2. index'[i0] = index[i0]
        BY <1>6, <4>1
      <4> QED
        BY <1>1, <1>2, <3>1, <3>3, <4>2 DEF WinInv, WinOwners
    <3> QED
      BY <3>2, <3>3
  <2> QED
    BY <2>1, <2>2
<1>12. WinStart(cfg)'
  BY <1>1, <1>2 DEF WinInv, WinStart
<1>13. WinCounts(cfg)'
  <2>1. CASE index[i0] # None
    <3>1. coverage' = coverage \cup {a} /\ UNCHANGED <<stop_error, exited>>
      BY <1>2, <1>4, <2>1
    <3>2. \A s \in Windows(cfg)!Site : s = a \/ (s \in Windows(cfg)!Addr /\ bps'[s] = bps[s])
      BY <1>5, WinTyped DEF WinInv
    <3> QED
      BY <1>1, <1>2, <1>5, <3>1, <3>2 DEF WinInv, WinCounts
  <2>2. CASE index[i0] = None
    BY <1>1, <1>2, <2>2 DEF WinInv, WinCounts
  <2> QED
    BY <2>1, <2>2
<1>14. WinPending(cfg)'
  <2>1. ASSUME NEW i \in 0..cfg.MaxId, NEW n, NEW u, deferred'[i] # None, deferred'[i].thread # None,
               n = deferred'[i].module, u = deferred'[i].thread
        PROVE  Awaited(cfg, i, n, u)'
    <3>1. deferred'[i] = deferred[i] /\ i # i0
      BY <1>2, <2>1
    <3>2. n \in cfg.Module /\ u \in cfg.Thread /\ cfg.Trigger[n] # None /\ Awaited(cfg, i, n, u)
      BY <2>1, <3>1, WinTyped DEF WinInv, WinPending, WinModules
    <3>3. cfg.RetOf[n] \in Windows(cfg)!Addr /\ bps[cfg.RetOf[n]].id = i
      BY <3>2, WinTyped DEF WinInv, Awaited
    <3>4. bps'[cfg.RetOf[n]] = bps[cfg.RetOf[n]] /\ Inside(cfg, n, u)'
      BY <1>i, <1>1, <1>5, <3>1, <3>2, <3>3 DEF Awaited
    <3> QED
      BY <1>1, <3>2, <3>4 DEF Awaited
  <2>2. ASSUME NEW i \in 0..cfg.MaxId, deferred'[i] # None, deferred'[i].thread # None
        PROVE  Awaited(cfg, i, deferred[i].module, deferred[i].thread)'
    <3>1. PICK n : n = deferred'[i].module
      OBVIOUS
    <3>2. PICK u : u = deferred'[i].thread
      OBVIOUS
    <3>3. Awaited(cfg, i, n, u)'
      BY <2>1, <2>2, <3>1, <3>2
    <3> QED
      BY <3>1, <3>2, <3>3 DEF Awaited, Inside
  <2>3. entries \subseteq cfg.Module /\ None \notin Windows(cfg)!Addr
    BY DEF WinInv, Windows!TypeOK, Windows!RecorderAssumption
  <2>4. \A n \in entries : cfg.RetOf[n] # None
    BY <2>3, WinTyped DEF WinInv
  <2> QED
    BY <1>1, <1>2, <2>2, <2>4 DEF WinInv, WinPending
<1> QED
  BY <1>1, <1>7, <1>9, <1>10, <1>11, <1>12, <1>13, <1>14 DEF WinInv

\* A library is unloaded, which no thread is in.
LEMMA WinUnload ==
    ASSUME NEW cfg, Windows(cfg)!RecorderAssumption, WinInv(cfg), NEW m \in cfg.Module,
           Windows(cfg)!UnloadDll(m)
    PROVE  WinInv(cfg)'
<1>1. /\ saw_initial_bp /\ Windows(cfg)!Stopped(m)
      /\ loaded' = loaded \ {m} /\ unloaded' = unloaded \cup {m}
      /\ bps' = [x \in Windows(cfg)!Addr |-> IF x \in {m} \X cfg.Off THEN None ELSE bps[x]]
      /\ UNCHANGED <<event, pc, calls, saw_initial_bp, unresolved, count, modules, deferred, index, entries,
                     coverage, stop_error, exited, executed, returned>>
  BY DEF Windows!UnloadDll, Windows!os, Windows!recorder
<1>2. \A x \in Windows(cfg)!Addr : bps'[x] = IF x \in {m} \X cfg.Off THEN None ELSE bps[x]
  BY <1>1
<1>3. \A x \in Windows(cfg)!Addr : bps'[x] # None => bps'[x] = bps[x] /\ (x \in Windows(cfg)!Site => x[1] # m)
  <2>1. \A x \in Windows(cfg)!Site : x[1] = m => x \in {m} \X cfg.Off
    BY DEF Windows!Site
  <2> QED
    BY <1>2, <2>1
<1>4. \A x \in Windows(cfg)!Addr : (x \in Windows(cfg)!Site => x[1] # m) => bps'[x] = bps[x]
  <2>1. \A x \in {m} \X cfg.Off : x \in Windows(cfg)!Site /\ x[1] = m
    BY DEF Windows!Site
  <2> QED
    BY <1>2, <2>1
<1>5. Windows(cfg)!TypeOK'
  <2>1. bps' \in [Windows(cfg)!Addr -> Windows(cfg)!Bp \cup {None}]
    BY <1>1 DEF WinInv, Windows!TypeOK
  <2> QED
    BY <1>1, <2>1 DEF WinInv, Windows!TypeOK
<1>6. WinIds(cfg)' /\ WinModules(cfg)'
  BY <1>1, <1>3 DEF WinInv, WinIds, WinModules
<1>7. WinOwners(cfg)'
  BY <1>1, <1>3 DEF WinInv, WinOwners, Spot
<1>8. WinStart(cfg)'
  BY <1>1 DEF WinInv, WinStart
<1>9. WinCounts(cfg)'
  <2>1. Windows(cfg)!Site \subseteq Windows(cfg)!Addr
    BY WinTyped DEF WinInv
  <2> QED
    BY <1>1, <1>4, <2>1 DEF WinInv, WinCounts
<1>10. WinThreads(cfg)'
  BY <1>1 DEF WinInv, WinThreads, Windows!AtTrigger
<1>11. WinPending(cfg)'
  <2>1. ASSUME NEW i \in 0..cfg.MaxId, NEW n, NEW u, deferred[i] # None, deferred[i].thread # None,
               n = deferred[i].module, u = deferred[i].thread
        PROVE  Awaited(cfg, i, n, u)'
    <3>1. /\ n \in cfg.Module /\ u \in cfg.Thread /\ cfg.Trigger[n] # None /\ Awaited(cfg, i, n, u)
          /\ <<n, cfg.Trigger[n]>> \in {n} \X cfg.Off
          /\ cfg.RetOf[n] \in Windows(cfg)!Addr /\ cfg.RetOf[n] \notin Windows(cfg)!Site
      BY <2>1, WinTyped DEF WinInv, WinPending, WinModules
    <3>2. n # m
      BY <1>1, <3>1 DEF Awaited, Inside, Windows!Stopped
    <3>3. bps'[cfg.RetOf[n]] = bps[cfg.RetOf[n]]
      BY <1>4, <3>1
    <3> QED
      BY <1>1, <3>1, <3>2, <3>3 DEF Awaited, Inside
  <2>2. \A i \in 0..cfg.MaxId : deferred'[i] # None /\ deferred'[i].thread # None =>
          Awaited(cfg, i, deferred[i].module, deferred[i].thread)'
    <3>1. deferred' = deferred
      BY <1>1
    <3> QED
      BY <2>1, <3>1 DEF Awaited, Inside
  <2> QED
    BY <1>1, <2>2 DEF WinInv, WinPending
<1> QED
  BY <1>5, <1>6, <1>7, <1>8, <1>9, <1>10, <1>11 DEF WinInv

\* A library is loaded that is not on the allowlist, or is known already.
LEMMA WinLoadOther ==
    ASSUME NEW cfg, Windows(cfg)!RecorderAssumption, WinInv(cfg), NEW m \in cfg.Module,
           loaded' = loaded \cup {m},
           UNCHANGED <<event, pc, calls, saw_initial_bp, stop_error, exited, executed, unloaded, returned>>,
           UNCHANGED <<bps, unresolved, count, modules, deferred, index, entries, coverage>>
    PROVE  WinInv(cfg)'
<1>1. Windows(cfg)!TypeOK'
  BY DEF WinInv, Windows!TypeOK
<1>2. WinIds(cfg)' /\ WinModules(cfg)'
  BY DEF WinInv, WinIds, WinModules, Spot
<1>3. WinOwners(cfg)'
  BY DEF WinInv, WinOwners, Spot
<1>4. WinStart(cfg)' /\ WinCounts(cfg)'
  BY DEF WinInv, WinStart, WinCounts, Spot
<1>5. WinThreads(cfg)'
  BY DEF WinInv, WinThreads, Windows!AtTrigger
<1>6. WinPending(cfg)'
  BY DEF WinInv, WinPending, Awaited, Inside
<1> QED
  BY <1>1, <1>2, <1>3, <1>4, <1>5, <1>6 DEF WinInv

\* A module with a trigger function is loaded: its breakpoints are deferred.
LEMMA WinLoadDeferred ==
    ASSUME NEW cfg, Windows(cfg)!RecorderAssumption, WinInv(cfg), NEW m \in cfg.Module,
           m \notin loaded, loaded' = loaded \cup {m}, m \notin modules, modules' = modules \cup {m},
           cfg.Trigger[m] # None, Windows(cfg)!SetTrigger(bps, deferred, m, None),
           UNCHANGED <<event, pc, calls, saw_initial_bp, stop_error, exited, executed, unloaded, returned>>
    PROVE  WinInv(cfg)'
<1>a. PICK a : a = <<m, cfg.Trigger[m]>>
  OBVIOUS
<1>d. PICK d : d = [module |-> m, thread |-> None]
  OBVIOUS
<1>1. /\ a \in Windows(cfg)!Site /\ a \in Windows(cfg)!Addr /\ a[1] = m /\ a # None
      /\ count \in Nat /\ cfg.MaxId \in Nat
  BY <1>a, WinTyped DEF WinInv, Windows!RecorderAssumption
<1>2. /\ count \in 0..cfg.MaxId /\ count' = count + 1
      /\ deferred' = [deferred EXCEPT ![count] = d]
      /\ UNCHANGED <<index, entries, coverage>>
  BY <1>d, SetTriggerEffect DEF WinInv
<1>3. d \in Windows(cfg)!Deferral /\ d # None /\ d.module = m /\ d.thread = None /\ Spot(cfg, d) = a
  BY <1>a, <1>d DEF Windows!Deferral, Windows!RecorderAssumption, Spot
<1>4. /\ deferred' \in [0..cfg.MaxId -> Windows(cfg)!Deferral \cup {None}] /\ deferred'[count] = d
      /\ \A i \in 0..cfg.MaxId : i # count => deferred'[i] = deferred[i]
  BY <1>2, <1>3 DEF WinInv, Windows!TypeOK
<1>5. \A i \in 0..cfg.MaxId : deferred[i] # None => i < count /\ deferred[i].module # m
  BY <1>1 DEF WinInv, WinIds, WinModules
<1>6. bps[a] = None
  BY <1>1 DEF WinInv, WinOwners
<1>7. \/ /\ saw_initial_bp /\ bps' \in [Windows(cfg)!Addr -> Windows(cfg)!Bp \cup {None}]
         /\ bps'[a] # None /\ bps'[a].id = count /\ bps'[a].applied /\ UNCHANGED unresolved
         /\ \A x \in Windows(cfg)!Addr : x # a => bps'[x] = bps[x]
      \/ /\ ~saw_initial_bp /\ bps' = bps /\ unresolved' = unresolved \cup {<<count, a>>}
  <2>1. IF saw_initial_bp
        THEN /\ bps' = [x \in Windows(cfg)!Addr |->
                          IF x = <<m, cfg.Trigger[m]>> THEN Windows(cfg)!NewBreakpoint(bps[x], count) ELSE bps[x]]
             /\ UNCHANGED unresolved
        ELSE bps' = bps /\ unresolved' = unresolved \cup {<<count, <<m, cfg.Trigger[m]>>>>}
    BY SetTriggerEffect DEF WinInv
  <2>2. CASE saw_initial_bp
    <3>n. PICK new : new = Windows(cfg)!NewBreakpoint(bps[a], count)
      OBVIOUS
    <3>1. new \in Windows(cfg)!Bp /\ new # None /\ new.id = count /\ new.applied
      BY <1>2, <1>6, <3>n, NewBreakpointFacts
    <3>2. bps' = [x \in Windows(cfg)!Addr |->
                    IF x = a THEN Windows(cfg)!NewBreakpoint(bps[x], count) ELSE bps[x]]
      BY <1>a, <2>1, <2>2
    <3>3. bps'[a] = new /\ \A x \in Windows(cfg)!Addr : x # a => bps'[x] = bps[x]
      BY <1>1, <3>2, <3>n
    <3>4. bps' = [x \in Windows(cfg)!Addr |-> bps'[x]]
      BY <3>2
    <3>5. \A x \in Windows(cfg)!Addr : bps'[x] \in Windows(cfg)!Bp \cup {None}
      BY <3>1, <3>3 DEF WinInv, Windows!TypeOK
    <3>6. bps' \in [Windows(cfg)!Addr -> Windows(cfg)!Bp \cup {None}]
      BY <3>4, <3>5
    <3> QED
      BY <2>1, <2>2, <3>1, <3>3, <3>6
  <2>3. CASE ~saw_initial_bp
    BY <1>a, <2>1, <2>3
  <2> QED
    BY <2>2, <2>3
<1>8. /\ bps' \in [Windows(cfg)!Addr -> Windows(cfg)!Bp \cup {None}]
      /\ \A x \in Windows(cfg)!Addr : bps'[x] # None =>
           \/ saw_initial_bp /\ x = a /\ bps'[x].id = count /\ bps'[x].applied
           \/ bps'[x] = bps[x]
      /\ \A x \in Windows(cfg)!Addr : x # a => bps'[x] = bps[x]
  BY <1>7 DEF WinInv, Windows!TypeOK
<1>9. \A u \in unresolved' : u \in unresolved \/ (~saw_initial_bp /\ u = <<count, a>>)
  BY <1>7
<1>10. \A x \in Windows(cfg)!Addr : bps[x] # None => bps[x].id \in 0..cfg.MaxId /\ bps[x].id < count
  BY WinTyped DEF WinInv, WinIds
<1>11. \A u \in unresolved : u[1] \in 0..cfg.MaxId /\ u[1] < count /\ u[2][1] \in loaded /\ u[2] # a
  BY <1>1, WinTyped DEF WinInv, WinIds, WinStart
<1>12. Windows(cfg)!TypeOK'
  <2>1. count' \in 0..(cfg.MaxId + 1)
    BY <1>1, <1>2
  <2>2. unresolved' \subseteq (0..cfg.MaxId) \X Windows(cfg)!Site
    BY <1>1, <1>2, <1>9 DEF WinInv, Windows!TypeOK
  <2> QED
    BY <1>2, <1>4, <1>8, <2>1, <2>2 DEF WinInv, Windows!TypeOK
<1>13. WinIds(cfg)'
  <2>1. \A i \in 0..cfg.MaxId : i >= count' => deferred'[i] = None /\ index'[i] = None
    <3>1. \A i \in 0..cfg.MaxId : i >= count' => i >= count /\ i # count
      BY <1>1, <1>2
    <3> QED
      BY <1>2, <1>4, <3>1 DEF WinInv, WinIds
  <2>2. \A x \in Windows(cfg)!Addr : bps'[x] # None => bps'[x].id < count'
    BY <1>1, <1>2, <1>8, <1>10
  <2>3. \A u \in unresolved' : u[1] < count'
    BY <1>1, <1>2, <1>9, <1>11
  <2>4. \A i \in 0..cfg.MaxId : deferred'[i] = None \/ index'[i] = None
    BY <1>1, <1>2, <1>4 DEF WinInv, WinIds
  <2> QED
    BY <2>1, <2>2, <2>3, <2>4 DEF WinIds
<1>14. WinModules(cfg)'
  <2>1. \A i \in 0..cfg.MaxId : deferred'[i] # None =>
          /\ deferred'[i].module \in modules' /\ deferred'[i].module \notin entries'
          /\ cfg.Trigger[deferred'[i].module] # None
    BY <1>2, <1>3, <1>4 DEF WinInv, WinModules
  <2>2. \A i, j \in 0..cfg.MaxId :
          deferred'[i] # None /\ deferred'[j] # None /\ deferred'[i].module = deferred'[j].module => i = j
    BY <1>3, <1>4, <1>5 DEF WinInv, WinModules
  <2>3. entries' \subseteq modules' /\ \A n \in modules' : n \in loaded' \/ n \in unloaded'
    BY <1>2 DEF WinInv, WinModules
  <2>4. \A i \in 0..cfg.MaxId : index'[i] # None => index'[i][1] \in entries'
    BY <1>2 DEF WinInv, WinModules
  <2> QED
    BY <2>1, <2>2, <2>3, <2>4 DEF WinModules
<1>15. index'[count] = None
  BY <1>1, <1>2 DEF WinInv, WinIds
<1>16. WinOwners(cfg)'
  <2> SUFFICES ASSUME NEW x \in Windows(cfg)!Addr, bps'[x] # None
               PROVE  /\ bps'[x].disabled = 0 => bps'[x].applied
                      /\ deferred'[bps'[x].id] # None => x = Spot(cfg, deferred'[bps'[x].id])
                      /\ index'[bps'[x].id] # None => x = index'[bps'[x].id]
                      /\ bps'[x].applied => deferred'[bps'[x].id] # None \/ index'[bps'[x].id] # None
                      /\ x \in Windows(cfg)!Site => x[1] \in loaded'
    BY DEF WinOwners, Spot
  <2>1. CASE x = a /\ bps'[x].id = count /\ bps'[x].applied
    BY <1>1, <1>3, <1>4, <1>15, <2>1
  <2>2. CASE bps'[x] = bps[x]
    <3>1. bps[x].id \in 0..cfg.MaxId /\ bps[x].id # count
      BY <1>1, <1>10, <2>2
    <3>2. deferred'[bps[x].id] = deferred[bps[x].id] /\ index'[bps[x].id] = index[bps[x].id]
      BY <1>2, <1>4, <3>1
    <3> QED
      BY <2>2, <3>2 DEF WinInv, WinOwners
  <2> QED
    BY <1>8, <2>1, <2>2
<1>17. WinStart(cfg)'
  <2>1. CASE saw_initial_bp
    BY <1>7, <2>1 DEF WinInv, WinStart
  <2>2. CASE ~saw_initial_bp
    <3>1. \A x \in Windows(cfg)!Addr : bps'[x] = None
      BY <1>7, <2>2 DEF WinInv, WinStart
    <3>2. \A i \in 0..cfg.MaxId : deferred'[i] # None => deferred'[i].thread = None
      BY <1>3, <1>4, <2>2 DEF WinInv, WinStart
    <3>3. \A s \in Windows(cfg)!Site : s[1] \in entries' => \E u \in unresolved' : u[2] = s
      BY <1>2, <1>7, <2>2 DEF WinInv, WinStart
    <3>4. \A u \in unresolved' : /\ u[2][1] \in loaded'
                                 /\ \/ deferred'[u[1]] # None /\ u[2] = Spot(cfg, deferred'[u[1]])
                                    \/ index'[u[1]] = u[2]
      <4> SUFFICES ASSUME NEW u \in unresolved'
                   PROVE  /\ u[2][1] \in loaded'
                          /\ \/ deferred'[u[1]] # None /\ u[2] = Spot(cfg, deferred'[u[1]])
                             \/ index'[u[1]] = u[2]
        OBVIOUS
      <4>1. CASE u = <<count, a>>
        BY <1>1, <1>3, <1>4, <4>1
      <4>2. CASE u \in unresolved
        <5>1. deferred'[u[1]] = deferred[u[1]]
          BY <1>1, <1>4, <1>11, <4>2
        <5> QED
          BY <1>2, <4>2, <5>1 DEF WinInv, WinStart
      <4> QED
        BY <1>9, <4>1, <4>2
    <3>5. \A u, v \in unresolved' : u[2] = v[2] => u = v
      BY <1>9, <1>11 DEF WinInv, WinStart
    <3>6. unloaded = {} /\ \A t \in cfg.Thread : event[t] = None /\ pc[t] = None /\ calls[t] = <<>>
      BY <2>2 DEF WinInv, WinStart
    <3> QED
      BY <2>2, <3>1, <3>2, <3>3, <3>4, <3>5, <3>6 DEF WinStart, Spot
  <2> QED
    BY <2>1, <2>2
<1>18. WinCounts(cfg)'
  <2>1. \A s \in Windows(cfg)!Site : s[1] \in entries => s \in Windows(cfg)!Addr /\ bps'[s] = bps[s]
    <3>1. m \notin entries /\ Windows(cfg)!Site \subseteq Windows(cfg)!Addr
      BY WinTyped DEF WinInv, WinModules
    <3> QED
      BY <1>1, <1>8, <3>1
  <2> QED
    BY <1>2, <2>1 DEF WinInv, WinCounts
<1>19. WinThreads(cfg)'
  BY DEF WinInv, WinThreads, Windows!AtTrigger
<1>20. WinPending(cfg)'
  <2>1. ASSUME NEW i \in 0..cfg.MaxId, NEW n, NEW u, deferred'[i] # None, deferred'[i].thread # None,
               n = deferred'[i].module, u = deferred'[i].thread
        PROVE  Awaited(cfg, i, n, u)'
    <3>1. deferred'[i] = deferred[i]
      BY <1>3, <1>4, <2>1
    <3>2. n \in cfg.Module /\ u \in cfg.Thread /\ cfg.Trigger[n] # None /\ Awaited(cfg, i, n, u)
      BY <2>1, <3>1, WinTyped DEF WinInv, WinPending, WinModules
    <3>3. cfg.RetOf[n] \in Windows(cfg)!Addr /\ cfg.RetOf[n] # a
      BY <1>1, <3>2, WinTyped DEF WinInv
    <3>4. bps'[cfg.RetOf[n]] = bps[cfg.RetOf[n]]
      BY <1>8, <3>3
    <3> QED
      BY <3>2, <3>4 DEF Awaited, Inside
  <2>2. ASSUME NEW i \in 0..cfg.MaxId, deferred'[i] # None, deferred'[i].thread # None
        PROVE  Awaited(cfg, i, deferred[i].module, deferred[i].thread)'
    <3>1. PICK n : n = deferred'[i].module
      OBVIOUS
    <3>2. PICK u : u = deferred'[i].thread
      OBVIOUS
    <3>3. Awaited(cfg, i, n, u)'
      BY <2>1, <2>2, <3>1, <3>2
    <3> QED
      BY <3>1, <3>2, <3>3 DEF Awaited, Inside
  <2> QED
    BY <1>2, <2>2 DEF WinInv, WinPending
<1> QED
  BY <1>12, <1>13, <1>14, <1>16, <1>17, <1>18, <1>19, <1>20 DEF WinInv

\* A module without a trigger function is loaded: it is instrumented.
LEMMA WinLoadInstrumented ==
    ASSUME NEW cfg, Windows(cfg)!RecorderAssumption, WinInv(cfg), NEW m \in cfg.Module,
           m \notin loaded, loaded' = loaded \cup {m}, m \notin modules, modules' = modules \cup {m},
           cfg.Trigger[m] = None, Windows(cfg)!SetModuleBreakpoints(bps, deferred, m),
           UNCHANGED <<event, pc, calls, saw_initial_bp, stop_error, exited, executed, unloaded, returned>>
    PROVE  WinInv(cfg)'
<1>1. /\ count \in Nat /\ cfg.MaxId \in Nat /\ m \notin entries
      /\ \A o \in cfg.Off : <<m, o>> \in Windows(cfg)!Site /\ <<m, o>> \in Windows(cfg)!Addr
      /\ Windows(cfg)!Site \subseteq Windows(cfg)!Addr
  BY WinTyped DEF WinInv, WinModules
<1>2. /\ count' \in 0..(cfg.MaxId + 1) /\ count <= count'
      /\ entries' = entries \cup {m} /\ coverage' = {s \in coverage : s[1] # m} /\ deferred' = deferred
  BY SetModuleEffect DEF WinInv
<1>g. PICK f \in [cfg.Off -> 0..cfg.MaxId] : Numbered(cfg, bps, m, f)
  BY SetModuleEffect DEF WinInv
<1>f. /\ \A o \in cfg.Off : /\ f[o] \in 0..cfg.MaxId /\ count <= f[o] /\ f[o] < count'
                            /\ index'[f[o]] = <<m, o>>
      /\ index' \in [0..cfg.MaxId -> Windows(cfg)!Site \cup {None}]
      /\ \A i \in 0..cfg.MaxId : (\A o \in cfg.Off : f[o] # i) => index'[i] = index[i]
  BY <1>g DEF Numbered
<1>3. \A i \in 0..cfg.MaxId : i < count => index'[i] = index[i]
  <2> SUFFICES ASSUME NEW i \in 0..cfg.MaxId, i < count PROVE index'[i] = index[i]
    OBVIOUS
  <2>1. \A o \in cfg.Off : f[o] # i
    BY <1>1, <1>f
  <2> QED
    BY <1>f, <2>1
<1>4. \A o \in cfg.Off : bps[<<m, o>>] = None
  <2> SUFFICES ASSUME NEW x \in Windows(cfg)!Site, x[1] = m PROVE bps[x] = None
    BY <1>1
  <2> QED
    BY <1>1 DEF WinInv, WinOwners
<1>5. \/ /\ saw_initial_bp /\ bps' \in [Windows(cfg)!Addr -> Windows(cfg)!Bp \cup {None}] /\ UNCHANGED unresolved
         /\ \A o \in cfg.Off : /\ bps'[<<m, o>>] # None /\ bps'[<<m, o>>].id = f[o] /\ bps'[<<m, o>>].applied
         /\ \A x \in Windows(cfg)!Addr : (\E o \in cfg.Off : x = <<m, o>>) \/ bps'[x] = bps[x]
      \/ /\ ~saw_initial_bp /\ bps' = bps
         /\ unresolved' = unresolved \cup {<<f[o], <<m, o>>>> : o \in cfg.Off}
  <2>0. ~saw_initial_bp => bps' = bps /\ unresolved' = unresolved \cup {<<f[o], <<m, o>>>> : o \in cfg.Off}
    BY <1>g DEF Numbered
  <2> SUFFICES ASSUME saw_initial_bp
               PROVE  /\ bps' \in [Windows(cfg)!Addr -> Windows(cfg)!Bp \cup {None}] /\ UNCHANGED unresolved
                      /\ \A o \in cfg.Off : /\ bps'[<<m, o>>] # None /\ bps'[<<m, o>>].id = f[o]
                                             /\ bps'[<<m, o>>].applied
                      /\ \A x \in Windows(cfg)!Addr : (\E o \in cfg.Off : x = <<m, o>>) \/ bps'[x] = bps[x]
    BY <2>0
  <2>1. /\ bps' = [x \in Windows(cfg)!Addr |->
                    IF x \in {m} \X cfg.Off THEN Windows(cfg)!NewBreakpoint(bps[x], f[x[2]]) ELSE bps[x]]
        /\ UNCHANGED unresolved
    BY <1>g DEF Numbered
  <2>2. ASSUME NEW o \in cfg.Off
        PROVE  /\ bps'[<<m, o>>] \in Windows(cfg)!Bp /\ bps'[<<m, o>>] # None
               /\ bps'[<<m, o>>].id = f[o] /\ bps'[<<m, o>>].applied
    <3>1. PICK x : x = <<m, o>>
      OBVIOUS
    <3>2. x \in {m} \X cfg.Off /\ x[2] = o /\ x \in Windows(cfg)!Addr /\ bps[x] = None
      BY <1>1, <1>4, <3>1
    <3>3. bps'[x] = Windows(cfg)!NewBreakpoint(bps[x], f[x[2]])
      BY <2>1, <3>2
    <3>4. bps'[x] = Windows(cfg)!NewBreakpoint(None, f[o]) /\ f[o] \in 0..cfg.MaxId
      BY <1>f, <3>2, <3>3
    <3>5. bps'[x] \in Windows(cfg)!Bp /\ bps'[x] # None /\ bps'[x].id = f[o] /\ bps'[x].applied
      BY <3>4, NewBreakpointFacts
    <3> QED
      BY <3>1, <3>5
  <2>3. \A x \in Windows(cfg)!Addr : (\E o \in cfg.Off : x = <<m, o>>) \/ bps'[x] = bps[x]
    BY <2>1
  <2>4. bps' = [x \in Windows(cfg)!Addr |-> bps'[x]]
    BY <2>1
  <2>5. \A x \in Windows(cfg)!Addr : bps'[x] \in Windows(cfg)!Bp \cup {None}
    BY <2>2, <2>3 DEF WinInv, Windows!TypeOK
  <2>6. bps' \in [Windows(cfg)!Addr -> Windows(cfg)!Bp \cup {None}]
    BY <2>4, <2>5
  <2> QED
    BY <2>1, <2>2, <2>3, <2>6
<1>8. /\ bps' \in [Windows(cfg)!Addr -> Windows(cfg)!Bp \cup {None}]
      /\ \A x \in Windows(cfg)!Addr : bps'[x] # None =>
           \/ \E o \in cfg.Off : x = <<m, o>> /\ bps'[x].id = f[o] /\ bps'[x].applied
           \/ bps'[x] = bps[x]
      /\ \A x \in Windows(cfg)!Addr : (\E o \in cfg.Off : x = <<m, o>>) \/ bps'[x] = bps[x]
  BY <1>5 DEF WinInv, Windows!TypeOK
<1>9. \A u \in unresolved' : u \in unresolved \/ (~saw_initial_bp /\ \E o \in cfg.Off : u = <<f[o], <<m, o>>>>)
  BY <1>5
<1>10. \A x \in Windows(cfg)!Addr : bps[x] # None => bps[x].id \in 0..cfg.MaxId /\ bps[x].id < count
  BY WinTyped DEF WinInv, WinIds
<1>11. \A u \in unresolved : u[1] \in 0..cfg.MaxId /\ u[1] < count /\ u[2][1] \in loaded /\ u[2][1] # m
  BY WinTyped DEF WinInv, WinIds, WinStart
<1>d. \A i \in 0..cfg.MaxId : deferred[i] # None => i < count
  BY <1>1 DEF WinInv, WinIds
<1>12. Windows(cfg)!TypeOK'
  <2>1. unresolved' \subseteq (0..cfg.MaxId) \X Windows(cfg)!Site
    BY <1>1, <1>f, <1>9 DEF WinInv, Windows!TypeOK
  <2>2. entries' \subseteq cfg.Module /\ coverage' \subseteq Windows(cfg)!Site
    BY <1>2 DEF WinInv, Windows!TypeOK
  <2>3. index' \in [0..cfg.MaxId -> Windows(cfg)!Site \cup {None}]
    BY <1>f
  <2> QED
    BY <1>2, <1>8, <2>1, <2>2, <2>3 DEF WinInv, Windows!TypeOK
<1>13. WinIds(cfg)'
  <2>1. \A i \in 0..cfg.MaxId : i >= count' => deferred'[i] = None /\ index'[i] = None
    <3> SUFFICES ASSUME NEW i \in 0..cfg.MaxId, i >= count' PROVE deferred'[i] = None /\ index'[i] = None
      OBVIOUS
    <3>1. i >= count
      BY <1>1, <1>2
    <3>2. \A o \in cfg.Off : f[o] # i
      BY <1>2, <1>f
    <3> QED
      BY <1>2, <1>f, <3>1, <3>2 DEF WinInv, WinIds
  <2>2. \A x \in Windows(cfg)!Addr : bps'[x] # None => bps'[x].id < count'
    <3>1. \A o \in cfg.Off : f[o] < count'
      BY <1>f
    <3>2. \A i \in 0..cfg.MaxId : i < count => i < count'
      BY <1>1, <1>2
    <3> QED
      BY <1>8, <1>10, <3>1, <3>2
  <2>3. \A u \in unresolved' : u[1] < count'
    <3>1. \A o \in cfg.Off : f[o] < count'
      BY <1>f
    <3>2. \A i \in 0..cfg.MaxId : i < count => i < count'
      BY <1>1, <1>2
    <3> QED
      BY <1>9, <1>11, <3>1, <3>2
  <2>4. \A i \in 0..cfg.MaxId : deferred'[i] = None \/ index'[i] = None
    BY <1>2, <1>3, <1>d DEF WinInv, WinIds
  <2> QED
    BY <2>1, <2>2, <2>3, <2>4 DEF WinIds
<1>14. WinModules(cfg)'
  <2>1. \A i \in 0..cfg.MaxId : deferred'[i] # None =>
          /\ deferred'[i].module \in modules' /\ deferred'[i].module \notin entries'
          /\ cfg.Trigger[deferred'[i].module] # None
    BY <1>2 DEF WinInv, WinModules
  <2>2. \A i, j \in 0..cfg.MaxId :
          deferred'[i] # None /\ deferred'[j] # None /\ deferred'[i].module = deferred'[j].module => i = j
    BY <1>2 DEF WinInv, WinModules
  <2>3. entries' \subseteq modules' /\ \A n \in modules' : n \in loaded' \/ n \in unloaded'
    BY <1>2 DEF WinInv, WinModules
  <2>4. \A i \in 0..cfg.MaxId : index'[i] # None => index'[i][1] \in entries'
    <3> SUFFICES ASSUME NEW i \in 0..cfg.MaxId, index'[i] # None PROVE index'[i][1] \in entries'
      OBVIOUS
    <3>1. CASE \E o \in cfg.Off : f[o] = i
      BY <1>2, <1>f, <3>1
    <3>2. CASE \A o \in cfg.Off : f[o] # i
      BY <1>2, <1>f, <3>2 DEF WinInv, WinModules
    <3> QED
      BY <3>1, <3>2
  <2> QED
    BY <2>1, <2>2, <2>3, <2>4 DEF WinModules
<1>15. \A o \in cfg.Off : deferred'[f[o]] = None /\ index'[f[o]] = <<m, o>> /\ <<m, o>> # None
  <2>1. \A o \in cfg.Off : <<m, o>> # None
    BY <1>1 DEF Windows!RecorderAssumption
  <2>2. \A o \in cfg.Off : deferred[f[o]] = None
    BY <1>1, <1>f, <1>d
  <2> QED
    BY <1>2, <1>f, <2>1, <2>2
<1>16. WinOwners(cfg)'
  <2> SUFFICES ASSUME NEW x \in Windows(cfg)!Addr, bps'[x] # None
               PROVE  /\ bps'[x].disabled = 0 => bps'[x].applied
                      /\ deferred'[bps'[x].id] # None => x = Spot(cfg, deferred'[bps'[x].id])
                      /\ index'[bps'[x].id] # None => x = index'[bps'[x].id]
                      /\ bps'[x].applied => deferred'[bps'[x].id] # None \/ index'[bps'[x].id] # None
                      /\ x \in Windows(cfg)!Site => x[1] \in loaded'
    BY DEF WinOwners, Spot
  <2>1. CASE \E o \in cfg.Off : x = <<m, o>> /\ bps'[x].id = f[o] /\ bps'[x].applied
    <3>1. PICK o \in cfg.Off : x = <<m, o>> /\ bps'[x].id = f[o] /\ bps'[x].applied
      BY <2>1
    <3>2. deferred'[bps'[x].id] = None /\ index'[bps'[x].id] = x /\ x # None
      BY <1>15, <3>1
    <3>3. x[1] = m
      BY <3>1
    <3> QED
      BY <3>1, <3>2, <3>3
  <2>2. CASE bps'[x] = bps[x]
    <3>1. bps[x].id \in 0..cfg.MaxId /\ bps[x].id < count
      BY <1>10, <2>2
    <3>2. deferred'[bps[x].id] = deferred[bps[x].id] /\ index'[bps[x].id] = index[bps[x].id]
      BY <1>2, <1>3, <3>1
    <3> QED
      BY <2>2, <3>2 DEF WinInv, WinOwners
  <2> QED
    BY <1>8, <2>1, <2>2
<1>17. WinStart(cfg)'
  <2>1. CASE saw_initial_bp
    BY <1>5, <2>1 DEF WinInv, WinStart
  <2>2. CASE ~saw_initial_bp
    <3>1. \A x \in Windows(cfg)!Addr : bps'[x] = None
      BY <1>5, <2>2 DEF WinInv, WinStart
    <3>2. \A i \in 0..cfg.MaxId : deferred'[i] # None => deferred'[i].thread = None
      BY <1>2, <2>2 DEF WinInv, WinStart
    <3>3. \A s \in Windows(cfg)!Site : s[1] \in entries' => \E u \in unresolved' : u[2] = s
      <4> SUFFICES ASSUME NEW s \in Windows(cfg)!Site, s[1] \in entries' PROVE \E u \in unresolved' : u[2] = s
        OBVIOUS
      <4>1. CASE s[1] = m
        <5>1. s[2] \in cfg.Off /\ s = <<m, s[2]>>
          BY <4>1 DEF Windows!Site
        <5>2. <<f[s[2]], s>> \in unresolved'
          BY <1>5, <2>2, <5>1
        <5> QED
          BY <5>2
      <4>2. CASE s[1] # m
        <5>1. PICK u \in unresolved : u[2] = s
          BY <1>2, <2>2, <4>2 DEF WinInv, WinStart
        <5>2. u \in unresolved'
          BY <1>5, <2>2
        <5> QED
          BY <5>1, <5>2
      <4> QED
        BY <4>1, <4>2
    <3>4. \A u \in unresolved' : /\ u[2][1] \in loaded'
                                 /\ \/ deferred'[u[1]] # None /\ u[2] = Spot(cfg, deferred'[u[1]])
                                    \/ index'[u[1]] = u[2]
      <4> SUFFICES ASSUME NEW u \in unresolved'
                   PROVE  /\ u[2][1] \in loaded'
                          /\ \/ deferred'[u[1]] # None /\ u[2] = Spot(cfg, deferred'[u[1]])
                             \/ index'[u[1]] = u[2]
        OBVIOUS
      <4>1. CASE \E o \in cfg.Off : u = <<f[o], <<m, o>>>>
        <5>1. PICK o \in cfg.Off : u = <<f[o], <<m, o>>>>
          BY <4>1
        <5>2. u[1] = f[o] /\ u[2] = <<m, o>> /\ u[2][1] = m
          BY <5>1
        <5> QED
          BY <1>15, <5>2
      <4>2. CASE u \in unresolved
        <5>1. deferred'[u[1]] = deferred[u[1]] /\ index'[u[1]] = index[u[1]]
          BY <1>2, <1>3, <1>11, <4>2
        <5> QED
          BY <4>2, <5>1 DEF WinInv, WinStart
      <4> QED
        BY <1>9, <4>1, <4>2
    <3>5. \A u, v \in unresolved' : u[2] = v[2] => u = v
      BY <1>9, <1>11 DEF WinInv, WinStart
    <3>6. unloaded = {} /\ \A t \in cfg.Thread : event[t] = None /\ pc[t] = None /\ calls[t] = <<>>
      BY <2>2 DEF WinInv, WinStart
    <3> QED
      BY <2>2, <3>1, <3>2, <3>3, <3>4, <3>5, <3>6 DEF WinStart, Spot
  <2> QED
    BY <2>1, <2>2
<1>18. WinCounts(cfg)'
  <2>1. ASSUME NEW s \in Windows(cfg)!Site, s[1] \in entries', s[1] \notin unloaded, ~stop_error, saw_initial_bp
        PROVE  bps'[s] # None /\ (bps'[s].applied \/ s \in coverage')
    <3>1. CASE s[1] = m
      <4>1. s[2] \in cfg.Off /\ s = <<m, s[2]>>
        BY <3>1 DEF Windows!Site
      <4> QED
        BY <1>5, <2>1, <4>1
    <3>2. CASE s[1] # m
      <4>1. s \in Windows(cfg)!Addr /\ bps'[s] = bps[s]
        BY <1>1, <1>8, <3>2
      <4> QED
        BY <1>2, <2>1, <3>2, <4>1 DEF WinInv, WinCounts
    <3> QED
      BY <3>1, <3>2
  <2>2. \A s \in executed : s[1] \in entries' /\ (~stop_error => s \in coverage')
    BY <1>1, <1>2 DEF WinInv, WinCounts
  <2> QED
    BY <2>1, <2>2 DEF WinInv, WinCounts
<1>19. WinThreads(cfg)'
  BY DEF WinInv, WinThreads, Windows!AtTrigger
<1>20. WinPending(cfg)'
  <2>1. ASSUME NEW i \in 0..cfg.MaxId, NEW n, NEW u, deferred'[i] # None, deferred'[i].thread # None,
               n = deferred'[i].module, u = deferred'[i].thread
        PROVE  Awaited(cfg, i, n, u)'
    <3>1. n \in cfg.Module /\ u \in cfg.Thread /\ cfg.Trigger[n] # None /\ Awaited(cfg, i, n, u)
      BY <1>2, <2>1, WinTyped DEF WinInv, WinPending, WinModules
    <3>a. cfg.RetOf[n] \in Windows(cfg)!Addr /\ cfg.RetOf[n] \notin Windows(cfg)!Site
      BY <3>1, WinTyped DEF WinInv
    <3>2. cfg.RetOf[n] \in Windows(cfg)!Addr /\ \A o \in cfg.Off : cfg.RetOf[n] # <<m, o>>
      BY <1>1, <3>a
    <3>3. bps'[cfg.RetOf[n]] = bps[cfg.RetOf[n]]
      BY <1>8, <3>2
    <3> QED
      BY <3>1, <3>3 DEF Awaited, Inside
  <2>2. ASSUME NEW i \in 0..cfg.MaxId, deferred'[i] # None, deferred'[i].thread # None
        PROVE  Awaited(cfg, i, deferred[i].module, deferred[i].thread)'
    <3>1. PICK n : n = deferred'[i].module
      OBVIOUS
    <3>2. PICK u : u = deferred'[i].thread
      OBVIOUS
    <3>3. Awaited(cfg, i, n, u)'
      BY <2>1, <2>2, <3>1, <3>2
    <3> QED
      BY <3>1, <3>2, <3>3 DEF Awaited, Inside
  <2> QED
    BY <1>2, <2>2 DEF WinInv, WinPending
<1> QED
  BY <1>12, <1>13, <1>14, <1>16, <1>17, <1>18, <1>19, <1>20 DEF WinInv

\* A module is loaded.
LEMMA WinLoad ==
    ASSUME NEW cfg, Windows(cfg)!RecorderAssumption, WinInv(cfg), NEW m \in cfg.Module,
           Windows(cfg)!LoadDll(m)
    PROVE  WinInv(cfg)'
<1>1. /\ m \notin loaded /\ loaded' = loaded \cup {m} /\ Windows(cfg)!InsertModule(m)
      /\ UNCHANGED <<event, pc, calls, saw_initial_bp, stop_error, exited, executed, unloaded, returned>>
  BY DEF Windows!LoadDll, Windows!Registered, Windows!os, Windows!history
<1>2. CASE m \notin cfg.Allowed \ modules
  <2>1. UNCHANGED <<bps, unresolved, count, modules, deferred, index, entries, coverage>>
    BY <1>1, <1>2 DEF Windows!InsertModule
  <2> QED
    BY <1>1, <2>1, WinLoadOther
<1>3. CASE m \in cfg.Allowed \ modules
  <2>1. modules' = modules \cup {m} /\ m \notin modules
    BY <1>1, <1>3 DEF Windows!InsertModule
  <2>2. CASE cfg.Trigger[m] # None
    <3>1. Windows(cfg)!SetTrigger(bps, deferred, m, None)
      BY <1>1, <1>3, <2>2 DEF Windows!InsertModule
    <3> QED
      BY <1>1, <2>1, <2>2, <3>1, WinLoadDeferred
  <2>3. CASE cfg.Trigger[m] = None
    <3>1. Windows(cfg)!SetModuleBreakpoints(bps, deferred, m)
      BY <1>1, <1>3, <2>3 DEF Windows!InsertModule
    <3> QED
      BY <1>1, <2>1, <2>3, <3>1, WinLoadInstrumented
  <2> QED
    BY <2>2, <2>3
<1> QED
  BY <1>2, <1>3

\* The initial break: all that is unresolved is resolved.
LEMMA WinBreak ==
    ASSUME NEW cfg, Windows(cfg)!RecorderAssumption, ~cfg.SymFails, WinInv(cfg), Windows(cfg)!InitialBreak
    PROVE  WinInv(cfg)'
<1>1. /\ ~saw_initial_bp /\ saw_initial_bp' = TRUE
      /\ unresolved' = unresolved \ Windows(cfg)!Resolved
      /\ bps' = [a \in Windows(cfg)!Addr |-> IF \E u \in Windows(cfg)!Resolved : u[2] = a
                         THEN Windows(cfg)!NewBreakpoint(bps[a], (CHOOSE u \in Windows(cfg)!Resolved : u[2] = a)[1])
                         ELSE bps[a]]
      /\ UNCHANGED <<event, pc, calls, loaded, count, exited, modules, deferred, index, entries, coverage,
                     stop_error, executed, unloaded, returned>>
  BY DEF Windows!InitialBreak, Windows!os, Windows!recorder, Windows!history
<1>2. Windows(cfg)!Resolved = unresolved
  BY DEF WinInv, WinStart, Windows!Resolved
<1>3. /\ \A a \in Windows(cfg)!Addr : bps[a] = None
      /\ unloaded = {}
      /\ \A i \in 0..cfg.MaxId : deferred[i] # None => deferred[i].thread = None
      /\ \A s \in Windows(cfg)!Site : s[1] \in entries => \E u \in unresolved : u[2] = s
  BY <1>1 DEF WinInv, WinStart
<1>4. \A u \in unresolved :
        /\ u[1] \in 0..cfg.MaxId /\ u[1] < count /\ u[2] \in Windows(cfg)!Site /\ u[2] \in Windows(cfg)!Addr
        /\ u[2] # None /\ u[2][1] \in loaded
        /\ (deferred[u[1]] # None /\ u[2] = Spot(cfg, deferred[u[1]])) \/ index[u[1]] = u[2]
  <2>1. None \notin Windows(cfg)!Addr
    BY DEF Windows!RecorderAssumption
  <2> QED
    BY <2>1, WinTyped DEF WinInv, WinIds, WinStart
<1>5. ASSUME NEW u \in unresolved
      PROVE  /\ bps'[u[2]] \in Windows(cfg)!Bp /\ bps'[u[2]] # None
             /\ bps'[u[2]].id = u[1] /\ bps'[u[2]].applied
  <2>1. (CHOOSE v \in unresolved : v[2] = u[2]) = u
    BY DEF WinInv, WinStart
  <2>2. PICK x : x = u[2]
    OBVIOUS
  <2>3. x \in Windows(cfg)!Addr /\ bps[x] = None /\ u[1] \in 0..cfg.MaxId
    BY <1>3, <1>4, <2>2
  <2>4. bps'[x] = Windows(cfg)!NewBreakpoint(bps[x], (CHOOSE v \in unresolved : v[2] = x)[1])
    BY <1>1, <1>2, <2>2, <2>3
  <2>5. bps'[x] = Windows(cfg)!NewBreakpoint(None, u[1])
    BY <2>1, <2>2, <2>3, <2>4
  <2>6. bps'[x] \in Windows(cfg)!Bp /\ bps'[x] # None /\ bps'[x].id = u[1] /\ bps'[x].applied
    BY <2>3, <2>5, NewBreakpointFacts
  <2> QED
    BY <2>2, <2>6
<1>6. \A a \in Windows(cfg)!Addr : (\E u \in unresolved : u[2] = a) \/ bps'[a] = None
  BY <1>1, <1>2, <1>3
<1>7. bps' \in [Windows(cfg)!Addr -> Windows(cfg)!Bp \cup {None}]
  <2>1. bps' = [a \in Windows(cfg)!Addr |-> bps'[a]]
    BY <1>1
  <2>2. \A a \in Windows(cfg)!Addr : bps'[a] \in Windows(cfg)!Bp \cup {None}
    BY <1>5, <1>6
  <2> QED
    BY <2>1, <2>2
<1>8. /\ saw_initial_bp' = TRUE /\ unresolved' = {}
      /\ UNCHANGED <<event, pc, calls, loaded, count, exited, modules, deferred, index, entries, coverage,
                     stop_error, executed, unloaded, returned>>
  BY <1>1, <1>2
<1>9. Windows(cfg)!TypeOK'
  BY <1>7, <1>8 DEF WinInv, Windows!TypeOK
<1>10. WinIds(cfg)'
  <2>1. \A a \in Windows(cfg)!Addr : bps'[a] # None => bps'[a].id < count
    BY <1>4, <1>5, <1>6
  <2> QED
    BY <1>8, <2>1 DEF WinInv, WinIds
<1>11. WinModules(cfg)'
  BY <1>8 DEF WinInv, WinModules
<1>12. WinOwners(cfg)'
  <2> SUFFICES ASSUME NEW x \in Windows(cfg)!Addr, bps'[x] # None
               PROVE  /\ bps'[x].disabled = 0 => bps'[x].applied
                      /\ deferred'[bps'[x].id] # None => x = Spot(cfg, deferred'[bps'[x].id])
                      /\ index'[bps'[x].id] # None => x = index'[bps'[x].id]
                      /\ bps'[x].applied => deferred'[bps'[x].id] # None \/ index'[bps'[x].id] # None
                      /\ x \in Windows(cfg)!Site => x[1] \in loaded'
    BY DEF WinOwners, Spot
  <2>1. PICK u \in unresolved : u[2] = x
    BY <1>6
  <2>2. bps'[x].id = u[1] /\ bps'[x].applied
    BY <1>5, <2>1
  <2>3. deferred[u[1]] = None \/ index[u[1]] = None
    BY <1>4 DEF WinInv, WinIds
  <2>4. x # None /\ ((deferred[u[1]] # None /\ x = Spot(cfg, deferred[u[1]])) \/ index[u[1]] = x) /\ x[1] \in loaded
    BY <1>4, <2>1
  <2> QED
    BY <1>8, <2>2, <2>3, <2>4
<1>13. WinStart(cfg)'
  BY <1>8 DEF WinInv, WinStart
<1>14. WinCounts(cfg)'
  <2>1. \A s \in Windows(cfg)!Site : s[1] \in entries => bps'[s] # None /\ bps'[s].applied
    BY <1>3, <1>5
  <2> QED
    BY <1>8, <2>1 DEF WinInv, WinCounts
<1>15. WinThreads(cfg)'
  BY <1>8 DEF WinInv, WinThreads, Windows!AtTrigger
<1>16. WinPending(cfg)'
  BY <1>3, <1>8 DEF WinInv, WinPending
<1> QED
  BY <1>9, <1>10, <1>11, <1>12, <1>13, <1>14, <1>15, <1>16 DEF WinInv

\* Every step of the recorder, the debugger and the target.
LEMMA WinSteps ==
    ASSUME NEW cfg, Windows(cfg)!RecorderAssumption, ~cfg.OthersReturn, ~cfg.SymFails, WinInv(cfg),
           Windows(cfg)!Next
    PROVE  WinInv(cfg)'
BY WinLoad, WinUnload, WinBreak, WinExit, WinExecute, WinEntered, WinReturned, WinSite DEF Windows!Next

\* What the invariant says of the properties.
LEMMA WinMeans ==
    ASSUME NEW cfg, Windows(cfg)!RecorderAssumption, WinInv(cfg)
    PROVE  /\ Windows(cfg)!TypeOK /\ Windows(cfg)!ExecutedIsCounted
           /\ Windows(cfg)!NotInitializing /\ Windows(cfg)!Owned
<1>1. Windows(cfg)!ExecutedIsCounted
  BY DEF WinInv, WinCounts, Windows!ExecutedIsCounted
<1>2. Windows(cfg)!Owned
  BY DEF WinInv, WinOwners, Windows!Owned
<1>3. Windows(cfg)!NotInitializing
  <2> SUFFICES ASSUME NEW m \in entries, cfg.Trigger[m] # None, NEW t \in cfg.Thread,
                      NEW k \in DOMAIN calls[t], calls[t][k] = m, m \notin returned
               PROVE  pc[t] = cfg.RetOf[m]
    BY DEF Windows!NotInitializing
  <2>1. m \in cfg.Module
    BY DEF WinInv, Windows!TypeOK
  <2>2. PICK u \in cfg.Thread : pc[u] = cfg.RetOf[m]
    BY DEF WinInv, WinPending
  <2>3. calls[u] # <<>>
    BY <2>1, <2>2 DEF WinInv, WinThreads
  <2>4. calls[t] # <<>>
    OBVIOUS
  <2>5. Windows(cfg)!AtTrigger(u) /\ Windows(cfg)!AtTrigger(t)
    BY <2>3, <2>4 DEF Windows!AtTrigger
  <2> QED
    BY <2>2, <2>5 DEF WinInv, WinThreads
<1> QED
  BY <1>1, <1>2, <1>3 DEF WinInv
-----------------------------------------------------------------------------
(* The URLs of blobs and containers.                                        *)

\* A path has a segment and a name a part, and no part of a name is empty.
UrlInv ==
    /\ url \in [scheme : Schemes, host : Hosts, path : Seq(Segments \cup {EmptySegment})] /\ Len(url.path) >= 1
    /\ file \in Seq(Segments) /\ Len(file) >= 1 /\ EmptySegment \notin Segments

\* Sequences of up to n elements are sequences.
LEMMA Bounded ==
    ASSUME NEW S, NEW N \in Nat, NEW s \in UNION {[1..n -> S] : n \in 1..N}
    PROVE  s \in Seq(S) /\ Len(s) >= 1
<1>1. PICK n \in 1..N : s \in [1..n -> S]
  OBVIOUS
<1>2. s \in Seq(S) /\ Len(s) = n
  BY <1>1
<1> QED
  BY <1>1, <1>2

LEMMA UrlStarts ==
    ASSUME MaxPath \in Nat, MaxName \in Nat, EmptySegment \notin Segments, UrlInit PROVE UrlInv
<1>1. PICK p : p = url.path
  OBVIOUS
<1>2. p \in UNION {[1..n -> Segments \cup {EmptySegment}] : n \in 1..MaxPath}
  BY <1>1 DEF UrlInit
<1>3. p \in Seq(Segments \cup {EmptySegment}) /\ Len(p) >= 1
  BY <1>2, Bounded
<1>4. file \in UNION {[1..n -> Segments] : n \in 1..MaxName}
  BY DEF UrlInit
<1>5. file \in Seq(Segments) /\ Len(file) >= 1
  BY <1>4, Bounded
<1>6. url \in [scheme : Schemes, host : Hosts, path : Seq(Segments \cup {EmptySegment})]
  BY <1>1, <1>3 DEF UrlInit
<1> QED
  BY <1>1, <1>3, <1>5, <1>6 DEF UrlInv

\* The blob of a container: its path is that of the container with the name behind.
LEMMA BlobPath ==
    ASSUME UrlInv
    PROVE  /\ blob(url, file) \in [scheme : Schemes, host : Hosts, path : Seq(Segments \cup {EmptySegment})]
           /\ blob(url, file).scheme = url.scheme /\ blob(url, file).host = url.host
           /\ url.path = <<EmptySegment>> => blob(url, file).path = file
           /\ url.path # <<EmptySegment>> => blob(url, file).path = url.path \o file
           /\ Len(url.path \o file) = Len(url.path) + Len(file)
           /\ \A i \in 1..(Len(url.path) + Len(file)) :
                (url.path \o file)[i] = IF i <= Len(url.path) THEN url.path[i] ELSE file[i - Len(url.path)]
<1>1. PICK p \in Seq(Segments \cup {EmptySegment}) : p = url.path
  BY DEF UrlInv
<1>2. file \in Seq(Segments \cup {EmptySegment})
  BY DEF UrlInv
<1>3. /\ p \o file \in Seq(Segments \cup {EmptySegment}) /\ Len(p \o file) = Len(p) + Len(file)
      /\ \A i \in 1..(Len(p) + Len(file)) : (p \o file)[i] = IF i <= Len(p) THEN p[i] ELSE file[i - Len(p)]
  BY <1>2, ConcatProperties
<1>4. PICK q : q = IF p = <<EmptySegment>> THEN file ELSE p \o file
  OBVIOUS
<1>5. blob(url, file) = [url EXCEPT !.path = q]
  BY <1>1, <1>4 DEF blob
<1>6. /\ blob(url, file) \in [scheme : Schemes, host : Hosts, path : Seq(Segments \cup {EmptySegment})]
      /\ blob(url, file).scheme = url.scheme /\ blob(url, file).host = url.host /\ blob(url, file).path = q
  BY <1>2, <1>3, <1>4, <1>5 DEF UrlInv
<1> QED
  BY <1>1, <1>3, <1>4, <1>6

LEMMA UrlStep == ASSUME UrlInv, UrlNext PROVE UrlInv'
<1>1. url' = blob(url, file) /\ file' = file
  BY DEF UrlNext
<1>2. url' \in [scheme : Schemes, host : Hosts, path : Seq(Segments \cup {EmptySegment})]
  BY <1>1, BlobPath
<1>3. Len(url.path) \in Nat /\ Len(file) \in Nat
  BY DEF UrlInv
<1>4. Len(url'.path) = Len(file) \/ Len(url'.path) = Len(url.path) + Len(file)
  BY <1>1, BlobPath
<1> QED
  BY <1>1, <1>2, <1>3, <1>4 DEF UrlInv

\* The tail of a concatenation.
LEMMA TailOfConcat ==
    ASSUME NEW S, NEW p \in Seq(S), p # <<>>, NEW f \in Seq(S)
    PROVE  Tail(p \o f) = Tail(p) \o f
<1>1. PICK q : q = p \o f
  OBVIOUS
<1>2. PICK r : r = Tail(p)
  OBVIOUS
<1>3. /\ q \in Seq(S) /\ Len(q) = Len(p) + Len(f) /\ Len(p) \in Nat /\ Len(f) \in Nat
      /\ \A i \in 1..(Len(p) + Len(f)) : q[i] = IF i <= Len(p) THEN p[i] ELSE f[i - Len(p)]
  BY <1>1, ConcatProperties
<1>4. r \in Seq(S) /\ Len(r) = Len(p) - 1 /\ \A i \in 1..Len(r) : r[i] = p[i + 1]
  BY <1>2, HeadTailProperties
<1>5. Len(p) >= 1
  BY <1>3
<1>6. q # <<>>
  <2>1. Len(q) # 0
    BY <1>3, <1>5
  <2> QED
    BY <2>1
<1>7. /\ Tail(q) \in Seq(S) /\ Len(Tail(q)) = Len(q) - 1
      /\ \A i \in 1..Len(Tail(q)) : Tail(q)[i] = q[i + 1]
  BY <1>3, <1>6, HeadTailProperties
<1>8. /\ r \o f \in Seq(S) /\ Len(r \o f) = Len(r) + Len(f)
      /\ \A i \in 1..(Len(r) + Len(f)) : (r \o f)[i] = IF i <= Len(r) THEN r[i] ELSE f[i - Len(r)]
  BY <1>4, ConcatProperties
<1>9. PICK x : x = Tail(q)
  OBVIOUS
<1>10. PICK y : y = r \o f
  OBVIOUS
<1>11. x \in Seq(S) /\ y \in Seq(S) /\ Len(x) = Len(y)
  BY <1>3, <1>4, <1>7, <1>8, <1>9, <1>10
<1>12. ASSUME NEW i \in 1..Len(x) PROVE x[i] = y[i]
  <2>1. /\ i \in Nat /\ i + 1 \in 1..(Len(p) + Len(f)) /\ i \in 1..(Len(r) + Len(f))
        /\ x[i] = q[i + 1] /\ Len(r) = Len(p) - 1
    BY <1>3, <1>4, <1>7, <1>9
  <2>2. CASE i <= Len(r)
    <3>1. q[i + 1] = p[i + 1] /\ y[i] = r[i] /\ r[i] = p[i + 1]
      BY <1>3, <1>4, <1>8, <1>10, <2>1, <2>2
    <3> QED
      BY <2>1, <3>1
  <2>3. CASE ~(i <= Len(r))
    <3>1. q[i + 1] = f[i + 1 - Len(p)] /\ y[i] = f[i - Len(r)] /\ i + 1 - Len(p) = i - Len(r)
      BY <1>3, <1>8, <1>10, <2>1, <2>3
    <3> QED
      BY <2>1, <3>1
  <2> QED
    BY <2>2, <2>3
<1>13. x = y
  BY <1>11, <1>12, SeqEqual
<1> QED
  BY <1>1, <1>2, <1>9, <1>10, <1>13

\* Of one segment nothing is left before a name.
LEMMA TailOfOne ==
    ASSUME NEW S, NEW p \in Seq(S), Len(p) = 1, NEW f \in Seq(S)
    PROVE  Tail(p) \o f = f
<1>0. Len(<<>>) = 0
  BY EmptySeq
<1>1. p # <<>>
  <2> SUFFICES ASSUME p = <<>> PROVE FALSE
    OBVIOUS
  <2>1. Len(p) = 0
    BY <1>0, Zenon
  <2> QED
    BY <2>1
<1>2. Tail(p) \in Seq(S) /\ Len(Tail(p)) = 0
  BY <1>1, HeadTailProperties
<1>3. Tail(p) = <<>>
  BY <1>2, EmptySeq
<1> QED
  BY <1>3, ConcatEmptySeq

\* A path that ends with a name has its last part as the name of the file.
LEMMA LastIsName ==
    ASSUME NEW q \in Seq(Segments \cup {EmptySegment}), Len(q) >= 1, q[Len(q)] # EmptySegment
    PROVE  FileName(q) = q[Len(q)]
<1> DEFINE Q(i) == /\ i \in DOMAIN q /\ q[i] # EmptySegment
                   /\ \A j \in DOMAIN q : i < j => q[j] = EmptySegment
<1>1. Len(q) \in Nat /\ DOMAIN q = 1..Len(q)
  OBVIOUS
<1>2. Q(Len(q))
  BY <1>1
<1>3. \A i : Q(i) => i = Len(q)
  BY <1>1
<1>4. FileName(q) = q[CHOOSE i \in DOMAIN q : /\ q[i] # EmptySegment
                                             /\ \A j \in DOMAIN q : i < j => q[j] = EmptySegment]
  BY Zenon DEF FileName
<1>5. PICK k : k = CHOOSE i \in DOMAIN q : /\ q[i] # EmptySegment
                                           /\ \A j \in DOMAIN q : i < j => q[j] = EmptySegment
  OBVIOUS
<1>6. Q(k)
  BY <1>2, <1>5, Zenon
<1> QED
  BY <1>3, <1>4, <1>5, <1>6, Zenon

\* What is read back from the URL of a blob.
LEMMA UrlMeans == ASSUME UrlInv PROVE UrlRoundTrip
<1>1. PICK p \in Seq(Segments \cup {EmptySegment}) : p = url.path
  BY DEF UrlInv
<1>2. Len(p) \in Nat /\ Len(file) \in Nat /\ Len(p) >= 1 /\ Len(file) >= 1 /\ file \in Seq(Segments \cup {EmptySegment})
  BY <1>1 DEF UrlInv
<1>3. PICK b : b = blob(url, file)
  OBVIOUS
<1>4. PICK q : q = p \o file
  OBVIOUS
<1>5. /\ b.scheme = url.scheme /\ b.host = url.host /\ b.path \in Seq(Segments \cup {EmptySegment})
      /\ p = <<EmptySegment>> => b.path = file
      /\ p # <<EmptySegment>> => b.path = q
      /\ q \in Seq(Segments \cup {EmptySegment}) /\ Len(q) = Len(p) + Len(file)
      /\ \A i \in 1..(Len(p) + Len(file)) : q[i] = IF i <= Len(p) THEN p[i] ELSE file[i - Len(p)]
  BY <1>1, <1>2, <1>3, <1>4, BlobPath, ConcatProperties
<1>6. url.scheme = "https" => ~(IsContainerUrl(url) /\ IsBlobUrl(url))
  <2> SUFFICES ASSUME url.scheme = "https", IsContainerUrl(url), IsBlobUrl(url) PROVE FALSE
    OBVIOUS
  <2>1. Len(p) = 1
    BY <1>1 DEF IsContainerUrl, possible_blob_storage_url
  <2>2. Len(p) > 1
    BY <1>1 DEF IsBlobUrl, possible_blob_storage_url
  <2> QED
    BY <2>1, <2>2
<1>7. q[Len(q)] = file[Len(file)] /\ q[1] = p[1] /\ Len(q) > 1 /\ q # <<>>
  <2>1. Len(q) = Len(p) + Len(file) /\ Len(q) > 1 /\ q # <<>>
    BY <1>2, <1>5
  <2>2. /\ 1 \in 1..(Len(p) + Len(file)) /\ 1 <= Len(p)
        /\ Len(q) \in 1..(Len(p) + Len(file)) /\ ~(Len(q) <= Len(p)) /\ Len(q) - Len(p) = Len(file)
    BY <1>2, <2>1
  <2>3. q[1] = p[1] /\ q[Len(q)] = file[Len(q) - Len(p)]
    BY <1>5, <2>2
  <2> QED
    BY <2>1, <2>2, <2>3
<1>8. account(b) = account(url) /\ (Local(b) <=> Local(url))
  BY <1>5 DEF account, Local
<1>9. IsContainerUrl(url) /\ url.scheme = "https" => Len(p) = 1 /\ p[1] # EmptySegment /\ p # <<EmptySegment>>
  BY <1>1 DEF IsContainerUrl, possible_blob_storage_url
<1>10. Tail(q) = Tail(p) \o file
  <2>1. p # <<>>
    BY <1>2
  <2> QED
    BY <1>2, <1>4, <2>1, TailOfConcat
<1>11. IsContainerUrl(url) => IsBlobUrl(b)
  <2>1. CASE url.scheme = "file"
    BY <1>5, <2>1 DEF IsBlobUrl, possible_blob_storage_url
  <2>2. ASSUME url.scheme # "file", IsContainerUrl(url) PROVE IsBlobUrl(b)
    <3>1. url.scheme = "https" /\ url.host = "account"
      BY <2>2 DEF IsContainerUrl, possible_blob_storage_url
    <3>2. b.path = q /\ q[1] # EmptySegment
      BY <1>5, <1>7, <1>9, <2>2, <3>1
    <3> QED
      BY <1>5, <1>7, <3>1, <3>2 DEF IsBlobUrl, possible_blob_storage_url
  <2> QED
    BY <2>1, <2>2
<1>12. ASSUME Local(url) PROVE name(b) = <<file[Len(file)]>>
  <2>1. file[Len(file)] # EmptySegment
    BY <1>2 DEF UrlInv
  <2>2. FileName(file) = file[Len(file)]
    BY <1>2, <2>1, LastIsName
  <2>3. FileName(q) = file[Len(file)]
    <3>1. q \in Seq(Segments \cup {EmptySegment}) /\ Len(q) >= 1 /\ q[Len(q)] # EmptySegment
      BY <1>2, <1>5, <1>7, <2>1
    <3>2. FileName(q) = q[Len(q)]
      BY <3>1, LastIsName
    <3> QED
      BY <1>7, <3>2
  <2>4. FileName(b.path) = file[Len(file)]
    BY <1>5, <2>2, <2>3
  <2> QED
    BY <1>8, <1>12, <2>4 DEF name
<1>13. ASSUME ~Local(url), p # <<EmptySegment>>
       PROVE  container(b) = container(url) /\ name(b) = Tail(p) \o file
  BY <1>1, <1>5, <1>7, <1>8, <1>10, <1>13 DEF container, name
<1>14. Len(p) = 1 => Tail(p) \o file = file
  BY <1>2, TailOfOne
<1>15. url.scheme = "https" => ~Local(url)
  BY DEF Local
<1> QED
  BY <1>1, <1>3, <1>6, <1>8, <1>9, <1>11, <1>12, <1>13, <1>14, <1>15 DEF UrlRoundTrip
-----------------------------------------------------------------------------
(* The basic blocks of a function.                                          *)

\* A nonempty set of natural numbers has a least element.
LEMMA LeastNumber ==
    ASSUME NEW T, T \subseteq Nat, T # {}
    PROVE  \E x \in T : \A y \in T : x <= y
<1> DEFINE R == OpToRel(<, Nat)
<1>1. PICK x \in T : \A y \in T : ~(<<y, x>> \in R)
  BY NatLessThanWellFounded, WFMin, Zenon
<1>2. \A m, n \in Nat : <<n, m>> \in R <=> n < m
  BY DEF OpToRel
<1> HIDE DEF R
<1>3. \A y \in T : ~(y < x)
  BY <1>1, <1>2
<1>4. \A y \in T : x <= y
  BY <1>3
<1> QED
  BY <1>4

\* Induction from the end of an interval to its start.
LEMMA TopDown ==
    ASSUME NEW b \in Nat, NEW e \in Nat, NEW S,
           \A a \in b..e : (\A c \in b..e : c > a => c \in S) => a \in S
    PROVE  b..e \subseteq S
<1> DEFINE Bad == {e - a : a \in {c \in b..e : c \notin S}}
<1> SUFFICES ASSUME NEW z \in b..e, z \notin S PROVE FALSE
  OBVIOUS
<1>1. Bad \subseteq Nat /\ e - z \in Bad
  OBVIOUS
<1> HIDE DEF Bad
<1>2. PICK x \in Bad : \A y \in Bad : x <= y
  BY <1>1, LeastNumber
<1>3. PICK a \in b..e : a \notin S /\ x = e - a
  BY <1>2 DEF Bad
<1>4. ASSUME NEW c \in b..e, c > a, c \notin S PROVE FALSE
  <2>1. e - c \in Bad
    BY <1>4 DEF Bad
  <2> QED
    BY <1>2, <1>3, <1>4, <2>1
<1> QED
  BY <1>3, <1>4

\* A recursion that goes towards the end of an interval has a solution.
JumpStep(stop, val, nx, f, a) == IF stop[a] THEN val[a] ELSE f[nx[a]]

IsJump(b, e, stop, val, nx, f) == f = [a \in b..e |-> JumpStep(stop, val, nx, f, a)]

LEMMA JumpExists ==
    ASSUME NEW b \in Nat, NEW e \in Nat, b <= e, NEW stop, NEW val, NEW nx,
           \A a \in b..e : ~stop[a] => nx[a] \in b..e /\ nx[a] > a
    PROVE  \E f : IsJump(b, e, stop, val, nx, f)
<1> DEFINE S == {m \in b..e : \E f : f = [a \in m..e |-> JumpStep(stop, val, nx, f, a)]}
<1>1. ASSUME NEW m \in b..e, \A c \in b..e : c > m => c \in S PROVE m \in S
  <2>1. PICK f : m < e => f = [a \in (m + 1)..e |-> JumpStep(stop, val, nx, f, a)]
    <3>1. CASE m < e
      <4>1. m + 1 \in S
        BY <1>1, <3>1
      <4> QED
        BY <4>1
    <3> QED
      BY <3>1
  <2> DEFINE g == [a \in m..e |-> JumpStep(stop, val, nx, f, a)]
  <2>2. \A a \in (m + 1)..e : g[a] = f[a]
    BY <2>1
  <2>3. \A a \in m..e : ~stop[a] => nx[a] \in (m + 1)..e
    OBVIOUS
  <2>4. \A a \in m..e : JumpStep(stop, val, nx, g, a) = JumpStep(stop, val, nx, f, a)
    <3> HIDE DEF g
    <3> QED
      BY <2>2, <2>3 DEF JumpStep
  <2>5. g = [a \in m..e |-> JumpStep(stop, val, nx, g, a)]
    BY <2>4
  <2> HIDE DEF g
  <2> QED
    BY <2>5
<1> HIDE DEF S
<1>2. b..e \subseteq S
  BY <1>1, TopDown
<1>3. b \in S
  BY <1>2
<1> QED
  BY <1>3 DEF S, IsJump

\* So has one that collects what it passes.
PassStep(stop, more, nx, f, a) ==
    IF stop[a] THEN {} ELSE {a} \cup (IF more[a] THEN f[nx[a]] ELSE {})

IsPass(b, e, stop, more, nx, f) == f = [a \in b..e |-> PassStep(stop, more, nx, f, a)]

LEMMA PassExists ==
    ASSUME NEW b \in Nat, NEW e \in Nat, b <= e, NEW stop, NEW more, NEW nx,
           \A a \in b..e : ~stop[a] /\ more[a] => nx[a] \in b..e /\ nx[a] > a
    PROVE  \E f : IsPass(b, e, stop, more, nx, f)
<1> DEFINE S == {m \in b..e : \E f : f = [a \in m..e |-> PassStep(stop, more, nx, f, a)]}
<1>1. ASSUME NEW m \in b..e, \A c \in b..e : c > m => c \in S PROVE m \in S
  <2>1. PICK f : m < e => f = [a \in (m + 1)..e |-> PassStep(stop, more, nx, f, a)]
    <3>1. CASE m < e
      <4>1. m + 1 \in S
        BY <1>1, <3>1
      <4> QED
        BY <4>1
    <3> QED
      BY <3>1
  <2> DEFINE g == [a \in m..e |-> PassStep(stop, more, nx, f, a)]
  <2>2. \A a \in (m + 1)..e : g[a] = f[a]
    BY <2>1
  <2>3. \A a \in m..e : ~stop[a] /\ more[a] => nx[a] \in (m + 1)..e
    OBVIOUS
  <2>4. \A a \in m..e : PassStep(stop, more, nx, g, a) = PassStep(stop, more, nx, f, a)
    <3> HIDE DEF g
    <3> QED
      BY <2>2, <2>3 DEF PassStep
  <2>5. g = [a \in m..e |-> PassStep(stop, more, nx, g, a)]
    BY <2>4
  <2> HIDE DEF g
  <2> QED
    BY <2>5
<1> HIDE DEF S
<1>2. b..e \subseteq S
  BY <1>1, TopDown
<1>3. b \in S
  BY <1>2
<1> QED
  BY <1>3 DEF S, IsPass
\* What decodes somewhere, and where the next instruction is.
CodeOK == code \in [Sweeping!Region -> Instructions] /\ labels \subseteq Nat

LEMMA Decodes ==
    ASSUME Sweeping!SweepAssumption, CodeOK
    PROVE  /\ Base \in Nat /\ Size \in Nat /\ Size > 0 /\ Sweeping!End \in Nat /\ Base < Sweeping!End
           /\ Sweeping!Region = Base..(Sweeping!End - 1)
           /\ Sweeping!Region \cup {Sweeping!End} = Base..Sweeping!End
           /\ \A a \in Sweeping!Region :
                /\ Sweeping!NextIp(a) \in Base..Sweeping!End /\ Sweeping!NextIp(a) > a
                /\ Sweeping!Decode(a).target \in Nat
                /\ Sweeping!FallsThrough(a) => Sweeping!Decode(a).kind \in {"Next", "Call"}
<1>1. /\ Base \in Nat /\ Size \in Nat /\ Size > 0 /\ Sweeping!End \in Nat /\ Base < Sweeping!End
      /\ Sweeping!Region = Base..(Sweeping!End - 1)
      /\ Sweeping!Region \cup {Sweeping!End} = Base..Sweeping!End
  BY DEF Sweeping!SweepAssumption, Sweeping!Region, Sweeping!End
<1> SUFFICES ASSUME NEW a \in Sweeping!Region
             PROVE  /\ Sweeping!NextIp(a) \in Base..Sweeping!End /\ Sweeping!NextIp(a) > a
                    /\ Sweeping!Decode(a).target \in Nat
                    /\ Sweeping!FallsThrough(a) => Sweeping!Decode(a).kind \in {"Next", "Call"}
  BY <1>1
<1>2. code[a].len \in Nat \ {0} /\ code[a].target \in Nat
  BY DEF CodeOK, Sweeping!SweepAssumption
<1>3. CASE a + code[a].len > Sweeping!End
  <2>1. Sweeping!Decode(a).len = 1 /\ Sweeping!Decode(a).target = Outside
    BY <1>3 DEF Sweeping!Decode, Sweeping!Bad
  <2> QED
    BY <1>1, <2>1 DEF Sweeping!NextIp, Sweeping!SweepAssumption, Sweeping!FallsThrough
<1>4. CASE ~(a + code[a].len > Sweeping!End)
  <2>1. Sweeping!Decode(a) = code[a]
    BY <1>4 DEF Sweeping!Decode
  <2> QED
    BY <1>1, <1>2, <1>4, <2>1 DEF Sweeping!NextIp, Sweeping!FallsThrough
<1> QED
  BY <1>3, <1>4

\* The recursive definitions have the values that they are written with.
LEMMA Terminates ==
    ASSUME Sweeping!SweepAssumption, CodeOK
    PROVE  /\ Sweeping!Terminator[Sweeping!End] = Sweeping!End
           /\ \A a \in Sweeping!Region :
                Sweeping!Terminator[a] =
                    IF Sweeping!FallsThrough(a) THEN Sweeping!Terminator[Sweeping!NextIp(a)] ELSE a
<1> DEFINE D == Sweeping!Region \cup {Sweeping!End}
           P(f) == f = [a \in D |->
                          IF a = Sweeping!End THEN Sweeping!End
                          ELSE IF Sweeping!FallsThrough(a) THEN f[Sweeping!NextIp(a)] ELSE a]
           t == CHOOSE f : P(f)
<1>1. Sweeping!Terminator = t
  BY DEF Sweeping!Terminator
<1>2. \E f : P(f)
  <2> DEFINE stop == [a \in D |-> a = Sweeping!End \/ ~Sweeping!FallsThrough(a)]
             val == [a \in D |-> a]
             nx == [a \in D |-> Sweeping!NextIp(a)]
  <2>1. D = Base..Sweeping!End /\ Base \in Nat /\ Sweeping!End \in Nat /\ Base <= Sweeping!End
    BY Decodes
  <2>2. \A a \in Base..Sweeping!End : ~stop[a] => nx[a] \in Base..Sweeping!End /\ nx[a] > a
    BY <2>1, Decodes
  <2>3. PICK f : IsJump(Base, Sweeping!End, stop, val, nx, f)
    <3> HIDE DEF stop, val, nx
    <3> QED
      BY <2>1, <2>2, JumpExists
  <2>4. \A a \in D : JumpStep(stop, val, nx, f, a) =
                       IF a = Sweeping!End THEN Sweeping!End
                       ELSE IF Sweeping!FallsThrough(a) THEN f[Sweeping!NextIp(a)] ELSE a
    BY DEF JumpStep
  <2>5. f = [a \in D |-> JumpStep(stop, val, nx, f, a)]
    BY <2>1, <2>3 DEF IsJump
  <2> QED
    BY <2>4, <2>5
<1>3. P(t)
  <2> HIDE DEF P
  <2> QED
    BY <1>2, Zenon
<1> HIDE DEF t
<1>4. Sweeping!End \notin Sweeping!Region
  BY Decodes
<1> QED
  BY <1>1, <1>3, <1>4
\* What can run is closed under what follows, and the smallest set that is.
LEMMA Runs ==
    ASSUME Sweeping!SweepAssumption, CodeOK
    PROVE  /\ Sweeping!Entries \subseteq Sweeping!Executed /\ Sweeping!Executed \subseteq Sweeping!Region
           /\ \A a \in Sweeping!Executed : Sweeping!Succ(a) \subseteq Sweeping!Executed
           /\ \A S \in SUBSET Sweeping!Region :
                Sweeping!Entries \subseteq S /\ (\A a \in S : Sweeping!Succ(a) \subseteq S)
                => Sweeping!Executed \subseteq S
           /\ Sweeping!Entries \subseteq Sweeping!Leaders /\ Sweeping!Leaders \subseteq Sweeping!Executed
           /\ \A a \in Sweeping!Executed : ~Sweeping!FallsThrough(a) =>
                Sweeping!Succ(a) \subseteq Sweeping!Leaders
           /\ \A a : Sweeping!Succ(a) \subseteq Sweeping!Region
<1>0. Sweeping!Entries \subseteq Sweeping!Region
  BY Decodes DEF Sweeping!Entries
<1>1. \A a : Sweeping!Succ(a) \subseteq Sweeping!Region
  BY DEF Sweeping!Succ
<1>2. Sweeping!Executed \subseteq Sweeping!Region
  BY DEF Sweeping!Executed
<1>3. Sweeping!Entries \subseteq Sweeping!Executed
  BY <1>0 DEF Sweeping!Executed
<1>4. \A a \in Sweeping!Executed : Sweeping!Succ(a) \subseteq Sweeping!Executed
  BY <1>1 DEF Sweeping!Executed
<1>5. \A S \in SUBSET Sweeping!Region :
        Sweeping!Entries \subseteq S /\ (\A a \in S : Sweeping!Succ(a) \subseteq S)
        => Sweeping!Executed \subseteq S
  BY DEF Sweeping!Executed
<1>6. Sweeping!Leaders \subseteq Sweeping!Executed
  BY <1>3, <1>4 DEF Sweeping!Leaders
<1>7. /\ Sweeping!Entries \subseteq Sweeping!Leaders
      /\ \A a \in Sweeping!Executed : ~Sweeping!FallsThrough(a) => Sweeping!Succ(a) \subseteq Sweeping!Leaders
  BY DEF Sweeping!Leaders
<1> QED
  BY <1>1, <1>2, <1>3, <1>4, <1>5, <1>6, <1>7

\* A run of instructions ends where control does not fall through, and stays in what can run.
LEMMA RunEnds ==
    ASSUME Sweeping!SweepAssumption, CodeOK, NEW a \in Sweeping!Region
    PROVE  LET t == Sweeping!Terminator[a] IN
           /\ t \in Sweeping!Region \cup {Sweeping!End}
           /\ t \in Sweeping!Region => ~Sweeping!FallsThrough(t)
           /\ a \in Sweeping!Executed /\ t \in Sweeping!Region => t \in Sweeping!Executed
<1> DEFINE D == Sweeping!Region \cup {Sweeping!End}
           T == Sweeping!Terminator
           P(c) == /\ T[c] \in D
                   /\ T[c] \in Sweeping!Region => ~Sweeping!FallsThrough(T[c])
                   /\ c \in Sweeping!Executed /\ T[c] \in Sweeping!Region => T[c] \in Sweeping!Executed
           S == {c \in D : P(c)}
<1>0. D = Base..Sweeping!End /\ Base \in Nat /\ Sweeping!End \in Nat /\ Sweeping!End \notin Sweeping!Region
  BY Decodes
<1>1. ASSUME NEW c \in Base..Sweeping!End, \A d \in Base..Sweeping!End : d > c => d \in S
      PROVE  c \in S
  <2>1. CASE c = Sweeping!End
    <3>1. T[c] = Sweeping!End /\ T[c] \notin Sweeping!Region /\ c \in D
      BY <1>0, <2>1, Terminates
    <3> QED
      BY <3>1
  <2>2. CASE c \in Sweeping!Region /\ ~Sweeping!FallsThrough(c)
    <3>1. T[c] = c
      BY <2>2, Terminates
    <3> QED
      BY <2>2, <3>1
  <2>3. CASE c \in Sweeping!Region /\ Sweeping!FallsThrough(c)
    <3> DEFINE n == Sweeping!NextIp(c)
    <3>1. T[c] = T[n] /\ n \in Base..Sweeping!End /\ n > c
      BY <2>3, Terminates, Decodes
    <3>2. P(n)
      BY <1>1, <3>1
    <3>3. c \in Sweeping!Executed /\ n \in Sweeping!Region => n \in Sweeping!Executed
      <4>1. n \in Sweeping!Region => n \in Sweeping!Succ(c)
        BY <2>3 DEF Sweeping!Succ
      <4> QED
        BY <4>1, Runs
    <3>4. n \notin Sweeping!Region => T[n] = Sweeping!End
      BY <1>0, <3>1, Terminates
    <3> HIDE DEF n, T
    <3> QED
      BY <1>0, <2>3, <3>1, <3>2, <3>3, <3>4
  <2> QED
    BY <1>0, <2>1, <2>2, <2>3
<1>2. Base..Sweeping!End \subseteq S
  <2> HIDE DEF S
  <2> QED
    BY <1>0, <1>1, TopDown
<1>3. a \in S
  BY <1>0, <1>2
<1> QED
  BY <1>3
\* What a sequence holds.
Items(s) == {s[i] : i \in DOMAIN s}

\* What has been visited or will be.
Waiting == visited \cup Items(pending)

\* Where blocks end, as BlockEnd computes it.
EndStep(E, b) ==
    IF b = Sweeping!End THEN Sweeping!End
    ELSE IF Sweeping!Decode(b).kind = "Exception" THEN b
    ELSE IF ~Sweeping!FallsThrough(b) \/ Sweeping!NextIp(b) \in visited THEN Sweeping!NextIp(b)
    ELSE E[Sweeping!NextIp(b)]
Ends(E) == E = [b \in Sweeping!Region \cup {Sweeping!End} |-> EndStep(E, b)]

\* The runs of instructions from what was visited: where they end, what follows is visited or
\* will be.
Swept(K) ==
    /\ visited \subseteq K
    /\ \A a \in K :
         /\ Sweeping!FallsThrough(a) /\ Sweeping!NextIp(a) \in Sweeping!Region => Sweeping!NextIp(a) \in K
         /\ ~Sweeping!FallsThrough(a) => Sweeping!Succ(a) \subseteq Waiting

CutAt(E) == blocks = {Sweeping!Block(a, E[a]) : a \in {v \in visited : E[v] > v}}

SweepInv ==
    /\ CodeOK /\ pending \in Seq(Nat) /\ visited \subseteq Sweeping!Region /\ pc \in {"Visit", "Done"}
    /\ Waiting \cap Sweeping!Region \subseteq Sweeping!Leaders
    /\ Sweeping!Entries \subseteq Waiting
    /\ \E K \in SUBSET Sweeping!Region : Swept(K)
    /\ pc = "Visit" => blocks = {}
    /\ pc = "Done" => pending = <<>> /\ \E E : Ends(E) /\ CutAt(E)

LEMMA ItemsOf ==
    ASSUME NEW S, NEW s \in Seq(S), NEW t \in Seq(S)
    PROVE  /\ Items(s \o t) = Items(s) \cup Items(t) /\ s \o t \in Seq(S)
           /\ s # <<>> => /\ SubSeq(s, 1, Len(s) - 1) \in Seq(S) /\ s[Len(s)] \in Items(s)
                          /\ Items(s) = Items(SubSeq(s, 1, Len(s) - 1)) \cup {s[Len(s)]}
<1>1. s \o t \in Seq(S) /\ Len(s \o t) = Len(s) + Len(t) /\ Len(s) \in Nat /\ Len(t) \in Nat
      /\ \A i \in 1..(Len(s) + Len(t)) : (s \o t)[i] = IF i <= Len(s) THEN s[i] ELSE t[i - Len(s)]
  BY ConcatProperties
<1>2. Items(s \o t) = Items(s) \cup Items(t)
  <2>1. ASSUME NEW x \in Items(s \o t) PROVE x \in Items(s) \cup Items(t)
    <3>1. PICK i \in 1..(Len(s) + Len(t)) : x = (s \o t)[i]
      BY <1>1 DEF Items
    <3>2. CASE i <= Len(s)
      BY <1>1, <3>1, <3>2 DEF Items
    <3>3. CASE ~(i <= Len(s))
      <4>1. x = t[i - Len(s)] /\ i - Len(s) \in DOMAIN t
        BY <1>1, <3>1, <3>3
      <4> QED
        BY <4>1 DEF Items
    <3> QED
      BY <3>2, <3>3
  <2>2. ASSUME NEW x \in Items(s) PROVE x \in Items(s \o t)
    <3>1. PICK i \in 1..Len(s) : x = s[i]
      BY DEF Items
    <3>2. i \in DOMAIN (s \o t) /\ (s \o t)[i] = x
      BY <1>1, <3>1
    <3> QED
      BY <3>2 DEF Items
  <2>3. ASSUME NEW x \in Items(t) PROVE x \in Items(s \o t)
    <3>1. PICK i \in 1..Len(t) : x = t[i]
      BY DEF Items
    <3>2. i + Len(s) \in DOMAIN (s \o t) /\ (s \o t)[i + Len(s)] = x
      BY <1>1, <3>1
    <3> QED
      BY <3>2 DEF Items
  <2> QED
    BY <2>1, <2>2, <2>3
<1>3. ASSUME s # <<>>
      PROVE  /\ SubSeq(s, 1, Len(s) - 1) \in Seq(S) /\ s[Len(s)] \in Items(s)
             /\ Items(s) = Items(SubSeq(s, 1, Len(s) - 1)) \cup {s[Len(s)]}
  <2> DEFINE f == SubSeq(s, 1, Len(s) - 1)
  <2>1. Len(s) \in Nat /\ Len(s) > 0 /\ DOMAIN s = 1..Len(s)
    BY <1>3
  <2>2. f \in Seq(S) /\ Len(f) = Len(s) - 1 /\ \A i \in 1..(Len(s) - 1) : f[i] = s[i]
    BY <2>1
  <2>3. DOMAIN f = 1..(Len(s) - 1)
    BY <2>2
  <2> HIDE DEF f
  <2>n. PICK n : n = Len(s)
    OBVIOUS
  <2>4. n = Len(s) /\ n \in Nat /\ n > 0
    BY <2>1, <2>n
  <2>5. (\A i \in 1..n : i = n \/ i \in 1..(n - 1)) /\ (\A i \in 1..(n - 1) : i \in 1..n) /\ n \in 1..n
    BY <2>4
  <2>6. Items(s) = Items(f) \cup {s[Len(s)]}
    <3>1. Items(s) = {s[i] : i \in 1..n} /\ Items(f) = {f[i] : i \in 1..(n - 1)}
      BY <2>1, <2>3, <2>4 DEF Items
    <3>2. \A i \in 1..(n - 1) : f[i] = s[i]
      BY <2>2, <2>4
    <3> QED
      BY <2>4, <2>5, <3>1, <3>2
  <2> QED
    BY <2>1, <2>2, <2>6 DEF f, Items
<1> QED
  BY <1>1, <1>2, <1>3

\* The properties of the code do not change with the work list.
LEMMA CodeSame ==
    ASSUME UNCHANGED <<code, labels>>
    PROVE  /\ CodeOK' <=> CodeOK
           /\ \A a : /\ (Sweeping!FallsThrough(a))' <=> Sweeping!FallsThrough(a)
                     /\ (Sweeping!NextIp(a))' = Sweeping!NextIp(a)
                     /\ (Sweeping!Decode(a))' = Sweeping!Decode(a)
                     /\ (Sweeping!Succ(a))' = Sweeping!Succ(a)
           /\ (Sweeping!Entries)' = Sweeping!Entries
           /\ (Sweeping!Leaders)' = Sweeping!Leaders
<1>1. \A a : (Sweeping!Decode(a))' = Sweeping!Decode(a)
  BY DEF Sweeping!Decode
<1>2. \A a : /\ (Sweeping!FallsThrough(a))' <=> Sweeping!FallsThrough(a)
             /\ (Sweeping!NextIp(a))' = Sweeping!NextIp(a)
  BY <1>1 DEF Sweeping!FallsThrough, Sweeping!NextIp
<1>3. \A a : (Sweeping!Succ(a))' = Sweeping!Succ(a)
  BY <1>1, <1>2 DEF Sweeping!Succ
<1>4. (Sweeping!Entries)' = Sweeping!Entries
  BY DEF Sweeping!Entries
<1>5. (Sweeping!Executed)' = Sweeping!Executed
  BY <1>3, <1>4 DEF Sweeping!Executed
<1>6. (Sweeping!Leaders)' = Sweeping!Leaders
  BY <1>2, <1>3, <1>4, <1>5 DEF Sweeping!Leaders
<1> QED
  BY <1>1, <1>2, <1>3, <1>4, <1>6 DEF CodeOK
\* The entry point and the labels are waiting.
LEMMA SweepStarts == ASSUME Sweeping!SweepAssumption, Sweeping!Init PROVE SweepInv
<1>1. CodeOK /\ visited = {} /\ blocks = {} /\ pc = "Visit"
  BY DEF Sweeping!Init, CodeOK, Sweeping!SweepAssumption
<1>2. PICK L : L = {l \in labels \cap Sweeping!Region : l # Base}
  OBVIOUS
<1>3. PICK s \in Sweeping!SetToSeqs(L) : pending = <<Base>> \o s
  BY <1>2 DEF Sweeping!Init
<1>4. IsFiniteSet(L) /\ L \subseteq Nat
  <2>1. L \subseteq Base..(Sweeping!End - 1) /\ Base \in Nat /\ Sweeping!End - 1 \in Nat
    BY <1>1, <1>2, Decodes
  <2>2. PICK R : R = Base..(Sweeping!End - 1)
    OBVIOUS
  <2>3. IsFiniteSet(R) /\ L \in SUBSET R
    BY <2>1, <2>2, FS_Interval
  <2>4. IsFiniteSet(L)
    BY <2>3, FS_Subset
  <2> QED
    BY <2>1, <2>4
<1>5. PICK n : n = Cardinality(L)
  OBVIOUS
<1>6. n \in Nat /\ s \in [1..n -> L] /\ \A i, j \in 1..n : s[i] = s[j] => i = j
  <2>1. Sweeping!Cardinality(L) = n
    BY <1>5 DEF Sweeping!Cardinality, Cardinality
  <2>2. n \in Nat
    BY <1>4, <1>5, FS_CardinalityType
  <2>3. s \in {f \in [1..n -> L] : \A i, j \in 1..n : i # j => f[i] # f[j]}
    BY <2>1 DEF Sweeping!SetToSeqs
  <2> QED
    BY <2>2, <2>3
<1>7. Items(s) = L /\ s \in Seq(Nat)
  <2>1. s \in Injection(1..n, L)
    BY <1>6 DEF Injection, IsInjective
  <2>2. IsFiniteSet(1..n) /\ Cardinality(1..n) = n
    BY <1>6, FS_Interval
  <2>3. s \in Surjection(1..n, L)
    BY <1>4, <1>5, <2>1, <2>2, FS_Injection
  <2>4. \A x \in L : \E i \in 1..n : s[i] = x
    BY <2>3 DEF Surjection
  <2>5. DOMAIN s = 1..n /\ \A i \in 1..n : s[i] \in L
    BY <1>6
  <2>6. s \in Seq(Nat)
    <3>1. s \in [1..n -> Nat]
      BY <1>4, <1>6
    <3> QED
      BY <1>6, <3>1
  <2> QED
    BY <2>4, <2>5, <2>6 DEF Items
<1>8. <<Base>> \in Seq(Nat) /\ Items(<<Base>>) = {Base}
  <2>1. Base \in Nat
    BY <1>1, Decodes
  <2> QED
    BY <2>1 DEF Items
<1>9. Items(pending) = {Base} \cup L /\ pending \in Seq(Nat)
  <2>1. PICK b : b = <<Base>>
    OBVIOUS
  <2>2. b \in Seq(Nat) /\ s \in Seq(Nat)
    BY <1>7, <1>8, <2>1
  <2>3. Items(b \o s) = Items(b) \cup Items(s) /\ b \o s \in Seq(Nat)
    BY <2>2, ItemsOf
  <2> QED
    BY <1>3, <1>7, <1>8, <2>1, <2>3
<1>10. Items(pending) = Sweeping!Entries
  BY <1>2, <1>9 DEF Sweeping!Entries
<1>11. Waiting = Sweeping!Entries
  BY <1>1, <1>10 DEF Waiting
<1>12. Swept({})
  BY <1>1 DEF Swept
<1> QED
  BY <1>1, <1>9, <1>11, <1>12, Runs DEF SweepInv

\* What a visit schedules inside the region is what may run after the end of its instructions.
LEMMA TargetsFollow ==
    ASSUME Sweeping!SweepAssumption, CodeOK, NEW t \in Sweeping!Region, ~Sweeping!FallsThrough(t)
    PROVE  /\ Sweeping!Targets(t) \in Seq(Nat)
           /\ Items(Sweeping!Targets(t)) \cap Sweeping!Region = Sweeping!Succ(t)
<1>1. t # Sweeping!End /\ Sweeping!Decode(t).target \in Nat /\ Sweeping!NextIp(t) \in Nat
  BY Decodes
<1>2. \A x, y \in Nat : /\ <<x>> \in Seq(Nat) /\ <<x, y>> \in Seq(Nat)
                        /\ Items(<<x>>) = {x} /\ Items(<<x, y>>) = {x, y}
  <2> SUFFICES ASSUME NEW x \in Nat, NEW y \in Nat
               PROVE  /\ <<x>> \in Seq(Nat) /\ <<x, y>> \in Seq(Nat)
                      /\ Items(<<x>>) = {x} /\ Items(<<x, y>>) = {x, y}
    OBVIOUS
  <2>1. DOMAIN <<x>> = {1} /\ DOMAIN <<x, y>> = {1, 2}
    OBVIOUS
  <2> QED
    BY <2>1 DEF Items
<1>3. <<>> \in Seq(Nat) /\ Items(<<>>) = {}
  BY DEF Items
<1>4. CASE Sweeping!Decode(t).kind = "UnconditionalBranch"
  <2>1. Sweeping!Targets(t) = <<Sweeping!Decode(t).target>>
    BY <1>1, <1>4 DEF Sweeping!Targets
  <2>2. Sweeping!Succ(t) = {Sweeping!Decode(t).target} \cap Sweeping!Region
    BY <1>4 DEF Sweeping!Succ
  <2> QED
    BY <1>1, <1>2, <2>1, <2>2
<1>5. CASE Sweeping!Decode(t).kind = "ConditionalBranch"
  <2>1. Sweeping!Targets(t) = <<Sweeping!Decode(t).target, Sweeping!NextIp(t)>>
    BY <1>1, <1>5 DEF Sweeping!Targets
  <2>2. Sweeping!Succ(t) = {Sweeping!Decode(t).target, Sweeping!NextIp(t)} \cap Sweeping!Region
    BY <1>5 DEF Sweeping!Succ
  <2> QED
    BY <1>1, <1>2, <2>1, <2>2
<1>6. CASE Sweeping!Decode(t).kind \notin {"UnconditionalBranch", "ConditionalBranch"}
  <2>1. Sweeping!Targets(t) = <<>>
    BY <1>1, <1>6 DEF Sweeping!Targets
  <2>2. Sweeping!Succ(t) = {}
    BY <1>6 DEF Sweeping!Succ
  <2> QED
    BY <1>3, <2>1, <2>2
<1> QED
  BY <1>4, <1>5, <1>6

\* A visit takes the last entry, and schedules what follows its instructions if it is new.
LEMMA SweepVisit ==
    ASSUME Sweeping!SweepAssumption, SweepInv, Sweeping!Visit
    PROVE  SweepInv'
<1>0. /\ pc = "Visit" /\ pending # <<>> /\ UNCHANGED <<code, labels, blocks, pc>>
      /\ pending \in Seq(Nat) /\ CodeOK
  BY DEF Sweeping!Visit, SweepInv
<1>1. PICK entry : entry = pending[Len(pending)]
  OBVIOUS
<1>2. PICK front : front = SubSeq(pending, 1, Len(pending) - 1)
  OBVIOUS
<1>3. /\ front \in Seq(Nat) /\ Items(pending) = Items(front) \cup {entry} /\ entry \in Nat
  <2>1. entry \in Nat
    BY <1>0, <1>1
  <2> QED
    BY <1>0, <1>1, <1>2, <2>1, ItemsOf
<1>4. PICK K \in SUBSET Sweeping!Region : Swept(K)
  BY DEF SweepInv
<1>5. CASE entry \notin Sweeping!Region \/ entry \in visited
  <2>1. pending' = front /\ visited' = visited
    BY <1>1, <1>2, <1>5 DEF Sweeping!Visit, Sweeping!Last, Sweeping!Front
  <2>2. Waiting = Waiting' \cup {entry} /\ Waiting' \cap Sweeping!Region = Waiting \cap Sweeping!Region
    BY <1>3, <1>5, <2>1 DEF Waiting
  <2>3. Swept(K)'
    BY <1>0, <1>4, <2>1, <2>2, CodeSame, Runs DEF Swept
  <2>4. (Sweeping!Entries)' \subseteq Waiting'
    BY <1>0, <2>2, CodeSame, Runs DEF SweepInv
  <2>5. Waiting' \cap Sweeping!Region \subseteq (Sweeping!Leaders)'
    BY <1>0, <2>2, CodeSame DEF SweepInv
  <2>6. CodeOK' /\ pending' \in Seq(Nat) /\ visited' \subseteq Sweeping!Region
    BY <1>0, <1>3, <2>1, CodeSame DEF SweepInv
  <2> QED
    BY <1>0, <2>3, <2>4, <2>5, <2>6 DEF SweepInv, Sweeping!Region
<1>6. CASE entry \in Sweeping!Region /\ entry \notin visited
  <2>1. PICK t : t = Sweeping!Terminator[entry]
    OBVIOUS
  <2>2. PICK new : new = Sweeping!Targets(t)
    OBVIOUS
  <2>3. pending' = front \o new /\ visited' = visited \cup {entry}
    BY <1>1, <1>2, <1>6, <2>1, <2>2 DEF Sweeping!Visit, Sweeping!Last, Sweeping!Front
  <2>4. entry \in Sweeping!Executed
    BY <1>0, <1>3, <1>6, Runs DEF SweepInv, Waiting
  <2>5. /\ t \in Sweeping!Region \cup {Sweeping!End}
        /\ t \in Sweeping!Region => ~Sweeping!FallsThrough(t) /\ t \in Sweeping!Executed
    BY <1>0, <1>6, <2>1, <2>4, RunEnds
  <2>6. /\ new \in Seq(Nat)
        /\ t \in Sweeping!Region => Items(new) \cap Sweeping!Region = Sweeping!Succ(t)
        /\ t \notin Sweeping!Region => Items(new) = {}
    <3>1. CASE t \in Sweeping!Region
      BY <1>0, <2>2, <2>5, <3>1, TargetsFollow
    <3>2. CASE t \notin Sweeping!Region
      <4>1. new = <<>>
        BY <2>2, <2>5, <3>2 DEF Sweeping!Targets
      <4> QED
        BY <3>2, <4>1 DEF Items
    <3> QED
      BY <3>1, <3>2
  <2>7. pending' \in Seq(Nat) /\ Items(pending') = Items(front) \cup Items(new)
    BY <1>3, <2>3, <2>6, ItemsOf
  <2>8. Waiting' = Waiting \cup Items(new)
    BY <1>3, <2>3, <2>7 DEF Waiting
  <2>9. Items(new) \cap Sweeping!Region \subseteq Sweeping!Leaders
    BY <1>0, <2>5, <2>6, Runs
  <2>10. PICK N : N = {a \in Sweeping!Region : Sweeping!Terminator[a] = t}
    OBVIOUS
  <2>11. Swept(K \cup N)'
    <3>1. visited' \subseteq K \cup N
      BY <1>4, <1>6, <2>1, <2>3, <2>10 DEF Swept
    <3>2. ASSUME NEW a \in K \cup N
          PROVE  /\ Sweeping!FallsThrough(a) /\ Sweeping!NextIp(a) \in Sweeping!Region => Sweeping!NextIp(a) \in K \cup N
                 /\ ~Sweeping!FallsThrough(a) => Sweeping!Succ(a) \subseteq Waiting'
      <4>1. CASE a \in K
        BY <1>4, <2>8, <4>1 DEF Swept
      <4>2. CASE a \in N
        <5>1. a \in Sweeping!Region /\ Sweeping!Terminator[a] = t
          BY <2>10, <4>2
        <5>2. Sweeping!FallsThrough(a) => Sweeping!Terminator[Sweeping!NextIp(a)] = t
          BY <1>0, <5>1, Terminates
        <5>3. ~Sweeping!FallsThrough(a) => a = t
          BY <1>0, <5>1, Terminates
        <5> QED
          BY <2>6, <2>8, <2>10, <5>1, <5>2, <5>3
      <4> QED
        BY <4>1, <4>2
    <3> QED
      BY <1>0, <3>1, <3>2, CodeSame DEF Swept, Sweeping!Region
  <2>12. (Sweeping!Entries)' \subseteq Waiting'
    BY <1>0, <2>8, CodeSame DEF SweepInv
  <2>13. Waiting' \cap Sweeping!Region \subseteq (Sweeping!Leaders)'
    BY <1>0, <2>8, <2>9, CodeSame DEF SweepInv
  <2>14. CodeOK' /\ visited' \subseteq Sweeping!Region /\ K \cup N \in SUBSET Sweeping!Region
    BY <1>0, <1>6, <2>3, <2>10, CodeSame DEF SweepInv
  <2> QED
    BY <1>0, <2>7, <2>11, <2>12, <2>13, <2>14 DEF SweepInv, Sweeping!Region
<1> QED
  BY <1>5, <1>6
\* BlockEnd computes what it is written with.
LEMMA CutsAt ==
    ASSUME Sweeping!SweepAssumption, CodeOK
    PROVE  \E E : Ends(E) /\ \A a : Sweeping!BlockEnd(a) = E[a]
<1> DEFINE D == Sweeping!Region \cup {Sweeping!End}
           t == CHOOSE E : Ends(E)
<1>1. \A a : Sweeping!BlockEnd(a) = t[a]
  BY DEF Sweeping!BlockEnd, Ends, EndStep
<1>2. \E E : Ends(E)
  <2> DEFINE stop == [a \in D |-> \/ a = Sweeping!End \/ Sweeping!Decode(a).kind = "Exception"
                                  \/ ~Sweeping!FallsThrough(a) \/ Sweeping!NextIp(a) \in visited]
             val == [a \in D |-> IF a = Sweeping!End \/ Sweeping!Decode(a).kind = "Exception"
                                 THEN a ELSE Sweeping!NextIp(a)]
             nx == [a \in D |-> Sweeping!NextIp(a)]
  <2>1. D = Base..Sweeping!End /\ Base \in Nat /\ Sweeping!End \in Nat /\ Base <= Sweeping!End
    BY Decodes
  <2>2. \A a \in Base..Sweeping!End : ~stop[a] => nx[a] \in Base..Sweeping!End /\ nx[a] > a
    BY <2>1, Decodes
  <2>3. PICK f : IsJump(Base, Sweeping!End, stop, val, nx, f)
    <3> HIDE DEF stop, val, nx
    <3> QED
      BY <2>1, <2>2, JumpExists
  <2>4. \A a \in D : JumpStep(stop, val, nx, f, a) = EndStep(f, a)
    BY DEF JumpStep, EndStep
  <2>5. f = [a \in D |-> JumpStep(stop, val, nx, f, a)]
    BY <2>1, <2>3 DEF IsJump
  <2>6. f = [a \in D |-> EndStep(f, a)]
    BY <2>4, <2>5
  <2> QED
    BY <2>6 DEF Ends
<1>3. Ends(t)
  BY <1>2, Zenon
<1> HIDE DEF t
<1> QED
  BY <1>1, <1>3

\* The blocks are cut when nothing waits.
LEMMA SweepCut ==
    ASSUME Sweeping!SweepAssumption, SweepInv, Sweeping!Cut
    PROVE  SweepInv'
<1>0. /\ pending = <<>> /\ pc' = "Done" /\ UNCHANGED <<code, labels, pending, visited>> /\ CodeOK
      /\ blocks' = {Sweeping!Block(a, Sweeping!BlockEnd(a)) : a \in {v \in visited : Sweeping!BlockEnd(v) > v}}
  BY DEF Sweeping!Cut, SweepInv
<1>1. PICK E : Ends(E) /\ \A a : Sweeping!BlockEnd(a) = E[a]
  BY <1>0, CutsAt
<1>2. blocks' = {Sweeping!Block(a, E[a]) : a \in {v \in visited : E[v] > v}}
  BY <1>0, <1>1
<1>3. Ends(E)'
  <2>1. \A a : EndStep(E, a)' = EndStep(E, a)
    BY <1>0, CodeSame DEF EndStep, Sweeping!End
  <2> QED
    BY <1>1, <2>1 DEF Ends, Sweeping!Region, Sweeping!End
<1>4. CutAt(E)'
  BY <1>0, <1>2 DEF CutAt, Sweeping!Block
<1>5. PICK K \in SUBSET Sweeping!Region : Swept(K)
  BY DEF SweepInv
<1>6. Waiting' = Waiting
  BY <1>0 DEF Waiting
<1>7. Swept(K)'
  BY <1>0, <1>5, <1>6, CodeSame DEF Swept, Sweeping!Region
<1>8. CodeOK' /\ pending' \in Seq(Nat) /\ visited' \subseteq Sweeping!Region
  BY <1>0, CodeSame DEF SweepInv
<1>9. (Sweeping!Entries)' \subseteq Waiting' /\ Waiting' \cap Sweeping!Region \subseteq (Sweeping!Leaders)'
  BY <1>0, <1>6, CodeSame DEF SweepInv
<1>10. pc' = "Done" /\ pending' = <<>> /\ \E F : Ends(F)' /\ CutAt(F)'
  BY <1>0, <1>3, <1>4
<1> QED
  BY <1>5, <1>7, <1>8, <1>9, <1>10 DEF SweepInv, Sweeping!Region

\* Where nothing waits, the visited places are those where control can arrive.
LEMMA VisitedAll ==
    ASSUME Sweeping!SweepAssumption, SweepInv, pending = <<>>
    PROVE  visited = Sweeping!Leaders
<1>0. CodeOK /\ visited \subseteq Sweeping!Region
  BY DEF SweepInv
<1>1. Waiting = visited
  BY DEF Waiting, Items
<1>2. PICK K \in SUBSET Sweeping!Region : Swept(K)
  BY DEF SweepInv
<1>3. Sweeping!Executed \subseteq K
  <2>1. Sweeping!Entries \subseteq K
    BY <1>1, <1>2 DEF SweepInv, Swept
  <2>2. ASSUME NEW a \in K PROVE Sweeping!Succ(a) \subseteq K
    <3>1. CASE Sweeping!FallsThrough(a)
      <4>1. Sweeping!Succ(a) = {Sweeping!NextIp(a)} \cap Sweeping!Region
        BY <3>1 DEF Sweeping!Succ
      <4> QED
        BY <1>2, <3>1, <4>1 DEF Swept
    <3>2. CASE ~Sweeping!FallsThrough(a)
      BY <1>1, <1>2, <3>2 DEF Swept
    <3> QED
      BY <3>1, <3>2
  <2> QED
    BY <1>0, <2>1, <2>2, Runs
<1>4. Sweeping!Leaders \subseteq visited
  BY <1>1, <1>2, <1>3 DEF Sweeping!Leaders, Swept, SweepInv
<1>5. visited \subseteq Sweeping!Leaders
  BY <1>0, <1>1 DEF SweepInv
<1> QED
  BY <1>4, <1>5
\* A block ends at an invalid instruction, after one that ends it, or where the next does.
LEMMA EndOf ==
    ASSUME Sweeping!SweepAssumption, CodeOK, NEW E, Ends(E)
    PROVE  /\ E[Sweeping!End] = Sweeping!End
           /\ \A a \in Sweeping!Region :
                /\ Sweeping!Decode(a).kind = "Exception" => E[a] = a
                /\ Sweeping!Decode(a).kind # "Exception" =>
                     E[a] = IF ~Sweeping!FallsThrough(a) \/ Sweeping!NextIp(a) \in visited
                            THEN Sweeping!NextIp(a) ELSE E[Sweeping!NextIp(a)]
           /\ \A a \in Base..Sweeping!End : E[a] \in Base..Sweeping!End /\ E[a] >= a
<1>0. /\ Base \in Nat /\ Sweeping!End \in Nat /\ Sweeping!End \notin Sweeping!Region
      /\ Sweeping!Region \cup {Sweeping!End} = Base..Sweeping!End
  BY Decodes
<1>1. \A a \in Sweeping!Region \cup {Sweeping!End} : E[a] = EndStep(E, a)
  BY DEF Ends
<1>2. E[Sweeping!End] = Sweeping!End
  BY <1>1 DEF EndStep
<1>3. \A a \in Sweeping!Region :
        /\ Sweeping!Decode(a).kind = "Exception" => E[a] = a
        /\ Sweeping!Decode(a).kind # "Exception" =>
             E[a] = IF ~Sweeping!FallsThrough(a) \/ Sweeping!NextIp(a) \in visited
                    THEN Sweeping!NextIp(a) ELSE E[Sweeping!NextIp(a)]
  BY <1>0, <1>1 DEF EndStep
<1> DEFINE S == {a \in Base..Sweeping!End : E[a] \in Base..Sweeping!End /\ E[a] >= a}
<1>4. ASSUME NEW c \in Base..Sweeping!End, \A d \in Base..Sweeping!End : d > c => d \in S
      PROVE  c \in S
  <2>1. CASE c = Sweeping!End
    BY <1>0, <1>2, <2>1
  <2>2. CASE c \in Sweeping!Region
    <3>1. PICK n : n = Sweeping!NextIp(c)
      OBVIOUS
    <3>2. n \in Base..Sweeping!End /\ n > c
      BY <2>2, <3>1, Decodes
    <3>3. E[n] \in Base..Sweeping!End /\ E[n] >= n
      BY <1>4, <3>2
    <3>4. E[c] \in {c, n, E[n]}
      BY <1>3, <2>2, <3>1
    <3> QED
      BY <1>0, <3>2, <3>3, <3>4
  <2> QED
    BY <1>0, <2>1, <2>2
<1>5. Base..Sweeping!End \subseteq S
  <2> HIDE DEF S
  <2> QED
    BY <1>0, <1>4, TopDown
<1> QED
  BY <1>2, <1>3, <1>5

\* Every byte of a block that can run belongs to a valid instruction that can run, and none of
\* them but the first was visited.
InBlock(a, c, o) ==
    /\ c \in Sweeping!Executed /\ a <= c /\ c <= o /\ o < Sweeping!NextIp(c)
    /\ Sweeping!Decode(c).kind # "Exception" /\ (c = a \/ c \notin visited)

LEMMA BlockBytes ==
    ASSUME Sweeping!SweepAssumption, CodeOK, NEW E, Ends(E),
           NEW a \in Sweeping!Executed, NEW o \in Nat, a <= o, o < E[a]
    PROVE  \E c : InBlock(a, c, o)
<1>0. /\ Base \in Nat /\ Sweeping!End \in Nat /\ Sweeping!End \notin Sweeping!Region
      /\ Sweeping!Region \cup {Sweeping!End} = Base..Sweeping!End
      /\ Sweeping!Region = Base..(Sweeping!End - 1)
  BY Decodes
<1> DEFINE P(x) == x \in Sweeping!Executed /\ x <= o /\ o < E[x] => \E c : InBlock(x, c, o)
           S == {x \in Base..Sweeping!End : P(x)}
<1>1. ASSUME NEW x \in Base..Sweeping!End, \A d \in Base..Sweeping!End : d > x => d \in S
      PROVE  x \in S
  <2> SUFFICES ASSUME x \in Sweeping!Executed, x <= o, o < E[x] PROVE \E c : InBlock(x, c, o)
    OBVIOUS
  <2>0. x \in Sweeping!Region
    BY Runs
  <2>1. PICK n : n = Sweeping!NextIp(x)
    OBVIOUS
  <2>2. n \in Base..Sweeping!End /\ n > x
    BY <2>0, <2>1, Decodes
  <2>3. Sweeping!Decode(x).kind # "Exception"
    BY <1>0, <2>0, EndOf
  <2>4. CASE o < n
    BY <1>0, <2>1, <2>3, <2>4 DEF InBlock
  <2>5. CASE ~(o < n)
    <3>1. Sweeping!FallsThrough(x) /\ n \notin visited /\ E[x] = E[n]
      BY <2>0, <2>1, <2>3, <2>5, EndOf
    <3>2. n \in Sweeping!Region
      <4>1. n # Sweeping!End
        BY <1>0, <2>2, <2>5, <3>1, EndOf
      <4> QED
        BY <1>0, <2>2, <4>1
    <3>3. n \in Sweeping!Executed
      <4>1. n \in Sweeping!Succ(x)
        BY <2>1, <3>1, <3>2 DEF Sweeping!Succ
      <4> QED
        BY <4>1, Runs
    <3>4. PICK c : InBlock(n, c, o)
      <4>1. P(n)
        BY <1>1, <2>2
      <4>2. n <= o /\ o < E[n]
        BY <1>0, <2>2, <2>5, <3>1
      <4> QED
        BY <3>3, <4>1, <4>2
    <3>5. InBlock(x, c, o)
      <4>1. c \in Base..(Sweeping!End - 1)
        BY <1>0, <3>4, Runs DEF InBlock
      <4> QED
        BY <1>0, <2>2, <3>1, <3>4, <4>1 DEF InBlock
    <3> QED
      BY <3>5
  <2> QED
    BY <2>4, <2>5
<1>2. Base..Sweeping!End \subseteq S
  <2> HIDE DEF S
  <2> QED
    BY <1>0, <1>1, TopDown
<1>3. P(a)
  BY <1>0, <1>2, Runs
<1> QED
  BY <1>3

\* Every instruction that can run lies behind a visited one with the same end.
LEMMA BlockOf ==
    ASSUME Sweeping!SweepAssumption, CodeOK, NEW E, Ends(E), visited = Sweeping!Leaders,
           NEW c \in Sweeping!Executed
    PROVE  \E v \in visited : v <= c /\ E[v] = E[c]
<1>0. Base \in Nat /\ Sweeping!End \in Nat /\ Sweeping!Region = Base..(Sweeping!End - 1)
  BY Decodes
<1> DEFINE S == {x \in Sweeping!Executed : \E v \in visited : v <= x /\ E[v] = E[x]}
<1>1. visited \subseteq S
  BY <1>0, Runs
<1>2. ASSUME NEW x \in S PROVE Sweeping!Succ(x) \subseteq S
  <2>0. x \in Sweeping!Region /\ x \in Nat
    BY <1>0, Runs
  <2>1. PICK v \in visited : v <= x /\ E[v] = E[x]
    OBVIOUS
  <2>2. CASE ~Sweeping!FallsThrough(x)
    <3>1. Sweeping!Succ(x) \subseteq visited
      BY <2>2, Runs
    <3> QED
      BY <1>1, <3>1
  <2>3. CASE Sweeping!FallsThrough(x)
    <3>1. PICK n : n = Sweeping!NextIp(x)
      OBVIOUS
    <3>2. Sweeping!Succ(x) = {n} \cap Sweeping!Region /\ Sweeping!Succ(x) \subseteq Sweeping!Executed
      BY <2>3, <3>1, Runs DEF Sweeping!Succ
    <3>3. n \in visited \/ E[n] = E[x]
      <4>1. Sweeping!Decode(x).kind # "Exception"
        BY <2>3 DEF Sweeping!FallsThrough
      <4> QED
        BY <2>0, <2>3, <3>1, <4>1, EndOf
    <3>4. n > x /\ n \in Nat /\ v \in Nat
      <4>1. n \in Base..Sweeping!End /\ n > x
        BY <2>0, <3>1, Decodes
      <4>2. v \in Base..(Sweeping!End - 1)
        BY <1>0, Runs
      <4> QED
        BY <1>0, <4>1, <4>2
    <3> QED
      BY <1>0, <1>1, <2>0, <2>1, <3>2, <3>3, <3>4
  <2> QED
    BY <2>2, <2>3
<1> QED
  BY <1>0, <1>1, <1>2, Runs
\* The instructions of a block, as Stream collects them up to its end.
PassTo(x, f, a) ==
    IF a >= x THEN {} ELSE {a} \cup (IF Sweeping!FallsThrough(a) THEN f[Sweeping!NextIp(a)] ELSE {})
Passes(x, f) == f = [a \in Sweeping!Region \cup {Sweeping!End} |-> PassTo(x, f, a)]

LEMMA StreamPasses ==
    ASSUME Sweeping!SweepAssumption, CodeOK, NEW b, NEW x \in Base..Sweeping!End, b.offset + b.size = x
    PROVE  \E f : Passes(x, f) /\ Sweeping!Stream(b) = f[b.offset]
<1> DEFINE D == Sweeping!Region \cup {Sweeping!End}
           t == CHOOSE f : Passes(x, f)
<1>1. Sweeping!Stream(b) = t[b.offset]
  BY DEF Sweeping!Stream, Passes, PassTo
<1>2. \E f : Passes(x, f)
  <2> DEFINE stop == [a \in D |-> a >= x]
             more == [a \in D |-> Sweeping!FallsThrough(a)]
             nx == [a \in D |-> Sweeping!NextIp(a)]
  <2>1. /\ D = Base..Sweeping!End /\ Base \in Nat /\ Sweeping!End \in Nat /\ Base <= Sweeping!End
        /\ Sweeping!Region = Base..(Sweeping!End - 1)
    BY Decodes
  <2>2. \A a \in Base..Sweeping!End : ~stop[a] /\ more[a] => nx[a] \in Base..Sweeping!End /\ nx[a] > a
    <3> SUFFICES ASSUME NEW a \in Base..Sweeping!End, ~(a >= x)
                 PROVE  Sweeping!NextIp(a) \in Base..Sweeping!End /\ Sweeping!NextIp(a) > a
      BY <2>1
    <3>1. a \in Sweeping!Region
      BY <2>1
    <3> QED
      BY <3>1, Decodes
  <2>3. PICK f : IsPass(Base, Sweeping!End, stop, more, nx, f)
    <3> HIDE DEF stop, more, nx
    <3> QED
      BY <2>1, <2>2, PassExists
  <2>4. \A a \in D : PassStep(stop, more, nx, f, a) = PassTo(x, f, a)
    BY DEF PassStep, PassTo
  <2>5. f = [a \in D |-> PassStep(stop, more, nx, f, a)]
    BY <2>1, <2>3 DEF IsPass
  <2>6. f = [a \in D |-> PassTo(x, f, a)]
    BY <2>4, <2>5
  <2> QED
    BY <2>6 DEF Passes
<1>3. Passes(x, t)
  BY <1>2, Zenon
<1> HIDE DEF t
<1> QED
  BY <1>1, <1>3

\* Of the instructions of a block only the first was visited.
LEMMA StreamVisited ==
    ASSUME Sweeping!SweepAssumption, CodeOK, NEW E, Ends(E), NEW x \in Base..Sweeping!End,
           NEW f, Passes(x, f), NEW v \in Sweeping!Region, E[v] = x
    PROVE  f[v] \cap visited \subseteq {v}
<1>0. /\ Base \in Nat /\ Sweeping!End \in Nat /\ Sweeping!End \notin Sweeping!Region
      /\ Sweeping!Region \cup {Sweeping!End} = Base..Sweeping!End
      /\ Sweeping!Region = Base..(Sweeping!End - 1)
  BY Decodes
<1>1. \A a \in Base..Sweeping!End : f[a] = PassTo(x, f, a)
  BY <1>0 DEF Passes
<1> DEFINE S == {a \in Base..Sweeping!End : E[a] = x => f[a] \cap visited \subseteq {a}}
<1>2. ASSUME NEW a \in Base..Sweeping!End, \A d \in Base..Sweeping!End : d > a => d \in S
      PROVE  a \in S
  <2> SUFFICES ASSUME E[a] = x PROVE f[a] \cap visited \subseteq {a}
    OBVIOUS
  <2>1. CASE a >= x
    BY <1>1, <2>1 DEF PassTo
  <2>2. CASE ~(a >= x)
    <3>0. a \in Sweeping!Region
      BY <1>0, <2>2
    <3>1. PICK n : n = Sweeping!NextIp(a)
      OBVIOUS
    <3>2. n \in Base..Sweeping!End /\ n > a
      BY <3>0, <3>1, Decodes
    <3>3. f[a] = {a} \cup (IF Sweeping!FallsThrough(a) THEN f[n] ELSE {})
      BY <1>1, <2>2, <3>1 DEF PassTo
    <3>4. Sweeping!Decode(a).kind # "Exception"
      BY <1>0, <2>2, <3>0, EndOf
    <3>5. CASE ~Sweeping!FallsThrough(a)
      BY <3>3, <3>5
    <3>6. CASE Sweeping!FallsThrough(a) /\ n \in visited
      <4>1. x = n
        BY <3>0, <3>1, <3>4, <3>6, EndOf
      <4>2. f[n] = {}
        <5>1. n >= x
          BY <1>0, <3>2, <4>1
        <5>2. PassTo(x, f, n) = {}
          BY <5>1 DEF PassTo
        <5> QED
          BY <1>1, <3>2, <5>2
      <4> QED
        BY <3>3, <4>2
    <3>7. CASE Sweeping!FallsThrough(a) /\ n \notin visited
      <4>1. E[n] = x
        BY <3>0, <3>1, <3>4, <3>7, EndOf
      <4>2. f[n] \cap visited \subseteq {n}
        BY <1>2, <3>2, <4>1
      <4> QED
        BY <3>3, <3>7, <4>2
    <3> QED
      BY <3>5, <3>6, <3>7
  <2> QED
    BY <2>1, <2>2
<1>3. Base..Sweeping!End \subseteq S
  <2> HIDE DEF S
  <2> QED
    BY <1>0, <1>2, TopDown
<1> QED
  BY <1>0, <1>3

\* What the blocks are when the sweep is done.
LEMMA SweepBlocks ==
    ASSUME Sweeping!SweepAssumption, SweepInv, pc = "Done"
    PROVE  \E E : /\ Ends(E) /\ visited = Sweeping!Leaders
                  /\ \A b : b \in blocks <=>
                       \E v \in visited : E[v] > v /\ b = [offset |-> v, size |-> E[v] - v]
<1>1. PICK E : Ends(E) /\ CutAt(E)
  BY DEF SweepInv
<1>2. visited = Sweeping!Leaders
  BY VisitedAll DEF SweepInv
<1>3. \A b : b \in blocks <=> \E v \in visited : E[v] > v /\ b = [offset |-> v, size |-> E[v] - v]
  BY <1>1 DEF CutAt, Sweeping!Block
<1> QED
  BY <1>1, <1>2, <1>3

LEMMA SweepMeans ==
    ASSUME Sweeping!SweepAssumption, SweepInv
    PROVE  /\ Sweeping!TypeOK /\ Sweeping!EntriesExact
           /\ Sweeping!EnteredAtStart /\ Sweeping!BlocksPartition
<1>0. /\ CodeOK /\ Base \in Nat /\ Size \in Nat /\ Sweeping!End \in Nat
      /\ Sweeping!Region = Base..(Sweeping!End - 1) /\ Sweeping!End = Base + Size
      /\ visited \subseteq Sweeping!Region
      /\ Sweeping!Region \cup {Sweeping!End} = Base..Sweeping!End
  BY Decodes DEF SweepInv, Sweeping!End
<1>1. Sweeping!EntriesExact
  BY VisitedAll DEF Sweeping!EntriesExact, SweepInv
<1>2. Sweeping!TypeOK
  <2>1. blocks \subseteq [offset : Sweeping!Region, size : 1..Size]
    <3>1. CASE pc = "Visit"
      BY <3>1 DEF SweepInv
    <3>2. CASE pc = "Done"
      <4>1. PICK E : /\ Ends(E) /\ visited = Sweeping!Leaders
                     /\ \A b : b \in blocks <=>
                          \E v \in visited : E[v] > v /\ b = [offset |-> v, size |-> E[v] - v]
        BY <3>2, SweepBlocks
      <4>2. ASSUME NEW v \in visited, E[v] > v PROVE v \in Sweeping!Region /\ E[v] - v \in 1..Size
        <5>1. v \in Base..(Base + Size - 1) /\ E[v] \in Base..(Base + Size)
          BY <1>0, <4>1, EndOf
        <5> QED
          BY <1>0, <4>2, <5>1
      <4> QED
        BY <4>1, <4>2
    <3> QED
      BY <3>1, <3>2 DEF SweepInv
  <2> QED
    BY <2>1 DEF Sweeping!TypeOK, SweepInv
<1>3. Sweeping!EnteredAtStart
  <2> SUFFICES ASSUME pc = "Done", NEW b \in blocks, NEW l \in Sweeping!Leaders \ {b.offset}
               PROVE  l \notin Sweeping!Stream(b)
    BY DEF Sweeping!EnteredAtStart
  <2>1. PICK E : /\ Ends(E) /\ visited = Sweeping!Leaders
                 /\ \A c : c \in blocks <=>
                      \E v \in visited : E[v] > v /\ c = [offset |-> v, size |-> E[v] - v]
    BY SweepBlocks
  <2>2. PICK v \in visited : E[v] > v /\ b = [offset |-> v, size |-> E[v] - v]
    BY <2>1
  <2>3. v \in Sweeping!Region /\ E[v] \in Base..Sweeping!End
    BY <1>0, <2>1, EndOf
  <2>4. b.offset = v /\ b.offset + b.size = E[v]
    BY <1>0, <2>2, <2>3
  <2>5. PICK f : Passes(E[v], f) /\ Sweeping!Stream(b) = f[v]
    BY <1>0, <2>3, <2>4, StreamPasses
  <2>6. f[v] \cap visited \subseteq {v}
    BY <1>0, <2>1, <2>3, <2>5, StreamVisited
  <2> QED
    BY <2>1, <2>4, <2>5, <2>6
<1>4. Sweeping!BlocksPartition
  <2> SUFFICES ASSUME pc = "Done", Sweeping!Aligned, NEW o \in Sweeping!Region
               PROVE  Sweeping!Cardinality({b \in blocks : b.offset <= o /\ o < b.offset + b.size}) =
                      IF \E a \in Sweeping!Executed : /\ a <= o /\ o < Sweeping!NextIp(a)
                                                      /\ Sweeping!Decode(a).kind # "Exception"
                      THEN 1 ELSE 0
    BY DEF Sweeping!BlocksPartition
  <2>1. PICK E : /\ Ends(E) /\ visited = Sweeping!Leaders
                 /\ \A c : c \in blocks <=>
                      \E v \in visited : E[v] > v /\ c = [offset |-> v, size |-> E[v] - v]
    BY SweepBlocks
  <2>2. PICK H : H = {b \in blocks : b.offset <= o /\ o < b.offset + b.size}
    OBVIOUS
  <2>3. \A v \in visited : /\ v \in Sweeping!Executed /\ v \in Base..(Sweeping!End - 1)
                           /\ E[v] \in Base..Sweeping!End /\ o \in Nat
    BY <1>0, <2>1, EndOf, Runs
  <2>4. \A b : b \in H <=> \E v \in visited : v <= o /\ o < E[v] /\ b = [offset |-> v, size |-> E[v] - v]
    <3>1. \A v \in visited : LET b == [offset |-> v, size |-> E[v] - v]
                             IN  b.offset = v /\ b.offset + b.size = E[v] /\ (v <= o /\ o < E[v] => E[v] > v)
      BY <1>0, <2>3
    <3> QED
      BY <2>1, <2>2, <3>1
  <2>5. \A v, w \in visited : v <= o /\ o < E[v] /\ w <= o /\ o < E[w] => v = w
    <3>1. ASSUME NEW v \in visited, NEW w \in visited, v < w, w <= o, o < E[v] PROVE FALSE
      <4>0. /\ v \in Sweeping!Executed /\ v \in Nat /\ w \in Nat /\ o \in Nat /\ E[v] \in Nat /\ w \in Sweeping!Executed
            /\ w < E[v]
        BY <1>0, <2>3, <3>1
      <4>1. PICK c : InBlock(v, c, w)
        BY <1>0, <2>1, <3>1, <4>0, BlockBytes
      <4>2. c \in Sweeping!Executed /\ v <= c /\ c <= w /\ w < Sweeping!NextIp(c) /\ (c = v \/ c \notin visited)
        BY <4>1 DEF InBlock
      <4>3. c < w => Sweeping!NextIp(c) <= w
        BY <4>0, <4>2 DEF Sweeping!Aligned
      <4>4. c \in Sweeping!Region
        BY <1>0, <4>2, Runs
      <4>5. c \in Nat /\ Sweeping!NextIp(c) \in Nat
        BY <1>0, <4>4, Decodes
      <4>6. c = w
        BY <4>0, <4>2, <4>3, <4>5
      <4> QED
        BY <3>1, <4>0, <4>2, <4>6
    <3> QED
      BY <1>0, <2>3, <3>1
  <2>6. CASE \E a \in Sweeping!Executed : /\ a <= o /\ o < Sweeping!NextIp(a)
                                          /\ Sweeping!Decode(a).kind # "Exception"
    <3>1. PICK a \in Sweeping!Executed : a <= o /\ o < Sweeping!NextIp(a) /\ Sweeping!Decode(a).kind # "Exception"
      BY <2>6
    <3>2. PICK v \in visited : v <= a /\ E[v] = E[a]
      BY <1>0, <2>1, BlockOf
    <3>3. a \in Sweeping!Region
      BY <1>0, Runs
    <3>4. PICK n : n = Sweeping!NextIp(a)
      OBVIOUS
    <3>5. n \in Base..Sweeping!End /\ E[n] \in Base..Sweeping!End /\ E[n] >= n /\ E[a] \in {n, E[n]}
      BY <1>0, <2>1, <3>1, <3>3, <3>4, Decodes, EndOf
    <3>6. v <= o /\ o < E[v]
      <4>1. E[a] \in Nat /\ E[a] >= n /\ n \in Nat
        BY <1>0, <3>5
      <4>2. v \in Nat /\ o \in Nat /\ a \in Nat
        BY <1>0, <2>3, <3>3
      <4> QED
        BY <3>1, <3>2, <3>4, <4>1, <4>2
    <3>7. H = {[offset |-> v, size |-> E[v] - v]}
      BY <2>4, <2>5, <3>6
    <3>8. Cardinality(H) = 1
      BY <3>7, FS_Singleton
    <3>9. Sweeping!Cardinality(H) = Cardinality(H)
      BY DEF Sweeping!Cardinality, Cardinality
    <3> QED
      BY <2>2, <2>6, <3>8, <3>9
  <2>7. CASE ~\E a \in Sweeping!Executed : /\ a <= o /\ o < Sweeping!NextIp(a)
                                           /\ Sweeping!Decode(a).kind # "Exception"
    <3>1. H = {}
      <4> SUFFICES ASSUME NEW v \in visited, v <= o, o < E[v] PROVE FALSE
        BY <2>4
      <4>1. PICK c : InBlock(v, c, o)
        BY <1>0, <2>1, <2>3, BlockBytes
      <4> QED
        BY <2>7, <4>1 DEF InBlock
    <3>2. Cardinality(H) = 0
      BY <3>1, FS_EmptySet
    <3>3. Sweeping!Cardinality(H) = Cardinality(H)
      BY DEF Sweeping!Cardinality, Cardinality
    <3> QED
      BY <2>2, <2>7, <3>2, <3>3
  <2> QED
    BY <2>6, <2>7
<1> QED
  BY <1>1, <1>2, <1>3, <1>4
LEMMA SweepStutters ==
    ASSUME SweepInv, UNCHANGED <<code, labels, pending, visited, blocks, pc>>
    PROVE  SweepInv'
<1>1. Waiting' = Waiting
  BY DEF Waiting
<1>2. \A K : Swept(K) => Swept(K)'
  BY <1>1, CodeSame DEF Swept, Sweeping!Region
<1>3. \A E : Ends(E) => Ends(E)'
  <2> SUFFICES ASSUME NEW E, Ends(E) PROVE Ends(E)'
    OBVIOUS
  <2>1. \A a : EndStep(E, a)' = EndStep(E, a)
    BY CodeSame DEF EndStep, Sweeping!End
  <2> QED
    BY <2>1 DEF Ends, Sweeping!Region, Sweeping!End
<1>4. \A E : CutAt(E) => CutAt(E)'
  BY DEF CutAt, Sweeping!Block
<1>5. pc = "Done" => \E E : Ends(E)' /\ CutAt(E)'
  BY <1>3, <1>4 DEF SweepInv
<1>6. \E K \in SUBSET Sweeping!Region : Swept(K)'
  BY <1>2 DEF SweepInv
<1>7. Waiting' \cap Sweeping!Region \subseteq (Sweeping!Leaders)' /\ (Sweeping!Entries)' \subseteq Waiting'
  BY <1>1, CodeSame DEF SweepInv
<1>8. CodeOK'
  BY CodeSame DEF SweepInv
<1> QED
  BY <1>5, <1>6, <1>7, <1>8 DEF SweepInv, Sweeping!Region

-----------------------------------------------------------------------------
(* Source coverage.  The invariant says of every line what is known of it   *)
(* while the blocks are converted: it has the largest count of those blocks *)
(* converted so far that it belongs to.                                     *)

Converted == DOMAIN Blocks \ todo
Owners(l) == {b \in Converted : l \in Source!BlockLines(allowlist, b)}

\* The allowlist that the user's text gives.
Given == IF text = None THEN Source!Default ELSE Source!AllowListOf(text)

LineCounts(l) ==
    /\ \E b \in Owners(l) : source[l] = Source!Merged[b]
    /\ \A b \in Owners(l) : Source!Merged[b] <= source[l]
    /\ \A k \in 1..2 : \E b \in Owners(l) : \A c \in Owners(l) : binary[k][c] <= binary[k][b]

SourceType ==
    /\ text \in Texts \cup {None} /\ binary \in [1..2 -> [DOMAIN Blocks -> Counts]]
    /\ todo \subseteq DOMAIN Blocks /\ pc \in {"Load", "Convert", "Done"}
    /\ pc = "Load" => allowlist = Source!Default /\ todo = DOMAIN Blocks
    /\ pc # "Load" => allowlist = Given
    /\ pc = "Done" => todo = {}

SourceInv ==
    /\ SourceType
    /\ source = [l \in DOMAIN source |-> source[l]]
    /\ IsFiniteSet(DOMAIN source)
    /\ \A l : l \in DOMAIN source <=> Owners(l) # {}
    /\ \A l \in DOMAIN source : LineCounts(l)

\* The maximum of a set that has one.
LEMMA MaxIs ==
    ASSUME NEW S, S \subseteq Nat, NEW m \in S, \A x \in S : x <= m
    PROVE  Source!Max(S) = m
<1>1. \A x \in S : (\A y \in S : x >= y) => x = m
  <2> SUFFICES ASSUME NEW x \in S, \A y \in S : x >= y PROVE x = m
    OBVIOUS
  <2>1. x >= m /\ x <= m /\ x \in Nat /\ m \in Nat
    OBVIOUS
  <2> QED
    BY <2>1
<1>2. \A y \in S : m >= y
  OBVIOUS
<1> QED
  BY <1>1, <1>2, Zenon DEF Source!Max

\* The merged count of a block is the larger one of its two.
LEMMA MergedIs ==
    ASSUME Source!SourceCoverageAssumption, SourceType, NEW b \in DOMAIN Blocks
    PROVE  /\ Source!Merged[b] \in Counts /\ Source!Merged[b] \in Nat
           /\ \A k \in 1..2 : binary[k][b] <= Source!Merged[b] /\ binary[k][b] \in Nat
           /\ \E k \in 1..2 : Source!Merged[b] = binary[k][b]
<1> DEFINE S == {binary[k][b] : k \in 1..2}
<1>0. binary \in [1..2 -> [DOMAIN Blocks -> Counts]] /\ Counts \subseteq Nat
  BY DEF SourceType, Source!SourceCoverageAssumption
<1>1. /\ \A k \in 1..2 : binary[k][b] \in Counts /\ binary[k][b] \in Nat
      /\ 1 \in 1..2 /\ 2 \in 1..2
  <2>1. \A k \in 1..2 : binary[k] \in [DOMAIN Blocks -> Counts]
    BY <1>0
  <2>2. \A k \in 1..2 : binary[k][b] \in Counts
    BY <2>1
  <2>3. \A k \in 1..2 : binary[k][b] \in Nat
    BY <1>0, <2>2, Zenon
  <2>4. 1 \in 1..2 /\ 2 \in 1..2
    OBVIOUS
  <2> QED
    BY <2>2, <2>3, <2>4
<1>2. \A k \in 1..2 : k = 1 \/ k = 2
  OBVIOUS
<1>3. S = {binary[1][b], binary[2][b]}
  BY <1>1, <1>2
<1>4. PICK m \in S : \A x \in S : x <= m
  <2>1. CASE binary[1][b] <= binary[2][b]
    BY <1>1, <1>3, <2>1
  <2>2. CASE binary[2][b] <= binary[1][b]
    BY <1>1, <1>3, <2>2
  <2> QED
    BY <1>1, <2>1, <2>2
<1>5. S \subseteq Nat
  BY <1>1
<1>6. Source!Max(S) = m
  <2> HIDE DEF S
  <2> QED
    BY <1>4, <1>5, MaxIs
<1>7. Source!Merged[b] = m
  BY <1>6 DEF Source!Merged, Source!Offsets
<1> QED
  BY <1>1, <1>4, <1>7

\* The next block to convert is one of those left.
LEMMA NextBlock ==
    ASSUME NEW T, T \subseteq Nat, T # {}
    PROVE  Source!Min(T) \in T
<1>1. \E x \in T : \A y \in T : x <= y
  BY LeastNumber
<1> QED
  BY <1>1, Zenon DEF Source!Min

\* The library's sets and ours.
LEMMA SameCount ==
    ASSUME NEW S
    PROVE  Source!Cardinality(S) = Cardinality(S) /\ (Source!IsFiniteSet(S) <=> IsFiniteSet(S))
<1>1. Source!IsFiniteSet(S) <=> IsFiniteSet(S)
  BY DEF Source!IsFiniteSet, IsFiniteSet
<1>2. Source!Cardinality(S) = Cardinality(S)
  BY DEF Source!Cardinality, Cardinality
<1> QED
  BY <1>1, <1>2

\* The values of a function on a finite set are finitely many.
LEMMA ImageFinite ==
    ASSUME NEW S, IsFiniteSet(S), NEW f
    PROVE  IsFiniteSet({f[x] : x \in S})
<1> DEFINE T == {f[x] : x \in S}
           g == [x \in S |-> f[x]]
<1>1. g \in Surjection(S, T)
  BY DEF Surjection
<1> HIDE DEF T, g
<1>2. IsFiniteSet(T)
  BY <1>1, FS_Surjection
<1> QED
  BY <1>2 DEF T

\* A block has finitely many lines.
LEMMA LinesFinite ==
    ASSUME Source!SourceCoverageAssumption, NEW al, NEW b \in DOMAIN Blocks
    PROVE  /\ IsFiniteSet(Source!BlockLines(al, b))
           /\ Source!BlockLines(al, b) \subseteq Source!AllLines
           /\ \A l \in Source!BlockLines(al, b) : Source!is_allowed(al, l[1])
<1> DEFINE block == Blocks[b]
           O == Source!instruction_offsets(block)
<1>1. /\ block \in Seq(DOMAIN Lines) /\ block # <<>>
      /\ \A i \in DOMAIN Lines : IsFiniteSet(Lines[i])
  BY SameCount DEF Source!SourceCoverageAssumption
<1>2. Len(block) \in Nat /\ Len(block) > 0 /\ \A j \in 1..Len(block) : block[j] \in DOMAIN Lines
  BY <1>1, EmptySeq, ElementOfSeq, LenProperties
<1>3. O = {block[1]} \cup {block[j] : j \in 1..(Len(block) - 1)}
  BY DEF Source!instruction_offsets
<1> HIDE DEF block
<1>4. O \subseteq DOMAIN Lines
  BY <1>2, <1>3
<1>5. IsFiniteSet(O)
  <2> DEFINE J == {block[j] : j \in 1..(Len(block) - 1)}
  <2>1. IsFiniteSet(1..(Len(block) - 1))
    BY <1>2, FS_Interval
  <2>2. IsFiniteSet(J)
    BY <2>1, ImageFinite
  <2> HIDE DEF J
  <2>3. O = J \cup {block[1]}
    BY <1>3 DEF J
  <2> QED
    BY <2>2, <2>3, FS_AddElement
<1> HIDE DEF O
<1> DEFINE Each == {Lines[i] : i \in O}
<1>6. IsFiniteSet(UNION Each)
  <2>1. IsFiniteSet(Each)
    BY <1>5, ImageFinite
  <2>2. \A s \in Each : IsFiniteSet(s)
    BY <1>1, <1>4
  <2> HIDE DEF Each
  <2> QED
    BY <2>1, <2>2, FS_UNION
<1>7. Source!BlockLines(al, b) \subseteq UNION Each
  BY DEF Source!BlockLines, O, block
<1>8. UNION Each \subseteq Source!AllLines
  BY <1>4 DEF Source!AllLines
<1>9. \A l \in Source!BlockLines(al, b) : Source!is_allowed(al, l[1])
  BY DEF Source!BlockLines
<1> HIDE DEF Each
<1> QED
  BY <1>6, <1>7, <1>8, <1>9, FS_Subset

\* Nothing is converted at first.
LEMMA SourceStarts ==
    ASSUME Source!Init
    PROVE  SourceInv
<1>1. SourceType /\ Converted = {} /\ source = <<>>
  BY DEF Source!Init, SourceType, Source!Offsets, Converted
<1>2. DOMAIN source = {} /\ source = [l \in DOMAIN source |-> source[l]]
  BY <1>1
<1> QED
  BY <1>1, <1>2, FS_EmptySet DEF SourceInv, Owners

\* The allowlist is read before the first block is converted.
LEMMA SourceLoads ==
    ASSUME SourceInv, Source!LoadAllowlist
    PROVE  SourceInv'
<1>1. /\ pc = "Load" /\ allowlist' = Given /\ pc' = "Convert"
      /\ UNCHANGED <<text, binary, todo, source>>
  BY DEF Source!LoadAllowlist, Given
<1>2. SourceType' /\ Converted = {} /\ Converted' = {}
  BY <1>1 DEF SourceInv, SourceType, Given, Converted
<1>3. \A l : Owners(l) = {} /\ Owners(l)' = {}
  BY <1>2 DEF Owners
<1>4. DOMAIN source = {}
  BY <1>3 DEF SourceInv
<1> QED
  BY <1>1, <1>2, <1>3, <1>4 DEF SourceInv

\* A block adds itself to the owners of its lines.
LEMMA SourceConverts ==
    ASSUME Source!SourceCoverageAssumption, SourceInv, Source!Convert
    PROVE  SourceInv'
<1> DEFINE b == Source!Min(todo)
           B == Source!BlockLines(allowlist, b)
           n == Source!Merged[b]
<1>1. /\ pc = "Convert" /\ todo # {} /\ todo' = todo \ {b}
      /\ source' = Source!AddCount(source, B, n)
      /\ UNCHANGED <<text, allowlist, binary, pc>>
  BY DEF Source!Convert
<1>2. b \in todo /\ b \in DOMAIN Blocks
  <2>1. todo \subseteq DOMAIN Blocks /\ DOMAIN Blocks \subseteq Nat
    BY DEF SourceInv, SourceType, Source!SourceCoverageAssumption
  <2> QED
    BY <1>1, <2>1, NextBlock
<1> HIDE DEF b
<1>3. SourceType' /\ Converted' = Converted \cup {b} /\ Source!Merged' = Source!Merged
  BY <1>1, <1>2 DEF SourceInv, SourceType, Given, Converted, Source!Merged
<1>4. \A l : Owners(l)' = IF l \in B THEN Owners(l) \cup {b} ELSE Owners(l)
  <2>1. \A c : Source!BlockLines(allowlist, c)' = Source!BlockLines(allowlist, c)
    BY <1>1 DEF Source!BlockLines, Source!is_allowed, Source!instruction_offsets
  <2> QED
    BY <1>3, <2>1 DEF Owners
<1>5. /\ n \in Nat
      /\ \A k \in 1..2 : binary[k][b] \in Nat
      /\ \A c \in DOMAIN Blocks : \A k \in 1..2 : binary[k][c] \in Nat
      /\ \A c \in DOMAIN Blocks : Source!Merged[c] \in Nat
  BY <1>2, MergedIs DEF SourceInv
<1>6. IsFiniteSet(B)
  BY <1>2, LinesFinite
<1> HIDE DEF B, n
<1>7. /\ DOMAIN source' = DOMAIN source \cup B
      /\ \A l \in DOMAIN source' :
           source'[l] = IF l \notin B THEN source[l]
                        ELSE IF l \in DOMAIN source THEN Source!Max({source[l], n}) ELSE n
      /\ source' = [l \in DOMAIN source' |-> source'[l]]
  BY <1>1 DEF Source!AddCount
<1>8. IsFiniteSet(DOMAIN source')
  <2>1. IsFiniteSet(DOMAIN source)
    BY DEF SourceInv
  <2>2. IsFiniteSet(DOMAIN source \cup B)
    BY <1>6, <2>1, FS_Union
  <2> QED
    BY <1>7, <2>2
<1>9. \A l : l \in DOMAIN source' <=> Owners(l)' # {}
  BY <1>4, <1>7 DEF SourceInv
<1>10. ASSUME NEW l \in DOMAIN source' PROVE LineCounts(l)'
  <2>0. \A c \in Owners(l) \cup {b} : /\ c \in DOMAIN Blocks
                                     /\ Source!Merged[c] \in Nat
                                     /\ \A k \in 1..2 : binary[k][c] \in Nat
    BY <1>2, <1>5 DEF Owners, Converted
  <2>1. CASE l \notin B
    <3>1. l \in DOMAIN source /\ source'[l] = source[l] /\ Owners(l)' = Owners(l)
      BY <1>4, <1>7, <1>10, <2>1
    <3> QED
      BY <1>1, <1>3, <3>1 DEF SourceInv, LineCounts
  <2>2. CASE l \in B /\ l \notin DOMAIN source
    <3>1. Owners(l)' = {b} /\ source'[l] = n
      BY <1>4, <1>7, <1>10, <2>2 DEF SourceInv
    <3> QED
      BY <1>1, <1>3, <1>5, <3>1 DEF LineCounts, n
  <2>3. CASE l \in B /\ l \in DOMAIN source
    <3>1. Owners(l)' = Owners(l) \cup {b} /\ source'[l] = Source!Max({source[l], n})
      BY <1>4, <1>7, <1>10, <2>3
    <3>2. LineCounts(l)
      BY <2>3 DEF SourceInv
    <3>3. source[l] \in Nat
      BY <2>0, <3>2 DEF LineCounts
    <3>4. \E c \in Owners(l)' : source'[l] = Source!Merged[c]
      <4>1. CASE source[l] <= n
        <5>1. source'[l] = n
          BY <1>5, <3>1, <3>3, <4>1, MaxIs
        <5> QED
          BY <3>1, <5>1 DEF n
      <4>2. CASE n <= source[l]
        <5>1. source'[l] = source[l]
          BY <1>5, <3>1, <3>3, <4>2, MaxIs
        <5> QED
          BY <3>1, <3>2, <5>1 DEF LineCounts
      <4> QED
        BY <1>5, <3>3, <4>1, <4>2
    <3>5. source'[l] >= source[l] /\ source'[l] >= n /\ source'[l] \in Nat
      <4>1. CASE source[l] <= n
        <5>1. source'[l] = n
          BY <1>5, <3>1, <3>3, <4>1, MaxIs
        <5> QED
          BY <1>5, <3>3, <4>1, <5>1
      <4>2. CASE n <= source[l]
        <5>1. source'[l] = source[l]
          BY <1>5, <3>1, <3>3, <4>2, MaxIs
        <5> QED
          BY <1>5, <3>3, <4>2, <5>1
      <4> QED
        BY <1>5, <3>3, <4>1, <4>2
    <3>6. \A c \in Owners(l)' : Source!Merged[c] <= source'[l]
      <4>1. \A c \in Owners(l) : Source!Merged[c] <= source[l] /\ Source!Merged[c] \in Nat
        BY <2>0, <3>2 DEF LineCounts
      <4> QED
        BY <3>1, <3>3, <3>5, <4>1 DEF n
    <3>7. ASSUME NEW k \in 1..2
          PROVE  \E x \in Owners(l)' : \A c \in Owners(l)' : binary[k][c] <= binary[k][x]
      <4>1. PICK x \in Owners(l) : \A c \in Owners(l) : binary[k][c] <= binary[k][x]
        BY <3>2 DEF LineCounts
      <4>2. /\ binary[k][x] \in Nat /\ binary[k][b] \in Nat
            /\ \A c \in Owners(l) : binary[k][c] \in Nat
        BY <2>0
      <4>3. CASE binary[k][b] <= binary[k][x]
        BY <3>1, <4>1, <4>3
      <4>4. CASE binary[k][x] <= binary[k][b]
        BY <3>1, <4>1, <4>2, <4>4
      <4> QED
        BY <4>2, <4>3, <4>4
    <3> QED
      BY <1>1, <1>3, <3>4, <3>6, <3>7 DEF LineCounts
  <2> QED
    BY <2>1, <2>2, <2>3
<1> QED
  BY <1>3, <1>7, <1>8, <1>9, <1>10 DEF SourceInv

\* What is left as it is keeps the invariant.
LEMMA SourceStutters ==
    ASSUME SourceInv, UNCHANGED Source!vars
    PROVE  SourceInv'
<1>1. UNCHANGED <<text, allowlist, binary, todo, source, pc>>
  BY DEF Source!vars
<1>2. SourceType'
  BY <1>1 DEF SourceInv, SourceType, Given
<1>3. /\ \A l : Owners(l)' = Owners(l)
      /\ Source!Merged' = Source!Merged
  BY <1>1 DEF Owners, Converted, Source!BlockLines, Source!is_allowed,
              Source!instruction_offsets, Source!Merged
<1>4. \A l : LineCounts(l)' = LineCounts(l)
  BY <1>1, <1>3 DEF LineCounts
<1> QED
  BY <1>1, <1>2, <1>3, <1>4 DEF SourceInv

\* Every step keeps the invariant.
LEMMA SourceStep ==
    ASSUME Source!SourceCoverageAssumption, SourceInv, [Source!Next]_(Source!vars)
    PROVE  SourceInv'
<1>1. ASSUME Source!Finish PROVE SourceInv'
  <2>1. pc = "Convert" /\ todo = {} /\ pc' = "Done"
        /\ UNCHANGED <<text, allowlist, binary, todo, source>>
    BY <1>1 DEF Source!Finish
  <2>2. SourceType'
    BY <2>1 DEF SourceInv, SourceType, Given
  <2>3. /\ \A l : Owners(l)' = Owners(l)
        /\ Source!Merged' = Source!Merged
    BY <2>1 DEF Owners, Converted, Source!BlockLines, Source!is_allowed,
                Source!instruction_offsets, Source!Merged
  <2>4. \A l : LineCounts(l)' = LineCounts(l)
    BY <2>1, <2>3 DEF LineCounts
  <2> QED
    BY <2>1, <2>2, <2>3, <2>4 DEF SourceInv
<1> QED
  BY <1>1, SourceLoads, SourceConverts, SourceStutters DEF Source!Next

\* What one input alone gives for a line, and which lines it has.
LEMMA SourceOfLine ==
    ASSUME Source!SourceCoverageAssumption, SourceInv, todo = {}, NEW k \in 1..2
    PROVE  /\ DOMAIN Source!SourceOf(binary[k]) = DOMAIN source
           /\ \A l \in DOMAIN source : \E b \in Owners(l) :
                /\ Source!SourceOf(binary[k])[l] = binary[k][b]
                /\ \A c \in Owners(l) : binary[k][c] <= binary[k][b]
<1> DEFINE kept == {j \in (DOMAIN Blocks) \X Source!AllLines :
                      j[2] \in Source!BlockLines(allowlist, j[1])}
           At(l) == {binary[k][j[1]] : j \in {i \in kept : i[2] = l}}
<1>1. Source!SourceOf(binary[k]) = [l \in {j[2] : j \in kept} |-> Source!Max(At(l))]
  BY DEF Source!SourceOf, Source!Offsets
<1>2. \A l : \A b : <<b, l>> \in kept <=> b \in Owners(l)
  BY LinesFinite DEF Owners, Converted
<1>3. \A l : At(l) = {binary[k][b] : b \in Owners(l)}
  <2> SUFFICES ASSUME NEW l PROVE At(l) = {binary[k][b] : b \in Owners(l)}
    OBVIOUS
  <2>1. ASSUME NEW j \in kept, j[2] = l PROVE j[1] \in Owners(l)
    BY <1>2, <2>1
  <2>2. ASSUME NEW b \in Owners(l)
        PROVE  \E j \in kept : j[2] = l /\ binary[k][j[1]] = binary[k][b]
    <3>1. <<b, l>> \in kept /\ <<b, l>>[1] = b /\ <<b, l>>[2] = l
      BY <1>2, <2>2
    <3> QED
      BY <3>1
  <2> HIDE DEF kept
  <2> QED
    BY <2>1, <2>2
<1>4. {j[2] : j \in kept} = DOMAIN source
  <2>1. ASSUME NEW j \in kept PROVE j[2] \in DOMAIN source
    <3>1. j = <<j[1], j[2]>>
      BY <2>1
    <3>2. j[1] \in Owners(j[2])
      BY <1>2, <2>1, <3>1
    <3> QED
      BY <3>2 DEF SourceInv
  <2>2. ASSUME NEW l \in DOMAIN source PROVE \E j \in kept : j[2] = l
    <3>1. PICK b \in Owners(l) : TRUE
      BY <2>2 DEF SourceInv
    <3>2. <<b, l>> \in kept /\ <<b, l>>[2] = l
      BY <1>2, <3>1
    <3> QED
      BY <3>2
  <2> HIDE DEF kept
  <2> QED
    BY <2>1, <2>2
<1> HIDE DEF kept, At
<1>5. ASSUME NEW l \in DOMAIN source
      PROVE  \E b \in Owners(l) : /\ Source!Max(At(l)) = binary[k][b]
                                  /\ \A c \in Owners(l) : binary[k][c] <= binary[k][b]
  <2>1. PICK b \in Owners(l) : \A c \in Owners(l) : binary[k][c] <= binary[k][b]
    BY <1>5 DEF SourceInv, LineCounts
  <2>2. \A c \in Owners(l) : binary[k][c] \in Nat
    BY MergedIs DEF SourceInv, Owners, Converted
  <2>3. At(l) \subseteq Nat /\ binary[k][b] \in At(l) /\ \A x \in At(l) : x <= binary[k][b]
    BY <1>3, <2>1, <2>2
  <2>4. Source!Max(At(l)) = binary[k][b]
    BY <2>3, MaxIs
  <2> QED
    BY <2>1, <2>4
<1>6. /\ DOMAIN Source!SourceOf(binary[k]) = DOMAIN source
      /\ \A l \in DOMAIN source : Source!SourceOf(binary[k])[l] = Source!Max(At(l))
  BY <1>1, <1>4
<1> QED
  BY <1>5, <1>6

\* Converting the merged counts gives what merging the converted counts does.
LEMMA SourceCommutes ==
    ASSUME Source!SourceCoverageAssumption, SourceInv
    PROVE  Source!MergeCommutes
<1> DEFINE S(k) == Source!SourceOf(binary[k])
<1> SUFFICES ASSUME pc = "Done"
             PROVE  source = [l \in DOMAIN S(1) |-> Source!Max({S(1)[l], S(2)[l]})]
  BY DEF Source!MergeCommutes
<1>1. todo = {} /\ source = [l \in DOMAIN source |-> source[l]] /\ 1 \in 1..2 /\ 2 \in 1..2
  BY DEF SourceInv, SourceType
<1>2. \A k \in 1..2 : DOMAIN S(k) = DOMAIN source
  BY <1>1, SourceOfLine
<1>3. ASSUME NEW l \in DOMAIN source PROVE Source!Max({S(1)[l], S(2)[l]}) = source[l]
  <2>0. \A b \in Owners(l) :
          /\ Source!Merged[b] \in Nat /\ Source!Merged[b] <= source[l]
          /\ \A k \in 1..2 : binary[k][b] \in Nat /\ binary[k][b] <= Source!Merged[b]
    BY <1>3, MergedIs DEF SourceInv, LineCounts, Owners, Converted
  <2>1. \A k \in 1..2 : \E b \in Owners(l) :
          S(k)[l] = binary[k][b] /\ \A c \in Owners(l) : binary[k][c] <= binary[k][b]
    BY <1>1, <1>3, SourceOfLine
  <2>2. PICK b \in Owners(l) : source[l] = Source!Merged[b]
    BY <1>3 DEF SourceInv, LineCounts
  <2>3. PICK k \in 1..2 : Source!Merged[b] = binary[k][b]
    BY <2>2, MergedIs DEF SourceInv, Owners, Converted
  <2> HIDE DEF S
  <2>4. source[l] \in Nat
    BY <2>0, <2>2
  <2>5. \A j \in 1..2 : S(j)[l] \in Nat /\ S(j)[l] <= source[l]
    <3> SUFFICES ASSUME NEW j \in 1..2 PROVE S(j)[l] \in Nat /\ S(j)[l] <= source[l]
      OBVIOUS
    <3>1. PICK c \in Owners(l) : S(j)[l] = binary[j][c]
      BY <2>1
    <3>2. /\ binary[j][c] \in Nat /\ binary[j][c] <= Source!Merged[c]
          /\ Source!Merged[c] \in Nat /\ Source!Merged[c] <= source[l]
      BY <2>0, <3>1
    <3> QED
      BY <2>4, <3>1, <3>2
  <2>6. S(k)[l] = source[l]
    <3>1. S(k)[l] >= source[l]
      BY <2>0, <2>1, <2>2, <2>3
    <3> QED
      BY <2>3, <2>4, <2>5, <3>1
  <2>7. k = 1 \/ k = 2
    BY <2>3
  <2>8. source[l] \in {S(1)[l], S(2)[l]}
    BY <2>6, <2>7
  <2>9. \A x \in {S(1)[l], S(2)[l]} : x \in Nat /\ x <= source[l]
    BY <1>1, <2>5
  <2> QED
    BY <2>8, <2>9, MaxIs
<1> HIDE DEF S
<1>4. DOMAIN S(1) = DOMAIN source
  BY <1>1, <1>2
<1> QED
  BY <1>1, <1>3, <1>4

\* Lines belong to files that the rules of the allowlist let through.
LEMMA SourceTyped ==
    ASSUME Source!SourceCoverageAssumption, SourceInv
    PROVE  Source!TypeOK /\ Source!DeniedHasNoLine
<1>1. /\ \A t \in Texts : \A k \in DOMAIN t : t[k].matches \subseteq Files
      /\ text \in Texts \cup {None}
      /\ allowlist = Source!Default \/ (text # None /\ allowlist = Source!AllowListOf(text))
  BY DEF Source!SourceCoverageAssumption, SourceInv, SourceType, Given
<1>2. allowlist.allow \subseteq SUBSET Files /\ allowlist.deny \subseteq SUBSET Files
  BY <1>1 DEF Source!Default, Source!AllowListOf, Source!Rules
<1>3. ASSUME NEW l \in DOMAIN source
      PROVE  /\ l \in Source!AllLines /\ source[l] \in Counts
             /\ pc # "Load" /\ Source!is_allowed(allowlist, l[1])
  <2>1. PICK b \in Owners(l) : source[l] = Source!Merged[b]
    BY <1>3 DEF SourceInv, LineCounts
  <2>2. b \in DOMAIN Blocks /\ b \notin todo /\ l \in Source!BlockLines(allowlist, b)
    BY <2>1 DEF Owners, Converted
  <2> QED
    BY <2>1, <2>2, LinesFinite, MergedIs DEF SourceInv, SourceType
<1>4. Source!TypeOK
  BY <1>1, <1>2, <1>3 DEF Source!TypeOK, SourceInv, SourceType, Source!Offsets
<1>5. ASSUME NEW f \in Source!SourceFiles, text # None
      PROVE  /\ \E k \in DOMAIN text : text[k].kind = "Allow" /\ f \in text[k].matches
             /\ \A k \in DOMAIN text : text[k].kind = "Deny" => f \notin text[k].matches
  <2>1. PICK l \in DOMAIN source : l[1] = f
    BY <1>5 DEF Source!SourceFiles
  <2>2. allowlist = Source!AllowListOf(text) /\ Source!is_allowed(allowlist, f)
    BY <1>3, <1>5, <2>1 DEF SourceInv, SourceType, Given
  <2> QED
    BY <2>2 DEF Source!AllowListOf, Source!Rules, Source!is_allowed
<1> QED
  BY <1>4, <1>5 DEF Source!DeniedHasNoLine

-----------------------------------------------------------------------------
(* The totals of a report.  SumOf is a fold, which is a function chosen by  *)
(* its recursive equation: where the counts are the sizes of disjoint sets, *)
(* the size of their union satisfies it and nothing else does.              *)

SumStep(k, g, s) ==
    IF s = {} THEN 0
    ELSE (CHOOSE x \in s : TRUE).count[k] + g[s \ {CHOOSE x \in s : TRUE}]
Adds(k, S, g) == g = [s \in SUBSET S |-> SumStep(k, g, s)]
Total(k, S) == (CHOOSE g : Adds(k, S, g))[S]

\* The size of two sets that have nothing in common.
LEMMA DisjointUnion ==
    ASSUME NEW A, NEW B, IsFiniteSet(A), IsFiniteSet(B), A \cap B = {}
    PROVE  Cardinality(A \cup B) = Cardinality(A) + Cardinality(B)
<1>1. Cardinality(A \cup B) = Cardinality(A) + Cardinality(B) - Cardinality(A \cap B)
  BY FS_Union
<1>2. Cardinality(A) \in Nat /\ Cardinality(B) \in Nat /\ Cardinality(A \cap B) = 0
  BY FS_CardinalityType, FS_EmptySet
<1> QED
  BY <1>1, <1>2

\* The sum of the sizes of disjoint sets is that of their union.
LEMMA SizesAdd ==
    ASSUME NEW S, IsFiniteSet(S), NEW k, NEW L,
           \A x \in S : IsFiniteSet(L[x]) /\ x.count[k] = Cardinality(L[x]),
           \A x, y \in S : x # y => L[x] \cap L[y] = {}
    PROVE  Total(k, S) = Cardinality(UNION {L[x] : x \in S})
<1> DEFINE All(s) == UNION {L[x] : x \in s}
           c(s) == CHOOSE x \in s : TRUE
           h == [s \in SUBSET S |-> Cardinality(All(s))]
           g == CHOOSE f : Adds(k, S, f)
<1>1. ASSUME NEW s \in SUBSET S PROVE IsFiniteSet(s) /\ IsFiniteSet(All(s))
  <2>1. IsFiniteSet(s)
    BY FS_Subset
  <2>2. IsFiniteSet({L[x] : x \in s})
    BY <2>1, ImageFinite
  <2>3. \A t \in {L[x] : x \in s} : IsFiniteSet(t)
    OBVIOUS
  <2> QED
    BY <2>1, <2>2, <2>3, FS_UNION
<1>2. ASSUME NEW s \in SUBSET S, s # {}
      PROVE  /\ c(s) \in s /\ s \ {c(s)} \in SUBSET S
             /\ h[s] = c(s).count[k] + h[s \ {c(s)}]
  <2>1. c(s) \in s
    BY <1>2
  <2> HIDE DEF c
  <2>2. s \ {c(s)} \in SUBSET S /\ c(s) \in S
    BY <2>1
  <2>3. /\ All(s) = L[c(s)] \cup All(s \ {c(s)})
        /\ L[c(s)] \cap All(s \ {c(s)}) = {}
    BY <2>1, <2>2
  <2>4. /\ IsFiniteSet(L[c(s)]) /\ IsFiniteSet(All(s \ {c(s)}))
        /\ c(s).count[k] = Cardinality(L[c(s)])
    BY <1>1, <2>2
  <2> HIDE DEF All
  <2>5. Cardinality(All(s)) = Cardinality(L[c(s)]) + Cardinality(All(s \ {c(s)}))
    BY <2>3, <2>4, DisjointUnion
  <2> QED
    BY <2>1, <2>2, <2>4, <2>5
<1>3. h[{}] = 0
  <2>1. All({}) = {} /\ {} \in SUBSET S
    OBVIOUS
  <2> HIDE DEF All
  <2> QED
    BY <2>1, FS_EmptySet
<1>4. Adds(k, S, h)
  <2>1. ASSUME NEW s \in SUBSET S PROVE h[s] = SumStep(k, h, s)
    <3>1. CASE s = {}
      BY <1>3, <3>1 DEF SumStep
    <3>2. CASE s # {}
      <4>1. h[s] = c(s).count[k] + h[s \ {c(s)}]
        BY <1>2, <3>2
      <4> HIDE DEF h
      <4> QED
        BY <3>2, <4>1 DEF SumStep
    <3> QED
      BY <3>1, <3>2
  <2>2. h = [s \in SUBSET S |-> h[s]]
    OBVIOUS
  <2> HIDE DEF h
  <2>3. h = [s \in SUBSET S |-> SumStep(k, h, s)]
    BY <2>1, <2>2
  <2> QED
    BY <2>3 DEF Adds
<1> HIDE DEF h
<1>5. Adds(k, S, g)
  BY <1>4
<1> HIDE DEF g
<1>6. ASSUME NEW s \in SUBSET S PROVE g[s] = SumStep(k, g, s)
  BY <1>5 DEF Adds
<1> DEFINE Bad == {Cardinality(s) : s \in {t \in SUBSET S : g[t] # h[t]}}
<1>7. ASSUME NEW z \in SUBSET S, g[z] # h[z] PROVE FALSE
  <2>1. Bad \subseteq Nat /\ Cardinality(z) \in Bad
    <3>1. \A s \in SUBSET S : Cardinality(s) \in Nat
      BY <1>1, FS_CardinalityType
    <3> QED
      BY <1>7, <3>1
  <2> HIDE DEF Bad
  <2>2. PICK n \in Bad : \A m \in Bad : n <= m
    BY <2>1, LeastNumber
  <2>3. PICK s \in SUBSET S : g[s] # h[s] /\ n = Cardinality(s)
    BY <2>2 DEF Bad
  <2>4. CASE s = {}
    BY <1>3, <1>6, <2>3, <2>4 DEF SumStep
  <2>5. CASE s # {}
    <3>1. c(s) \in s /\ s \ {c(s)} \in SUBSET S /\ h[s] = c(s).count[k] + h[s \ {c(s)}]
      BY <1>2, <2>5
    <3>2. g[s] = c(s).count[k] + g[s \ {c(s)}]
      BY <1>6, <2>5 DEF SumStep
    <3> HIDE DEF c
    <3>3. Cardinality(s \ {c(s)}) = Cardinality(s) - 1 /\ Cardinality(s) \in Nat
      BY <1>1, <3>1, FS_RemoveElement, FS_CardinalityType
    <3>4. Cardinality(s \ {c(s)}) \notin Bad
      BY <2>1, <2>2, <2>3, <3>3
    <3>5. g[s \ {c(s)}] = h[s \ {c(s)}]
      BY <3>1, <3>4 DEF Bad
    <3> QED
      BY <2>3, <3>1, <3>2, <3>5
  <2> QED
    BY <2>4, <2>5
<1>8. S \in SUBSET S /\ g[S] = h[S]
  BY <1>7
<1>9. h[S] = Cardinality(All(S))
  BY <1>8 DEF h
<1> QED
  BY <1>8, <1>9 DEF g, Total

\* The two sums that a report has.
Sums == {"hit_lines", "total_lines"}
Part(k) == IF k = "hit_lines" THEN {l \in DOMAIN source : source[l] > 0} ELSE DOMAIN source

\* The sum in a report is such a total.
LEMMA SumIs ==
    ASSUME NEW S, NEW k \in Sums
    PROVE  Source!SumOf(S)[k] = Total(k, S)
<1>1. CASE k = "hit_lines"
  BY <1>1 DEF Source!SumOf, Source!FoldSet, Source!MapThenFoldSet, Total, Adds, SumStep
<1>2. CASE k = "total_lines"
  BY <1>2 DEF Source!SumOf, Source!FoldSet, Source!MapThenFoldSet, Total, Adds, SumStep
<1> QED
  BY <1>1, <1>2 DEF Sums

\* A class is named for its file and counts the lines of that file.
LEMMA ClassIs ==
    ASSUME NEW f, NEW k \in Sums
    PROVE  /\ Source!file_to_class(f).filename = f
           /\ Source!file_to_class(f).count[k] = Cardinality({l \in Part(k) : l[1] = f})
<1> DEFINE own == {l \in DOMAIN source : l[1] = f}
<1>1. /\ Source!file_to_class(f).filename = f
      /\ Source!file_to_class(f).count = Source!HitCount(own)
  BY DEF Source!file_to_class
<1>2. /\ Source!HitCount(own).hit_lines = Cardinality({l \in own : source[l] > 0})
      /\ Source!HitCount(own).total_lines = Cardinality(own)
  <2> HIDE DEF own
  <2> QED
    BY SameCount DEF Source!HitCount
<1>3. CASE k = "hit_lines"
  <2>1. {l \in own : source[l] > 0} = {l \in Part(k) : l[1] = f}
    BY <1>3 DEF Part
  <2> HIDE DEF own
  <2> QED
    BY <1>1, <1>2, <1>3, <2>1
<1>4. CASE k = "total_lines"
  <2>1. own = {l \in Part(k) : l[1] = f}
    BY <1>4 DEF Part
  <2> HIDE DEF own
  <2> QED
    BY <1>1, <1>2, <1>4, <2>1
<1> QED
  BY <1>3, <1>4 DEF Sums

\* The lines of a report are in finitely many files.
LEMMA FilesFinite ==
    ASSUME SourceInv
    PROVE  IsFiniteSet(Source!SourceFiles) /\ \A k \in Sums : IsFiniteSet(Part(k))
<1>1. IsFiniteSet(DOMAIN source)
  BY DEF SourceInv
<1> DEFINE F == [l \in DOMAIN source |-> l[1]]
<1>2. Source!SourceFiles = {F[l] : l \in DOMAIN source}
  BY DEF Source!SourceFiles
<1> HIDE DEF F
<1>3. IsFiniteSet({F[l] : l \in DOMAIN source})
  BY <1>1, ImageFinite
<1>4. \A k \in Sums : Part(k) \subseteq DOMAIN source
  BY DEF Part
<1> QED
  BY <1>1, <1>2, <1>3, <1>4, FS_Subset

\* A package is named for its directory and counts the lines of the files there.
LEMMA PackageIs ==
    ASSUME SourceInv, NEW d, NEW k \in Sums
    PROVE  /\ Source!directory_to_package(d).name = d
           /\ Source!directory_to_package(d).classes =
                {Source!file_to_class(f) : f \in {g \in Source!SourceFiles : Dir[g] = d}}
           /\ Source!directory_to_package(d).count[k] =
                Cardinality({l \in Part(k) : Dir[l[1]] = d})
<1> DEFINE F == {g \in Source!SourceFiles : Dir[g] = d}
           S == {Source!file_to_class(f) : f \in F}
           L == [x \in S |-> {l \in Part(k) : l[1] = x.filename}]
<1>1. /\ Source!directory_to_package(d).name = d
      /\ Source!directory_to_package(d).classes = S
      /\ Source!directory_to_package(d).count = Source!SumOf(S)
  BY DEF Source!directory_to_package
<1>2. IsFiniteSet(S)
  <2>1. IsFiniteSet(F)
    BY FilesFinite, FS_Subset
  <2> DEFINE C == [f \in F |-> Source!file_to_class(f)]
  <2>2. S = {C[f] : f \in F}
    OBVIOUS
  <2>3. IsFiniteSet({C[f] : f \in F})
    <3> HIDE DEF C
    <3> QED
      BY <2>1, ImageFinite
  <2> QED
    BY <2>2, <2>3
<1>3. ASSUME NEW x \in S PROVE IsFiniteSet(L[x]) /\ x.count[k] = Cardinality(L[x])
  <2>1. PICK f \in F : x = Source!file_to_class(f)
    BY <1>3
  <2>2. x.filename = f /\ x.count[k] = Cardinality({l \in Part(k) : l[1] = f})
    BY <2>1, ClassIs
  <2>3. L[x] = {l \in Part(k) : l[1] = f}
    BY <1>3, <2>2
  <2>4. IsFiniteSet({l \in Part(k) : l[1] = f})
    <3>1. {l \in Part(k) : l[1] = f} \subseteq Part(k)
      OBVIOUS
    <3> QED
      BY <3>1, FilesFinite, FS_Subset
  <2> HIDE DEF S, L
  <2> QED
    BY <2>2, <2>3, <2>4
<1>4. ASSUME NEW x \in S, NEW y \in S, x # y PROVE L[x] \cap L[y] = {}
  <2>1. PICK f \in F : x = Source!file_to_class(f)
    BY <1>4
  <2>2. PICK g \in F : y = Source!file_to_class(g)
    BY <1>4
  <2>3. x.filename = f /\ y.filename = g /\ f # g
    BY <1>4, <2>1, <2>2, ClassIs
  <2>4. L[x] = {l \in Part(k) : l[1] = x.filename} /\ L[y] = {l \in Part(k) : l[1] = y.filename}
    BY <1>4
  <2> HIDE DEF S, L
  <2> QED
    BY <2>3, <2>4
<1>5. UNION {L[x] : x \in S} = {l \in Part(k) : Dir[l[1]] = d}
  <2>1. ASSUME NEW x \in S, NEW l \in L[x] PROVE l \in Part(k) /\ Dir[l[1]] = d
    <3>1. PICK f \in F : x = Source!file_to_class(f)
      BY <2>1
    <3>2. x.filename = f
      BY <3>1, ClassIs
    <3>3. L[x] = {m \in Part(k) : m[1] = x.filename}
      BY <2>1
    <3> HIDE DEF S, L
    <3> QED
      BY <2>1, <3>1, <3>2, <3>3
  <2>2. ASSUME NEW l \in Part(k), Dir[l[1]] = d PROVE \E x \in S : l \in L[x]
    <3>1. l[1] \in F
      BY <2>2 DEF Part, Source!SourceFiles
    <3>2. Source!file_to_class(l[1]) \in S /\ Source!file_to_class(l[1]).filename = l[1]
      BY <3>1, ClassIs
    <3>3. l \in L[Source!file_to_class(l[1])]
      BY <2>2, <3>2
    <3> HIDE DEF S, L
    <3> QED
      BY <3>2, <3>3
  <2> HIDE DEF S, L
  <2> QED
    BY <2>1, <2>2
<1> HIDE DEF S, L
<1>6. Total(k, S) = Cardinality({l \in Part(k) : Dir[l[1]] = d})
  <2>1. \A x \in S : IsFiniteSet(L[x]) /\ x.count[k] = Cardinality(L[x])
    BY <1>3
  <2>2. \A x, y \in S : x # y => L[x] \cap L[y] = {}
    BY <1>4
  <2>3. Total(k, S) = Cardinality(UNION {L[x] : x \in S})
    BY <1>2, <2>1, <2>2, SizesAdd
  <2> QED
    BY <1>5, <2>3
<1>7. Source!SumOf(S)[k] = Cardinality({l \in Part(k) : Dir[l[1]] = d})
  BY <1>6, SumIs
<1> QED
  BY <1>1, <1>7 DEF S

\* The report counts all lines.
LEMMA ReportTotals ==
    ASSUME SourceInv, NEW k \in Sums
    PROVE  Source!Report.count[k] = Cardinality(Part(k))
<1> DEFINE D == {Dir[f] : f \in Source!SourceFiles}
           S == {Source!directory_to_package(d) : d \in D}
           L == [x \in S |-> {l \in Part(k) : Dir[l[1]] = x.name}]
<1>0. ASSUME NEW d
      PROVE  /\ Source!directory_to_package(d).name = d
             /\ Source!directory_to_package(d).count[k] =
                  Cardinality({l \in Part(k) : Dir[l[1]] = d})
  BY PackageIs
<1>1. Source!Report.count = Source!SumOf(S)
  BY DEF Source!Report
<1>2. IsFiniteSet(S)
  <2>1. IsFiniteSet(D)
    BY FilesFinite, ImageFinite
  <2> DEFINE P == [d \in D |-> Source!directory_to_package(d)]
  <2>2. S = {P[d] : d \in D}
    OBVIOUS
  <2>3. IsFiniteSet({P[d] : d \in D})
    <3> HIDE DEF P, D
    <3> QED
      BY <2>1, ImageFinite
  <2> QED
    BY <2>2, <2>3
<1>3. ASSUME NEW x \in S
      PROVE  /\ x.name \in D /\ x = Source!directory_to_package(x.name)
             /\ L[x] = {l \in Part(k) : Dir[l[1]] = x.name}
             /\ x.count[k] = Cardinality(L[x])
  <2>1. PICK d \in D : x = Source!directory_to_package(d)
    BY <1>3
  <2>2. x.name = d /\ x.count[k] = Cardinality({l \in Part(k) : Dir[l[1]] = d})
    BY <1>0, <2>1
  <2>3. L[x] = {l \in Part(k) : Dir[l[1]] = x.name}
    BY <1>3
  <2> HIDE DEF S, L, D
  <2> QED
    BY <2>1, <2>2, <2>3
<1>4. ASSUME NEW l \in Part(k) PROVE \E x \in S : x.name = Dir[l[1]]
  <2>1. Dir[l[1]] \in D
    BY <1>4 DEF Part, Source!SourceFiles
  <2>2. Source!directory_to_package(Dir[l[1]]) \in S
    BY <2>1
  <2>3. Source!directory_to_package(Dir[l[1]]).name = Dir[l[1]]
    BY PackageIs
  <2> QED
    BY <2>2, <2>3
<1> HIDE DEF S, L, D
<1>5. \A x \in S : IsFiniteSet(L[x]) /\ x.count[k] = Cardinality(L[x])
  <2>1. \A x \in S : L[x] \subseteq Part(k)
    BY <1>3
  <2>2. \A x \in S : IsFiniteSet(L[x])
    BY <2>1, FilesFinite, FS_Subset
  <2> QED
    BY <1>3, <2>2
<1>6. \A x, y \in S : x # y => L[x] \cap L[y] = {}
  <2> SUFFICES ASSUME NEW x \in S, NEW y \in S, x # y PROVE L[x] \cap L[y] = {}
    OBVIOUS
  <2>1. x.name # y.name
    BY <1>3
  <2> QED
    BY <1>3, <2>1
<1>7. UNION {L[x] : x \in S} = Part(k)
  <2>1. \A x \in S : L[x] \subseteq Part(k)
    BY <1>3
  <2>2. \A l \in Part(k) : \E x \in S : l \in L[x]
    BY <1>3, <1>4
  <2> QED
    BY <2>1, <2>2
<1>8. Total(k, S) = Cardinality(UNION {L[x] : x \in S})
  BY <1>2, <1>5, <1>6, SizesAdd
<1> QED
  BY <1>1, <1>7, <1>8, SumIs

\* Every file is one class of one package.
LEMMA OneClass ==
    ASSUME SourceInv, NEW f \in Source!SourceFiles
    PROVE  Source!Cardinality(
             {k \in Source!Report.packages
                      \X UNION {p.classes : p \in Source!Report.packages} :
                k[2] \in k[1].classes /\ k[2].filename = f}) = 1
<1> DEFINE P == Source!Report.packages
           All == UNION {p.classes : p \in P}
           p == Source!directory_to_package(Dir[f])
           c == Source!file_to_class(f)
           K == {k \in P \X All : k[2] \in k[1].classes /\ k[2].filename = f}
<1>0. "hit_lines" \in Sums
  BY DEF Sums
<1>1. P = {Source!directory_to_package(d) : d \in {Dir[g] : g \in Source!SourceFiles}}
  BY DEF Source!Report
<1>2. /\ p \in P /\ c \in p.classes /\ c.filename = f
  <2>1. p \in P
    BY <1>1
  <2>2. c.filename = f
    BY <1>0, ClassIs
  <2>3. p.classes = {Source!file_to_class(g) : g \in {h \in Source!SourceFiles : Dir[h] = Dir[f]}}
    BY <1>0, PackageIs
  <2>4. c \in p.classes
    BY <2>3
  <2> QED
    BY <2>1, <2>2, <2>4
<1>3. ASSUME NEW q \in P, NEW x \in q.classes, x.filename = f PROVE q = p /\ x = c
  <2>1. PICK d : q = Source!directory_to_package(d)
    BY <1>1
  <2>2. q.classes = {Source!file_to_class(g) : g \in {g \in Source!SourceFiles : Dir[g] = d}}
    BY <1>0, <2>1, PackageIs
  <2>3. PICK g : Dir[g] = d /\ x = Source!file_to_class(g)
    BY <1>3, <2>2
  <2>4. g = f
    BY <1>0, <1>3, <2>3, ClassIs
  <2> QED
    BY <2>1, <2>3, <2>4
<1> HIDE DEF P, p, c
<1>4. K = {<<p, c>>}
  BY <1>2, <1>3
<1>5. Cardinality({<<p, c>>}) = 1
  BY FS_Singleton
<1>6. Source!Cardinality(K) = 1
  BY <1>4, <1>5, SameCount
<1> QED
  BY <1>6 DEF P

\* The totals of a report and its classes are those of the lines.
LEMMA SourceReported ==
    ASSUME SourceInv
    PROVE  Source!ReportComplete
<1>1. /\ Source!Report.count["total_lines"] = Cardinality(DOMAIN source)
      /\ Source!Report.count["hit_lines"] = Cardinality({l \in DOMAIN source : source[l] > 0})
  <2>1. "total_lines" \in Sums /\ "hit_lines" \in Sums
    BY DEF Sums
  <2> QED
    BY <2>1, ReportTotals DEF Part
<1>2. /\ Source!Report.count.total_lines = Source!Cardinality(DOMAIN source)
      /\ Source!Report.count.hit_lines
           = Source!Cardinality({l \in DOMAIN source : source[l] > 0})
  BY <1>1, SameCount
<1> QED
  BY <1>2, OneClass DEF Source!ReportComplete

-----------------------------------------------------------------------------
(* Placeholders.  The evaluation is a function chosen by its recursive      *)
(* equation: the stack grows with every replacement, so that the values     *)
(* not under replacement yet decrease and the equation has a solution.      *)

Pairs == Seq(Expanding!Tokens) \X Seq(Expanding!Tokens)
Body(vs, g, t, s) == Expanding!Concat([i \in 1..Len(t) |-> Expanding!Replace(vs, t[i], s, g)])
IsEval(vs, g) == g = [q \in Pairs |-> Body(vs, g, q[1], q[2])]

\* What the setters of Expand may store.
Stored(vs) ==
    /\ IsFiniteSet(DOMAIN vs) /\ DOMAIN vs \subseteq Expanding!Known
    /\ \A n \in DOMAIN vs : /\ vs[n].kind \in {"path", "scalar", "list", "mapping"}
                            /\ vs[n].text \in Seq(Expanding!Tokens) /\ vs[n].list \in Seq(Seq(Expanding!Tokens))

\* The placeholders with a value that are not on the stack.
Rest(vs, s) == {n \in DOMAIN vs : ~Expanding!Contains(s, n)}
Left(vs, s) == Cardinality(Rest(vs, s))

\* A longer stack has what the shorter one has, and the new placeholder.
LEMMA PushContains ==
    ASSUME NEW s \in Seq(Expanding!Tokens), NEW n \in Expanding!Known
    PROVE  /\ Append(s, n) \in Seq(Expanding!Tokens)
           /\ \A m : Expanding!Contains(Append(s, n), m) <=> Expanding!Contains(s, m) \/ m = n
<1>1. n \in Expanding!Tokens
  BY DEF Expanding!Tokens
<1>2. /\ Len(Append(s, n)) = Len(s) + 1 /\ Len(s) \in Nat
      /\ \A i \in 1..Len(s) : Append(s, n)[i] = s[i]
      /\ Append(s, n)[Len(s) + 1] = n
  BY <1>1
<1>3. \A i : i \in 1..Len(Append(s, n)) <=> i \in 1..Len(s) \/ i = Len(s) + 1
  BY <1>2
<1> QED
  BY <1>1, <1>2, <1>3 DEF Expanding!Contains

\* The values that are not on the stack get fewer with every replacement.
LEMMA LeftCounts ==
    ASSUME NEW vs, Stored(vs), NEW s \in Seq(Expanding!Tokens)
    PROVE  /\ Left(vs, s) \in Nat
           /\ Left(vs, s) <= Cardinality(DOMAIN vs)
           /\ \A n \in DOMAIN vs : ~Expanding!Contains(s, n) =>
                Append(s, n) \in Seq(Expanding!Tokens) /\ Left(vs, Append(s, n)) < Left(vs, s)
<1>1. IsFiniteSet(DOMAIN vs) /\ Rest(vs, s) \subseteq DOMAIN vs
  BY DEF Stored, Rest
<1>2. Left(vs, s) \in Nat /\ Left(vs, s) <= Cardinality(DOMAIN vs) /\ IsFiniteSet(Rest(vs, s))
  BY <1>1, FS_Subset, FS_CardinalityType DEF Left
<1>3. ASSUME NEW n \in DOMAIN vs, ~Expanding!Contains(s, n)
      PROVE  Append(s, n) \in Seq(Expanding!Tokens) /\ Left(vs, Append(s, n)) < Left(vs, s)
  <2>1. Append(s, n) \in Seq(Expanding!Tokens)
    BY PushContains DEF Stored
  <2>2. \A m : Expanding!Contains(Append(s, n), m) <=> Expanding!Contains(s, m) \/ m = n
    BY PushContains DEF Stored
  <2>3. Rest(vs, Append(s, n)) = Rest(vs, s) \ {n} /\ n \in Rest(vs, s)
    BY <1>3, <2>2 DEF Rest
  <2>4. Cardinality(Rest(vs, s) \ {n}) = Cardinality(Rest(vs, s)) - 1
    BY <1>2, <2>3, FS_RemoveElement
  <2> QED
    BY <1>2, <2>1, <2>3, <2>4 DEF Left
<1> QED
  BY <1>2, <1>3

\* Two evaluations that agree with stacks longer than s.
Agree(vs, s, g, h) ==
    \A t, u \in Seq(Expanding!Tokens) : Left(vs, u) < Left(vs, s) => g[<<t, u>>] = h[<<t, u>>]

\* One placeholder needs the evaluation only with a longer stack.
LEMMA ReplaceLocal ==
    ASSUME NEW vs, Stored(vs), NEW s \in Seq(Expanding!Tokens), NEW n, NEW g, NEW h, Agree(vs, s, g, h)
    PROVE  Expanding!Replace(vs, n, s, g) = Expanding!Replace(vs, n, s, h)
<1> SUFFICES ASSUME Expanding!IsPlaceholder(n), n \in DOMAIN vs, ~Expanding!Contains(s, n)
             PROVE  Expanding!GetValue(vs, n, Append(s, n), g) = Expanding!GetValue(vs, n, Append(s, n), h)
  BY DEF Expanding!Replace
<1>1. Append(s, n) \in Seq(Expanding!Tokens) /\ Left(vs, Append(s, n)) < Left(vs, s)
  BY LeftCounts
<1>2. vs[n].text \in Seq(Expanding!Tokens) /\ vs[n].list \in Seq(Seq(Expanding!Tokens))
  BY DEF Stored
<1>3. g[<<vs[n].text, Append(s, n)>>] = h[<<vs[n].text, Append(s, n)>>]
  BY <1>1, <1>2 DEF Agree
<1>4. [i \in 1..Len(vs[n].list) |-> g[<<vs[n].list[i], Append(s, n)>>]]
      = [i \in 1..Len(vs[n].list) |-> h[<<vs[n].list[i], Append(s, n)>>]]
  <2>1. \A i \in 1..Len(vs[n].list) : vs[n].list[i] \in Seq(Expanding!Tokens)
    BY <1>2
  <2> QED
    BY <1>1, <2>1 DEF Agree
<1> QED
  BY <1>3, <1>4, Zenon DEF Expanding!GetValue

\* A text, too, needs the evaluation only with a longer stack.
LEMMA BodyLocal ==
    ASSUME NEW vs, Stored(vs), NEW s \in Seq(Expanding!Tokens), NEW t \in Seq(Expanding!Tokens), NEW g, NEW h,
           Agree(vs, s, g, h)
    PROVE  Body(vs, g, t, s) = Body(vs, h, t, s)
<1>1. \A n : Expanding!Replace(vs, n, s, g) = Expanding!Replace(vs, n, s, h)
  BY ReplaceLocal
<1>2. [i \in 1..Len(t) |-> Expanding!Replace(vs, t[i], s, g)]
      = [i \in 1..Len(t) |-> Expanding!Replace(vs, t[i], s, h)]
  BY <1>1
<1> QED
  BY <1>2 DEF Body

\* The recursion of evaluate_value_checked has a solution.
LEMMA EvalExists ==
    ASSUME NEW vs, Stored(vs)
    PROVE  \E g : IsEval(vs, g)
<1> DEFINE P(n) == \E g : g = [q \in Pairs |-> g[q]] /\
                     \A t, s \in Seq(Expanding!Tokens) : Left(vs, s) < n => g[<<t, s>>] = Body(vs, g, t, s)
           Bad == {n \in Nat : ~P(n)}
<1>1. P(0)
  <2>1. PICK g : g = [q \in Pairs |-> <<>>]
    OBVIOUS
  <2>2. g = [q \in Pairs |-> g[q]]
    BY <2>1
  <2>3. \A s \in Seq(Expanding!Tokens) : ~(Left(vs, s) < 0)
    BY LeftCounts
  <2> QED
    BY <2>2, <2>3
<1>2. ASSUME NEW n \in Nat, P(n) PROVE P(n + 1)
  <2>1. PICK g : g = [q \in Pairs |-> g[q]] /\
               \A t, s \in Seq(Expanding!Tokens) : Left(vs, s) < n => g[<<t, s>>] = Body(vs, g, t, s)
    BY <1>2
  <2>2. PICK h : h = [q \in Pairs |-> IF Left(vs, q[2]) < n THEN g[q] ELSE Body(vs, g, q[1], q[2])]
    OBVIOUS
  <2>3. \A t, s \in Seq(Expanding!Tokens) :
          /\ Left(vs, s) < n => h[<<t, s>>] = g[<<t, s>>]
          /\ ~(Left(vs, s) < n) => h[<<t, s>>] = Body(vs, g, t, s)
    BY <2>2 DEF Pairs
  <2>4. ASSUME NEW t \in Seq(Expanding!Tokens), NEW s \in Seq(Expanding!Tokens), Left(vs, s) < n + 1
        PROVE  h[<<t, s>>] = Body(vs, h, t, s)
    <3>1. Left(vs, s) \in Nat /\ \A u \in Seq(Expanding!Tokens) : Left(vs, u) \in Nat
      BY LeftCounts
    <3>2. Agree(vs, s, g, h)
      BY <2>3, <2>4, <3>1 DEF Agree
    <3>3. Body(vs, g, t, s) = Body(vs, h, t, s)
      BY <3>2, BodyLocal
    <3> QED
      BY <2>1, <2>3, <3>3
  <2>5. h = [q \in Pairs |-> h[q]]
    BY <2>2
  <2> QED
    BY <2>4, <2>5
<1> HIDE DEF P
<1>3. \A n \in Nat : P(n)
  <2> SUFFICES ASSUME Bad # {} PROVE FALSE
    OBVIOUS
  <2>1. PICK n \in Bad : \A m \in Bad : n <= m
    BY LeastNumber
  <2>2. n # 0 /\ n - 1 \in Nat /\ n - 1 \notin Bad /\ n - 1 + 1 = n
    BY <1>1, <2>1
  <2> QED
    BY <1>2, <2>1, <2>2
<1>4. Cardinality(DOMAIN vs) + 1 \in Nat /\ Cardinality(DOMAIN vs) \in Nat
  BY FS_CardinalityType DEF Stored
<1>5. PICK g : g = [q \in Pairs |-> g[q]] /\
        \A t, s \in Seq(Expanding!Tokens) : Left(vs, s) < Cardinality(DOMAIN vs) + 1 => g[<<t, s>>] = Body(vs, g, t, s)
  BY <1>3, <1>4 DEF P
<1>6. \A s \in Seq(Expanding!Tokens) : Left(vs, s) < Cardinality(DOMAIN vs) + 1
  BY <1>4, LeftCounts
<1>7. \A q \in Pairs : q = <<q[1], q[2]>> /\ q[1] \in Seq(Expanding!Tokens) /\ q[2] \in Seq(Expanding!Tokens)
  BY DEF Pairs
<1>8. \A q \in Pairs : g[q] = Body(vs, g, q[1], q[2])
  BY <1>5, <1>6, <1>7
<1>9. g = [q \in Pairs |-> Body(vs, g, q[1], q[2])]
  BY <1>5, <1>8
<1> QED
  BY <1>9 DEF IsEval

\* What the evaluation gives.
LEMMA EvalIs ==
    ASSUME NEW vs, Stored(vs)
    PROVE  \A t, s \in Seq(Expanding!Tokens) : Expanding!EvaluateValueChecked(vs)[<<t, s>>]
             = Body(vs, Expanding!EvaluateValueChecked(vs), t, s)
<1>1. Expanding!EvaluateValueChecked(vs) = CHOOSE g : IsEval(vs, g)
  BY DEF Expanding!EvaluateValueChecked, IsEval, Body, Pairs
<1>2. IsEval(vs, Expanding!EvaluateValueChecked(vs))
  BY <1>1, EvalExists
<1> QED
  BY <1>2 DEF IsEval, Pairs

-----------------------------------------------------------------------------
(* The bottom-up definition.  Its rounds are chosen by their recursive      *)
(* equation, too; each keeps what the one before has, and after as many     *)
(* rounds as there are placeholders nothing is added any more.              *)

Rounds == Cardinality(Expanding!Known)
Ready(vs, D) ==
    {n \in DOMAIN vs : \A p \in Expanding!Needs(vs, n) : Expanding!IsPlaceholder(p) => p \in D}
Computed(vs, known, n) ==
    CASE vs[n].kind = "path" -> Expanding!Canonicalize(Expanding!Subst(known, vs[n].text))
      [] vs[n].kind = "scalar" -> Expanding!Value(vs[n].text)
      [] vs[n].kind = "list" ->
           Expanding!Join([i \in 1..Len(vs[n].list) |-> Expanding!Subst(known, vs[n].list[i])])
      [] vs[n].kind = "mapping" -> Expanding!MappingFn(vs, n)
Level(vs, f, k) ==
    IF k = 0 THEN [n \in {} |-> Expanding!Error] ELSE Expanding!Round(vs, f[k - 1])
Levels(vs, f) == f = [k \in 0..Rounds |-> Level(vs, f, k)]

\* The library's sets and ours.
LEMMA SameSize ==
    ASSUME NEW S
    PROVE  Expanding!Cardinality(S) = Cardinality(S) /\ (Expanding!IsFiniteSet(S) <=> IsFiniteSet(S))
<1>1. Expanding!IsFiniteSet(S) <=> IsFiniteSet(S)
  BY DEF Expanding!IsFiniteSet, IsFiniteSet
<1>2. Expanding!Cardinality(S) = Cardinality(S)
  BY DEF Expanding!Cardinality, Cardinality
<1> QED
  BY <1>1, <1>2

\* There are finitely many placeholders.
LEMMA RoundsFinite ==
    ASSUME Expanding!ExpandAssumption
    PROVE  IsFiniteSet(Expanding!Known) /\ Rounds \in Nat
<1>1. IsFiniteSet(Paths) /\ IsFiniteSet(Scalars) /\ IsFiniteSet(Lists)
  BY SameSize DEF Expanding!ExpandAssumption
<1>2. IsFiniteSet({"<input_file_name>", "<input_file_name_no_ext>", "<input_file_sha256>", "<input>"})
  <2>1. IsFiniteSet({"<input>"})
    BY FS_Singleton
  <2>2. IsFiniteSet({"<input>"} \cup {"<input_file_sha256>"})
    BY <2>1, FS_AddElement
  <2>3. IsFiniteSet(({"<input>"} \cup {"<input_file_sha256>"}) \cup {"<input_file_name_no_ext>"})
    BY <2>2, FS_AddElement
  <2>4. IsFiniteSet((({"<input>"} \cup {"<input_file_sha256>"}) \cup {"<input_file_name_no_ext>"}) \cup {"<input_file_name>"})
    BY <2>3, FS_AddElement
  <2>5. {"<input_file_name>", "<input_file_name_no_ext>", "<input_file_sha256>", "<input>"}
        = ((({"<input>"} \cup {"<input_file_sha256>"}) \cup {"<input_file_name_no_ext>"}) \cup {"<input_file_name>"})
    OBVIOUS
  <2> QED
    BY <2>4, <2>5
<1>3. Expanding!Known = ((Paths \cup Scalars) \cup Lists)
        \cup {"<input_file_name>", "<input_file_name_no_ext>", "<input_file_sha256>", "<input>"}
  BY DEF Expanding!Known, Expanding!Mappings, Expanding!Input
<1>4. IsFiniteSet(Paths \cup Scalars)
  BY <1>1, FS_Union
<1>5. IsFiniteSet((Paths \cup Scalars) \cup Lists)
  BY <1>1, <1>4, FS_Union
<1>6. IsFiniteSet(Expanding!Known)
  BY <1>2, <1>3, <1>5, FS_Union
<1> QED
  BY <1>6, FS_CardinalityType DEF Rounds

\* The recursion of the rounds has a solution.
LEMMA LevelsExist ==
    ASSUME Expanding!ExpandAssumption, NEW vs
    PROVE  \E f : Levels(vs, f)
<1> DEFINE P(m) == \E f : f = [k \in 0..Rounds |-> f[k]] /\
                     \A k \in 0..Rounds : k < m => f[k] = Level(vs, f, k)
           Bad == {m \in Nat : ~P(m)}
<1>0. Rounds \in Nat
  BY RoundsFinite
<1>1. P(0)
  <2>1. PICK f : f = [k \in 0..Rounds |-> <<>>]
    OBVIOUS
  <2>2. f = [k \in 0..Rounds |-> f[k]]
    BY <2>1
  <2>3. \A k \in 0..Rounds : k < 0 => f[k] = Level(vs, f, k)
    BY <1>0
  <2> QED
    BY <2>2, <2>3, Zenon
<1>2. ASSUME NEW m \in Nat, P(m) PROVE P(m + 1)
  <2>1. PICK f : f = [k \in 0..Rounds |-> f[k]] /\ \A k \in 0..Rounds : k < m => f[k] = Level(vs, f, k)
    BY <1>2
  <2>2. PICK h : h = [k \in 0..Rounds |-> IF k = m THEN Level(vs, f, k) ELSE f[k]]
    OBVIOUS
  <2>3. h = [k \in 0..Rounds |-> h[k]]
    BY <2>2
  <2>4. ASSUME NEW k \in 0..Rounds, k < m + 1 PROVE h[k] = Level(vs, h, k)
    <3>1. k # 0 => k - 1 \in 0..Rounds /\ k - 1 # m
      BY <2>4, <1>0
    <3>2. k # 0 => h[k - 1] = f[k - 1]
      BY <2>2, <3>1
    <3>3. Level(vs, h, k) = Level(vs, f, k)
      BY <3>2 DEF Level
    <3>4. k = m \/ k < m
      BY <2>4
    <3> QED
      BY <2>1, <2>2, <3>3, <3>4
  <2> QED
    BY <2>3, <2>4
<1> HIDE DEF P
<1>3. \A m \in Nat : P(m)
  <2> SUFFICES ASSUME Bad # {} PROVE FALSE
    OBVIOUS
  <2>1. PICK m \in Bad : \A k \in Bad : m <= k
    BY LeastNumber
  <2>2. m # 0 /\ m - 1 \in Nat /\ m - 1 \notin Bad /\ m - 1 + 1 = m
    BY <1>1, <2>1
  <2> QED
    BY <1>2, <2>1, <2>2
<1>4. PICK f : f = [k \in 0..Rounds |-> f[k]] /\ \A k \in 0..Rounds : k < Rounds + 1 => f[k] = Level(vs, f, k)
  <2>1. Rounds + 1 \in Nat
    BY <1>0
  <2>2. P(Rounds + 1)
    BY <1>3, <2>1
  <2> QED
    BY <2>2, Zenon DEF P
<1>5. \A k \in 0..Rounds : f[k] = Level(vs, f, k)
  BY <1>0, <1>4
<1>6. f = [k \in 0..Rounds |-> Level(vs, f, k)]
  BY <1>4, <1>5
<1> QED
  BY <1>6 DEF Levels

\* A sequence of rounds.
Chain(vs, f) ==
    /\ DOMAIN f[0] = {}
    /\ \A k \in 0..Rounds : k # 0 =>
         f[k] = [n \in Ready(vs, DOMAIN f[k - 1]) |-> Computed(vs, f[k - 1], n)]

\* What the bottom-up definition gives, round by round.
LEMMA BottomIs ==
    ASSUME Expanding!ExpandAssumption, NEW vs
    PROVE  \E f : Expanding!Bottom(vs) = f[Rounds] /\ Chain(vs, f)
<1>1. Expanding!Cardinality(Expanding!Known) = Rounds
  BY SameSize DEF Rounds
<1>2. Expanding!Bottom(vs) = (CHOOSE f : Levels(vs, f))[Rounds]
  BY <1>1 DEF Expanding!Bottom, Levels, Level
<1>3. PICK f : f = (CHOOSE g : Levels(vs, g))
  OBVIOUS
<1>4. Levels(vs, f)
  BY <1>3, LevelsExist
<1>5. \A k \in 0..Rounds : f[k] = Level(vs, f, k)
  BY <1>4 DEF Levels
<1>6. \A g : Expanding!Round(vs, g) = [n \in Ready(vs, DOMAIN g) |-> Computed(vs, g, n)]
  BY Zenon DEF Expanding!Round, Ready, Computed
<1>7. 0 \in 0..Rounds
  BY RoundsFinite
<1>8. DOMAIN f[0] = {}
  BY <1>5, <1>7 DEF Level
<1>9. \A k \in 0..Rounds : k # 0 =>
        f[k] = [n \in Ready(vs, DOMAIN f[k - 1]) |-> Computed(vs, f[k - 1], n)]
  BY <1>5, <1>6, Zenon DEF Level
<1>10. Expanding!Bottom(vs) = f[Rounds]
  BY <1>2, <1>3, Zenon
<1>11. Chain(vs, f)
  BY <1>8, <1>9, Zenon DEF Chain
<1> QED
  BY <1>10, <1>11

\* The texts that a value is made of need only what the value needs.
LEMMA NeedsOf ==
    ASSUME NEW vs, Stored(vs), NEW n \in DOMAIN vs
    PROVE  /\ vs[n].kind = "path" =>
                \A i \in 1..Len(vs[n].text) : vs[n].text[i] \in Expanding!Needs(vs, n)
           /\ vs[n].kind = "list" => \A j \in 1..Len(vs[n].list) :
                \A i \in 1..Len(vs[n].list[j]) : vs[n].list[j][i] \in Expanding!Needs(vs, n)
           /\ \A p \in Expanding!Needs(vs, n) :
                \/ vs[n].kind = "path" /\ \E i \in 1..Len(vs[n].text) : vs[n].text[i] = p
                \/ vs[n].kind = "list" /\ \E j \in 1..Len(vs[n].list) :
                     \E i \in 1..Len(vs[n].list[j]) : vs[n].list[j][i] = p
<1>1. CASE vs[n].kind = "path"
  BY <1>1 DEF Expanding!Needs
<1>2. CASE vs[n].kind = "list"
  <2>1. Expanding!Needs(vs, n) = UNION {{vs[n].list[k][i] : i \in 1..Len(vs[n].list[k])} : k \in 1..Len(vs[n].list)}
    BY <1>2 DEF Expanding!Needs
  <2>2. vs[n].kind # "path"
    BY <1>2
  <2>3. ASSUME NEW j \in 1..Len(vs[n].list), NEW i \in 1..Len(vs[n].list[j])
        PROVE  vs[n].list[j][i] \in Expanding!Needs(vs, n)
    <3>1. vs[n].list[j][i] \in {vs[n].list[j][k] : k \in 1..Len(vs[n].list[j])}
      OBVIOUS
    <3>2. {vs[n].list[j][k] : k \in 1..Len(vs[n].list[j])}
            \in {{vs[n].list[k][l] : l \in 1..Len(vs[n].list[k])} : k \in 1..Len(vs[n].list)}
      BY Zenon
    <3> QED
      BY <2>1, <3>1, <3>2, Zenon
  <2>4. ASSUME NEW p \in Expanding!Needs(vs, n)
        PROVE  \E j \in 1..Len(vs[n].list) : \E i \in 1..Len(vs[n].list[j]) : vs[n].list[j][i] = p
    BY <2>1, Zenon
  <2> QED
    BY <1>2, <2>2, <2>3, <2>4, Zenon
<1>3. CASE vs[n].kind \in {"scalar", "mapping"}
  BY <1>3 DEF Expanding!Needs
<1> QED
  BY <1>1, <1>2, <1>3 DEF Stored

\* A text whose placeholders are known stays as it is when more becomes known.
LEMMA SubstLocal ==
    ASSUME NEW t, NEW g, NEW h, DOMAIN g \subseteq DOMAIN h, \A p \in DOMAIN g : h[p] = g[p],
           \A i \in 1..Len(t) : Expanding!IsPlaceholder(t[i]) => t[i] \in DOMAIN g
    PROVE  Expanding!Subst(g, t) = Expanding!Subst(h, t)
<1> DEFINE Of(k, i) == IF ~Expanding!IsPlaceholder(t[i]) THEN Expanding!Value(<<t[i]>>)
                       ELSE IF t[i] \in DOMAIN k THEN k[t[i]] ELSE Expanding!Error
<1>1. \A i \in 1..Len(t) : Of(g, i) = Of(h, i)
  OBVIOUS
<1>2. Expanding!Subst(g, t) = Expanding!Concat([i \in 1..Len(t) |-> Of(g, i)])
  BY DEF Expanding!Subst
<1>3. Expanding!Subst(h, t) = Expanding!Concat([i \in 1..Len(t) |-> Of(h, i)])
  BY DEF Expanding!Subst
<1> HIDE DEF Of
<1>4. [i \in 1..Len(t) |-> Of(g, i)] = [i \in 1..Len(t) |-> Of(h, i)]
  BY <1>1
<1> QED
  BY <1>2, <1>3, <1>4

\* So does a value that is made of such texts.
LEMMA ComputedLocal ==
    ASSUME NEW vs, Stored(vs), NEW g, NEW h, DOMAIN g \subseteq DOMAIN h,
           \A p \in DOMAIN g : h[p] = g[p], NEW n \in Ready(vs, DOMAIN g)
    PROVE  Computed(vs, g, n) = Computed(vs, h, n)
<1>1. n \in DOMAIN vs /\ \A p \in Expanding!Needs(vs, n) : Expanding!IsPlaceholder(p) => p \in DOMAIN g
  BY DEF Ready
<1>2. vs[n].kind = "path" => Expanding!Subst(g, vs[n].text) = Expanding!Subst(h, vs[n].text)
  <2> SUFFICES ASSUME vs[n].kind = "path"
               PROVE  Expanding!Subst(g, vs[n].text) = Expanding!Subst(h, vs[n].text)
    OBVIOUS
  <2>1. \A i \in 1..Len(vs[n].text) : Expanding!IsPlaceholder(vs[n].text[i]) => vs[n].text[i] \in DOMAIN g
    BY <1>1, NeedsOf
  <2> QED
    BY <2>1, SubstLocal
<1>3. vs[n].kind = "list" =>
        [i \in 1..Len(vs[n].list) |-> Expanding!Subst(g, vs[n].list[i])]
        = [i \in 1..Len(vs[n].list) |-> Expanding!Subst(h, vs[n].list[i])]
  <2> SUFFICES ASSUME vs[n].kind = "list", NEW j \in 1..Len(vs[n].list)
               PROVE  Expanding!Subst(g, vs[n].list[j]) = Expanding!Subst(h, vs[n].list[j])
    OBVIOUS
  <2>1. \A i \in 1..Len(vs[n].list[j]) :
          Expanding!IsPlaceholder(vs[n].list[j][i]) => vs[n].list[j][i] \in DOMAIN g
    BY <1>1, NeedsOf
  <2> QED
    BY <2>1, SubstLocal
<1>4. CASE vs[n].kind = "path"
  BY <1>2, <1>4 DEF Computed
<1>5. CASE vs[n].kind = "list"
  BY <1>3, <1>5 DEF Computed
<1>6. CASE vs[n].kind \in {"scalar", "mapping"}
  BY <1>6 DEF Computed
<1> QED
  BY <1>1, <1>4, <1>5, <1>6 DEF Stored

\* Each round keeps what the one before has.
LEMMA ChainGrows ==
    ASSUME NEW vs, Stored(vs), NEW f, Chain(vs, f), Rounds \in Nat
    PROVE  \A k \in 0..Rounds : k # 0 =>
             DOMAIN f[k - 1] \subseteq DOMAIN f[k] /\ \A n \in DOMAIN f[k - 1] : f[k][n] = f[k - 1][n]
<1> DEFINE G(k) == DOMAIN f[k - 1] \subseteq DOMAIN f[k] /\ \A n \in DOMAIN f[k - 1] : f[k][n] = f[k - 1][n]
           Bad == {k \in 1..Rounds : ~G(k)}
<1>0. \A k \in 0..Rounds : k # 0 => k \in 1..Rounds
  OBVIOUS
<1> HIDE DEF G
<1> SUFFICES \A k \in 1..Rounds : G(k)
  BY <1>0 DEF G
<1> SUFFICES ASSUME Bad # {} PROVE FALSE
  OBVIOUS
<1> USE DEF G
<1>1. Bad \subseteq Nat
  OBVIOUS
<1>2. PICK k \in Bad : \A m \in Bad : k <= m
  BY <1>1, LeastNumber
<1>3. k \in 0..Rounds /\ k # 0 /\ k - 1 \in 0..Rounds
  BY <1>2
<1>4. f[k] = [n \in Ready(vs, DOMAIN f[k - 1]) |-> Computed(vs, f[k - 1], n)]
  BY <1>3 DEF Chain
<1>5. CASE k = 1
  BY <1>2, <1>5 DEF Chain
<1>6. CASE k # 1
  <2>1. k - 1 \notin Bad /\ k - 1 \in 1..Rounds /\ (k - 1) - 1 = k - 2
    BY <1>2, <1>3, <1>6
  <2>2. DOMAIN f[k - 2] \subseteq DOMAIN f[k - 1] /\ \A n \in DOMAIN f[k - 2] : f[k - 1][n] = f[k - 2][n]
    BY <2>1
  <2>3. f[k - 1] = [n \in Ready(vs, DOMAIN f[k - 2]) |-> Computed(vs, f[k - 2], n)]
    BY <2>1 DEF Chain
  <2>4. Ready(vs, DOMAIN f[k - 2]) \subseteq Ready(vs, DOMAIN f[k - 1])
    BY <2>2 DEF Ready
  <2>5. \A n \in Ready(vs, DOMAIN f[k - 2]) : Computed(vs, f[k - 2], n) = Computed(vs, f[k - 1], n)
    BY <2>2, ComputedLocal
  <2>6. G(k)
    BY <1>4, <2>3, <2>4, <2>5
  <2> QED
    BY <1>2, <2>6
<1> QED
  BY <1>5, <1>6

\* Nothing is added after the last round.
LEMMA ChainEnds ==
    ASSUME Expanding!ExpandAssumption, NEW vs, Stored(vs), NEW f, Chain(vs, f)
    PROVE  Ready(vs, DOMAIN f[Rounds]) \subseteq DOMAIN f[Rounds]
<1> DEFINE D(k) == DOMAIN f[k]
           Full(k) == Ready(vs, D(k)) \subseteq D(k) \/ Cardinality(D(k)) >= k
           Bad == {k \in 0..Rounds : ~Full(k)}
<1>0. Rounds \in Nat /\ IsFiniteSet(Expanding!Known) /\ DOMAIN vs \subseteq Expanding!Known
  BY RoundsFinite DEF Stored
<1>1. \A k \in 0..Rounds : k # 0 => D(k) = Ready(vs, D(k - 1)) /\ D(k - 1) \subseteq D(k)
  <2>1. \A k \in 0..Rounds : k # 0 => DOMAIN f[k] = Ready(vs, DOMAIN f[k - 1])
    BY DEF Chain
  <2>2. \A k \in 0..Rounds : k # 0 => DOMAIN f[k - 1] \subseteq DOMAIN f[k]
    BY <1>0, ChainGrows
  <2> QED
    BY <2>1, <2>2
<1>2. \A k \in 0..Rounds : D(k) \subseteq DOMAIN vs
  BY <1>1 DEF Ready, Chain
<1>3. \A k \in 0..Rounds : IsFiniteSet(D(k)) /\ Cardinality(D(k)) \in Nat
  BY <1>0, <1>2, FS_Subset, FS_CardinalityType
<1> HIDE DEF D
<1>4. \A k \in 0..Rounds : Full(k)
  <2> SUFFICES ASSUME Bad # {} PROVE FALSE
    OBVIOUS
  <2>1. Bad \subseteq Nat
    BY <1>0
  <2>2. PICK k \in Bad : \A m \in Bad : k <= m
    BY <2>1, LeastNumber
  <2>3. k # 0
    BY <1>0, <1>3, <2>2
  <2>4. k - 1 \in 0..Rounds /\ k - 1 \notin Bad /\ k \in 0..Rounds
    BY <1>0, <2>2, <2>3
  <2>5. D(k) = Ready(vs, D(k - 1)) /\ D(k - 1) \subseteq D(k)
    BY <1>1, <2>3, <2>4
  <2>6. CASE D(k) = D(k - 1)
    BY <2>2, <2>5, <2>6
  <2>7. CASE D(k) # D(k - 1)
    <3>1. Cardinality(D(k - 1)) >= k - 1
      BY <2>4, <2>5, <2>7
    <3>2. Cardinality(D(k - 1)) < Cardinality(D(k))
      BY <1>3, <2>4, <2>5, <2>7, FS_Subset
    <3>3. Cardinality(D(k)) >= k
      BY <1>3, <2>4, <3>1, <3>2
    <3> QED
      BY <2>2, <3>3
  <2> QED
    BY <2>6, <2>7
<1>5. Rounds \in 0..Rounds
  BY <1>0
<1>6. CASE Cardinality(D(Rounds)) >= Rounds
  <2>1. D(Rounds) \subseteq Expanding!Known /\ Cardinality(Expanding!Known) = Rounds
    BY <1>0, <1>2, <1>5 DEF Rounds
  <2>2. D(Rounds) = Expanding!Known
    <3>1. D(Rounds) # Expanding!Known => Cardinality(D(Rounds)) < Cardinality(Expanding!Known)
      BY <1>0, <1>3, <1>5, <2>1, FS_Subset
    <3> QED
      BY <1>0, <1>3, <1>5, <1>6, <2>1, <3>1
  <2> QED
    BY <1>0, <2>2 DEF Ready, D
<1> QED
  BY <1>4, <1>5, <1>6 DEF D

\* A placeholder that got its value by round k has it with every stack that has none of
\* the placeholders of that round.
LEMMA ReplaceKnown ==
    ASSUME NEW vs, Stored(vs), NEW f, Chain(vs, f), Rounds \in Nat
    PROVE  \A k \in 0..Rounds : \A n \in DOMAIN f[k], s \in Seq(Expanding!Tokens) :
             (\A m \in DOMAIN f[k] : ~Expanding!Contains(s, m)) =>
               Expanding!Replace(vs, n, s, Expanding!EvaluateValueChecked(vs)) = f[k][n]
<1> DEFINE ev == Expanding!EvaluateValueChecked(vs)
           Clear(k, s) == \A m \in DOMAIN f[k] : ~Expanding!Contains(s, m)
           Good(k) == \A n \in DOMAIN f[k], s \in Seq(Expanding!Tokens) :
                         Clear(k, s) => Expanding!Replace(vs, n, s, ev) = f[k][n]
           Bad == {k \in 0..Rounds : ~Good(k)}
<1>1. ASSUME NEW k \in 0..Rounds, k # 0, Good(k - 1) PROVE Good(k)
  <2> SUFFICES ASSUME NEW n \in DOMAIN f[k], NEW s \in Seq(Expanding!Tokens), Clear(k, s)
               PROVE  Expanding!Replace(vs, n, s, ev) = f[k][n]
    OBVIOUS
  <2>1. f[k] = [m \in Ready(vs, DOMAIN f[k - 1]) |-> Computed(vs, f[k - 1], m)]
    BY <1>1 DEF Chain
  <2>2. DOMAIN f[k - 1] \subseteq DOMAIN f[k] /\ \A m \in DOMAIN f[k - 1] : f[k][m] = f[k - 1][m]
    BY <1>1, ChainGrows
  <2>3. CASE n \in DOMAIN f[k - 1]
    BY <1>1, <2>2, <2>3
  <2>4. CASE n \notin DOMAIN f[k - 1]
    <3>1. /\ n \in DOMAIN vs /\ Expanding!IsPlaceholder(n) /\ ~Expanding!Contains(s, n)
          /\ \A p \in Expanding!Needs(vs, n) : Expanding!IsPlaceholder(p) => p \in DOMAIN f[k - 1]
      BY <2>1 DEF Ready, Stored, Expanding!IsPlaceholder
    <3>2. PICK u \in Seq(Expanding!Tokens) : u = Append(s, n)
      BY <3>1, LeftCounts
    <3>3. Clear(k - 1, u)
      BY <2>2, <2>4, <3>1, <3>2, PushContains DEF Stored
    <3>4. ASSUME NEW t \in Seq(Expanding!Tokens),
                 \A i \in 1..Len(t) : Expanding!IsPlaceholder(t[i]) => t[i] \in DOMAIN f[k - 1]
          PROVE  ev[<<t, u>>] = Expanding!Subst(f[k - 1], t)
      <4>1. ev[<<t, u>>] = Body(vs, ev, t, u)
        BY EvalIs
      <4>2. \A i \in 1..Len(t) : Expanding!Replace(vs, t[i], u, ev)
              = IF ~Expanding!IsPlaceholder(t[i]) THEN Expanding!Value(<<t[i]>>)
                ELSE IF t[i] \in DOMAIN f[k - 1] THEN f[k - 1][t[i]] ELSE Expanding!Error
        BY <1>1, <3>3, <3>4 DEF Expanding!Replace
      <4> HIDE DEF ev
      <4> QED
        BY <4>1, <4>2 DEF Body, Expanding!Subst
    <3>5. Expanding!Replace(vs, n, s, ev) = Expanding!GetValue(vs, n, u, ev)
      BY <3>1, <3>2 DEF Expanding!Replace
    <3>6. Expanding!GetValue(vs, n, u, ev) = Computed(vs, f[k - 1], n)
      <4> HIDE DEF ev
      <4>1. CASE vs[n].kind = "path"
        <5>1. vs[n].text \in Seq(Expanding!Tokens)
          BY <3>1 DEF Stored
        <5>2. \A i \in 1..Len(vs[n].text) :
                Expanding!IsPlaceholder(vs[n].text[i]) => vs[n].text[i] \in DOMAIN f[k - 1]
          BY <3>1, <4>1, NeedsOf
        <5>3. ev[<<vs[n].text, u>>] = Expanding!Subst(f[k - 1], vs[n].text)
          BY <3>4, <5>1, <5>2
        <5> QED
          BY <4>1, <5>3 DEF Expanding!GetValue, Computed
      <4>2. CASE vs[n].kind = "list"
        <5>1. ASSUME NEW j \in 1..Len(vs[n].list)
              PROVE  ev[<<vs[n].list[j], u>>] = Expanding!Subst(f[k - 1], vs[n].list[j])
          <6>1. vs[n].list[j] \in Seq(Expanding!Tokens)
            BY <3>1 DEF Stored
          <6>2. \A i \in 1..Len(vs[n].list[j]) :
                  Expanding!IsPlaceholder(vs[n].list[j][i]) => vs[n].list[j][i] \in DOMAIN f[k - 1]
            BY <3>1, <4>2, NeedsOf
          <6> QED
            BY <3>4, <6>1, <6>2
        <5>2. [j \in 1..Len(vs[n].list) |-> ev[<<vs[n].list[j], u>>]]
              = [j \in 1..Len(vs[n].list) |-> Expanding!Subst(f[k - 1], vs[n].list[j])]
          BY <5>1
        <5> QED
          BY <4>2, <5>2 DEF Expanding!GetValue, Computed
      <4>3. CASE vs[n].kind \in {"scalar", "mapping"}
        BY <4>3 DEF Expanding!GetValue, Computed
      <4> QED
        BY <3>1, <4>1, <4>2, <4>3 DEF Stored
    <3> QED
      BY <2>1, <3>5, <3>6
  <2> QED
    BY <2>3, <2>4
<1>2. Good(0)
  BY DEF Chain
<1> HIDE DEF Good
<1>3. \A k \in 0..Rounds : Good(k)
  <2> SUFFICES ASSUME Bad # {} PROVE FALSE
    OBVIOUS
  <2>1. Bad \subseteq Nat
    OBVIOUS
  <2>2. PICK k \in Bad : \A m \in Bad : k <= m
    BY <2>1, LeastNumber
  <2>3. k # 0 /\ k - 1 \in 0..Rounds /\ k - 1 \notin Bad
    BY <1>2, <2>2
  <2> QED
    BY <1>1, <2>2, <2>3
<1> QED
  BY <1>3 DEF Good

\* One failure fails the text, and the list.
LEMMA ConcatFails ==
    ASSUME NEW m \in Nat, NEW rs, rs = [i \in 1..m |-> rs[i]], NEW k \in 1..m, rs[k] = Expanding!Error
    PROVE  Expanding!Concat(rs) = Expanding!Error /\ Expanding!Join(rs) = Expanding!Error
<1>1. rs \in Seq({rs[i] : i \in 1..m}) /\ Len(rs) = m
  OBVIOUS
<1>2. ~rs[k].ok
  BY DEF Expanding!Error
<1>3. Expanding!Concat(rs) = Expanding!Error
  BY <1>1, <1>2 DEF Expanding!Concat
<1>4. PICK qs : qs = [i \in 1..Len(rs) |-> IF i = 1 \/ ~rs[i].ok THEN rs[i]
                                         ELSE Expanding!Value(<<Expanding!Space>> \o rs[i].text)]
  OBVIOUS
<1>5. qs \in Seq({qs[i] : i \in 1..m}) /\ Len(qs) = m /\ ~qs[k].ok
  <2>1. qs = [i \in 1..m |-> qs[i]]
    BY <1>1, <1>4
  <2>2. qs \in Seq({qs[i] : i \in 1..m}) /\ Len(qs) = m
    BY <2>1
  <2>3. qs[k] = rs[k]
    BY <1>1, <1>2, <1>4
  <2> QED
    BY <1>2, <2>2, <2>3
<1>6. Expanding!Concat(qs) = Expanding!Error
  BY <1>5 DEF Expanding!Concat
<1>7. Expanding!Join(rs) = Expanding!Concat(qs)
  BY <1>4 DEF Expanding!Join
<1> QED
  BY <1>3, <1>6, <1>7

\* A placeholder that no round gives a value fails, whatever the stack.
LEMMA ReplaceUnknown ==
    ASSUME Expanding!ExpandAssumption, NEW vs, Stored(vs), NEW f, Chain(vs, f)
    PROVE  \A n, s : s \in Seq(Expanding!Tokens) /\ Expanding!IsPlaceholder(n)
                     /\ n \notin DOMAIN f[Rounds] =>
             Expanding!Replace(vs, n, s, Expanding!EvaluateValueChecked(vs)) = Expanding!Error
<1> DEFINE ev == Expanding!EvaluateValueChecked(vs)
           Fails(n, s) == Expanding!Replace(vs, n, s, ev) = Expanding!Error
           Never(n) == Expanding!IsPlaceholder(n) /\ n \notin DOMAIN f[Rounds]
           Wrong == {s \in Seq(Expanding!Tokens) : \E n : Never(n) /\ ~Fails(n, s)}
           Bad == {Left(vs, s) : s \in Wrong}
<1>1. Bad \subseteq Nat
  BY LeftCounts
<1>2. ASSUME Bad # {} PROVE FALSE
  <2>1. PICK m \in Bad : \A k \in Bad : m <= k
    BY <1>1, <1>2, LeastNumber
  <2>2. PICK s \in Wrong : m = Left(vs, s)
    BY <2>1
  <2>3. PICK n : Never(n) /\ ~Fails(n, s)
    BY <2>2
  <2>4. s \in Seq(Expanding!Tokens) /\ m \in Nat
    BY <1>1, <2>1, <2>2
  <2>5. /\ n \in DOMAIN vs /\ ~Expanding!Contains(s, n)
        /\ Expanding!Replace(vs, n, s, ev) = Expanding!GetValue(vs, n, Append(s, n), ev)
    BY <2>3 DEF Expanding!Replace
  <2>6. PICK u \in Seq(Expanding!Tokens) : u = Append(s, n) /\ Left(vs, u) < m /\ Left(vs, u) \in Nat
    BY <2>2, <2>4, <2>5, LeftCounts
  <2>7. u \notin Wrong
    <3> HIDE DEF Wrong
    <3>1. u \in Wrong => Left(vs, u) \in Bad
      OBVIOUS
    <3> HIDE DEF Bad
    <3> QED
      BY <2>1, <2>4, <2>6, <3>1
  <2>8. n \notin Ready(vs, DOMAIN f[Rounds])
    BY <2>3, ChainEnds
  <2>9. PICK p \in Expanding!Needs(vs, n) : Never(p)
    BY <2>5, <2>8 DEF Ready
  <2>10. Fails(p, u)
    BY <2>7, <2>9
  <2> HIDE DEF ev
  <2>11. ASSUME NEW t \in Seq(Expanding!Tokens), NEW i \in 1..Len(t), t[i] = p
         PROVE  ev[<<t, u>>] = Expanding!Error
    <3>1. ev[<<t, u>>] = Body(vs, ev, t, u)
      BY EvalIs DEF ev
    <3>2. PICK rs : rs = [j \in 1..Len(t) |-> Expanding!Replace(vs, t[j], u, ev)]
      OBVIOUS
    <3>3. rs = [j \in 1..Len(t) |-> rs[j]] /\ rs[i] = Expanding!Error /\ Len(t) \in Nat
      BY <2>10, <2>11, <3>2
    <3>4. Expanding!Concat(rs) = Expanding!Error
      BY <3>3, ConcatFails
    <3> QED
      BY <3>1, <3>2, <3>4 DEF Body
  <2>12. CASE vs[n].kind = "path" /\ \E i \in 1..Len(vs[n].text) : vs[n].text[i] = p
    <3>1. vs[n].text \in Seq(Expanding!Tokens)
      BY <2>5 DEF Stored
    <3>2. ev[<<vs[n].text, u>>] = Expanding!Error
      BY <2>11, <2>12, <3>1
    <3>3. Expanding!GetValue(vs, n, u, ev) = Expanding!Canonicalize(Expanding!Error)
      BY <2>12, <3>2 DEF Expanding!GetValue
    <3>4. Expanding!Canonicalize(Expanding!Error) = Expanding!Error
      BY DEF Expanding!Canonicalize, Expanding!Error
    <3> QED
      BY <2>3, <2>5, <2>6, <3>3, <3>4
  <2>13. CASE vs[n].kind = "list" /\ \E j \in 1..Len(vs[n].list) :
                \E i \in 1..Len(vs[n].list[j]) : vs[n].list[j][i] = p
    <3>1. PICK j \in 1..Len(vs[n].list) : \E i \in 1..Len(vs[n].list[j]) : vs[n].list[j][i] = p
      BY <2>13
    <3>2. vs[n].list[j] \in Seq(Expanding!Tokens) /\ Len(vs[n].list) \in Nat
      BY <2>5 DEF Stored
    <3>3. ev[<<vs[n].list[j], u>>] = Expanding!Error
      BY <2>11, <3>1, <3>2
    <3>4. PICK rs : rs = [l \in 1..Len(vs[n].list) |-> ev[<<vs[n].list[l], u>>]]
      OBVIOUS
    <3>5. rs = [l \in 1..Len(vs[n].list) |-> rs[l]] /\ rs[j] = Expanding!Error
      BY <3>3, <3>4
    <3>6. Expanding!Join(rs) = Expanding!Error
      BY <3>2, <3>5, ConcatFails
    <3>7. Expanding!GetValue(vs, n, u, ev) = Expanding!Join(rs)
      BY <2>13, <3>4 DEF Expanding!GetValue
    <3> QED
      BY <2>3, <2>5, <2>6, <3>6, <3>7
  <2> QED
    BY <2>5, <2>9, <2>12, <2>13, NeedsOf
<1> QED
  BY <1>2

\* The evaluation computes what the bottom-up definition does.
LEMMA EvaluatesRight ==
    ASSUME Expanding!ExpandAssumption, NEW vs, Stored(vs), NEW t \in Seq(Expanding!Tokens)
    PROVE  Expanding!EvaluateValue(vs, t) = Expanding!Subst(Expanding!Bottom(vs), t)
<1>1. PICK f : Expanding!Bottom(vs) = f[Rounds] /\ Chain(vs, f)
  BY BottomIs
<1>2. Rounds \in Nat /\ Rounds \in 0..Rounds
  BY RoundsFinite
<1>3. PICK ev : ev = Expanding!EvaluateValueChecked(vs)
  OBVIOUS
<1>4. PICK s \in Seq(Expanding!Tokens) : s = <<>>
  <2>1. <<>> \in Seq(Expanding!Tokens)
    OBVIOUS
  <2> QED
    BY <2>1, Zenon
<1>5. \A m : ~Expanding!Contains(s, m)
  BY <1>4 DEF Expanding!Contains
<1>6. Expanding!EvaluateValue(vs, t) = Body(vs, ev, t, s)
  BY <1>3, <1>4, EvalIs DEF Expanding!EvaluateValue
<1>7. \A n \in DOMAIN f[Rounds] : Expanding!Replace(vs, n, s, ev) = f[Rounds][n]
  BY <1>1, <1>2, <1>3, <1>5, ReplaceKnown
<1>8. \A n : Expanding!IsPlaceholder(n) /\ n \notin DOMAIN f[Rounds] =>
        Expanding!Replace(vs, n, s, ev) = Expanding!Error
  BY <1>1, <1>3, ReplaceUnknown
<1>9. \A n : Expanding!Replace(vs, n, s, ev)
          = IF ~Expanding!IsPlaceholder(n) THEN Expanding!Value(<<n>>)
            ELSE IF n \in DOMAIN f[Rounds] THEN f[Rounds][n] ELSE Expanding!Error
  <2>1. \A n : ~Expanding!IsPlaceholder(n) => Expanding!Replace(vs, n, s, ev) = Expanding!Value(<<n>>)
    BY DEF Expanding!Replace
  <2> QED
    BY <1>7, <1>8, <2>1, Zenon
<1> QED
  BY <1>1, <1>6, <1>9 DEF Body, Expanding!Subst

-----------------------------------------------------------------------------
(* Command lines.                                                           *)

KeepStep(mode, args, g, i) ==
    IF i = 0 THEN <<>>
    ELSE IF Expanding!KeepOption(mode, args[i]) THEN Append(g[i - 1], args[i]) ELSE g[i - 1]
Keeps(mode, args, g) == g = [i \in 0..Len(args) |-> KeepStep(mode, args, g, i)]

\* The recursion of the filter has a solution.
LEMMA KeepsExist ==
    ASSUME NEW mode, NEW S, NEW args \in Seq(S)
    PROVE  \E g : Keeps(mode, args, g)
<1> DEFINE N == Len(args)
           P(m) == \E g : g = [i \in 0..N |-> g[i]] /\
                     \A i \in 0..N : i < m => g[i] = KeepStep(mode, args, g, i)
           Bad == {m \in Nat : ~P(m)}
<1>0. N \in Nat
  OBVIOUS
<1> HIDE DEF N
<1>1. P(0)
  <2>1. PICK g : g = [i \in 0..N |-> <<>>]
    OBVIOUS
  <2>2. g = [i \in 0..N |-> g[i]]
    BY <2>1
  <2>3. \A i \in 0..N : i < 0 => g[i] = KeepStep(mode, args, g, i)
    BY <1>0
  <2> QED
    BY <2>2, <2>3, Zenon
<1>2. ASSUME NEW m \in Nat, P(m) PROVE P(m + 1)
  <2>1. PICK g : g = [i \in 0..N |-> g[i]] /\ \A i \in 0..N : i < m => g[i] = KeepStep(mode, args, g, i)
    BY <1>2
  <2>2. PICK h : h = [i \in 0..N |-> IF i = m THEN KeepStep(mode, args, g, i) ELSE g[i]]
    OBVIOUS
  <2>3. h = [i \in 0..N |-> h[i]]
    BY <2>2
  <2>4. ASSUME NEW i \in 0..N, i < m + 1 PROVE h[i] = KeepStep(mode, args, h, i)
    <3>1. i # 0 => i - 1 \in 0..N /\ i - 1 # m
      BY <2>4, <1>0
    <3>2. i # 0 => h[i - 1] = g[i - 1]
      BY <2>2, <3>1
    <3>3. KeepStep(mode, args, h, i) = KeepStep(mode, args, g, i)
      BY <3>2, Zenon DEF KeepStep
    <3>4. i = m \/ i < m
      BY <2>4
    <3> QED
      BY <2>1, <2>2, <3>3, <3>4
  <2> QED
    BY <2>3, <2>4
<1> HIDE DEF P
<1>3. \A m \in Nat : P(m)
  <2> SUFFICES ASSUME Bad # {} PROVE FALSE
    OBVIOUS
  <2>1. PICK m \in Bad : \A k \in Bad : m <= k
    BY LeastNumber
  <2>2. m # 0 /\ m - 1 \in Nat /\ m - 1 \notin Bad /\ m - 1 + 1 = m
    BY <1>1, <2>1
  <2> QED
    BY <1>2, <2>1, <2>2
<1>4. PICK g : g = [i \in 0..N |-> g[i]] /\ \A i \in 0..N : i < N + 1 => g[i] = KeepStep(mode, args, g, i)
  <2>1. N + 1 \in Nat
    BY <1>0
  <2>2. P(N + 1)
    BY <1>3, <2>1
  <2> QED
    BY <2>2, Zenon DEF P
<1>5. \A i \in 0..N : g[i] = KeepStep(mode, args, g, i)
  BY <1>0, <1>4
<1>6. g = [i \in 0..N |-> KeepStep(mode, args, g, i)]
  BY <1>4, <1>5
<1> QED
  BY <1>6 DEF Keeps, N

\* The filter keeps only what the mode lets through.
LEMMA KeptIs ==
    ASSUME NEW mode, NEW S, NEW args \in Seq(S)
    PROVE  Expanding!Kept(mode, args) \in Seq({a \in S : Expanding!KeepOption(mode, a)})
<1> DEFINE K == {a \in S : Expanding!KeepOption(mode, a)}
<1>1. PICK g : g = CHOOSE h : Keeps(mode, args, h)
  OBVIOUS
<1>2. Keeps(mode, args, g)
  BY <1>1, KeepsExist
<1>3. Expanding!Kept(mode, args) = g[Len(args)]
  BY <1>1 DEF Expanding!Kept, Keeps, KeepStep
<1>4. Len(args) \in Nat /\ \A i \in 1..Len(args) : args[i] \in S
  OBVIOUS
<1>5. \A i \in 0..Len(args) : g[i] = KeepStep(mode, args, g, i)
  BY <1>2 DEF Keeps
<1> DEFINE Bad == {i \in 0..Len(args) : g[i] \notin Seq(K)}
<1>6. ASSUME Bad # {} PROVE FALSE
  <2>0. Bad \subseteq Nat
    BY <1>4
  <2>1. PICK i \in Bad : \A k \in Bad : i <= k
    BY <1>6, <2>0, LeastNumber
  <2>2. i # 0
    <3>1. <<>> \in Seq(K) /\ 0 \in 0..Len(args)
      BY <1>4
    <3>2. g[0] = <<>>
      BY <1>5, <3>1 DEF KeepStep
    <3> QED
      BY <2>1, <3>1, <3>2
  <2>3. i \in 1..Len(args) /\ i - 1 \in 0..Len(args) /\ i - 1 \notin Bad
    BY <1>4, <2>1, <2>2
  <2>4. g[i - 1] \in Seq(K) /\ args[i] \in S
    BY <1>4, <2>3
  <2>5. g[i] \in Seq(K)
    <3>1. g[i] = KeepStep(mode, args, g, i)
      BY <1>5, <2>1
    <3>2. CASE Expanding!KeepOption(mode, args[i])
      <4>1. args[i] \in K
        BY <2>4, <3>2
      <4> HIDE DEF K
      <4> QED
        BY <2>2, <2>4, <3>1, <3>2, <4>1 DEF KeepStep
    <3>3. CASE ~Expanding!KeepOption(mode, args[i])
      BY <2>2, <2>4, <3>1, <3>3 DEF KeepStep
    <3> QED
      BY <3>2, <3>3
  <2> QED
    BY <2>1, <2>5
<1>7. Len(args) \in 0..Len(args)
  BY <1>4
<1> QED
  BY <1>3, <1>6, <1>7

\* The options are evaluated one by one.
LEMMA EvaluateShape ==
    ASSUME NEW vs, NEW T, NEW opts \in Seq(T)
    PROVE  /\ Expanding!Evaluate(vs, opts).ok \in BOOLEAN
           /\ \E S : Expanding!Evaluate(vs, opts).args \in Seq(S)
<1> DEFINE rs == [i \in 1..Len(opts) |-> Expanding!EvaluateValue(vs, opts[i])]
<1>1. Expanding!Evaluate(vs, opts)
        = IF \A i \in 1..Len(rs) : rs[i].ok THEN [ok |-> TRUE, args |-> [i \in 1..Len(rs) |-> rs[i].text]]
          ELSE [ok |-> FALSE, args |-> <<>>]
  BY Zenon DEF Expanding!Evaluate
<1>2. Len(opts) \in Nat /\ Len(rs) = Len(opts)
  OBVIOUS
<1> HIDE DEF rs
<1>3. [i \in 1..Len(rs) |-> rs[i].text] \in Seq({rs[i].text : i \in 1..Len(rs)})
  BY <1>2
<1>4. <<>> \in Seq({})
  OBVIOUS
<1>5. CASE \A i \in 1..Len(rs) : rs[i].ok
  <2>1. /\ Expanding!Evaluate(vs, opts).ok = TRUE
        /\ Expanding!Evaluate(vs, opts).args = [i \in 1..Len(rs) |-> rs[i].text]
    BY <1>1, <1>5
  <2> QED
    BY <1>3, <2>1, Zenon
<1>6. CASE ~(\A i \in 1..Len(rs) : rs[i].ok)
  <2>1. Expanding!Evaluate(vs, opts).ok = FALSE /\ Expanding!Evaluate(vs, opts).args = <<>>
    BY <1>1, <1>6
  <2> QED
    BY <1>4, <2>1, Zenon
<1> QED
  BY <1>5, <1>6

\* The command line of a mode, as far as libFuzzer's parser is concerned.
StdCommand(mode, args) ==
    /\ Len(args) \in Nat /\ Len(args) >= 2
    /\ args[1] = <<"-workers=1">> /\ args[2] = <<Expanding!Required[mode]>>
    /\ \A i \in 1..Len(args) :
         \/ args[i] \in {<<"-workers=1">>, <<Expanding!Required[mode]>>, <<"-max_total_time", "default">>}
         \/ Expanding!KeepOption(mode, args[i])

\* The flags come before the custom options, of which only those are left that the mode
\* lets through.
LEMMA CommandShape ==
    ASSUME NEW vs, NEW mode, NEW T, NEW opts \in Seq(T)
    PROVE  StdCommand(mode, Expanding!BuildStdCommand(vs, mode, opts).args)
<1>0. PICK args : args = Expanding!BuildStdCommand(vs, mode, opts).args
  OBVIOUS
<1> DEFINE w == <<"-workers=1">>
           r == <<Expanding!Required[mode]>>
           m == <<"-max_total_time", "default">>
           limited == \E i \in 1..Len(opts) : opts[i] # <<>> /\ Head(opts[i]) = "-max_total_time"
<1>1. PICK S : Expanding!Evaluate(vs, opts).args \in Seq(S)
  BY EvaluateShape
<1> DEFINE K == {a \in S : Expanding!KeepOption(mode, a)}
           A == {w, r, m} \cup K
<1>2. PICK k : k = Expanding!Kept(mode, Expanding!Evaluate(vs, opts).args)
  OBVIOUS
<1>3. k \in Seq(K)
  BY <1>1, <1>2, KeptIs
<1>4. PICK l : l = IF limited THEN <<>> ELSE <<m>>
  OBVIOUS
<1>5. args = ((<<w>> \o <<r>>) \o l) \o k
  BY <1>0, <1>2, <1>4 DEF Expanding!BuildStdCommand
<1>6. w \in A /\ r \in A /\ m \in A /\ K \subseteq A
  OBVIOUS
<1>7. \A a \in A : a \in {w, r, m} \/ Expanding!KeepOption(mode, a)
  OBVIOUS
<1> HIDE DEF w, r, m, A, K, limited
<1>8. <<w>> \in Seq(A) /\ <<r>> \in Seq(A) /\ l \in Seq(A) /\ k \in Seq(A)
  BY <1>3, <1>4, <1>6
<1>9. PICK x : x = <<w>> \o <<r>>
  OBVIOUS
<1>10. x \in Seq(A) /\ Len(x) = 2 /\ x[1] = w /\ x[2] = r
  BY <1>8, <1>9
<1>11. PICK y : y = x \o l
  OBVIOUS
<1>12. y \in Seq(A) /\ Len(y) >= 2 /\ Len(y) \in Nat /\ y[1] = w /\ y[2] = r
  <2>1. Len(l) \in Nat
    BY <1>8
  <2>2. /\ y \in Seq(A) /\ Len(y) = 2 + Len(l)
        /\ \A i \in 1..(Len(x) + Len(l)) : y[i] = IF i <= Len(x) THEN x[i] ELSE l[i - Len(x)]
    <3>1. /\ x \o l \in Seq(A) /\ Len(x \o l) = Len(x) + Len(l)
          /\ \A i \in 1..(Len(x) + Len(l)) : (x \o l)[i] = IF i <= Len(x) THEN x[i] ELSE l[i - Len(x)]
      BY <1>8, <1>10, ConcatProperties
    <3> QED
      BY <1>10, <1>11, <3>1
  <2> QED
    BY <1>10, <2>1, <2>2
<1>13. args \in Seq(A) /\ Len(args) >= 2 /\ args[1] = w /\ args[2] = r
  BY <1>5, <1>8, <1>9, <1>11, <1>12, ConcatProperties
<1>14. \A i \in 1..Len(args) : args[i] \in A
  BY <1>13
<1>15. \A i \in 1..Len(args) : args[i] \in {w, r, m} \/ Expanding!KeepOption(mode, args[i])
  BY <1>7, <1>14
<1> QED
  BY <1>0, <1>13, <1>15 DEF StdCommand, w, r, m

\* The kind of a placeholder's value is that of its setter.
Fits(n, kind) ==
    /\ n \in Expanding!Mappings => kind = "mapping"
    /\ n \in Paths => kind = "path"
    /\ n \in Lists => kind = "list"
    /\ n \in Scalars => kind = "scalar"
    /\ n = Expanding!Input => kind \in {"path", "scalar"}

ExpandInv ==
    /\ Expanding!Mappings \subseteq DOMAIN values /\ Stored(values)
    /\ \A n \in DOMAIN values : Fits(n, values[n].kind)
    /\ options \in Seq(Seq(Expanding!Tokens))
    /\ result.ok \in BOOLEAN
    /\ Expanding!EvaluatesBottomUp /\ Expanding!ModeSeen /\ Expanding!ChecksOnce

\* Nothing is evaluated yet.
LEMMA IdleMeans ==
    ASSUME result = Expanding!Idle
    PROVE  result.ok \in BOOLEAN /\ Expanding!EvaluatesBottomUp /\ Expanding!ModeSeen /\ Expanding!ChecksOnce
BY DEF Expanding!Idle, Expanding!EvaluatesBottomUp, Expanding!ModeSeen, Expanding!ChecksOnce

\* Only the mappings have values at first.
LEMMA ExpandStarts ==
    ASSUME Expanding!ExpandAssumption, Expanding!Init
    PROVE  ExpandInv
<1>1. /\ DOMAIN values = Expanding!Mappings /\ options = <<>> /\ result = Expanding!Idle
      /\ \A n \in DOMAIN values : values[n] = [kind |-> "mapping", text |-> <<>>, list |-> <<>>]
  BY DEF Expanding!Init, Expanding!NewValues
<1>2. Expanding!Mappings \subseteq Expanding!Known
  BY DEF Expanding!Known
<1>3. IsFiniteSet(DOMAIN values)
  BY <1>1, <1>2, RoundsFinite, FS_Subset
<1>4. Stored(values)
  <2>1. <<>> \in Seq(Expanding!Tokens) /\ <<>> \in Seq(Seq(Expanding!Tokens))
    OBVIOUS
  <2>2. \A n \in DOMAIN values : values[n].kind = "mapping" /\ values[n].text = <<>> /\ values[n].list = <<>>
    BY <1>1
  <2> QED
    BY <1>1, <1>2, <1>3, <2>1, <2>2 DEF Stored
<1>5. ASSUME NEW n \in DOMAIN values PROVE Fits(n, values[n].kind)
  <2>1. values[n].kind = "mapping" /\ n \in Expanding!Mappings
    BY <1>1
  <2>2. n \notin Paths /\ n \notin Scalars /\ n \notin Lists
    BY <2>1 DEF Expanding!ExpandAssumption
  <2>3. n # Expanding!Input
    BY <2>1 DEF Expanding!Mappings, Expanding!Input
  <2> QED
    BY <2>1, <2>2, <2>3 DEF Fits
<1>6. options \in Seq(Seq(Expanding!Tokens))
  BY <1>1
<1> QED
  BY <1>1, <1>4, <1>5, <1>6, IdleMeans DEF ExpandInv

\* A setter stores a value of its kind.
LEMMA SetKeeps ==
    ASSUME Expanding!ExpandAssumption, ExpandInv, NEW p \in Expanding!Known, NEW ev,
           result = Expanding!Idle, result' = result, options' \in Seq(Seq(Expanding!Tokens)),
           values' = [n \in DOMAIN values \cup {p} |-> IF n = p THEN ev ELSE values[n]],
           ev.kind \in {"path", "scalar", "list"}, Fits(p, ev.kind),
           ev.text \in Seq(Expanding!Tokens), ev.list \in Seq(Seq(Expanding!Tokens))
    PROVE  ExpandInv'
<1>1. /\ DOMAIN values' = DOMAIN values \cup {p} /\ values'[p] = ev
      /\ \A n \in DOMAIN values : n # p => values'[n] = values[n]
  OBVIOUS
<1>2. IsFiniteSet(DOMAIN values')
  BY <1>1, FS_AddElement DEF ExpandInv, Stored
<1>3. Stored(values')
  BY <1>1, <1>2 DEF ExpandInv, Stored
<1>4. \A n \in DOMAIN values' : Fits(n, values'[n].kind)
  BY <1>1 DEF ExpandInv
<1>5. /\ (result.ok \in BOOLEAN)' /\ Expanding!EvaluatesBottomUp' /\ Expanding!ModeSeen' /\ Expanding!ChecksOnce'
  BY DEF Expanding!Idle, Expanding!EvaluatesBottomUp, Expanding!ModeSeen, Expanding!ChecksOnce
<1>6. Expanding!Mappings \subseteq DOMAIN values'
  BY <1>1 DEF ExpandInv
<1> QED
  BY <1>3, <1>4, <1>5, <1>6 DEF ExpandInv, Fits

\* The value of a text is what the bottom-up definition gives.
LEMMA TextKeeps ==
    ASSUME Expanding!ExpandAssumption, ExpandInv, NEW t \in OptionTexts, Expanding!EvaluateText(t)
    PROVE  ExpandInv'
<1>1. PICK v : v = Expanding!EvaluateValue(values, t)
  OBVIOUS
<1>2. t \in Seq(Expanding!Tokens) /\ UNCHANGED <<values, options>>
  BY DEF Expanding!ExpandAssumption, Expanding!EvaluateText
<1>3. v = Expanding!Subst(Expanding!Bottom(values), t)
  BY <1>1, <1>2, EvaluatesRight DEF ExpandInv
<1>4. \E x : v = [ok |-> TRUE, text |-> x] \/ v = [ok |-> FALSE, text |-> x]
  BY <1>3, Zenon DEF Expanding!Subst, Expanding!Concat, Expanding!Value, Expanding!Error
<1>5. result' = [Expanding!Idle EXCEPT !.of = t, !.ok = v.ok, !.text = v.text]
  BY <1>1 DEF Expanding!EvaluateText
<1>6. /\ result'.of = t /\ result'.ok = v.ok /\ result'.text = v.text /\ result'.mode = "none"
  BY <1>5 DEF Expanding!Idle
<1>7. v = [ok |-> v.ok, text |-> v.text] /\ v.ok \in BOOLEAN
  <2>1. PICK x : v = [ok |-> TRUE, text |-> x] \/ v = [ok |-> FALSE, text |-> x]
    BY <1>4
  <2>2. CASE v = [ok |-> TRUE, text |-> x]
    BY <2>2
  <2>3. CASE v = [ok |-> FALSE, text |-> x]
    BY <2>3
  <2> QED
    BY <2>1, <2>2, <2>3
<1>8. Expanding!EvaluatesBottomUp'
  <2>1. [ok |-> result'.ok, text |-> result'.text] = Expanding!Subst(Expanding!Bottom(values'), result'.of)
    BY <1>2, <1>3, <1>6, <1>7
  <2> QED
    BY <2>1 DEF Expanding!EvaluatesBottomUp
<1>9. Expanding!ModeSeen' /\ Expanding!ChecksOnce' /\ result'.ok \in BOOLEAN
  BY <1>6, <1>7 DEF Expanding!ModeSeen, Expanding!ChecksOnce
<1> QED
  BY <1>2, <1>8, <1>9 DEF ExpandInv, Fits

\* The flag of the mode is parsed, and what is left of the custom options runs nothing twice.
LEMMA CommandKeeps ==
    ASSUME ExpandInv, NEW mode \in Expanding!Modes, Expanding!BuildCommand(mode)
    PROVE  ExpandInv'
<1>1. PICK c : c = Expanding!Command(values, mode, options)
  OBVIOUS
<1>2. /\ result' = [Expanding!Idle EXCEPT !.mode = mode, !.ok = c.ok, !.args = c.args]
      /\ UNCHANGED <<values, options>>
  BY <1>1 DEF Expanding!BuildCommand
<1>3. result'.of = <<>> /\ result'.mode = mode /\ result'.ok = c.ok /\ result'.args = c.args
  BY <1>2 DEF Expanding!Idle
<1>4. c.ok \in BOOLEAN
  <2>1. c.ok = Expanding!Evaluate(values, options).ok
    BY <1>1 DEF Expanding!Command, Expanding!Repro, Expanding!BuildStdCommand
  <2> QED
    BY <2>1, EvaluateShape DEF ExpandInv
<1>5. ASSUME mode # "repro"
      PROVE  StdCommand(mode, c.args)
  <2>1. c.args = Expanding!BuildStdCommand(values, mode, options).args
    BY <1>1, <1>5 DEF Expanding!Command
  <2> QED
    BY <2>1, CommandShape DEF ExpandInv
<1>6. Expanding!EvaluatesBottomUp'
  BY <1>3 DEF Expanding!EvaluatesBottomUp
<1>7. Expanding!ModeSeen'
  <2> SUFFICES ASSUME mode # "repro" PROVE <<Expanding!Required[mode]>> \in Expanding!Parsed(c.args)
    BY <1>3 DEF Expanding!ModeSeen
  <2>1. 2 \in 1..Len(c.args)
    BY <1>5 DEF StdCommand
  <2>2. \A k \in 1..Len(c.args) : c.args[k] = <<"-ignore_remaining_args=1">> => 2 <= k
    <3>1. <<"-workers=1">> # <<"-ignore_remaining_args=1">>
      OBVIOUS
    <3> QED
      BY <1>5, <3>1 DEF StdCommand
  <2> QED
    BY <1>5, <2>1, <2>2 DEF StdCommand, Expanding!Parsed
<1>8. Expanding!ChecksOnce'
  <2> SUFFICES ASSUME mode = "check_input", NEW a \in Expanding!Parsed(c.args), a # <<>>
               PROVE  Head(a) # "-runs"
    BY <1>3 DEF Expanding!ChecksOnce
  <2>1. PICK i \in 1..Len(c.args) : a = c.args[i]
    BY DEF Expanding!Parsed
  <2>2. mode # "repro" /\ Expanding!Required[mode] = "/input"
    BY DEF Expanding!Required
  <2>3. CASE a \in {<<"-workers=1">>, <<"/input">>, <<"-max_total_time", "default">>}
    BY <2>3
  <2>4. CASE Expanding!KeepOption(mode, a)
    BY <2>4 DEF Expanding!KeepOption
  <2> QED
    BY <1>5, <2>1, <2>2, <2>3, <2>4 DEF StdCommand
<1> QED
  BY <1>2, <1>3, <1>4, <1>6, <1>7, <1>8 DEF ExpandInv, Fits

\* What is left as it is keeps the invariant.
LEMMA ExpandStutters ==
    ASSUME ExpandInv, UNCHANGED <<values, options, result>>
    PROVE  ExpandInv'
BY DEF ExpandInv, Fits, Stored, Expanding!EvaluatesBottomUp, Expanding!ModeSeen, Expanding!ChecksOnce

\* Every step keeps the invariant.
LEMMA ExpandStep ==
    ASSUME Expanding!ExpandAssumption, ExpandInv, Expanding!Next
    PROVE  ExpandInv'
<1>0. /\ OptionTexts \subseteq Seq(Expanding!Tokens) /\ Ids \subseteq Seq(Expanding!Tokens) /\ MaxList \in Nat
      /\ Paths \cap Scalars = {} /\ Paths \cap Lists = {} /\ Scalars \cap Lists = {}
      /\ (Paths \cup Scalars \cup Lists) \cap (Expanding!Mappings \cup {Expanding!Input}) = {}
      /\ Expanding!Input \notin Expanding!Mappings
  BY DEF Expanding!ExpandAssumption, Expanding!Mappings, Expanding!Input
<1>1. ASSUME NEW n \in Paths \cup {Expanding!Input}, NEW t \in OptionTexts, Expanding!SetPath(n, t)
      PROVE  ExpandInv'
  <2>1. PICK ev : ev = [kind |-> "path", text |-> t, list |-> <<>>]
    OBVIOUS
  <2>2. /\ result = Expanding!Idle /\ result' = result /\ options' = options
        /\ values' = [m \in DOMAIN values \cup {n} |-> IF m = n THEN ev ELSE values[m]]
    BY <1>1, <2>1 DEF Expanding!SetPath, Expanding!SetValue
  <2>3. n \in Expanding!Known /\ Fits(n, "path")
    BY <1>0 DEF Fits, Expanding!Known
  <2>4. ev.kind = "path" /\ ev.text \in Seq(Expanding!Tokens) /\ ev.list \in Seq(Seq(Expanding!Tokens))
    BY <1>0, <2>1
  <2>5. options' \in Seq(Seq(Expanding!Tokens))
    BY <2>2 DEF ExpandInv
  <2> QED
    BY <2>2, <2>3, <2>4, <2>5, SetKeeps
<1>2. ASSUME NEW n \in Scalars \cup {Expanding!Input}, NEW t \in Ids, Expanding!SetScalar(n, t)
      PROVE  ExpandInv'
  <2>1. PICK ev : ev = [kind |-> "scalar", text |-> t, list |-> <<>>]
    OBVIOUS
  <2>2. /\ result = Expanding!Idle /\ result' = result /\ options' = options
        /\ values' = [m \in DOMAIN values \cup {n} |-> IF m = n THEN ev ELSE values[m]]
    BY <1>2, <2>1 DEF Expanding!SetScalar, Expanding!SetValue
  <2>3. n \in Expanding!Known /\ Fits(n, "scalar")
    BY <1>0 DEF Fits, Expanding!Known
  <2>4. ev.kind = "scalar" /\ ev.text \in Seq(Expanding!Tokens) /\ ev.list \in Seq(Seq(Expanding!Tokens))
    BY <1>0, <2>1
  <2>5. options' \in Seq(Seq(Expanding!Tokens))
    BY <2>2 DEF ExpandInv
  <2> QED
    BY <2>2, <2>3, <2>4, <2>5, SetKeeps
<1>3. ASSUME NEW n \in Lists, NEW l \in UNION {[1..k -> OptionTexts] : k \in 0..MaxList},
             Expanding!SetList(n, l)
      PROVE  ExpandInv'
  <2>1. PICK ev : ev = [kind |-> "list", text |-> <<>>, list |-> l]
    OBVIOUS
  <2>2. /\ result = Expanding!Idle /\ result' = result /\ options' = l
        /\ values' = [m \in DOMAIN values \cup {n} |-> IF m = n THEN ev ELSE values[m]]
    BY <1>3, <2>1 DEF Expanding!SetList
  <2>3. n \in Expanding!Known /\ Fits(n, "list")
    BY <1>0 DEF Fits, Expanding!Known
  <2>4. PICK k \in 0..MaxList : l \in [1..k -> OptionTexts]
    OBVIOUS
  <2>5. l \in Seq(Seq(Expanding!Tokens))
    <3>1. k \in Nat /\ l \in [1..k -> Seq(Expanding!Tokens)]
      BY <1>0, <2>4
    <3> QED
      BY <3>1
  <2>6. ev.kind = "list" /\ ev.text \in Seq(Expanding!Tokens) /\ ev.list \in Seq(Seq(Expanding!Tokens))
    BY <2>1, <2>5
  <2> QED
    BY <2>2, <2>3, <2>5, <2>6, SetKeeps
<1>4. \/ \E t \in OptionTexts : Expanding!EvaluateText(t)
      \/ \E t \in OptionTexts, n \in Paths \cup {Expanding!Input} : Expanding!SetPath(n, t)
      \/ \E n \in Scalars \cup {Expanding!Input}, t \in Ids : Expanding!SetScalar(n, t)
      \/ \E n \in Lists, l \in UNION {[1..k -> OptionTexts] : k \in 0..MaxList} : Expanding!SetList(n, l)
      \/ \E mode \in Expanding!Modes : Expanding!BuildCommand(mode)
  BY Zenon DEF Expanding!Next
<1> QED
  BY <1>1, <1>2, <1>3, <1>4, TextKeeps, CommandKeeps

\* What the invariant says of commands and values.
LEMMA ExpandMeans ==
    ASSUME ExpandInv
    PROVE  /\ Expanding!TypeOK /\ Expanding!EvaluatesBottomUp
           /\ Expanding!ModeSeen /\ Expanding!ChecksOnce
<1>1. DOMAIN values \subseteq Expanding!Known /\ Expanding!Mappings \subseteq DOMAIN values
      /\ result.ok \in BOOLEAN
  BY DEF ExpandInv, Stored
<1>2. ASSUME NEW n \in DOMAIN values
      PROVE  values[n].kind =
          (CASE n \in Expanding!Mappings -> "mapping" [] n \in Paths -> "path" [] n \in Lists -> "list"
             [] n \in Scalars -> "scalar"
             [] n = Expanding!Input -> IF values[n].kind = "path" THEN "path" ELSE "scalar")
  <2>1. Fits(n, values[n].kind) /\ n \in Expanding!Known
    BY <1>1 DEF ExpandInv
  <2> QED
    BY <2>1 DEF Fits, Expanding!Known
<1>3. Expanding!TypeOK
  BY <1>1, <1>2, Zenon DEF Expanding!TypeOK
<1> QED
  BY <1>3 DEF ExpandInv

-----------------------------------------------------------------------------
(* The parts together.                                                      *)

LEMMA OnePart ==
    ASSUME NEW a, NEW b, NEW c, NEW d
    PROVE  /\ <<a, b>> = <<c, d>> => a = c /\ b = d
           /\ <<a, b>> # <<c>> /\ <<a, b>>[1] = a /\ <<c>>[1] = c
           /\ <<a>> = <<c>> => a = c
OBVIOUS

CoverageInv ==
    /\ \A k \in DOMAIN LinuxTargets : part = <<"linux", k>> => LinuxInv(LinuxTargets[k])
    /\ \A k \in DOMAIN WindowsTargets : part = <<"windows", k>> => WinInv(WindowsTargets[k])
    /\ part = <<"sweep">> => SweepInv
    /\ part = <<"source">> => SourceInv
    /\ part = <<"expand">> => ExpandInv
    /\ part = <<"url">> => UrlInv

\* What is left as it is keeps its invariant.
LEMMA LinuxStutters ==
    ASSUME NEW cfg, LinuxInv(cfg), UNCHANGED vars
    PROVE  LinuxInv(cfg)'
BY DEF vars, LinuxInv, Counting, LinuxMaps, LinuxSaved, LinuxBlocks, LinuxExecuted, Noted,
   Linux!TypeOK, Linux!Addr

LEMMA WinStutters ==
    ASSUME NEW cfg, WinInv(cfg), UNCHANGED vars
    PROVE  WinInv(cfg)'
<1>0. /\ UNCHANGED <<event, pc, calls, saw_initial_bp, loaded, bps, unresolved, count>>
      /\ UNCHANGED <<modules, deferred, index, entries, coverage, stop_error, exited>>
      /\ UNCHANGED <<executed, unloaded, returned>>
  BY DEF vars
<1>1. Windows(cfg)!TypeOK'
  BY <1>0 DEF WinInv, Windows!TypeOK
<1>2. WinIds(cfg)' /\ WinModules(cfg)'
  BY <1>0 DEF WinInv, WinIds, WinModules
<1>3. WinOwners(cfg)' /\ WinStart(cfg)'
  BY <1>0 DEF WinInv, WinOwners, WinStart, Spot
<1>4. WinCounts(cfg)'
  BY <1>0 DEF WinInv, WinCounts
<1>5. WinThreads(cfg)'
  BY <1>0 DEF WinInv, WinThreads, Windows!AtTrigger
<1>6. WinPending(cfg)'
  BY <1>0 DEF WinInv, WinPending, Inside, Awaited
<1> QED
  BY <1>1, <1>2, <1>3, <1>4, <1>5, <1>6 DEF WinInv

\* A step is one of the part that runs, or changes nothing.
LEMMA StepOfPart ==
    ASSUME [Next]_vars
    PROVE  /\ part' = part
           /\ \A k : part = <<"linux", k>> => Linux(LinuxTargets[k])!Next \/ UNCHANGED vars
           /\ \A k : part = <<"windows", k>> => Windows(WindowsTargets[k])!Next \/ UNCHANGED vars
           /\ part = <<"sweep">> => Sweeping!Next \/ UNCHANGED vars
           /\ part = <<"source">> => Source!Next \/ UNCHANGED vars
           /\ part = <<"expand">> => Expanding!Next \/ UNCHANGED vars
           /\ part = <<"url">> => UrlNext \/ UNCHANGED vars
<1>1. CASE UNCHANGED vars
  BY <1>1 DEF vars
<1>2. ASSUME NEW k, RunLinux(k)
      PROVE  part' = part /\ part = <<"linux", k>> /\ Linux(LinuxTargets[k])!Next
  BY <1>2 DEF RunLinux, LinuxOthers
<1>3. ASSUME NEW k, RunWindows(k)
      PROVE  part' = part /\ part = <<"windows", k>> /\ Windows(WindowsTargets[k])!Next
  BY <1>3 DEF RunWindows, WindowsOthers
<1>4. CASE RunSweeping
  BY <1>4, OnePart DEF RunSweeping, SweepOthers
<1>5. CASE RunSource
  BY <1>5, OnePart DEF RunSource, SourceOthers
<1>6. CASE RunExpanding
  BY <1>6, OnePart DEF RunExpanding, ExpandOthers
<1>7. CASE RunUrl
  BY <1>7, OnePart DEF RunUrl, UrlOthers
<1>8. CASE \E k \in DOMAIN LinuxTargets : RunLinux(k)
  BY <1>2, <1>8, OnePart
<1>9. CASE \E k \in DOMAIN WindowsTargets : RunWindows(k)
  BY <1>3, <1>9, OnePart
<1> QED
  BY <1>1, <1>4, <1>5, <1>6, <1>7, <1>8, <1>9 DEF Next

\* The part that runs starts in its invariant.
LEMMA CoverageInit == Init => CoverageInv
<1> SUFFICES ASSUME Init PROVE CoverageInv
  OBVIOUS
<1>1. ASSUME NEW k \in DOMAIN LinuxTargets, part = <<"linux", k>>, Linux(LinuxTargets[k])!Init
      PROVE  CoverageInv
  <2>1. LinuxInv(LinuxTargets[k])
    BY <1>1, CoverageAssumption, LinuxInit
  <2> QED
    BY <1>1, <2>1, OnePart DEF CoverageInv
<1>2. ASSUME NEW k \in DOMAIN WindowsTargets, part = <<"windows", k>>, Windows(WindowsTargets[k])!Init
      PROVE  CoverageInv
  <2>1. WinInv(WindowsTargets[k])
    BY <1>2, CoverageAssumption, WinInit
  <2> QED
    BY <1>2, <2>1, OnePart DEF CoverageInv
<1>3. CASE part = <<"url">> /\ UrlInit
  <2>1. UrlInv
    BY <1>3, CoverageAssumption, UrlStarts
  <2> QED
    BY <1>3, <2>1, OnePart DEF CoverageInv
<1>4. CASE part = <<"sweep">> /\ Sweeping!Init
  <2>1. SweepInv
    BY <1>4, CoverageAssumption, SweepStarts
  <2> QED
    BY <1>4, <2>1, OnePart DEF CoverageInv
<1>5. CASE part = <<"source">> /\ Source!Init
  <2>1. SourceInv
    BY <1>5, SourceStarts
  <2> QED
    BY <1>5, <2>1, OnePart DEF CoverageInv
<1>6. CASE part = <<"expand">> /\ Expanding!Init
  <2>1. ExpandInv
    BY <1>6, CoverageAssumption, ExpandStarts
  <2> QED
    BY <1>6, <2>1, OnePart DEF CoverageInv
<1> QED
  BY <1>1, <1>2, <1>3, <1>4, <1>5, <1>6 DEF Init

\* Every step keeps the invariant of the part that runs.
LEMMA CoverageStep == CoverageInv /\ [Next]_vars => CoverageInv'
<1> SUFFICES ASSUME CoverageInv, [Next]_vars PROVE CoverageInv'
  OBVIOUS
<1>0. part' = part
  BY StepOfPart
<1>1. ASSUME NEW k \in DOMAIN LinuxTargets, part = <<"linux", k>> PROVE LinuxInv(LinuxTargets[k])'
  <2>1. LinuxInv(LinuxTargets[k]) /\ (Linux(LinuxTargets[k])!Next \/ UNCHANGED vars)
    BY <1>1, StepOfPart DEF CoverageInv
  <2>2. Linux(LinuxTargets[k])!RecorderAssumption /\ ~LinuxTargets[k].Reload
    BY CoverageAssumption
  <2> QED
    BY <2>1, <2>2, LinuxSteps, LinuxStutters
<1>2. ASSUME NEW k \in DOMAIN WindowsTargets, part = <<"windows", k>> PROVE WinInv(WindowsTargets[k])'
  <2>1. WinInv(WindowsTargets[k]) /\ (Windows(WindowsTargets[k])!Next \/ UNCHANGED vars)
    BY <1>2, StepOfPart DEF CoverageInv
  <2>2. /\ Windows(WindowsTargets[k])!RecorderAssumption
        /\ ~WindowsTargets[k].OthersReturn /\ ~WindowsTargets[k].SymFails
    BY CoverageAssumption
  <2> QED
    BY <2>1, <2>2, WinSteps, WinStutters
<1>3. ASSUME part = <<"url">> PROVE UrlInv'
  <2>1. UrlInv /\ (UrlNext \/ UNCHANGED vars)
    BY <1>3, StepOfPart DEF CoverageInv
  <2>2. UNCHANGED vars => UrlInv'
    BY <2>1 DEF vars, UrlInv
  <2> QED
    BY <2>1, <2>2, UrlStep
<1>4. ASSUME part = <<"sweep">> PROVE SweepInv'
  <2>1. SweepInv /\ (Sweeping!Next \/ UNCHANGED vars) /\ Sweeping!SweepAssumption
    BY <1>4, CoverageAssumption, StepOfPart DEF CoverageInv
  <2>2. UNCHANGED vars => SweepInv'
    BY <2>1, SweepStutters DEF vars
  <2> QED
    BY <2>1, <2>2, SweepVisit, SweepCut DEF Sweeping!Next
<1>5. ASSUME part = <<"source">> PROVE SourceInv'
  <2>1. SourceInv /\ (Source!Next \/ UNCHANGED vars) /\ Source!SourceCoverageAssumption
    BY <1>5, CoverageAssumption, StepOfPart DEF CoverageInv
  <2>2. UNCHANGED vars => UNCHANGED Source!vars
    BY DEF vars, Source!vars
  <2> QED
    BY <2>1, <2>2, SourceStep
<1>6. ASSUME part = <<"expand">> PROVE ExpandInv'
  <2>1. ExpandInv /\ (Expanding!Next \/ UNCHANGED vars) /\ Expanding!ExpandAssumption
    BY <1>6, CoverageAssumption, StepOfPart DEF CoverageInv
  <2>2. UNCHANGED vars => ExpandInv'
    BY <2>1, ExpandStutters DEF vars
  <2> QED
    BY <2>1, <2>2, ExpandStep
<1> QED
  BY <1>0, <1>1, <1>2, <1>3, <1>4, <1>5, <1>6 DEF CoverageInv

\* For any threads, modules, blocks and allowlists the recorders count every block of an
\* instrumented module that a thread has executed, however stops, new modules and exits
\* interleave (on_breakpoint, update_images): on Linux the counts are those since the module
\* was last mapped, on Windows those of its first load, for a library that is loaded again
\* gets no breakpoints.  On Linux nothing else is counted and every saved byte has its
\* breakpoint, and on Windows every breakpoint that is set belongs to the recorder and none
\* but the trigger's is in a module whose initialisation has not returned.  Assumed
\* (CoverageAssumption): no module is mapped where one has been (Reload), no other thread
\* comes to the return address of the trigger (OthersReturn), and the symbols can be
\* initialised (SymFails); nothing is said of a thread that trapped at a breakpoint that
\* another thread's stop has cleared, and that goes on behind the breakpoint instruction.
THEOREM RecordersCountExactly == Spec => []CountedIsExecuted
<1>1. CoverageInv => CountedIsExecuted
  <2> SUFFICES ASSUME CoverageInv PROVE CountedIsExecuted
    OBVIOUS
  <2>1. ASSUME NEW k \in DOMAIN LinuxTargets, part = <<"linux", k>>
        PROVE  /\ Linux(LinuxTargets[k])!TypeOK /\ Linux(LinuxTargets[k])!ExecutedIsCounted
               /\ Linux(LinuxTargets[k])!CountedIsExecuted /\ Linux(LinuxTargets[k])!SavedIsSet
    <3>1. LinuxInv(LinuxTargets[k]) /\ Linux(LinuxTargets[k])!RecorderAssumption
      BY <2>1, CoverageAssumption DEF CoverageInv
    <3> QED
      BY <3>1, LinuxMeans
  <2>2. ASSUME NEW k \in DOMAIN WindowsTargets, part = <<"windows", k>>
        PROVE  /\ Windows(WindowsTargets[k])!TypeOK
               /\ Windows(WindowsTargets[k])!ExecutedIsCounted
               /\ Windows(WindowsTargets[k])!NotInitializing /\ Windows(WindowsTargets[k])!Owned
    <3>1. WinInv(WindowsTargets[k]) /\ Windows(WindowsTargets[k])!RecorderAssumption
      BY <2>2, CoverageAssumption DEF CoverageInv
    <3> QED
      BY <3>1, WinMeans
  <2> QED
    BY <2>1, <2>2 DEF CountedIsExecuted
<1> QED
  BY <1>1, CoverageInit, CoverageStep, PTL DEF Spec

\* For a function of any size, any instructions, overlapping ones included, and any labels:
\* the work list of sweep_region visits exactly the places where control can arrive, however
\* often it schedules them, every block is entered at its start only, and in aligned code
\* every byte of a valid instruction that can run is in exactly one block.
THEOREM SweepIsExact == Spec => []BlocksExact
<1>1. CoverageInv => BlocksExact
  BY CoverageAssumption, SweepMeans DEF CoverageInv, BlocksExact
<1> QED
  BY <1>1, CoverageInit, CoverageStep, PTL DEF Spec

\* For any files, blocks, lines and allowlists, and any two counts: converting the merged
\* counts gives what merging the converted counts does (add_binary_coverage), a file that
\* the user's rules deny has no line, and the report has every file as one class of one
\* package, and sums that count every line once.
THEOREM ReportsAreExact == Spec => []ReportExact
<1>1. CoverageInv => ReportExact
  BY CoverageAssumption, SourceTyped, SourceCommutes, SourceReported DEF CoverageInv, ReportExact
<1> QED
  BY <1>1, CoverageInit, CoverageStep, PTL DEF Spec

\* For any placeholders, texts and options, and values that refer to each other in any
\* way: the evaluation with a stack of the replacements under way computes what
\* the bottom-up definition does (evaluate_value_checked), and however the user's options
\* are ordered, libFuzzer sees the flag or the input a command is about, and checks an
\* input once (build_std_command, check_input).
THEOREM CommandsAreMeant == Spec => []CommandMeant
<1>1. CoverageInv => CommandMeant
  BY ExpandMeans DEF CoverageInv, CommandMeant
<1> QED
  BY <1>1, CoverageInit, CoverageStep, PTL DEF Spec

\* For URLs and names of any length over any segments: no https URL is both that of a
\* container and that of a blob, and the blob that an https container names is read back
\* with its account, its container and its name.  Of a local file only the last segment is
\* read back, and in a file URL that to_file_path refuses (one with a host) the directories
\* after the first are read as part of the name (BlobContainerUrl::blob, BlobUrl::name).
THEOREM UrlsRoundTrip == Spec => []UrlRoundTrip
<1>1. CoverageInv => UrlRoundTrip
  BY UrlMeans DEF CoverageInv, UrlRoundTrip
<1> QED
  BY <1>1, CoverageInit, CoverageStep, PTL DEF Spec
=============================================================================
