---------------------------- MODULE ResultMonitor ----------------------------
(***************************************************************************)
(* SyncedDir::monitor_results (onefuzz, syncdir.rs): files that appear in  *)
(* a local directory are uploaded.  The directory belongs to a program the *)
(* user supplies, which may remove and create it again at any time: each   *)
(* creation is a new incarnation, and a watch is on one incarnation.       *)
(* Paths, on the other hand, name whatever exists when they are used.      *)
(***************************************************************************)
EXTENDS Naturals, Sequences

CONSTANTS Files,
          Ignored,      \* .azDownload- files and, if asked for, dotfiles
          FileUrl,      \* the container is a directory: copies overwrite
          NetworkFails, \* whether an upload may fail for good
          MaxResets,    \* bound: creations of the directory
          MaxEvents     \* bound: events waiting

MonitorAssumption ==
    /\ Ignored \subseteq Files /\ FileUrl \in BOOLEAN /\ NetworkFails \in BOOLEAN
    /\ MaxResets \in Nat /\ MaxEvents \in Nat
    /\ Files \cap {"removed", "none"} = {}   \* what stands for no file

VARIABLES created,   \* incarnations so far
          exists,    \* whether the last of them still exists
          dir,       \* its files: name -> "none", "partial" or "complete"
          pc,        \* "wait", "new", "watch", "upload" or "failed"
          watched,   \* the incarnation the watch is on
          events,    \* of the watch
          item,      \* the file next_file returned
          remote,    \* the container
          seen       \* history: files of this incarnation created under the watch

vars == <<created, exists, dir, pc, watched, events, item, remote, seen>>

State == {"none", "partial", "complete"}
NoItem == "none"

TypeOK ==
    /\ created \in 0..MaxResets /\ exists \in BOOLEAN
    /\ dir \in [Files -> State] /\ (~exists => \A f \in Files : dir[f] = "none")
    /\ pc \in {"wait", "new", "watch", "upload", "failed"}
    /\ watched \in 0..created
    /\ events \in Seq(Files \union {"removed"})
    /\ item \in Files \union {NoItem} /\ (pc = "upload" <=> item # NoItem)
    /\ remote \in [Files -> State]
    /\ seen \subseteq Files

Init ==
    /\ created = 0 /\ exists = FALSE /\ dir = [f \in Files |-> "none"]
    /\ pc = "wait" /\ watched = 0 /\ events = <<>> /\ item = NoItem
    /\ remote = [f \in Files |-> "none"] /\ seen = {}

Watching == pc \in {"watch", "upload"} /\ watched = created

-----------------------------------------------------------------------------
(* The program that owns the directory.                                    *)

CreateDir ==
    /\ ~exists /\ created < MaxResets
    /\ created' = created + 1 /\ exists' = TRUE /\ seen' = {}
    /\ UNCHANGED <<dir, pc, watched, events, item, remote>>

RemoveDir ==
    /\ exists /\ Len(events) < MaxEvents
    /\ exists' = FALSE /\ dir' = [f \in Files |-> "none"] /\ seen' = {}
    /\ events' = IF Watching THEN Append(events, "removed") ELSE events
    /\ UNCHANGED <<created, pc, watched, item, remote>>

CreateFile(f) ==
    /\ exists /\ dir[f] = "none" /\ Len(events) < MaxEvents
    /\ dir' = [dir EXCEPT ![f] = "partial"]
    /\ events' = IF Watching THEN Append(events, f) ELSE events
    /\ seen' = IF Watching THEN seen \union {f} ELSE seen
    /\ UNCHANGED <<created, exists, pc, watched, item, remote>>

CompleteFile(f) ==
    /\ dir[f] = "partial"
    /\ dir' = [dir EXCEPT ![f] = "complete"]
    /\ UNCHANGED <<created, exists, pc, watched, events, item, remote, seen>>

DeleteFile(f) ==
    /\ dir[f] # "none"
    /\ dir' = [dir EXCEPT ![f] = "none"] /\ seen' = seen \ {f}
    /\ UNCHANGED <<created, exists, pc, watched, events, item, remote>>

-----------------------------------------------------------------------------
CheckDir_Once ==
    /\ pc = "wait" /\ exists /\ watched = 0
    /\ pc' = "new"
    /\ UNCHANGED <<created, exists, dir, watched, events, item, remote, seen>>

(* monitor_results: the loop until fs::metadata succeeds.                  *)
CheckDir ==
    /\ pc = "wait" /\ exists
    /\ pc' = "new"
    /\ UNCHANGED <<created, exists, dir, watched, events, item, remote, seen>>

(* DirectoryMonitor::new: canonicalize, metadata and watch all fail if the *)
(* directory has gone in the meantime, and their error ends the task.      *)
NewMonitor ==
    /\ pc = "new"
    /\ IF exists THEN pc' = "watch" /\ watched' = created /\ events' = <<>>
                 ELSE pc' = "failed" /\ UNCHANGED <<watched, events>>
    /\ UNCHANGED <<created, exists, dir, item, remote, seen>>

NextFile_Drop ==
    /\ pc = "watch" /\ events # <<>>
    /\ events' = Tail(events)
    /\ LET e == Head(events) IN
       CASE e = "removed" -> pc' = "wait" /\ UNCHANGED item
         [] e # "removed" /\ dir[e] = "complete" -> pc' = "upload" /\ item' = e
         [] OTHER -> UNCHANGED <<pc, item>>
    /\ UNCHANGED <<created, exists, dir, watched, remote, seen>>

(* DirectoryMonitor::next_file: a created file that still exists is        *)
(* returned, the removal of the directory ends the watch.                  *)
NextFile ==
    /\ pc = "watch" /\ events # <<>>
    /\ events' = Tail(events)
    /\ LET e == Head(events) IN
       CASE e = "removed" -> pc' = "wait" /\ UNCHANGED item
         [] e # "removed" /\ dir[e] # "none" /\ e \notin Ignored -> pc' = "upload" /\ item' = e
         [] OTHER -> UNCHANGED <<pc, item>>
    /\ UNCHANGED <<created, exists, dir, watched, remote, seen>>

(* BlobUploader::upload sends If-None-Match: a blob that exists is kept.   *)
(* fs::copy into a container that is a directory overwrites.               *)
Uploaded(f) == [remote EXCEPT ![f] = IF FileUrl \/ @ = "none" THEN dir[f] ELSE @]

(* The body of file_monitor_event: a file that has gone is skipped.        *)
UploadItem ==
    /\ pc = "upload"
    /\ item' = NoItem
    /\ \/ /\ dir[item] # "none"
          /\ remote' = Uploaded(item)
          /\ pc' = "watch"
       \/ dir[item] = "none" /\ pc' = "watch" /\ UNCHANGED remote
       \/ NetworkFails /\ dir[item] # "none" /\ pc' = "failed" /\ UNCHANGED remote
    /\ UNCHANGED <<created, exists, dir, watched, events, seen>>

MonitorStep == CheckDir \/ NewMonitor \/ NextFile \/ UploadItem

Done == pc = "failed" /\ UNCHANGED vars

Next ==
    \/ CreateDir \/ RemoveDir \/ Done
    \/ \E f \in Files : CreateFile(f) \/ CompleteFile(f) \/ DeleteFile(f)
    \/ MonitorStep

(* The future of the monitor is polled again and again.                    *)
Spec == Init /\ [][Next]_vars /\ WF_vars(MonitorStep)

-----------------------------------------------------------------------------
Waiting(e) == \E i \in DOMAIN events : events[i] = e

(* A file created under the watch, and still there, is in the container or *)
(* its event is waiting: resets, deletions and failures of single uploads  *)
(* make the monitor forget none (next_file, file_monitor_event).           *)
SeenNotForgotten ==
    pc # "failed" => \A f \in seen \ Ignored :
        remote[f] # "none" \/ item = f \/ Waiting(f)

(* A watch on a removed incarnation knows of the removal: the monitor      *)
(* never listens to a directory that is gone without an event that will    *)
(* tell it (next_file).                                                    *)
NeverDeaf ==
    pc \in {"watch", "upload"} /\ (watched # created \/ ~exists) => Waiting("removed")

(* Only a directory that vanished between the check and the watch, or a    *)
(* failing network, ends the task: files that come and go do not.          *)
(* The present incarnation of the directory is watched, if there is one,   *)
(* or the task has failed.                                                 *)
WatchedAgain == exists => watched = created \/ pc = "failed"
=============================================================================
