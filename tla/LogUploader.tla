---------------------------- MODULE LogUploader ----------------------------
(***************************************************************************)
(* The upload of a task's log file (log_uploader.rs): on each node that    *)
(* runs the task, a spawned loop appends what the file has grown by to an  *)
(* append blob, every minute and once more when the worker is done.  The   *)
(* blob is named after the task and the deployment, so that it is the same *)
(* for all nodes; how far it has been written is read from the blob.  An    *)
(* append says nothing of where the block belongs, and azure_core sends a   *)
(* request again whose answer it has not got.                              *)
(***************************************************************************)
EXTENDS Integers, Sequences

CONSTANTS
    Nodes,      \* the nodes that run the task
    MaxLog,     \* bound: length of a log file
    MaxBlock,   \* MAX_BLOB_BLOCK_SIZE
    MaxFails,   \* bound: failed requests
    NoBlob

LogUploaderAssumption ==
    /\ MaxLog \in Nat /\ MaxBlock \in Nat \ {0} /\ MaxFails \in Nat
    /\ NoBlob \notin Seq(Nodes \X (1..MaxLog))

VARIABLES
    log,      \* length of the log file of a node; it does not exist when 0
    live,     \* the task process of a node is alive
    worker,   \* what the worker of a node does with its Uploader
    up,       \* where the loop of a node is
    stopped,  \* its variable `stopped`
    permit,   \* the permit of its Notify
    pos,      \* the length of the blob as get_blob_client has seen it
    size,     \* the length of the block that a node has to append
    blob,     \* the blob: for each byte the node and the offset it is from
    fails,    \* failed requests
    cut,      \* nodes whose last sync failed
    resent    \* appends whose answer was lost: none in this pass ("no"), one that is
              \* in the blob ("applied"), and one that was put there again ("doubled")

vars == <<log, live, worker, up, stopped, permit, pos, size, blob, fails, cut, resent>>

TypeOK ==
    /\ log \in [Nodes -> 0..MaxLog]
    /\ live \in [Nodes -> BOOLEAN]
    /\ worker \in [Nodes -> {"running", "flushing", "flushed", "timedout", "stopped"}]
    /\ up \in [Nodes -> {"sync", "create", "append", "idle", "ended"}]
    /\ stopped \in [Nodes -> BOOLEAN]
    /\ permit \in [Nodes -> BOOLEAN]
    /\ pos \in [Nodes -> Nat]
    /\ size \in [Nodes -> 0..MaxBlock]
    /\ blob = NoBlob \/ blob \in Seq(Nodes \X (1..MaxLog))
    /\ fails \in 0..MaxFails
    /\ cut \in SUBSET Nodes
    /\ resent \in [Nodes -> {"no", "applied", "doubled"}]

Init ==
    /\ log = [n \in Nodes |-> 0]
    /\ live = [n \in Nodes |-> TRUE]
    /\ worker = [n \in Nodes |-> "running"]
    /\ up = [n \in Nodes |-> "sync"]
    /\ stopped = [n \in Nodes |-> FALSE]
    /\ permit = [n \in Nodes |-> FALSE]
    /\ pos = [n \in Nodes |-> 0]
    /\ size = [n \in Nodes |-> 0]
    /\ blob = NoBlob
    /\ fails = 0
    /\ cut = {}
    /\ resent = [n \in Nodes |-> "no"]

----------------------------------------------------------------------------
(* The task and the worker                                                 *)

WriteLog(n) ==
    /\ live[n] /\ log[n] < MaxLog
    /\ log' = [log EXCEPT ![n] = @ + 1]
    /\ UNCHANGED <<live, worker, up, stopped, permit, pos, size, blob, fails, cut, resent>>

TaskExits(n) ==
    /\ live[n]
    /\ live' = [live EXCEPT ![n] = FALSE]
    /\ UNCHANGED <<log, worker, up, stopped, permit, pos, size, blob, fails, cut, resent>>

\* stop_sync, called once the process has exited
StopSync(n) ==
    /\ worker[n] = "running" /\ ~live[n]
    /\ worker' = [worker EXCEPT ![n] = "flushing"]
    /\ permit' = [permit EXCEPT ![n] = TRUE]
    /\ UNCHANGED <<log, live, up, stopped, pos, size, blob, fails, cut, resent>>

\* The wait for the loop ends with it or after LOG_FLUSH_TIMEOUT.
StopSyncReturns(n) ==
    /\ worker[n] = "flushing"
    /\ worker' = [worker EXCEPT ![n] = IF up[n] = "ended" THEN "flushed" ELSE "timedout"]
    /\ UNCHANGED <<log, live, up, stopped, permit, pos, size, blob, fails, cut, resent>>

\* A worker that is stopped drops its Uploader: the loop is detached.
DropUploader(n) ==
    /\ worker[n] = "running"
    /\ worker' = [worker EXCEPT ![n] = "stopped"]
    /\ UNCHANGED <<log, live, up, stopped, permit, pos, size, blob, fails, cut, resent>>

----------------------------------------------------------------------------
(* The loop of start_sync                                                  *)

\* The end of a pass: a stopped loop goes on until there is nothing to upload.
Synced(n, count) ==
    up' = [up EXCEPT ![n] = IF ~stopped[n] THEN "idle"
                            ELSE IF count = 0 THEN "ended" ELSE "sync"]

\* is_notified: the minute has passed, or the permit is there.
Wake(n) ==
    /\ up[n] = "idle"
    /\ up' = [up EXCEPT ![n] = "sync"]
    /\ stopped' = [stopped EXCEPT ![n] = permit[n]]
    /\ permit' = [permit EXCEPT ![n] = FALSE]
    /\ UNCHANGED <<log, live, worker, pos, size, blob, fails, cut, resent>>

NoFile(n) ==
    /\ up[n] = "sync" /\ log[n] = 0
    /\ Synced(n, 0)
    /\ cut' = cut \ {n}
    /\ UNCHANGED <<log, live, worker, stopped, permit, pos, size, blob, fails, resent>>

\* SeekableFile::new: the rest of the file from the end of the blob, or as much of it
\* as a block holds.  Where the file is shorter than the blob the unsigned difference
\* wraps around and a full block is announced.
OpenFile(n, start) ==
    LET remaining == log[n] - start
    IN /\ pos' = [pos EXCEPT ![n] = start]
       /\ size' = [size EXCEPT ![n] = IF remaining \in 0..MaxBlock THEN remaining ELSE MaxBlock]
       /\ resent' = [resent EXCEPT ![n] = IF @ = "doubled" THEN @ ELSE "no"]

\* Mutant of GetProperties(n): the position of the last pass is used.
GetProperties_Cached(n) ==
    /\ up[n] = "sync" /\ log[n] > 0
    /\ IF blob = NoBlob
       THEN up' = [up EXCEPT ![n] = "create"] /\ UNCHANGED <<pos, size, resent>>
       ELSE up' = [up EXCEPT ![n] = "append"] /\ OpenFile(n, pos[n])
    /\ UNCHANGED <<log, live, worker, stopped, permit, blob, fails, cut>>

\* get_blob_client: the length of the blob is where the upload goes on.
GetProperties(n) ==
    /\ up[n] = "sync" /\ log[n] > 0
    /\ IF blob = NoBlob
       THEN up' = [up EXCEPT ![n] = "create"] /\ UNCHANGED <<pos, size, resent>>
       ELSE up' = [up EXCEPT ![n] = "append"] /\ OpenFile(n, Len(blob))
    /\ UNCHANGED <<log, live, worker, stopped, permit, blob, fails, cut>>

\* put_append_blob replaces a blob that another node has created since.
CreateBlob(n) ==
    /\ up[n] = "create"
    /\ blob' = <<>>
    /\ OpenFile(n, 0)
    /\ up' = [up EXCEPT ![n] = "append"]
    /\ UNCHANGED <<log, live, worker, stopped, permit, fails, cut>>

\* What was announced can be read from the file.
Readable(n) == pos[n] + size[n] <= log[n]

\* append_block takes effect: the block is put at the end, wherever that is by now.
Appended(n, lost) ==
    /\ blob' = blob \o [i \in 1..size[n] |-> <<n, pos[n] + i>>]
    /\ resent' = [resent EXCEPT ![n] = IF @ = "no" THEN lost ELSE "doubled"]

AppendBlock(n) ==
    /\ up[n] = "append" /\ Readable(n)
    /\ Appended(n, "no")
    /\ Synced(n, size[n])
    /\ cut' = cut \ {n}
    /\ UNCHANGED <<log, live, worker, stopped, permit, pos, size, fails>>

\* A file that is too short: there is nothing to read for what was announced.
AppendNothing(n) ==
    /\ up[n] = "append" /\ ~Readable(n)
    /\ Synced(n, 0)
    /\ cut' = cut \cup {n}
    /\ UNCHANGED <<log, live, worker, stopped, permit, pos, size, blob, fails, resent>>

\* The answer of an append is lost: azure_core resets the stream and sends the block
\* again, as part of the same append_block.
AnswerLost(n) ==
    /\ up[n] = "append" /\ Readable(n) /\ size[n] > 0
    /\ fails < MaxFails
    /\ fails' = fails + 1
    /\ Appended(n, "applied")
    /\ UNCHANGED <<log, live, worker, up, stopped, permit, pos, size, cut>>

\* A request fails for good, the append possibly after it has taken effect; the loop
\* takes the failure for an empty pass.
SyncFails(n) ==
    /\ up[n] \in {"sync", "create", "append"} /\ log[n] > 0
    /\ fails < MaxFails
    /\ fails' = fails + 1
    /\ \/ UNCHANGED <<blob, resent>>
       \/ up[n] = "append" /\ Readable(n) /\ size[n] > 0 /\ Appended(n, "applied")
    /\ Synced(n, 0)
    /\ cut' = cut \cup {n}
    /\ UNCHANGED <<log, live, worker, stopped, permit, pos, size>>

Loop(n) == \/ Wake(n) \/ NoFile(n) \/ GetProperties(n) \/ CreateBlob(n)
           \/ AppendBlock(n) \/ AppendNothing(n)

Next == \E n \in Nodes :
          \/ WriteLog(n) \/ TaskExits(n)
          \/ StopSync(n) \/ StopSyncReturns(n) \/ DropUploader(n)
          \/ Loop(n) \/ AnswerLost(n) \/ SyncFails(n)

\* The agent's runtime polls the loop.
Spec == Init /\ [][Next]_vars /\ \A n \in Nodes : WF_vars(Loop(n))

----------------------------------------------------------------------------
(* Properties                                                              *)

Uploaded(n) == IF blob = NoBlob THEN {}
               ELSE {blob[i][2] : i \in {j \in 1..Len(blob) : blob[j][1] = n}}

\* With one node the blob is always a beginning of the log file: no byte is
\* missing in the middle, doubled or reordered, although passes fail, an append
\* may have taken effect when it fails, and the loop keeps no position.
BlobIsLog ==
    blob # NoBlob =>
      \A i \in 1..Len(blob) : \E n \in Nodes : blob[i] = <<n, i>> /\ i <= log[n]

\* A worker that has waited for the loop leaves the whole log behind, unless the
\* last pass failed (log_uploader.rs:165: a stopped loop does not try again).
FlushComplete ==
    \A n \in Nodes : worker[n] = "flushed" /\ n \notin cut => Uploaded(n) = 1..log[n]

\* One node runs the task: several share the blob, and what it holds then is a mixture
\* of their logs.
OneNode == \A m, n \in Nodes : m = n

\* An append that had taken effect took effect once more: from then on the length of the
\* blob says nothing of the file, a block is doubled and as many bytes are passed over.
Doubled == \E n \in Nodes : resent[n] = "doubled"

LogComplete == ~Doubled => BlobIsLog /\ FlushComplete

\* The loop has heard of the stop, at whatever point of a pass it came.
LoopEnds == \A n \in Nodes : worker[n] \in {"flushing", "flushed", "timedout"} => up[n] = "ended"
=============================================================================
