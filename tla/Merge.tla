------------------------------- MODULE Merge -------------------------------
(***************************************************************************)
(* The corpus merge tasks of onefuzz-task.  Several nodes pop candidate     *)
(* inputs from a queue, merge each into the corpus unique_inputs, then      *)
(* delete the message and the candidate's blob.  The corpus is a container  *)
(* that every node copies to its disk and back with azcopy or rsync.        *)
(*                                                                          *)
(* An input is abstracted to the features it covers; a merge keeps the      *)
(* candidates that add a feature.  The libFuzzer task without an input      *)
(* queue (QueueMode FALSE) merges whole directories once and ends.          *)
(***************************************************************************)
EXTENDS Naturals, FiniteSets

CONSTANTS
    Worker, Input, Feature,
    Covers,      \* the features each input covers
    Msg,         \* messages of the input queue; each names another input
    MsgInput,    \* the input a message names, BadUrl when it does not parse
    BadUrl, None,
    Kind,        \* which merge task: "generic" or "libfuzzer"
    QueueMode,   \* libfuzzer: Config::input_queue is given
    Preserve,    \* libfuzzer: Config::preserve_existing_outputs
    MaxFailure,  \* MAX_FAILURE_COUNT of az_copy
    MaxRetry,    \* MAX_RETRY_COUNT of az_copy
    MaxPops      \* bound on the deliveries of a message

MergeAssumption ==
    /\ Covers \in [Input -> SUBSET Feature]
    /\ MsgInput \in [Msg -> Input \cup {BadUrl}]
    /\ \A m, n \in Msg : MsgInput[m] = MsgInput[n] /\ m # n => MsgInput[m] = BadUrl
    /\ BadUrl \notin Input /\ None \notin Msg \cup Input
    /\ Kind \in {"generic", "libfuzzer"}
    /\ QueueMode \in BOOLEAN /\ Preserve \in BOOLEAN
    /\ (Kind = "generic" => QueueMode)
    /\ MaxFailure \in Nat /\ MaxRetry \in Nat /\ MaxPops \in Nat

VARIABLES
    candidates,  \* the blobs of the candidate container
    queue,       \* state and last receipt of each message
    remote,      \* the unique_inputs container
    local,       \* each node's copy of it, Config::unique_inputs.local_path
    tmp,         \* ./tmp of each node, or its input directories in batch mode
    pc, held, receipt,
    attempts,    \* attempt_counter of the azcopy under way
    failures,    \* failure_counter
    printed,     \* history: inputs of merges whose process printed no result
    merged,      \* history: inputs whose message a node deleted as processed
    behind       \* history: nodes with a push that failed, and none since that did not

store == <<candidates, queue>>
local_vars == <<tmp, held, receipt>>
counters == <<attempts, failures>>
history == <<printed, merged, behind>>
vars == <<store, remote, local, local_vars, pc, counters, history>>

CovOf(s) == UNION {Covers[i] : i \in s}

State == {"verify", "idle", "pull", "polled", "parsed", "merge", "push",
          "delete", "delete_blob", "done", "failed"}

TypeOK ==
    /\ candidates \subseteq Input
    /\ queue \in [Msg -> [state : {"unsent", "visible", "hidden", "deleted"},
                          receipt : 0..MaxPops]]
    /\ remote \subseteq Input
    /\ local \in [Worker -> SUBSET Input] /\ tmp \in [Worker -> SUBSET Input]
    /\ pc \in [Worker -> State]
    /\ held \in [Worker -> Msg \cup {None}]
    /\ receipt \in [Worker -> 0..MaxPops]
    /\ attempts \in [Worker -> 0..MaxRetry]
    /\ failures \in [Worker -> 0..MaxFailure]
    /\ printed \subseteq Input /\ merged \subseteq Input /\ behind \subseteq Worker

Init ==
    /\ candidates = {} /\ remote \in SUBSET Input
    /\ queue = [m \in Msg |-> [state |-> "unsent", receipt |-> 0]]
    /\ local = [w \in Worker |-> {}] /\ tmp = [w \in Worker |-> {}]
    /\ pc = [w \in Worker |-> "verify"]
    /\ held = [w \in Worker |-> None] /\ receipt = [w \in Worker |-> 0]
    /\ attempts = [w \in Worker |-> 0] /\ failures = [w \in Worker |-> 0]
    /\ printed = {} /\ merged = {} /\ behind = {}

Goto(w, s) == pc' = [pc EXCEPT ![w] = s]
Set(f, w, v) == [f EXCEPT ![w] = v]

-----------------------------------------------------------------------------
(* The candidate container and its queue.                                    *)

Found(i) ==
    /\ i \notin candidates \cup merged
    /\ candidates' = candidates \cup {i}
    /\ UNCHANGED <<queue, remote, local, local_vars, pc, counters, history>>

Announce(m) ==
    /\ queue[m].state = "unsent" /\ MsgInput[m] \in candidates \cup {BadUrl}
    /\ queue' = [queue EXCEPT ![m].state = "visible"]
    /\ UNCHANGED <<candidates, remote, local, local_vars, pc, counters, history>>

Expire(m) ==
    /\ queue[m].state = "hidden" /\ queue[m].receipt < MaxPops
    /\ queue' = [queue EXCEPT ![m].state = "visible"]
    /\ UNCHANGED <<candidates, remote, local, local_vars, pc, counters, history>>

-----------------------------------------------------------------------------
(* What an error does: the libFuzzer task logs it and processes the next     *)
(* message; the generic task ends, except for an error of process_message.   *)

OnError(w) ==
    Goto(w, IF \/ Kind = "libfuzzer" /\ QueueMode
               \/ Kind = "generic" /\ pc[w] \in {"parsed", "push"}
            THEN "idle" ELSE "failed")

\* LibFuzzer::verify, or the download of the tools, and the init of the corpus.
Start(w) ==
    /\ pc[w] = "verify"
    /\ \/ QueueMode /\ Goto(w, "idle") /\ UNCHANGED tmp
       \/ ~QueueMode /\ Goto(w, "merge") /\ tmp' = Set(tmp, w, candidates)
       \/ Goto(w, "failed") /\ UNCHANGED tmp
    /\ UNCHANGED <<store, remote, local, held, receipt, counters, history>>

\* The generic task pulls the corpus before it pops a message, the libFuzzer
\* task once it has a candidate; both have emptied ./tmp by then.
Reset(w) ==
    /\ pc[w] = "idle"
    /\ tmp' = Set(tmp, w, {})
    /\ held' = Set(held, w, None)
    /\ Goto(w, IF Kind = "generic" THEN "pull" ELSE "polled")
    /\ UNCHANGED <<store, remote, local, receipt, counters, history>>

-----------------------------------------------------------------------------
(* SyncedDir::sync.  az_copy retries what fails; a failed attempt may have   *)
(* copied a part.  "source modified during transfer" is not counted as a     *)
(* failure, only as an attempt.                                              *)

SyncDone(w) ==
    /\ attempts' = Set(attempts, w, 0)
    /\ failures' = Set(failures, w, 0)

\* failure_count is the counter before the addition.
AttemptFailed(w, counted) ==
    IF failures[w] >= MaxFailure \/ attempts[w] >= MaxRetry
    THEN SyncDone(w) /\ OnError(w)
    ELSE /\ attempts' = Set(attempts, w, attempts[w] + 1)
         /\ failures' = Set(failures, w, IF counted THEN failures[w] + 1 ELSE failures[w])
         /\ UNCHANGED pc

PullAttempt(w) ==
    /\ pc[w] = "pull"
    /\ \/ /\ local' = Set(local, w, local[w] \cup remote)
          /\ SyncDone(w)
          /\ Goto(w, IF Kind = "generic" THEN "polled" ELSE "merge")
       \/ /\ \E part \in SUBSET (remote \ local[w]) :
                local' = Set(local, w, local[w] \cup part)
          /\ \E counted \in BOOLEAN : AttemptFailed(w, counted)
    /\ UNCHANGED <<store, remote, local_vars, history>>

\* What is pushed: the supervisor's output, or the libFuzzer corpus.
Pushed(w) == IF Kind = "generic" THEN tmp[w] ELSE local[w]

\* --delete-destination, only in the batch mode of the libFuzzer task.
Doomed(w) == IF QueueMode \/ Preserve THEN {} ELSE remote \ Pushed(w)

PushAttempt(w) ==
    /\ pc[w] = "push"
    /\ \/ /\ remote' = (remote \cup Pushed(w)) \ Doomed(w)
          /\ SyncDone(w) /\ behind' = behind \ {w}
          /\ Goto(w, IF QueueMode THEN "delete" ELSE "done")
       \/ /\ \E up \in SUBSET (Pushed(w) \ remote) : \E del \in SUBSET Doomed(w) :
                remote' = (remote \cup up) \ del
          /\ behind' = behind \cup {w}
          /\ \E counted \in BOOLEAN : AttemptFailed(w, counted)
    /\ UNCHANGED <<store, local, local_vars, printed, merged>>

-----------------------------------------------------------------------------
(* One candidate.                                                            *)

\* pop; the answer may be lost, and the message is then hidden for nothing.
Pop(w) ==
    /\ pc[w] = "polled" /\ held[w] = None
    /\ \E m \in Msg :
         /\ queue[m].state = "visible" /\ queue[m].receipt < MaxPops
         /\ queue' = [queue EXCEPT ![m] = [state |-> "hidden", receipt |-> @.receipt + 1]]
         /\ \/ /\ held' = Set(held, w, m)
               /\ receipt' = Set(receipt, w, queue[m].receipt + 1)
               /\ UNCHANGED pc
            \/ OnError(w) /\ UNCHANGED <<held, receipt>>
    /\ UNCHANGED <<candidates, remote, local, tmp, counters, history>>

PopEmpty(w) ==
    /\ pc[w] = "polled" /\ held[w] = None
    /\ \A m \in Msg : queue[m].state # "visible"
    /\ Goto(w, "idle")
    /\ UNCHANGED <<store, remote, local, local_vars, counters, history>>

\* A message that does not parse stays in the queue; the generic task returns.
Parse(w) ==
    /\ pc[w] = "polled" /\ held[w] # None
    /\ IF MsgInput[held[w]] = BadUrl
       THEN Goto(w, IF Kind = "generic" THEN "done" ELSE "idle")
       ELSE Goto(w, "parsed")
    /\ UNCHANGED <<store, remote, local, local_vars, counters, history>>

\* The libFuzzer task downloads to ./tmp, the generic task into the corpus.
Save(w, i) ==
    IF Kind = "generic"
    THEN local' = Set(local, w, local[w] \cup {i}) /\ UNCHANGED tmp
    ELSE tmp' = Set(tmp, w, tmp[w] \cup {i}) /\ UNCHANGED local

Download(w) ==
    LET i == MsgInput[held[w]]
    IN  /\ pc[w] = "parsed"
        /\ \/ /\ i \in candidates
              /\ Save(w, i)
              /\ Goto(w, IF Kind = "generic" THEN "merge" ELSE "pull")
           \/ OnError(w) /\ UNCHANGED <<local, tmp>>
        /\ UNCHANGED <<store, remote, held, receipt, counters, history>>

\* sync_and_merge pushes the corpus when the merge has added a file to it.
AfterMerge(w, add) ==
    Goto(w, IF add # {} THEN "push" ELSE IF QueueMode THEN "delete" ELSE "done")

\* A merge that does not start is an error of process_message.
MergeError(w) == OnError(w)

\* libFuzzer -merge=1 copies some of the candidates so that the corpus covers
\* all their features.  A process that ends without the MERGE-OUTER line, a
\* crash for instance, counts as a merge that added nothing.
MergeLibFuzzer(w) ==
    /\ Kind = "libfuzzer" /\ pc[w] = "merge"
    /\ \/ \E add \in SUBSET tmp[w] :
            /\ CovOf(local[w] \cup add) = CovOf(local[w] \cup tmp[w])
            /\ \A i \in add : CovOf(local[w] \cup (add \ {i})) # CovOf(local[w] \cup add)
            /\ local' = Set(local, w, local[w] \cup add)
            /\ AfterMerge(w, add)
            /\ UNCHANGED printed
       \/ /\ AfterMerge(w, {})
          /\ printed' = printed \cup tmp[w]
          /\ UNCHANGED local
       \/ MergeError(w) /\ UNCHANGED <<local, printed>>
    /\ UNCHANGED <<store, remote, local_vars, counters, merged, behind>>

\* The supervisor writes a minimised corpus to ./tmp; its exit status is not
\* looked at, and a merge that does not start is logged only.
MergeGeneric(w) ==
    /\ Kind = "generic" /\ pc[w] = "merge"
    /\ \/ \E out \in SUBSET local[w] :
            /\ CovOf(out) = CovOf(local[w])
            /\ tmp' = Set(tmp, w, out) /\ Goto(w, "push") /\ UNCHANGED printed
       \/ /\ \E out \in SUBSET local[w] : tmp' = Set(tmp, w, out)
          /\ printed' = printed \cup {MsgInput[held[w]]} /\ Goto(w, "push")
       \/ /\ Goto(w, "delete") /\ UNCHANGED tmp
          /\ printed' = printed \cup {MsgInput[held[w]]}
    /\ UNCHANGED <<store, remote, local, held, receipt, counters, merged, behind>>

Deletable(w) ==
    queue[held[w]].state # "deleted" /\ queue[held[w]].receipt = receipt[w]

\* msg.delete: only the last receipt of the message deletes it; the answer may
\* be lost.
DeleteMessage(w) ==
    /\ pc[w] = "delete"
    /\ \/ /\ Deletable(w)
          /\ queue' = [queue EXCEPT ![held[w]].state = "deleted"]
          /\ merged' = merged \cup {MsgInput[held[w]]}
          /\ Goto(w, "delete_blob") \/ OnError(w)
       \/ UNCHANGED <<queue, merged>> /\ OnError(w)
    /\ UNCHANGED <<candidates, remote, local, local_vars, counters, printed, behind>>

\* try_delete_blob: an error is only logged.
DeleteBlob(w) ==
    /\ pc[w] = "delete_blob"
    /\ candidates' = candidates \ {MsgInput[held[w]]} \/ UNCHANGED candidates
    /\ Goto(w, "idle")
    /\ UNCHANGED <<queue, remote, local, local_vars, counters, history>>

Step(w) ==
    \/ Start(w) \/ Reset(w) \/ PullAttempt(w) \/ Pop(w) \/ PopEmpty(w) \/ Parse(w)
    \/ Download(w) \/ MergeLibFuzzer(w) \/ MergeGeneric(w)
    \/ PushAttempt(w) \/ DeleteMessage(w) \/ DeleteBlob(w)

Next ==
    \/ \E i \in Input : Found(i)
    \/ \E m \in Msg : Announce(m) \/ Expire(m)
    \/ \E w \in Worker : Step(w)

Spec == Init /\ [][Next]_vars

-----------------------------------------------------------------------------
(* Properties.                                                               *)

\* What only nodes hold: a libFuzzer task whose push failed has merged the input
\* into its own copy, so that the retry finds "no new files" and does not push.
LeftBehind == IF Kind = "libfuzzer" THEN UNION {local[w] : w \in behind} ELSE {}

\* The features of a candidate whose message was deleted are in the corpus
\* container.  Excepted are a merge process that produced nothing, which the task
\* takes for one that found nothing new, and what a libFuzzer task left behind:
\* after a push that failed, the retry deletes the message without a push, and
\* until the node's next new input only the node's copy holds the features.  A
\* node none of whose pushes failed leaves nothing behind.
NothingForgotten ==
    QueueMode =>
    \A i \in merged \ printed : Covers[i] \subseteq CovOf(remote \cup LeftBehind)

\* A candidate's blob is deleted after its message, and only by the node that
\* holds the message's last receipt: a message that a node may still pop never
\* names a blob that is gone.
MessageHasBlob ==
    \A m \in Msg : queue[m].state \in {"visible", "hidden"} /\ MsgInput[m] # BadUrl
                      => MsgInput[m] \in candidates

\* A message that is gone has left its features, and one that is not has its blob.
AcknowledgedIsStored == NothingForgotten /\ MessageHasBlob

\* Nodes push into the same container at the same time, some from stale copies:
\* with a queue, no push takes an input away from the corpus.
StoredStays == QueueMode \/ Preserve => remote \subseteq remote'

\* When all the nodes have ended a batch merge of the same inputs without an
\* error, the corpus covers every feature of the inputs, although each push
\* deletes what the others have pushed.
ExistingHandled ==
    /\ ~QueueMode
    /\ \A v, w \in Worker : pc[v] = "done" /\ tmp[v] = tmp[w] /\ tmp[v] \cap printed = {}
    => \A w \in Worker : CovOf(tmp[w]) \subseteq CovOf(remote)
=============================================================================
