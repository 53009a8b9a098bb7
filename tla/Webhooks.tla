------------------------------ MODULE Webhooks ------------------------------
(***************************************************************************)
(* The delivery of one event to one webhook (WebhookOperations.cs).  The    *)
(* event's record in the WebhookMessageLog table counts the tries; a        *)
(* message in the "webhooks" queue makes the Functions host run             *)
(* QueueWebhooks, which reads the record, posts the event, writes the       *)
(* record back and, when the post failed, queues the event again.  The      *)
(* host deletes a message only when its function has returned: a host that  *)
(* dies in between has the same message handled again, until it has been   *)
(* dequeued maxDequeueCount times and goes to a queue that nobody reads.   *)
(***************************************************************************)
EXTENDS Naturals

CONSTANTS
    Workers,        \* functions of the host that may run at the same time
    MAX_TRIES,      \* 5 in the code
    MaxDequeue,     \* maxDequeueCount of the Functions host, 5 by default
    MaxDeaths,      \* bound on the deaths of a host or of the sender
    MaxLost,        \* bound on the answers lost after the endpoint had the event
    MaxFailedWrites,\* bound on the failing writes of a table and of the queue
    None

\* MAX_TRIES is positive: the first try is made unconditionally.
WebhooksAssumption == MAX_TRIES \in Nat \ {0}

VARIABLES
    webhook,    \* the webhook is registered
    sender,     \* AddEvent: "start", "logged" or "done"
    log,        \* the WebhookMessageLog record, or None
    queue,      \* visible messages about the event: they are all equal
    worker,     \* what each function is at: [at, message]
    posts,      \* posts made
    received,   \* posts the endpoint has accepted
    faults      \* deaths, lost answers and failed writes so far, and whether the
                \* sender or the host has dropped the event

vars == <<webhook, sender, log, queue, worker, posts, received, faults>>

States == {"Queued", "Retrying", "Succeeded", "Failed"}
Handled(message) == message.state \in {"Succeeded", "Failed"}
Idle == [at |-> "idle", message |-> None]

NoFaults == [deaths |-> 0, lost |-> 0, unsaved |-> 0, unqueued |-> 0, dropped |-> 0]

Init ==
    /\ webhook = TRUE
    /\ sender = "start"
    /\ log = None
    /\ queue = 0
    /\ worker = [w \in Workers |-> Idle]
    /\ posts = 0
    /\ received = 0
    /\ faults = NoFaults

\* Replace: an upsert whose failure is logged and otherwise ignored.
Replace(message) ==
    \/ log' = message /\ UNCHANGED faults
    \/ /\ faults.unsaved + faults.unqueued < MaxFailedWrites
       /\ faults' = [faults EXCEPT !.unsaved = @ + 1]
       /\ UNCHANGED log

\* QueueWebhook: only a Queued or Retrying message is queued; a failure is logged.
QueueWebhook(message) ==
    IF Handled(message) THEN UNCHANGED <<queue, faults>>
    ELSE \/ queue' = queue + 1 /\ UNCHANGED faults
         \/ /\ faults.unsaved + faults.unqueued < MaxFailedWrites
            /\ faults' = [faults EXCEPT !.unqueued = @ + 1]
            /\ UNCHANGED queue

NewMessage == [state |-> "Queued", tries |-> 0]

\* AddEvent: the record first, then the message, whether the record was saved or not.
AddEvent ==
    /\ sender = "start"
    /\ sender' = "logged"
    /\ Replace(NewMessage)
    /\ UNCHANGED <<webhook, queue, worker, posts, received>>

AddEventQueue ==
    /\ sender = "logged"
    /\ sender' = "done"
    /\ QueueWebhook(NewMessage)
    /\ UNCHANGED <<webhook, log, worker, posts, received>>

\* The function that raised the event dies between the two.
SenderDies ==
    /\ sender = "logged"
    /\ faults.deaths < MaxDeaths
    /\ sender' = "done"
    /\ faults' = [faults EXCEPT !.deaths = @ + 1, !.dropped = 1]
    /\ UNCHANGED <<webhook, log, queue, worker, posts, received>>

\* Mistake: a message about a handled event is an error, and comes back.
HandledIsError(w) ==
    /\ worker[w].at = "idle"
    /\ queue > 0
    /\ queue' = IF log = None \/ Handled(log) THEN queue ELSE queue - 1
    /\ worker' = [worker EXCEPT ![w] =
                    IF log = None \/ Handled(log) THEN [at |-> "return", message |-> None]
                    ELSE [at |-> "send", message |-> [log EXCEPT !.tries = @ + 1]]]
    /\ UNCHANGED <<webhook, sender, log, posts, received, faults>>

\* ProcessFromQueue and the head of Process: no record, or one that is already handled,
\* ends the function at once; otherwise the try is counted in memory.
ProcessFromQueue(w) ==
    /\ worker[w].at = "idle"
    /\ queue > 0
    /\ queue' = queue - 1
    /\ worker' = [worker EXCEPT ![w] =
                    IF log = None \/ Handled(log) THEN [at |-> "return", message |-> None]
                    ELSE [at |-> "send", message |-> [log EXCEPT !.tries = @ + 1]]]
    /\ UNCHANGED <<webhook, sender, log, posts, received, faults>>

\* Mistake: the count is not kept in the record.
CountForgotten(message, success) ==
    [state |-> IF success THEN "Succeeded"
               ELSE IF message.tries < MAX_TRIES THEN "Retrying" ELSE "Failed",
     tries |-> 0]

\* Process, once Send has said whether the post succeeded.
Outcome(message, success) ==
    [message EXCEPT !.state = IF success THEN "Succeeded"
                              ELSE IF message.tries < MAX_TRIES THEN "Retrying"
                              ELSE "Failed"]

Sent(w, success) ==
    worker' = [worker EXCEPT ![w] = [at |-> "record", message |-> Outcome(@.message, success)]]

\* Send: without the webhook it fails; the endpoint accepts or refuses the post, and the
\* answer to a post it accepted may be lost, which counts as a failure.
Send(w) ==
    /\ worker[w].at = "send"
    /\ \/ /\ ~webhook
          /\ Sent(w, FALSE)
          /\ UNCHANGED <<posts, received, faults>>
       \/ /\ webhook
          /\ posts' = posts + 1
          /\ \/ received' = received + 1 /\ Sent(w, TRUE) /\ UNCHANGED faults
             \/ UNCHANGED <<received, faults>> /\ Sent(w, FALSE)
             \/ /\ faults.lost < MaxLost
                /\ faults' = [faults EXCEPT !.lost = @ + 1]
                /\ received' = received + 1
                /\ Sent(w, FALSE)
    /\ UNCHANGED <<webhook, sender, log, queue>>

\* Mistake: a retry is not queued again.
RetryNotQueued(w) ==
    /\ worker[w].at = "record"
    /\ Replace(worker[w].message)
    /\ worker' = [worker EXCEPT ![w].at = "return"]
    /\ UNCHANGED <<webhook, sender, queue, posts, received>>

\* The outcome is written over whatever the record says by now.
Record(w) ==
    /\ worker[w].at = "record"
    /\ Replace(worker[w].message)
    /\ worker' = [worker EXCEPT ![w].at =
                    IF Handled(worker[w].message) THEN "return" ELSE "queue"]
    /\ UNCHANGED <<webhook, sender, queue, posts, received>>

Requeue(w) ==
    /\ worker[w].at = "queue"
    /\ QueueWebhook(worker[w].message)
    /\ worker' = [worker EXCEPT ![w].at = "return"]
    /\ UNCHANGED <<webhook, sender, log, posts, received>>

\* External: the function has returned and the host deletes its message.
DeleteMessage(w) ==
    /\ worker[w].at = "return"
    /\ worker' = [worker EXCEPT ![w] = Idle]
    /\ UNCHANGED <<webhook, sender, log, queue, posts, received, faults>>

\* External: the host dies while a function runs; the message becomes visible again,
\* or is moved to the poison queue.  Each of its dequeues but the last ended in a death:
\* there have been as many as maxDequeueCount.
HostDies(w) ==
    /\ worker[w].at # "idle"
    /\ faults.deaths < MaxDeaths
    /\ \/ /\ queue' = queue + 1
          /\ faults' = [faults EXCEPT !.deaths = @ + 1]
       \/ /\ faults.deaths + 1 >= MaxDequeue
          /\ faults' = [faults EXCEPT !.deaths = @ + 1, !.dropped = 1]
          /\ UNCHANGED queue
    /\ worker' = [worker EXCEPT ![w] = Idle]
    /\ UNCHANGED <<webhook, sender, log, posts, received>>

\* The webhook is deleted by a user: events under way find it gone.
DeleteWebhook ==
    /\ webhook
    /\ webhook' = FALSE
    /\ UNCHANGED <<sender, log, queue, worker, posts, received, faults>>

Running == {w \in Workers : worker[w].at # "idle"}

\* TimerDaily: a record untouched for EXPIRE_DAYS (7) is deleted, long after the last
\* of the retries, which are 30 seconds apart.
SearchExpired ==
    /\ log # None
    /\ sender = "done" /\ queue = 0 /\ Running = {}
    /\ log' = None
    /\ UNCHANGED <<webhook, sender, queue, worker, posts, received, faults>>

Function(w) == ProcessFromQueue(w) \/ Send(w) \/ Record(w) \/ Requeue(w) \/ DeleteMessage(w)

Next ==
    \/ AddEvent \/ AddEventQueue \/ SenderDies
    \/ \E w \in Workers : Function(w) \/ HostDies(w)
    \/ DeleteWebhook
    \/ SearchExpired

\* A host runs its functions to the end and takes the messages that are visible; the
\* daily timer fires.
Spec ==
    /\ Init /\ [][Next]_vars
    /\ WF_vars(AddEventQueue)
    /\ \A w \in Workers : WF_vars(Function(w))
    /\ WF_vars(SearchExpired)

Message == [state : States, tries : 0..MAX_TRIES]

\* The shape of the state: no record or message counts past MAX_TRIES.
TypeOK ==
    /\ webhook \in BOOLEAN
    /\ sender \in {"start", "logged", "done"}
    /\ log \in Message \cup {None}
    /\ queue \in Nat
    /\ worker \in [Workers -> [at : {"idle", "send", "record", "queue", "return"},
                               message : Message \cup {None}]]
    /\ posts \in Nat /\ received \in 0..posts
    /\ faults \in [DOMAIN NoFaults -> Nat]

\* A record that says Succeeded is about an event its endpoint has accepted.  One that is
\* neither delivered nor given up is still in the queue or in a function's hands, whatever
\* hosts died and however two functions' writes of the record interleave; only a failed
\* write, the sender's death or as many deaths as the host allows a message (MaxDequeue)
\* may leave it behind.
NeverForgotten ==
    /\ TypeOK
    /\ log # None /\ log.state = "Succeeded" => received > 0
    /\ log # None /\ ~Handled(log) /\ sender = "done" =>
         \/ queue > 0
         \/ \E w \in Workers : worker[w].at \in {"send", "record", "queue"}
         \/ faults.unsaved + faults.unqueued + faults.dropped > 0

\* The endpoint gets an event twice only when a host died or an answer was lost: a
\* failed write of the record alone never repeats a delivery.  More than MAX_TRIES posts
\* are made only when a host died, which forks the retries, or the count could not be
\* written.
RepeatedOnlyByFault ==
    /\ received > 1 => faults.deaths + faults.lost > 0
    /\ posts > MAX_TRIES => faults.deaths + faults.unsaved > 0

\* Deliveries end: for good, nothing is queued, no function runs, and the record is
\* gone after its seven days, however the retries were forked.
DeliveryOver == sender = "start" \/ (queue = 0 /\ Running = {} /\ log = None)
DeliveryEnds == <>[]DeliveryOver
=============================================================================
