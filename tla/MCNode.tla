-------------------------------- MODULE MCNode --------------------------------
(***************************************************************************)
(* The parts of a node around the agent's main loop, the proxy, and the     *)
(* delivery of webhook events, as one instance for TLC with the fairness of *)
(* their loops.  part says which one runs; the others stay as they are.     *)
(***************************************************************************)
EXTENDS Naturals, Sequences

CONSTANTS
    None,
    MAX_RETRY_ATTEMPTS, MaxFaults, MaxExpiries,                      \* Registration
    Nodes, Messages, UnitsOf, MaxSlow, MaxLostRequests, MaxOutdated, \* PoolQueue
    Streams, MaxOut, MaxTail, MaxOomErrors, MinMemory,               \* TaskProcess
    Uploaders, MaxLog, MaxBlock, MaxFails,                           \* LogUploader
    Ports, Machines, MaxProxyRetries, MaxChanges, MaxCrashes,        \* ProxyManager
    Workers, MAX_TRIES, MaxDequeue, MaxDeaths, MaxLost, MaxFailedWrites \* Webhooks

VARIABLES
    part, provisioned, record, command, file, sas, token, lastPoll, pc, kind, after,
    attempt, answer, late, nf, ne, faults, expiries, queue, stopped, outdated, node,
    ran, fate, changes, slow, w, ret, out, accept1, accept2, chan, chan2, p, result,
    listener, oom, errors, low, heir, written, pipe, tail, reader, log, live, worker,
    up, permit, pos, size, blob, fails, cut, resent, table, heartbeat, data, current,
    saved, savedCurrent, etag, files, active, todo, unit, crashes, webhook, sender,
    posts, received

vars == <<part, provisioned, record, command, file, sas, token, lastPoll, pc, kind,
          after, attempt, answer, late, nf, ne, faults, expiries, queue, stopped,
          outdated, node, ran, fate, changes, slow, w, ret, out, accept1, accept2, chan,
          chan2, p, result, listener, oom, errors, low, heir, written, pipe, tail,
          reader, log, live, worker, up, permit, pos, size, blob, fails, cut, resent,
          table, heartbeat, data, current, saved, savedCurrent, etag, files, active,
          todo, unit, crashes, webhook, sender, posts, received>>

Register == INSTANCE Registration
Pool == INSTANCE PoolQueue WITH MaxFaults <- MaxLostRequests
Process == INSTANCE TaskProcess
Log == INSTANCE LogUploader WITH Nodes <- Uploaders, NoBlob <- None
Proxy == INSTANCE ProxyManager WITH MAX_RETRY_ATTEMPTS <- MaxProxyRetries
Hooks == INSTANCE Webhooks

\* What the components assume of their constants.
ASSUME NodeAssumption ==
    /\ Register!RegistrationAssumption
    /\ Pool!PoolQueueAssumption
    /\ Process!TaskProcessAssumption
    /\ Log!LogUploaderAssumption /\ Log!OneNode
    /\ Proxy!ProxyManagerAssumption
    /\ Hooks!WebhooksAssumption

\* The work sets that TLC uses: two units, and one.
TwoWorkSets == [w1 |-> <<"a", "b">>, w2 |-> <<"c">>]

RegistrationIdle ==
    /\ queue = None /\ stopped = None /\ outdated = None /\ node = None /\ ran = None
    /\ fate = None /\ changes = None /\ slow = None /\ w = None /\ ret = None
    /\ out = None /\ accept1 = None /\ accept2 = None /\ chan = None /\ chan2 = None
    /\ p = None /\ result = None /\ listener = None /\ oom = None /\ errors = None
    /\ low = None /\ heir = None /\ written = None /\ pipe = None /\ tail = None
    /\ reader = None /\ log = None /\ live = None /\ worker = None /\ up = None
    /\ permit = None /\ pos = None /\ size = None /\ blob = None /\ fails = None
    /\ cut = None /\ resent = None /\ table = None /\ heartbeat = None /\ data = None
    /\ current = None /\ saved = None /\ savedCurrent = None /\ etag = None
    /\ files = None /\ active = None /\ todo = None /\ unit = None /\ crashes = None
    /\ webhook = None /\ sender = None /\ posts = None /\ received = None
RegistrationOthers == <<part, queue, stopped, outdated, node, ran, fate, changes, slow,
    w, ret, out, accept1, accept2, chan, chan2, p, result, listener, oom, errors, low,
    heir, written, pipe, tail, reader, log, live, worker, up, permit, pos, size, blob,
    fails, cut, resent, table, heartbeat, data, current, saved, savedCurrent, etag,
    files, active, todo, unit, crashes, webhook, sender, posts, received>>

PoolQueueIdle ==
    /\ provisioned = None /\ record = None /\ command = None /\ file = None
    /\ sas = None /\ token = None /\ lastPoll = None /\ pc = None /\ kind = None
    /\ after = None /\ attempt = None /\ answer = None /\ late = None /\ nf = None
    /\ ne = None /\ expiries = None /\ w = None /\ ret = None /\ out = None
    /\ accept1 = None /\ accept2 = None /\ chan = None /\ chan2 = None /\ p = None
    /\ result = None /\ listener = None /\ oom = None /\ errors = None /\ low = None
    /\ heir = None /\ written = None /\ pipe = None /\ tail = None /\ reader = None
    /\ log = None /\ live = None /\ worker = None /\ up = None /\ permit = None
    /\ pos = None /\ size = None /\ blob = None /\ fails = None /\ cut = None
    /\ resent = None /\ table = None /\ heartbeat = None /\ data = None
    /\ current = None /\ saved = None /\ savedCurrent = None /\ etag = None
    /\ files = None /\ active = None /\ todo = None /\ unit = None /\ crashes = None
    /\ webhook = None /\ sender = None /\ posts = None /\ received = None
PoolQueueOthers == <<part, provisioned, record, command, file, sas, token, lastPoll, pc,
    kind, after, attempt, answer, late, nf, ne, expiries, w, ret, out, accept1, accept2,
    chan, chan2, p, result, listener, oom, errors, low, heir, written, pipe, tail,
    reader, log, live, worker, up, permit, pos, size, blob, fails, cut, resent, table,
    heartbeat, data, current, saved, savedCurrent, etag, files, active, todo, unit,
    crashes, webhook, sender, posts, received>>

ProcessIdle ==
    /\ provisioned = None /\ record = None /\ command = None /\ file = None
    /\ sas = None /\ token = None /\ lastPoll = None /\ pc = None /\ kind = None
    /\ after = None /\ attempt = None /\ answer = None /\ late = None /\ nf = None
    /\ ne = None /\ faults = None /\ expiries = None /\ queue = None /\ outdated = None
    /\ node = None /\ ran = None /\ fate = None /\ changes = None /\ slow = None
    /\ log = None /\ live = None /\ worker = None /\ up = None /\ permit = None
    /\ pos = None /\ size = None /\ blob = None /\ fails = None /\ cut = None
    /\ resent = None /\ table = None /\ heartbeat = None /\ data = None
    /\ current = None /\ saved = None /\ savedCurrent = None /\ etag = None
    /\ files = None /\ active = None /\ todo = None /\ unit = None /\ crashes = None
    /\ webhook = None /\ sender = None /\ posts = None /\ received = None
ProcessOthers == <<part, provisioned, record, command, file, sas, token, lastPoll, pc,
    kind, after, attempt, answer, late, nf, ne, faults, expiries, queue, outdated, node,
    ran, fate, changes, slow, log, live, worker, up, permit, pos, size, blob, fails,
    cut, resent, table, heartbeat, data, current, saved, savedCurrent, etag, files,
    active, todo, unit, crashes, webhook, sender, posts, received>>

LogIdle ==
    /\ provisioned = None /\ record = None /\ command = None /\ file = None
    /\ sas = None /\ token = None /\ lastPoll = None /\ pc = None /\ kind = None
    /\ after = None /\ attempt = None /\ answer = None /\ late = None /\ nf = None
    /\ ne = None /\ faults = None /\ expiries = None /\ queue = None /\ outdated = None
    /\ node = None /\ ran = None /\ fate = None /\ changes = None /\ slow = None
    /\ w = None /\ ret = None /\ out = None /\ accept1 = None /\ accept2 = None
    /\ chan = None /\ chan2 = None /\ p = None /\ result = None /\ listener = None
    /\ oom = None /\ errors = None /\ low = None /\ heir = None /\ written = None
    /\ pipe = None /\ tail = None /\ reader = None /\ table = None /\ heartbeat = None
    /\ data = None /\ current = None /\ saved = None /\ savedCurrent = None
    /\ etag = None /\ files = None /\ active = None /\ todo = None /\ unit = None
    /\ crashes = None /\ webhook = None /\ sender = None /\ posts = None
    /\ received = None
LogOthers == <<part, provisioned, record, command, file, sas, token, lastPoll, pc, kind,
    after, attempt, answer, late, nf, ne, faults, expiries, queue, outdated, node, ran,
    fate, changes, slow, w, ret, out, accept1, accept2, chan, chan2, p, result,
    listener, oom, errors, low, heir, written, pipe, tail, reader, table, heartbeat,
    data, current, saved, savedCurrent, etag, files, active, todo, unit, crashes,
    webhook, sender, posts, received>>

ProxyIdle ==
    /\ provisioned = None /\ record = None /\ command = None /\ file = None
    /\ sas = None /\ token = None /\ lastPoll = None /\ kind = None /\ after = None
    /\ answer = None /\ late = None /\ nf = None /\ ne = None /\ faults = None
    /\ expiries = None /\ queue = None /\ stopped = None /\ outdated = None
    /\ node = None /\ ran = None /\ fate = None /\ slow = None /\ w = None /\ ret = None
    /\ out = None /\ accept1 = None /\ accept2 = None /\ chan = None /\ chan2 = None
    /\ p = None /\ result = None /\ listener = None /\ oom = None /\ errors = None
    /\ low = None /\ heir = None /\ written = None /\ pipe = None /\ tail = None
    /\ reader = None /\ log = None /\ live = None /\ worker = None /\ up = None
    /\ permit = None /\ pos = None /\ size = None /\ fails = None /\ cut = None
    /\ resent = None /\ webhook = None /\ sender = None /\ posts = None
    /\ received = None
ProxyOthers == <<part, provisioned, record, command, file, sas, token, lastPoll, kind,
    after, answer, late, nf, ne, faults, expiries, queue, stopped, outdated, node, ran,
    fate, slow, w, ret, out, accept1, accept2, chan, chan2, p, result, listener, oom,
    errors, low, heir, written, pipe, tail, reader, log, live, worker, up, permit, pos,
    size, fails, cut, resent, webhook, sender, posts, received>>

HooksIdle ==
    /\ provisioned = None /\ record = None /\ command = None /\ file = None
    /\ sas = None /\ token = None /\ lastPoll = None /\ pc = None /\ kind = None
    /\ after = None /\ attempt = None /\ answer = None /\ late = None /\ nf = None
    /\ ne = None /\ expiries = None /\ stopped = None /\ outdated = None /\ node = None
    /\ ran = None /\ fate = None /\ changes = None /\ slow = None /\ w = None
    /\ ret = None /\ out = None /\ accept1 = None /\ accept2 = None /\ chan = None
    /\ chan2 = None /\ p = None /\ result = None /\ listener = None /\ oom = None
    /\ errors = None /\ low = None /\ heir = None /\ written = None /\ pipe = None
    /\ tail = None /\ reader = None /\ live = None /\ up = None /\ permit = None
    /\ pos = None /\ size = None /\ blob = None /\ fails = None /\ cut = None
    /\ resent = None /\ table = None /\ heartbeat = None /\ data = None
    /\ current = None /\ saved = None /\ savedCurrent = None /\ etag = None
    /\ files = None /\ active = None /\ todo = None /\ unit = None /\ crashes = None
HooksOthers == <<part, provisioned, record, command, file, sas, token, lastPoll, pc,
    kind, after, attempt, answer, late, nf, ne, expiries, stopped, outdated, node, ran,
    fate, changes, slow, w, ret, out, accept1, accept2, chan, chan2, p, result,
    listener, oom, errors, low, heir, written, pipe, tail, reader, live, up, permit,
    pos, size, blob, fails, cut, resent, table, heartbeat, data, current, saved,
    savedCurrent, etag, files, active, todo, unit, crashes>>

Init ==
    \/ part = "registration" /\ Register!Init /\ RegistrationIdle
    \/ part = "pool_queue" /\ Pool!Init /\ PoolQueueIdle
    \/ part = "task_process" /\ Process!Init /\ ProcessIdle
    \/ part = "log_uploader" /\ Log!Init /\ LogIdle
    \/ part = "proxy_manager" /\ Proxy!Init /\ ProxyIdle
    \/ part = "webhooks" /\ Hooks!Init /\ HooksIdle

RunRegister == part = "registration" /\ Register!Next /\ UNCHANGED RegistrationOthers
RunPool == part = "pool_queue" /\ Pool!Next /\ UNCHANGED PoolQueueOthers
RunProcess == part = "task_process" /\ Process!Next /\ UNCHANGED ProcessOthers
RunLog == part = "log_uploader" /\ Log!Next /\ UNCHANGED LogOthers
RunProxy == part = "proxy_manager" /\ Proxy!Next /\ UNCHANGED ProxyOthers
RunHooks == part = "webhooks" /\ Hooks!Next /\ UNCHANGED HooksOthers

Next ==
    \/ RunRegister
    \/ RunPool
    \/ RunProcess
    \/ RunLog
    \/ RunProxy
    \/ RunHooks

\* The agent, the uploader and the proxy manager are restarted and go on; the service
\* answers, the visibility timeout passes, nodes that are done are reimaged.  The
\* functions' host runs its functions to the end, and the daily timer fires.  The task
\* itself owes nothing to the agent; it is only when the agent has gone that its own
\* threads are trusted to run.
Fairness ==
    /\ WF_vars(part = "registration" /\ Register!Agent /\ UNCHANGED RegistrationOthers)
    /\ WF_vars(part = "registration" /\ Register!PollQueue /\ UNCHANGED RegistrationOthers)
    /\ WF_vars(part = "registration" /\ Register!Provision /\ UNCHANGED RegistrationOthers)
    /\ \A n \in Nodes :
         /\ WF_vars(part = "pool_queue" /\ Pool!Answer(n) /\ UNCHANGED PoolQueueOthers)
         /\ SF_vars(part = "pool_queue" /\ Pool!Reimage(n) /\ UNCHANGED PoolQueueOthers)
    /\ \A m \in Messages :
         /\ WF_vars(part = "pool_queue" /\ Pool!VisibilityTimeout(m) /\ UNCHANGED PoolQueueOthers)
         /\ SF_vars(part = "pool_queue" /\ (\E n \in Nodes : Pool!Pop(n, m)) /\ UNCHANGED PoolQueueOthers)
    /\ \A n \in Uploaders :
         WF_vars(part = "log_uploader" /\ Log!Loop(n) /\ UNCHANGED LogOthers)
    /\ WF_vars(part = "task_process" /\ Process!Worker /\ UNCHANGED ProcessOthers)
    /\ WF_vars(part = "task_process" /\ Process!StopTimeout /\ UNCHANGED ProcessOthers)
    /\ WF_vars(part = "task_process" /\ Process!Readers /\ UNCHANGED ProcessOthers)
    /\ WF_vars(part = "task_process" /\ Process!Left(Process!Connect1 \/ Process!Connect2) /\ UNCHANGED ProcessOthers)
    /\ WF_vars(part = "task_process" /\ Process!Left(Process!Listen) /\ UNCHANGED ProcessOthers)
    /\ WF_vars(part = "task_process" /\ Process!Left(Process!OutOfMemory) /\ UNCHANGED ProcessOthers)
    /\ WF_vars(part = "task_process" /\ Process!Left(Process!Shutdown) /\ UNCHANGED ProcessOthers)
    /\ WF_vars(part = "task_process" /\ Process!Left(Process!Exit) /\ UNCHANGED ProcessOthers)
    /\ WF_vars(part = "proxy_manager" /\ Proxy!Manager /\ UNCHANGED ProxyOthers)
    /\ WF_vars(part = "proxy_manager" /\ Proxy!TimerProxy /\ UNCHANGED ProxyOthers)
    /\ WF_vars(part = "webhooks" /\ Hooks!AddEventQueue /\ UNCHANGED HooksOthers)
    /\ \A h \in Workers :
         WF_vars(part = "webhooks" /\ Hooks!Function(h) /\ UNCHANGED HooksOthers)
    /\ WF_vars(part = "webhooks" /\ Hooks!SearchExpired /\ UNCHANGED HooksOthers)

Spec == Init /\ [][Next]_vars /\ Fairness

\* The type invariants of the components (TaskProcess has its own in ProcessAccounted,
\* Webhooks in NeverForgotten).
TypeOK ==
    /\ part = "registration" => Register!TypeOK
    /\ part = "pool_queue" => Pool!TypeOK
    /\ part = "log_uploader" => Log!TypeOK
    /\ part = "proxy_manager" => Proxy!TypeOK

\* Pool queue: a work set is scheduled by one node at most, however slow a node is
\* between its pop and its claim, and none is both dropped and scheduled (WorkQueue::poll,
\* claim, AgentCanSchedule).
ScheduledOnce == part = "pool_queue" => Pool!ScheduledOnce

\* Task processes: the output that is reported is the end of what was written, whatever
\* the reads looked like (redirect_output, TailBuffer); a worker that is done has no
\* process and its channel is closed; a task is asked to shut down only for a reason.
ProcessAccounted ==
    /\ TypeOK
    /\ part = "task_process" => Process!ProcessAccounted

\* Log upload: the blob is always a beginning of the log file, although passes fail, an
\* append may have taken effect when it fails, and no position is kept; a worker that
\* has waited for the loop leaves the whole log behind (start_sync, sync_file).  It is
\* over with an append that azure_core sends again after it had taken effect: nothing in
\* append_block says where the block belongs.
LogComplete == part = "log_uploader" => Log!LogComplete

\* Proxy: when it is about to report its forwards, and nothing has killed it, it serves
\* exactly those (proxy::update, notify).
ServesWhatItReports == part = "proxy_manager" => Proxy!ServesWhatItReports

\* Webhooks: an event that is neither delivered nor given up is still queued or in a
\* function's hands, whatever hosts died and however the writes of its record
\* interleave, as long as no write failed and no message went to the poison queue, for
\* which it takes as many deaths as a message has dequeues (WebhookOperations.Process,
\* QueueWebhook).
NeverForgotten == part = "webhooks" => Hooks!NeverForgotten

\* Webhooks: an event is accepted twice only after a death or a lost answer, and tried
\* more than MAX_TRIES times only after a death or a failed write of the count.
RepeatedOnlyByFault == part = "webhooks" => Hooks!RepeatedOnlyByFault

\* Requests: one of the Coordinator fails only after as many faults as send_retry
\* tolerates, or the 15 minutes of its backoff, or when its token expires twice; until
\* then no command is lost by being deleted before it is executed, and no record of a
\* registered node is replaced, with which the commands for it go (Coordinator::send,
\* poll_commands, Registration::load_existing, AgentRegistration.Post).
FaultsTolerated ==
    [][part = "registration" =>
        Register!FaultsTolerated /\ Register!CommandKept /\ Register!RecordKept]_vars

\* Webhooks: deliveries end; for good, nothing is queued, no function runs, and the
\* record is gone after its seven days (QueueWebhooks, TimerDaily).
DeliveryEnds == <>[](part = "webhooks" => Hooks!DeliveryOver)

\* Every part of the node comes to rest when the faults end.  No command waits and an
\* expired queue URL is renewed; no work set stays in the queue, over deaths, refused
\* claims, lost pops and outdated nodes; a worker that is stopped ends although its
\* task does not react, and a task does not outlive an agent that failed; the upload
\* loop hears of its stop at whatever point of a pass it comes; ports, unit files,
\* table and the service's record of a proxy agree.
NodeRecovers ==
    <>[](/\ part = "registration" => Register!CommandHandled /\ Register!StaleSasHeals
         /\ part = "pool_queue" => Pool!WorkTaken
         /\ part = "task_process" => Process!StopEnds /\ Process!OrphanEnds
         /\ part = "log_uploader" => Log!LoopEnds
         /\ part = "proxy_manager" => Proxy!Converges /\ Proxy!FilesConverge)
=============================================================================
