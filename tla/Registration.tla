---------------------------- MODULE Registration ----------------------------
(***************************************************************************)
(* How an agent obtains and keeps its access to the service and to the     *)
(* pool's queue: Registration::load_existing, renew and create             *)
(* (onefuzz-agent/src/config.rs), the access tokens (onefuzz/src/auth.rs), *)
(* the requests of the Coordinator (coordinator.rs) and of the WorkQueue   *)
(* (work.rs), all sent through send_retry (reqwest-retry/src/lib.rs).      *)
(*                                                                         *)
(* The agent is followed while it is Free: it registers, then polls its    *)
(* commands, emits an event when its state has changed, pops the pool's    *)
(* queue and claims what it finds.  A request is answered, fails on the    *)
(* way there, or is carried out and its answer is lost.  An error that is  *)
(* passed on with `?` ends the process; the supervising service of the     *)
(* machine starts it again (Restart=always).                               *)
(***************************************************************************)
EXTENDS Naturals

CONSTANTS
    MAX_RETRY_ATTEMPTS,  \* further attempts of a request after its first
    MaxFaults,           \* bound: faults of the network or of the service
    MaxExpiries          \* bound: expiries of a token or of a queue URL

RegistrationAssumption ==
    /\ MAX_RETRY_ATTEMPTS \in Nat
    /\ MaxFaults \in Nat
    /\ MaxExpiries \in Nat

VARIABLES
    provisioned,  \* the service accepts the identity of the machine
    record,       \* the service holds a record of the node
    command,      \* a node command of the service and what became of it
    file,         \* the dynamic config is saved on the machine
    sas,          \* the queue URL of the WorkQueue
    token,        \* the token of the Coordinator
    lastPoll,     \* Agent::last_poll_command
    pc,           \* the request under way, or the point of the agent's loop
    kind,         \* what the Coordinator's request is for
    after,        \* what a renewal of the registration is for
    attempt,      \* attempt_count of the request under way
    answer,       \* what send_retry has returned, "None" while it runs
    late,         \* send_retry has run for longer than max_elapsed_time: "now", the
                  \* present one, "before", an earlier one of the present call
    nf,           \* ghost: faults since the present call began
    ne,           \* ghost: tokens that expired since the last refresh
    faults,
    expiries

service == <<provisioned, record, command>>
access == <<file, sas, token>>
call == <<kind, after, lastPoll>>
bounds == <<faults, expiries>>
vars == <<service, access, call, pc, attempt, answer, late, nf, ne, bounds>>

TokenRequests == {"RenewToken", "CreateToken", "NewToken", "Refresh"}
Requests == TokenRequests \cup
    {"Renew", "Create", "First", "Second", "Pop", "PopAgain", "Delete",
     "DeleteAgain"}
Kinds == {"PollCommands", "ClaimCommand", "Event", "CanSchedule"}

\* What an attempt comes to: success, a status code, or no answer at all.
Status == {"Success", "Unauthorized", "Forbidden", "BadRequest", "NotFound",
           "SendError"}

\* The type invariant.
TypeOK ==
    /\ provisioned \in BOOLEAN /\ record \in BOOLEAN /\ file \in BOOLEAN
    /\ command \in {"None", "Pending", "Deleted", "Executed", "Lost", "Dropped"}
    /\ sas \in {"None", "Fresh", "Stale"}
    /\ token \in {"None", "Fresh", "Expired"}
    /\ lastPoll \in {"Ok", "RequestFailed", "ClaimFailed"}
    /\ pc \in Requests \cup {"Down", "Load", "Loop", "Body"}
    /\ kind \in Kinds \cup {"None"}
    /\ after \in {"Start", "Pop", "Delete"}
    /\ attempt \in 0..MAX_RETRY_ATTEMPTS
    /\ answer \in Status \cup {"None"}
    /\ late \in {"no", "now", "before"}
    /\ nf \in 0..MaxFaults /\ faults \in 0..MaxFaults
    /\ ne \in 0..MaxExpiries /\ expiries \in 0..MaxExpiries

Init ==
    /\ provisioned \in BOOLEAN
    /\ record = FALSE
    /\ command = "None"
    /\ file = FALSE /\ sas = "None" /\ token = "None"
    /\ lastPoll = "Ok"
    /\ pc = "Down" /\ kind = "None" /\ after = "Start"
    /\ attempt = 0 /\ answer = "None" /\ late = "no"
    /\ nf = 0 /\ ne = 0 /\ faults = 0 /\ expiries = 0

----------------------------------------------------------------------------
(* The environment.                                                        *)

Provision ==
    /\ ~provisioned
    /\ provisioned' = TRUE
    /\ UNCHANGED <<record, command, access, call, pc, attempt,
                   answer, late, nf, ne, bounds>>

\* The service asks something of the node (between two requests of the agent:
\* an answer that is being handled is not changed by it).
SendCommand ==
    /\ record /\ command = "None" /\ answer = "None"
    /\ command' = "Pending"
    /\ UNCHANGED <<provisioned, record, access, call, pc, attempt,
                   answer, late, nf, ne, bounds>>

ExpireToken ==
    /\ token = "Fresh" /\ expiries < MaxExpiries
    /\ token' = "Expired"
    /\ ne' = ne + 1
    /\ expiries' = expiries + 1
    /\ UNCHANGED <<service, file, sas, call, pc, attempt, answer, late, nf, faults>>

\* The queue URL is signed for 24 hours.
ExpireSas ==
    /\ sas = "Fresh" /\ expiries < MaxExpiries
    /\ sas' = "Stale"
    /\ expiries' = expiries + 1
    /\ UNCHANGED <<service, file, token, call, pc, attempt, answer, late, nf,
                   ne, faults>>

----------------------------------------------------------------------------
(* send_retry.                                                             *)

\* What the other side answers to the request under way.  The URL of a claim
\* that is repeated after a renewal is the one of the queue: it lacks the
\* "/messages" that AzureQueueClient::new appends.
ServerStatus ==
    CASE pc \in TokenRequests -> "Success"
      [] pc = "Renew" -> IF ~provisioned THEN "Unauthorized"
                         ELSE IF record THEN "Success" ELSE "BadRequest"
      [] pc = "Create" -> IF provisioned THEN "Success" ELSE "Unauthorized"
      [] pc \in {"First", "Second"} ->
            IF token = "Fresh" THEN "Success" ELSE "Unauthorized"
      [] pc \in {"Pop", "PopAgain", "Delete"} ->
            IF sas = "Fresh" THEN "Success" ELSE "Forbidden"
      [] pc = "DeleteAgain" -> "NotFound"

\* What a request that is carried out changes at the service: a new
\* registration deletes the record of the machine with the messages for it and
\* writes another, a claim deletes the command and succeeds as well when there
\* is none.
Effect ==
    LET granted == ServerStatus = "Success"
    IN  /\ record' = (record \/ (pc = "Create" /\ granted))
        /\ command' = IF ~granted \/ command # "Pending" THEN command
                      ELSE IF pc = "Create" THEN "Dropped"
                      ELSE IF pc \in {"First", "Second"} /\ kind = "ClaimCommand"
                           THEN "Deleted"
                      ELSE command
        /\ UNCHANGED provisioned

\* One request fewer than the code sends.
Retry_OffByOne(status) ==
    /\ status # "Success"
    /\ ~(status = "Unauthorized" /\ pc = "First")
    /\ attempt + 1 < MAX_RETRY_ATTEMPTS
    /\ late # "now"

\* Every failure is tried again, up to the limit and while the backoff has time
\* left; the first request of send_request alone gives up at once on 401.
Retry(status) ==
    /\ status # "Success"
    /\ ~(status = "Unauthorized" /\ pc = "First")
    /\ attempt < MAX_RETRY_ATTEMPTS
    /\ late # "now"

Seen(status) ==
    IF Retry(status)
    THEN attempt' = attempt + 1 /\ UNCHANGED answer
    ELSE answer' = status /\ UNCHANGED attempt

Sending == pc \in Requests /\ answer = "None"

\* The attempts and the waits between them have taken more than the 15 minutes of
\* ExponentialBackoff's max_elapsed_time.
TimeElapses ==
    /\ Sending /\ late # "now" /\ faults < MaxFaults
    /\ late' = "now"
    /\ faults' = faults + 1
    /\ UNCHANGED <<service, access, call, pc, attempt, answer, nf, ne, expiries>>

AttemptAnswered ==
    /\ Sending
    /\ Effect
    /\ Seen(ServerStatus)
    /\ UNCHANGED <<access, call, pc, late, nf, ne, bounds>>

AttemptFails ==
    /\ Sending /\ faults < MaxFaults
    /\ Seen("SendError")
    /\ faults' = faults + 1 /\ nf' = nf + 1
    /\ UNCHANGED <<service, access, call, pc, late, ne, expiries>>

AnswerLost ==
    /\ Sending /\ faults < MaxFaults
    /\ Effect
    /\ Seen("SendError")
    /\ faults' = faults + 1 /\ nf' = nf + 1
    /\ UNCHANGED <<access, call, pc, late, ne, expiries>>

----------------------------------------------------------------------------
(* Errors and what their readers look for.                                 *)

Answered(p) == pc = p /\ answer # "None"

Ok == answer = "Success"

\* is_auth_failure: the error of send_retry is a ReqwestRetryError.
IsAuthFailure == answer = "Unauthorized"

\* is_auth_error looks for a reqwest::Error, which send_retry never returns: a
\* status that is not a success comes back as a ReqwestRetryError.
IsAuthError == FALSE

\* The next request of the present call, or a point between two calls
Go(p) ==
    /\ pc' = p /\ attempt' = 0 /\ answer' = "None"
    /\ late' = IF late = "no" THEN "no" ELSE "before"

Call(p) == pc' = p /\ attempt' = 0 /\ answer' = "None" /\ late' = "no" /\ nf' = 0

\* The process ends: only the saved files are left.
Die ==
    /\ Call("Down")
    /\ sas' = "None" /\ token' = "None"
    /\ lastPoll' = "Ok" /\ kind' = "None" /\ after' = "Start"
    /\ ne' = 0
    /\ UNCHANGED <<service, file, bounds>>

----------------------------------------------------------------------------
(* The registration.                                                       *)

Boot ==
    /\ pc = "Down"
    /\ Call("Load")
    /\ UNCHANGED <<service, access, call, ne, bounds>>

\* Registration::load_existing reads the saved config and renews it.
LoadExisting ==
    /\ pc = "Load"
    /\ Call(IF file THEN "RenewToken" ELSE "CreateToken")
    /\ UNCHANGED <<service, access, call, ne, bounds>>

RenewTokenReturns ==
    /\ Answered("RenewToken")
    /\ Go(IF Ok THEN "Renew" ELSE "CreateToken")
    /\ UNCHANGED <<service, access, call, nf, ne, bounds>>

\* A renewal that fails is followed by a new registration.
RenewReturns ==
    /\ Answered("Renew")
    /\ IF Ok
       THEN /\ file' = TRUE /\ sas' = "Fresh"
            /\ Go(CASE after = "Start" -> "NewToken"
                    [] after = "Pop" -> "PopAgain"
                    [] after = "Delete" -> "DeleteAgain")
       ELSE /\ Go("CreateToken")
            /\ UNCHANGED <<file, sas>>
    /\ UNCHANGED <<service, token, call, nf, ne, bounds>>

CreateTokenReturns ==
    /\ Answered("CreateToken")
    /\ \/ Ok /\ Go("Create")
             /\ UNCHANGED <<service, access, call, nf, ne, bounds>>
       \/ ~Ok /\ Die

\* The loop of Registration::create waits when the response it gets refuses
\* the machine; send_retry_default returns no such response, it returns an
\* error, and the error leaves the loop.
CreateReturns ==
    /\ Answered("Create")
    /\ \/ /\ Ok
          /\ file' = TRUE /\ sas' = "Fresh"
          /\ Go("NewToken")
          /\ UNCHANGED <<service, token, call, nf, ne, bounds>>
       \/ ~Ok /\ Die

\* Coordinator::new.
NewTokenReturns ==
    /\ Answered("NewToken")
    /\ \/ /\ Ok
          /\ token' = "Fresh" /\ ne' = 0
          /\ Go("Loop")
          /\ UNCHANGED <<service, file, sas, call, nf, bounds>>
       \/ ~Ok /\ Die

----------------------------------------------------------------------------
(* The requests of the Coordinator.                                        *)

Request(k) == Call("First") /\ kind' = k /\ UNCHANGED <<after, lastPoll>>

\* Agent::update polls the commands before anything else.
PollCommands ==
    /\ pc = "Loop"
    /\ Request("PollCommands")
    /\ UNCHANGED <<service, access, ne, bounds>>

\* The refused request is sent again with the same token.
FirstRefused_NoRefresh ==
    /\ Answered("First") /\ IsAuthFailure
    /\ Go("Second")
    /\ UNCHANGED <<service, access, call, nf, ne, bounds>>

\* send_request refreshes its token when the first request is refused.
FirstRefused ==
    /\ Answered("First") /\ IsAuthFailure
    /\ Go("Refresh")
    /\ UNCHANGED <<service, access, call, nf, ne, bounds>>

RefreshReturns ==
    /\ Answered("Refresh") /\ Ok
    /\ token' = "Fresh" /\ ne' = 0
    /\ Go("Second")
    /\ UNCHANGED <<service, file, sas, call, nf, bounds>>

\* send_request returns: the token could not be refreshed, or this was the
\* last of its requests.
RequestReturned ==
    \/ Answered("First") /\ ~IsAuthFailure
    \/ Answered("Refresh") /\ ~Ok
    \/ Answered("Second")

RequestOk == Ok /\ pc # "Refresh"

\* Agent::execute_pending_commands: a poll that failed is logged, a command
\* that was received is claimed.
PollReturns ==
    /\ RequestReturned /\ kind = "PollCommands"
    /\ \/ /\ RequestOk /\ command = "Pending"
          /\ Request("ClaimCommand")
       \/ /\ ~(RequestOk /\ command = "Pending")
          /\ lastPoll' = IF RequestOk THEN "Ok" ELSE "RequestFailed"
          /\ Go("Body")
          /\ UNCHANGED <<kind, after, nf>>
    /\ UNCHANGED <<service, access, ne, bounds>>

\* A claimed command is executed.  A claim that failed is tolerated once; the
\* command is then found again, unless it was deleted and every answer lost.
ClaimReturns ==
    /\ RequestReturned /\ kind = "ClaimCommand"
    /\ command' = IF RequestOk THEN "Executed"
                  ELSE IF command = "Deleted" THEN "Lost" ELSE command
    /\ IF ~RequestOk /\ lastPoll = "ClaimFailed"
       THEN /\ Call("Down")
            /\ sas' = "None" /\ token' = "None"
            /\ lastPoll' = "Ok" /\ kind' = "None" /\ after' = "Start"
            /\ ne' = 0
       ELSE /\ lastPoll' = IF RequestOk THEN "Ok" ELSE "ClaimFailed"
            /\ Go("Body")
            /\ UNCHANGED <<sas, token, kind, after, nf, ne>>
    /\ UNCHANGED <<provisioned, record, file, bounds>>

\* Agent::free emits an event when the state has changed, then polls the queue.
EmitEvent ==
    /\ pc = "Body"
    /\ Request("Event")
    /\ UNCHANGED <<service, access, ne, bounds>>

\* An event or a can_schedule request that failed ends the agent.
EventReturns ==
    /\ RequestReturned /\ kind = "Event"
    /\ \/ RequestOk /\ Call("Pop")
             /\ UNCHANGED <<service, access, call, ne, bounds>>
       \/ ~RequestOk /\ Die

\* A work set that may be scheduled, or that was stopped, is claimed; any
\* other is left for another node.
CanScheduleReturns ==
    /\ RequestReturned /\ kind = "CanSchedule"
    /\ \/ RequestOk /\ (Call("Delete") \/ Call("Loop"))
             /\ UNCHANGED <<service, access, call, ne, bounds>>
       \/ ~RequestOk /\ Die

----------------------------------------------------------------------------
(* The requests of the WorkQueue.                                          *)

PollQueue ==
    /\ pc = "Body"
    /\ Call("Pop")
    /\ UNCHANGED <<service, access, call, ne, bounds>>

\* WorkQueue::poll: an auth error renews the registration and pops again, any
\* other ends the agent.
PopReturns ==
    /\ Answered("Pop") \/ Answered("PopAgain")
    /\ \/ /\ Ok
          /\ Call("Loop") /\ UNCHANGED call
          /\ UNCHANGED <<service, access, ne, bounds>>
       \/ /\ Ok
          /\ Request("CanSchedule")
          /\ UNCHANGED <<service, access, ne, bounds>>
       \/ /\ ~Ok
          /\ IF pc = "Pop" /\ IsAuthError
             THEN /\ Call("RenewToken") /\ after' = "Pop"
                  /\ UNCHANGED <<service, access, kind, lastPoll, ne, bounds>>
             ELSE Die

\* WorkQueue::claim likewise; an agent that could not claim stays Free.
DeleteReturns ==
    /\ Answered("Delete") \/ Answered("DeleteAgain")
    /\ IF ~Ok /\ pc = "Delete" /\ IsAuthError
       THEN Call("RenewToken") /\ after' = "Delete"
       ELSE Call("Loop") /\ UNCHANGED after
    /\ UNCHANGED <<service, access, kind, lastPoll, ne, bounds>>

----------------------------------------------------------------------------
Expire == ExpireToken \/ ExpireSas

Agent == \/ AttemptAnswered
         \/ Boot \/ LoadExisting \/ RenewTokenReturns \/ RenewReturns
         \/ CreateTokenReturns \/ CreateReturns \/ NewTokenReturns
         \/ PollCommands \/ FirstRefused \/ RefreshReturns
         \/ PollReturns \/ ClaimReturns \/ EventReturns \/ CanScheduleReturns
         \/ PopReturns \/ DeleteReturns

Next == Provision \/ SendCommand \/ Expire
            \/ TimeElapses \/ AttemptFails \/ AnswerLost \/ Agent \/ EmitEvent \/ PollQueue

\* The process runs, and is started again when it has ended; a free agent that
\* has nothing to announce goes on to its queue; the scaleset is provisioned in
\* the end.  Faults and expiries are bounded, and none of them has to happen.
Spec == Init /\ [][Next]_vars /\ WF_vars(Agent) /\ WF_vars(PollQueue)
             /\ WF_vars(Provision)

----------------------------------------------------------------------------
(* Properties.                                                             *)

\* A call has met more failed attempts than send_retry tolerates, or has taken longer.
Exhausted == nf > MAX_RETRY_ATTEMPTS \/ late # "no"

\* A request of the Coordinator fails only after as many faults as send_retry
\* tolerates, or 15 minutes, or when its token expires a second time: neither an
\* expired token nor a few lost messages ever cost the agent a command, an event or
\* its life.
FaultsTolerated ==
    RequestReturned /\ ~RequestOk /\ pc' # pc => Exhausted \/ (pc = "Second" /\ ne > 0)

\* A registered node is registered anew, which deletes its record and all that
\* the service has noted there, only when its renewal has met more than
\* send_retry tolerates.
RecordKept == file /\ record /\ pc' = "Create" /\ pc # "Create" => Exhausted

\* Deleting a command before it is executed loses it only when the claim was
\* carried out and every attempt to learn of it failed.  A command that is deleted
\* with the record of its node is one for a node that has not yet saved its first
\* registration, or could not renew it.
CommandKept ==
    /\ command' = "Lost" /\ command # "Lost" => Exhausted \/ ne > 0
    /\ command' = "Dropped" /\ command # "Dropped" => Exhausted \/ ~file

\* No command waits: it was executed, or lost in one of the windows above.
CommandHandled == command # "Pending"

\* The agent does not poll with a queue URL that has expired: its next poll ends it,
\* and the registration is renewed when it starts again.
StaleSasHeals == sas # "Stale"
=============================================================================
