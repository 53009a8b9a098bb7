------------------------------ MODULE NodeProofs ------------------------------
(***************************************************************************)
(* Proofs about the parts of a node that MCNode puts together, for every   *)
(* value of its constants: the requests of the agent, for every number of  *)
(* retries, faults and expiries; a task process, for every set of streams, *)
(* every amount of output and every size of the tail buffer; the pool's    *)
(* queue, for every number of nodes, work sets and faults; the log upload, *)
(* for logs and blocks of every length; the proxy, for any ports, machines *)
(* and kills; and the delivery of an event, for every number of functions, *)
(* tries, deaths, lost answers and failed writes.                          *)
(*                                                                         *)
(* The parts share no state: a name in two of them stands for a variable   *)
(* of each.  Each has an inductive invariant of its own, and NodeInv says  *)
(* that the one of the part that runs holds.                               *)
(***************************************************************************)
EXTENDS MCNode, SequenceTheorems, TLAPS

----------------------------------------------------------------------------
(* Registration and the requests of the Coordinator.                       *)

\* The types, and that a call's faults are among all faults.
RegistrationType ==
    /\ Register!TypeOK
    /\ nf <= faults /\ ne <= expiries
    /\ pc \in {"Down", "Load", "Loop", "Body"} => answer = "None"

\* A saved config is one the service has given out, and what it knows of a node it
\* knows from then on.  Renewals are only tried with a saved config.
Saved ==
    /\ file => provisioned /\ record
    /\ pc \in {"RenewToken", "Renew"} => file
    /\ pc = "Create" /\ answer = "Success" => provisioned /\ record

\* Every attempt that failed was a fault, except when a token has expired again; the
\* last of them was the one too many, or came too late.
Counted ==
    /\ pc \in Register!TokenRequests \cup {"Renew", "First"} =>
         /\ answer = "None" => attempt <= nf
         /\ answer \notin {"None", "Success"} =>
              Register!Exhausted \/ (pc = "First" /\ answer = "Unauthorized")
    /\ pc = "Second" =>
         /\ token = "Fresh" \/ ne > 0
         /\ ne > 0 \/ (answer = "None" /\ attempt <= nf) \/ answer = "Success"
              \/ Register!Exhausted
    /\ pc \in {"CreateToken", "Create"} /\ file => Register!Exhausted

RegistrationInv == RegistrationType /\ Saved /\ Counted

\* The invariant holds initially.
LEMMA RegistrationInit ==
    ASSUME Register!RegistrationAssumption, Register!Init
    PROVE  RegistrationInv
<1> USE DEF Register!RegistrationAssumption, Register!Init
<1>1. Register!TypeOK
  <2>1. provisioned \in BOOLEAN /\ record \in BOOLEAN /\ file \in BOOLEAN
    BY Zenon
  <2> QED
    BY <2>1 DEF Register!TypeOK, Register!Requests, Register!Kinds, Register!Status
<1>2. nf <= faults /\ ne <= expiries /\ answer = "None"
  OBVIOUS
<1>3. Saved /\ Counted
  BY DEF Saved, Counted, Register!TokenRequests, Register!Exhausted
<1> QED
  BY <1>1, <1>2, <1>3 DEF RegistrationInv, RegistrationType

\* An attempt is the last one when it succeeds, when it is the refused first one, when
\* there have been MAX_RETRY_ATTEMPTS before it, or when the time is up.
LEMMA SeenFacts ==
    ASSUME Register!RegistrationAssumption, RegistrationType,
           NEW status \in Register!Status, Register!Sending, Register!Seen(status)
    PROVE  /\ pc \in Register!Requests /\ answer = "None"
           /\ attempt' \in 0..MAX_RETRY_ATTEMPTS
           /\ \/ /\ status # "Success" /\ ~(status = "Unauthorized" /\ pc = "First")
                 /\ attempt' = attempt + 1 /\ answer' = "None"
              \/ /\ answer' = status /\ attempt' = attempt
                 /\ \/ status = "Success"
                    \/ status = "Unauthorized" /\ pc = "First"
                    \/ attempt = MAX_RETRY_ATTEMPTS
                    \/ late = "now"
  BY DEF Register!RegistrationAssumption, RegistrationType, Register!TypeOK,
         Register!Sending, Register!Seen, Register!Retry

\* What the service answers to each request, given the invariant.
LEMMA ServerFacts ==
    ASSUME RegistrationType, Saved, pc \in Register!Requests
    PROVE  /\ Register!ServerStatus \in Register!Status \ {"SendError"}
           /\ pc \in Register!TokenRequests \cup {"Renew"} =>
                Register!ServerStatus = "Success"
           /\ pc = "First" => Register!ServerStatus \in {"Success", "Unauthorized"}
           /\ pc = "Second" /\ token = "Fresh" => Register!ServerStatus = "Success"
           /\ pc = "Create" /\ Register!ServerStatus = "Success" => provisioned
  BY DEF RegistrationType, Saved, Register!ServerStatus, Register!Status,
         Register!Requests, Register!TokenRequests

\* Every step keeps the invariant.
LEMMA RegistrationStep ==
    ASSUME Register!RegistrationAssumption, RegistrationInv, [Register!Next]_Register!vars
    PROVE  RegistrationInv'
<1> USE DEF Register!RegistrationAssumption, RegistrationInv, RegistrationType,
        Register!TypeOK, Saved, Counted, Register!Requests, Register!TokenRequests,
        Register!Kinds, Register!service, Register!access, Register!call,
        Register!bounds, Register!Exhausted
<1>1. CASE Register!Provision
  BY <1>1 DEF Register!Provision
<1>2. CASE Register!SendCommand
  BY <1>2 DEF Register!SendCommand
<1>3. CASE Register!ExpireToken
  BY <1>3 DEF Register!ExpireToken
<1>4. CASE Register!ExpireSas
  BY <1>4 DEF Register!ExpireSas
<1>5. ASSUME NEW status \in Register!Status, Register!Sending, Register!Seen(status),
             \/ /\ status = Register!ServerStatus /\ Register!Effect
                /\ nf' = nf /\ faults' = faults
             \/ /\ status = "SendError" /\ faults < MaxFaults
                /\ UNCHANGED <<record, command>> \/ Register!Effect
                /\ nf' = nf + 1 /\ faults' = faults + 1,
             UNCHANGED <<provisioned, file, sas, token, kind, after, lastPoll, pc, late,
                         ne, expiries>>
      PROVE  RegistrationInv'
  <2>1. /\ attempt' \in 0..MAX_RETRY_ATTEMPTS /\ answer = "None"
        /\ \/ /\ status # "Success" /\ ~(status = "Unauthorized" /\ pc = "First")
              /\ attempt' = attempt + 1 /\ answer' = "None"
           \/ /\ answer' = status /\ attempt' = attempt
              /\ \/ status = "Success"
                 \/ status = "Unauthorized" /\ pc = "First"
                 \/ attempt = MAX_RETRY_ATTEMPTS
                 \/ late = "now"
    BY <1>5, SeenFacts
  <2>2. /\ pc \in Register!TokenRequests \cup {"Renew"} =>
             Register!ServerStatus = "Success"
        /\ pc = "First" => Register!ServerStatus \in {"Success", "Unauthorized"}
        /\ pc = "Second" /\ token = "Fresh" => Register!ServerStatus = "Success"
        /\ pc = "Create" /\ Register!ServerStatus = "Success" => provisioned
    BY <1>5, ServerFacts DEF Register!Sending
  <2>3. /\ record' \in BOOLEAN /\ (record => record')
        /\ command' \in {"None", "Pending", "Deleted", "Executed", "Lost", "Dropped"}
    <3>1. CASE Register!Effect
      <4>1. record' \in BOOLEAN /\ (record => record')
        BY <3>1, Zenon DEF Register!Effect
      <4>2. command' = command \/ command' = "Deleted" \/ command' = "Dropped"
        BY <3>1, Zenon DEF Register!Effect
      <4> QED
        BY <4>1, <4>2
    <3>2. CASE UNCHANGED <<record, command>>
      BY <3>2
    <3> QED
      BY <1>5, <3>1, <3>2
  <2>4. pc = "Create" /\ answer' = "Success" => provisioned' /\ record'
    BY <1>5, <2>1, <2>2 DEF Register!Effect
  <2>5. Register!TypeOK'
    BY <1>5, <2>1, <2>3 DEF Register!Status
  <2>6. Saved'
    BY <1>5, <2>1, <2>3, <2>4
  <2>7. Counted'
    BY <1>5, <2>1, <2>2
  <2> QED
    BY <1>5, <2>1, <2>5, <2>6, <2>7 DEF Register!Sending
<1>6. CASE Register!AttemptAnswered
  <2>1. Register!ServerStatus \in Register!Status
    BY <1>6, ServerFacts DEF Register!AttemptAnswered, Register!Sending
  <2> QED
    BY <1>5, <1>6, <2>1 DEF Register!AttemptAnswered, Register!Effect
<1>7. CASE Register!AttemptFails
  BY <1>5, <1>7 DEF Register!AttemptFails, Register!Status
<1>8. CASE Register!AnswerLost
  BY <1>5, <1>8 DEF Register!AnswerLost, Register!Status, Register!Effect
<1> USE DEF Register!Go, Register!Call, Register!Request, Register!Answered,
        Register!Ok, Register!Die, Register!Status
<1>9. CASE Register!Boot
  BY <1>9 DEF Register!Boot
<1>10. CASE Register!LoadExisting
  BY <1>10 DEF Register!LoadExisting
<1>11. CASE Register!RenewTokenReturns
  BY <1>11 DEF Register!RenewTokenReturns
<1>12. CASE Register!RenewReturns
  <2>1. CASE answer = "Success"
    <3>1. /\ file' = TRUE /\ pc = "Renew"
          /\ pc' \in {"NewToken", "PopAgain", "DeleteAgain"}
      BY <1>12, <2>1 DEF Register!RenewReturns
    <3>2. /\ sas' = "Fresh" /\ attempt' = 0 /\ answer' = "None"
          /\ late' \in {"no", "before"} /\ (late # "no" => late' # "no")
          /\ UNCHANGED <<provisioned, record, command, token, kind, after, lastPoll,
                         nf, ne, faults, expiries>>
      BY <1>12, <2>1 DEF Register!RenewReturns
    <3> QED
      BY <3>1, <3>2
  <2>2. CASE answer # "Success"
    BY <1>12, <2>2 DEF Register!RenewReturns
  <2> QED
    BY <2>1, <2>2
<1>13. CASE Register!CreateTokenReturns
  BY <1>13 DEF Register!CreateTokenReturns
<1>14. CASE Register!CreateReturns
  <2>1. CASE answer = "Success"
    <3>1. file' = TRUE /\ pc = "Create" /\ pc' = "NewToken"
      BY <1>14, <2>1 DEF Register!CreateReturns
    <3>2. /\ sas' = "Fresh" /\ attempt' = 0 /\ answer' = "None"
          /\ late' \in {"no", "before"} /\ (late # "no" => late' # "no")
          /\ UNCHANGED <<provisioned, record, command, token, kind, after, lastPoll,
                         nf, ne, faults, expiries>>
      BY <1>14, <2>1 DEF Register!CreateReturns
    <3> QED
      BY <2>1, <3>1, <3>2
  <2>2. CASE answer # "Success"
    BY <1>14, <2>2 DEF Register!CreateReturns
  <2> QED
    BY <2>1, <2>2
<1>15. CASE Register!NewTokenReturns
  BY <1>15 DEF Register!NewTokenReturns
<1>16. CASE Register!PollCommands
  BY <1>16 DEF Register!PollCommands
<1>17. CASE Register!FirstRefused
  BY <1>17 DEF Register!FirstRefused
<1>18. CASE Register!RefreshReturns
  BY <1>18 DEF Register!RefreshReturns
<1>19. CASE Register!PollReturns
  BY <1>19 DEF Register!PollReturns
<1>20. CASE Register!ClaimReturns
  BY <1>20 DEF Register!ClaimReturns
<1>21. CASE Register!EventReturns
  BY <1>21 DEF Register!EventReturns
<1>22. CASE Register!CanScheduleReturns
  BY <1>22 DEF Register!CanScheduleReturns
<1>23. CASE Register!PopReturns
  BY <1>23 DEF Register!PopReturns, Register!IsAuthError
<1>24. CASE Register!DeleteReturns
  BY <1>24 DEF Register!DeleteReturns, Register!IsAuthError
<1>25. CASE Register!EmitEvent
  BY <1>25 DEF Register!EmitEvent
<1>26. CASE Register!PollQueue
  BY <1>26 DEF Register!PollQueue
<1>27. CASE UNCHANGED Register!vars
  BY <1>27 DEF Register!vars
<1>28. CASE Register!TimeElapses
  BY <1>28 DEF Register!TimeElapses, Register!Sending
<1> QED
  BY <1>1, <1>2, <1>3, <1>4, <1>6, <1>7, <1>8, <1>9, <1>10, <1>11, <1>12, <1>13,
     <1>14, <1>15, <1>16, <1>17, <1>18, <1>19, <1>20, <1>21, <1>22, <1>23, <1>24,
     <1>25, <1>26, <1>27, <1>28 DEF Register!Next, Register!Agent, Register!Expire

\* A request of the Coordinator that has failed met more faults than send_retry
\* tolerates, took too long, or was refused a second time with a token that has expired
\* since.
LEMMA FailedRequest ==
    ASSUME RegistrationInv, Register!RequestReturned, ~Register!RequestOk
    PROVE  Register!Exhausted \/ (pc = "Second" /\ ne > 0)
  BY DEF RegistrationInv, Counted, Register!RequestReturned, Register!RequestOk,
         Register!Answered, Register!Ok, Register!IsAuthFailure, Register!TokenRequests

\* Only a token for a new registration leads to one.
LEMMA CreateEntered ==
    ASSUME after \in {"Start", "Pop", "Delete"},
           [Register!Next]_Register!vars, pc # "Create", pc' = "Create"
    PROVE  pc = "CreateToken"
<1> USE DEF Register!Go, Register!Call, Register!Request, Register!Die,
        Register!Answered, Register!service, Register!access, Register!call,
        Register!bounds
<1>1. CASE \/ Register!Provision \/ Register!SendCommand \/ Register!Expire
           \/ Register!AttemptFails \/ Register!AnswerLost \/ Register!AttemptAnswered
           \/ Register!TimeElapses \/ UNCHANGED Register!vars
  BY <1>1 DEF Register!Provision, Register!SendCommand, Register!Expire,
     Register!ExpireToken, Register!ExpireSas, Register!AttemptFails,
     Register!AnswerLost, Register!AttemptAnswered, Register!TimeElapses, Register!vars
<1>2. CASE \/ Register!Boot \/ Register!LoadExisting \/ Register!RenewTokenReturns
           \/ Register!RenewReturns \/ Register!CreateTokenReturns
           \/ Register!CreateReturns \/ Register!NewTokenReturns
  BY <1>2 DEF Register!Boot, Register!LoadExisting, Register!RenewTokenReturns,
     Register!RenewReturns, Register!CreateTokenReturns, Register!CreateReturns,
     Register!NewTokenReturns
<1>3. CASE \/ Register!PollCommands \/ Register!FirstRefused \/ Register!RefreshReturns
           \/ Register!PollReturns \/ Register!ClaimReturns \/ Register!EventReturns
           \/ Register!CanScheduleReturns \/ Register!EmitEvent
  BY <1>3 DEF Register!PollCommands, Register!FirstRefused, Register!RefreshReturns,
     Register!PollReturns, Register!ClaimReturns, Register!EventReturns,
     Register!CanScheduleReturns, Register!EmitEvent
<1>4. CASE Register!PopReturns \/ Register!DeleteReturns \/ Register!PollQueue
  BY <1>4 DEF Register!PopReturns, Register!DeleteReturns, Register!PollQueue
<1> QED
  BY <1>1, <1>2, <1>3, <1>4 DEF Register!Next, Register!Agent

\* Only a claim that failed loses a command, only a new registration drops one.
LEMMA CommandLost ==
    ASSUME [Register!Next]_Register!vars, command' # command,
           command' \in {"Lost", "Dropped"}
    PROVE  IF command' = "Lost" THEN Register!RequestReturned /\ ~Register!RequestOk
           ELSE pc = "Create"
<1> USE DEF Register!Die, Register!service
<1>1. CASE \/ Register!Provision \/ Register!SendCommand \/ Register!Expire
           \/ Register!AttemptFails \/ Register!AnswerLost \/ Register!AttemptAnswered
           \/ Register!TimeElapses \/ UNCHANGED Register!vars
  BY <1>1 DEF Register!Provision, Register!SendCommand, Register!Expire,
     Register!ExpireToken, Register!ExpireSas, Register!AttemptFails,
     Register!AnswerLost, Register!AttemptAnswered, Register!TimeElapses,
     Register!Effect, Register!vars
<1>2. CASE Register!ClaimReturns
  BY <1>2 DEF Register!ClaimReturns
<1>3. CASE \/ Register!Boot \/ Register!LoadExisting \/ Register!RenewTokenReturns
           \/ Register!RenewReturns \/ Register!CreateTokenReturns
           \/ Register!CreateReturns \/ Register!NewTokenReturns
  BY <1>3 DEF Register!Boot, Register!LoadExisting, Register!RenewTokenReturns,
     Register!RenewReturns, Register!CreateTokenReturns, Register!CreateReturns,
     Register!NewTokenReturns
<1>4. CASE \/ Register!PollCommands \/ Register!FirstRefused \/ Register!RefreshReturns
           \/ Register!PollReturns \/ Register!EventReturns \/ Register!EmitEvent
           \/ Register!CanScheduleReturns
  BY <1>4 DEF Register!PollCommands, Register!FirstRefused, Register!RefreshReturns,
     Register!PollReturns, Register!EventReturns, Register!CanScheduleReturns,
     Register!EmitEvent
<1>5. CASE Register!PopReturns \/ Register!DeleteReturns \/ Register!PollQueue
  BY <1>5 DEF Register!PopReturns, Register!DeleteReturns, Register!PollQueue
<1> QED
  BY <1>1, <1>2, <1>3, <1>4, <1>5 DEF Register!Next, Register!Agent

\* A step keeps what the Coordinator, poll_commands and load_existing promise.
LEMMA RequestStep ==
    ASSUME Register!RegistrationAssumption, RegistrationInv, [Register!Next]_Register!vars
    PROVE  Register!FaultsTolerated /\ Register!CommandKept /\ Register!RecordKept
<1>1. Register!FaultsTolerated
  BY FailedRequest DEF Register!FaultsTolerated
<1>2. Register!CommandKept
  BY FailedRequest, CommandLost DEF Register!CommandKept, RegistrationInv, Counted
<1>3. Register!RecordKept
  BY CreateEntered DEF Register!RecordKept, RegistrationInv, RegistrationType,
     Register!TypeOK, Counted
<1> QED
  BY <1>1, <1>2, <1>3

----------------------------------------------------------------------------
(* One worker and its task process.                                        *)

\* The types, and that the memory check ends with the last tolerated error.
ProcessType ==
    /\ Process!TypeOK
    /\ oom => errors <= MaxOomErrors

\* What a reader has read of a stream.
Taken(s) == written[s] - Len(pipe[s])

\* The smaller of what was read and what the buffer holds.
Kept(k) == IF k < MaxTail THEN k ELSE MaxTail

\* The numbers that follow k.
Run(q, k) == \A i \in 1..Len(q) : q[i] = k + i

\* The pipe holds what was written last, the tail the end of what was read.
Tailed ==
    \A s \in Streams :
      /\ Len(pipe[s]) <= written[s]
      /\ Run(pipe[s], Taken(s))
      /\ Len(tail[s]) = Kept(Taken(s))
      /\ Run(tail[s], Taken(s) - Len(tail[s]))

\* A reader has returned only when nobody can write any more; the process ends once.
Ended ==
    /\ \A s \in Streams :
         reader[s] = "returned" => pipe[s] = <<>> /\ p = "Exited" /\ ~heir
    /\ w = "Ready" => p = "none" /\ chan = "none"
    /\ p = "none" => ~heir
    /\ w = "Join" => p = "Exited" /\ ret # "None"
    /\ (w = "Join" /\ ret = "Done") \/ w \in {"Running", "Stopping"} =>
         accept1 = "returned" /\ accept2 = "returned"
    /\ w = "Done" =>
         /\ \A s \in Streams : reader[s] = "returned"
         /\ out = tail /\ p = "Exited" /\ ~heir /\ chan # "held"

\* A channel is closed, and a task asked to shut down, for a reason.
ClosedMeant ==
    /\ chan = "closed" => stopped \/ w \in {"Failed", "Gone"} \/ p = "Exited"
    /\ listener = "ended" => stopped \/ w \in {"Failed", "Gone"}
    /\ w = "Stopping" => stopped
    /\ w = "Ready" => accept1 = "none"
    /\ w = "Accept2" => accept1 = "returned"

ProcessInv == ProcessType /\ Tailed /\ Ended /\ ClosedMeant

\* The invariant holds initially.
LEMMA ProcessInit ==
    ASSUME Process!TaskProcessAssumption, Process!Init
    PROVE  ProcessInv
<1> USE DEF Process!TaskProcessAssumption, Process!Init
<1>1. Process!TypeOK
  <2>1. oom \in BOOLEAN /\ low \in BOOLEAN /\ heir \in BOOLEAN /\ stopped \in BOOLEAN
    BY Zenon
  <2> QED
    BY <2>1 DEF Process!TypeOK, Process!Alive
<1>2. ProcessType
  BY <1>1 DEF ProcessType
<1>3. Tailed
  BY DEF Tailed, Taken, Run, Kept
<1>4. Ended /\ ClosedMeant
  BY DEF Ended, ClosedMeant
<1> QED
  BY <1>2, <1>3, <1>4 DEF ProcessInv

\* TailBuffer::write keeps the end: k numbers have been read, the buffer b holds the
\* last of them, and c are the next ones.
LEMMA TailBufferFacts ==
    ASSUME MaxTail \in Nat, NEW k \in Nat, NEW S,
           NEW b \in Seq(S), NEW c \in Seq(S),
           Len(b) = Kept(k), Run(b, k - Len(b)), Run(c, k)
    PROVE  /\ Process!TailBuffer(b, c) \in Seq(S)
           /\ Len(Process!TailBuffer(b, c)) = Kept(k + Len(c))
           /\ Run(Process!TailBuffer(b, c),
                  k + Len(c) - Len(Process!TailBuffer(b, c)))
<1> USE DEF Run
<1> DEFINE all == b \o c
<1>1. /\ all \in Seq(S) /\ Len(all) = Len(b) + Len(c)
      /\ \A i \in 1..Len(b) + Len(c) :
           all[i] = IF i <= Len(b) THEN b[i] ELSE c[i - Len(b)]
  BY ConcatProperties
<1>2. Len(b) \in Nat /\ Len(c) \in Nat
  OBVIOUS
<1> HIDE DEF all
<1>3. \A i \in 1..Len(all) : all[i] = k - Len(b) + i
  <2> TAKE i \in 1..Len(all)
  <2>1. CASE i <= Len(b)
    BY <1>1, <1>2, <2>1
  <2>2. CASE ~(i <= Len(b))
    <3>1. i - Len(b) \in 1..Len(c)
      BY <1>1, <1>2, <2>2
    <3>2. i \in 1..Len(b) + Len(c)
      BY <1>1
    <3>3. all[i] = c[i - Len(b)]
      BY <1>1, <2>2, <3>2
    <3>4. c[i - Len(b)] = k + (i - Len(b))
      BY <3>1
    <3> QED
      BY <1>2, <3>3, <3>4
  <2> QED
    BY <2>1, <2>2
<1>4. CASE Len(all) > MaxTail
  <2> DEFINE rest == SubSeq(all, Len(all) - MaxTail + 1, Len(all))
  <2>1. /\ rest \in Seq(S) /\ Len(rest) = MaxTail
        /\ \A i \in 1..MaxTail : rest[i] = all[Len(all) - MaxTail + i]
    <3> DEFINE last == Len(all)
               m == last - MaxTail + 1
    <3>1. m \in Int /\ last \in Int /\ m > 0 /\ m <= last + 1
      BY <1>1, <1>2, <1>4
    <3>2. \A i \in m..last : all[i] \in S
      BY <1>1, <3>1
    <3>3. last - m + 1 = MaxTail /\ \A i \in 1..MaxTail : m + i - 1 = last - MaxTail + i
      BY <1>1, <1>2
    <3>4. rest = SubSeq(all, m, last)
      OBVIOUS
    <3> HIDE DEF m, last, rest
    <3>5. /\ SubSeq(all, m, last) \in Seq(S)
          /\ Len(SubSeq(all, m, last)) = IF m <= last THEN last - m + 1 ELSE 0
          /\ \A i \in 1..last - m + 1 : SubSeq(all, m, last)[i] = all[m + i - 1]
      BY <3>1, <3>2, SubSeqProperties
    <3>6. Len(SubSeq(all, m, last)) = MaxTail
      BY <3>1, <3>3, <3>5
    <3> QED
      BY <3>1, <3>3, <3>4, <3>6, <3>5 DEF last
  <2>2. Process!TailBuffer(b, c) = rest
    BY <1>4 DEF Process!TailBuffer, all
  <2> HIDE DEF rest
  <2>3. Kept(k + Len(c)) = MaxTail
    BY <1>1, <1>2, <1>4 DEF Kept
  <2>4. \A i \in 1..MaxTail : rest[i] = k + Len(c) - MaxTail + i
    <3> TAKE i \in 1..MaxTail
    <3>1. Len(all) - MaxTail + i \in 1..Len(all)
      BY <1>1, <1>2, <1>4
    <3> QED
      BY <1>1, <1>2, <1>3, <2>1, <3>1
  <2> QED
    BY <2>1, <2>2, <2>3, <2>4
<1>5. CASE ~(Len(all) > MaxTail)
  <2>1. Process!TailBuffer(b, c) = all
    BY <1>5 DEF Process!TailBuffer, all
  <2>2. Kept(k + Len(c)) = Len(all)
    <3>1. CASE k < MaxTail
      <4>1. Len(b) = k
        BY <3>1 DEF Kept
      <4> QED
        BY <1>1, <1>2, <1>5, <4>1 DEF Kept
    <3>2. CASE ~(k < MaxTail)
      <4>1. Len(b) = MaxTail
        BY <3>2 DEF Kept
      <4>2. Len(c) = 0 /\ Len(all) = MaxTail
        BY <1>1, <1>2, <1>5, <4>1
      <4> QED
        BY <3>2, <4>2 DEF Kept
    <3> QED
      BY <3>1, <3>2
  <2>3. \A i \in 1..Len(all) : all[i] = k + Len(c) - Len(all) + i
    BY <1>1, <1>2, <1>3
  <2> QED
    BY <1>1, <2>1, <2>2, <2>3
<1> QED
  BY <1>4, <1>5

\* A read moves the next n numbers from the pipe to the tail.
LEMMA ReadFacts ==
    ASSUME Process!TaskProcessAssumption, ProcessInv,
           NEW s \in Streams, NEW n \in 1..Len(pipe[s])
    PROVE  LET t == Process!TailBuffer(tail[s], SubSeq(pipe[s], 1, n))
               q == SubSeq(pipe[s], n + 1, Len(pipe[s]))
           IN  /\ t \in Seq(1..MaxOut) /\ q \in Seq(1..MaxOut)
               /\ Len(t) <= MaxTail /\ Len(q) = Len(pipe[s]) - n
               /\ Len(t) = Kept(Taken(s) + n)
               /\ Run(t, Taken(s) + n - Len(t))
               /\ Run(q, Taken(s) + n)
<1> DEFINE c == SubSeq(pipe[s], 1, n)
           q == SubSeq(pipe[s], n + 1, Len(pipe[s]))
           k == Taken(s)
<1>1. /\ pipe[s] \in Seq(1..MaxOut) /\ tail[s] \in Seq(1..MaxOut)
      /\ written[s] \in Nat /\ MaxTail \in Nat /\ MaxOut \in Nat
      /\ Len(pipe[s]) \in Nat /\ Len(tail[s]) \in Nat
  BY DEF Process!TaskProcessAssumption, ProcessInv, ProcessType, Process!TypeOK
<1>2. /\ k \in Nat /\ Len(tail[s]) = Kept(k)
      /\ Run(pipe[s], k) /\ Run(tail[s], k - Len(tail[s]))
  BY <1>1 DEF ProcessInv, Tailed, Taken
<1> HIDE DEF k
<1>3. /\ c \in Seq(1..MaxOut) /\ Len(c) = n
      /\ \A i \in 1..n : c[i] = pipe[s][i]
  <2>1. \A i \in 1..n : pipe[s][i] \in 1..MaxOut
    BY <1>1
  <2>2. /\ c \in Seq(1..MaxOut) /\ Len(c) = IF 1 <= n THEN n - 1 + 1 ELSE 0
        /\ \A i \in 1..n - 1 + 1 : c[i] = pipe[s][1 + i - 1]
    BY <2>1, SubSeqProperties
  <2> HIDE DEF c
  <2> QED
    BY <2>2
<1>4. /\ q \in Seq(1..MaxOut) /\ Len(q) = Len(pipe[s]) - n
      /\ \A i \in 1..Len(q) : q[i] = pipe[s][n + i]
  <2>1. \A i \in n + 1..Len(pipe[s]) : pipe[s][i] \in 1..MaxOut
    BY <1>1
  <2>2. /\ q \in Seq(1..MaxOut)
        /\ Len(q) = IF n + 1 <= Len(pipe[s]) THEN Len(pipe[s]) - (n + 1) + 1 ELSE 0
        /\ \A i \in 1..Len(pipe[s]) - (n + 1) + 1 : q[i] = pipe[s][n + 1 + i - 1]
    BY <1>1, <2>1, SubSeqProperties
  <2> HIDE DEF q
  <2> QED
    BY <1>1, <2>2
<1> HIDE DEF c, q
<1>5. Run(c, k)
  <2> SUFFICES ASSUME NEW i \in 1..Len(c) PROVE c[i] = k + i
    BY DEF Run
  <2>1. i \in 1..n /\ i \in 1..Len(pipe[s])
    BY <1>1, <1>3
  <2> QED
    BY <1>2, <1>3, <2>1 DEF Run
<1>6. Run(q, k + n)
  BY <1>1, <1>2, <1>4 DEF Run
<1>7. /\ Process!TailBuffer(tail[s], c) \in Seq(1..MaxOut)
      /\ Len(Process!TailBuffer(tail[s], c)) = Kept(k + Len(c))
      /\ Run(Process!TailBuffer(tail[s], c),
             k + Len(c) - Len(Process!TailBuffer(tail[s], c)))
  BY <1>1, <1>2, <1>3, <1>5, TailBufferFacts
<1>8. Kept(k + n) <= MaxTail
  BY <1>1, <1>2 DEF Kept
<1> QED
  BY <1>3, <1>4, <1>6, <1>7, <1>8 DEF c, q, k

\* Every step keeps the types.
LEMMA ProcessTypeStep ==
    ASSUME Process!TaskProcessAssumption, ProcessInv, [Process!Next]_Process!vars
    PROVE  ProcessType'
<1> USE DEF Process!TaskProcessAssumption, ProcessInv, ProcessType, Process!TypeOK,
        Process!Alive, Process!agent, Process!ipc, Process!task, Process!streams
<1>1. CASE Process!Spawn \/ Process!SpawnFails
  BY <1>1 DEF Process!Spawn, Process!SpawnFails
<1>2. CASE Process!Accept1Returns \/ Process!Accept2Returns
  BY <1>2 DEF Process!Accept1Returns, Process!Accept2Returns
<1>3. CASE Process!AcceptTimeout \/ Process!Wait \/ Process!StopWait
  BY <1>3 DEF Process!AcceptTimeout, Process!Wait, Process!StopWait, Process!TryWait,
     Process!CloseIpc
<1>4. CASE Process!JoinReturns
  BY <1>4 DEF Process!JoinReturns, Process!CloseIpc, Ended
<1>5. CASE Process!Stop \/ Process!StopTimeout \/ Process!AgentEnds
  <2>1. stopped' \in BOOLEAN
    BY <1>5, Zenon DEF Process!Stop, Process!StopTimeout, Process!AgentEnds
  <2> QED
    BY <1>5, <2>1 DEF Process!Stop, Process!StopTimeout, Process!AgentEnds,
       Process!CloseIpc, Process!Kill
<1>6. ASSUME NEW s \in Streams, Process!Read(s)
      PROVE  ProcessType'
  <2>1. PICK n \in 1..Len(pipe[s]) :
          /\ tail' = [tail EXCEPT
                ![s] = Process!TailBuffer(tail[s], SubSeq(pipe[s], 1, n))]
          /\ pipe' = [pipe EXCEPT ![s] = SubSeq(pipe[s], n + 1, Len(pipe[s]))]
    BY <1>6 DEF Process!Read
  <2>2. /\ Process!TailBuffer(tail[s], SubSeq(pipe[s], 1, n)) \in Seq(1..MaxOut)
        /\ Len(Process!TailBuffer(tail[s], SubSeq(pipe[s], 1, n))) <= MaxTail
        /\ SubSeq(pipe[s], n + 1, Len(pipe[s])) \in Seq(1..MaxOut)
    BY ReadFacts DEF Tailed
  <2> DEFINE t == Process!TailBuffer(tail[s], SubSeq(pipe[s], 1, n))
             q == SubSeq(pipe[s], n + 1, Len(pipe[s]))
  <2>3. t \in Seq(1..MaxOut) /\ Len(t) <= MaxTail /\ q \in Seq(1..MaxOut)
    BY <2>2
  <2>4. tail' = [tail EXCEPT ![s] = t] /\ pipe' = [pipe EXCEPT ![s] = q]
    BY <2>1
  <2> HIDE DEF t, q
  <2>5. /\ tail' \in [Streams -> Seq(1..MaxOut)] /\ pipe' \in [Streams -> Seq(1..MaxOut)]
        /\ \A r \in Streams : Len(tail'[r]) <= MaxTail
    BY <2>3, <2>4
  <2>6. UNCHANGED <<w, ret, out, stopped, accept1, accept2, chan, chan2, p, result,
                    listener, oom, errors, low, heir, written, reader>>
    BY <1>6 DEF Process!Read
  <2> QED
    BY <2>5, <2>6
<1>7. ASSUME NEW s \in Streams, Process!ReadEnd(s)
      PROVE  ProcessType'
  BY <1>7 DEF Process!ReadEnd
<1>8. CASE \/ Process!Connect1 \/ Process!Connect2 \/ Process!Listen \/ Process!Exit
           \/ Process!ReceiveFails
  BY <1>8 DEF Process!Connect1, Process!Connect2, Process!Listen, Process!Exit,
     Process!ReceiveFails
<1>9. CASE Process!OutOfMemory \/ Process!Shutdown \/ Process!TaskEnds \/ Process!Killed
  BY <1>9 DEF Process!OutOfMemory, Process!Shutdown, Process!TaskEnds, Process!Killed,
     Process!Select
<1>10. CASE Process!QueryMemory \/ Process!MemoryFalls
  <2>1. oom' \in BOOLEAN
    <3>1. oom' = oom \/ oom' = (errors' <= MaxOomErrors)
      BY <1>10, Zenon DEF Process!QueryMemory, Process!MemoryFalls
    <3>2. CASE errors' <= MaxOomErrors
      BY <3>1, <3>2, Zenon
    <3>3. CASE ~(errors' <= MaxOomErrors)
      <4>1. (errors' <= MaxOomErrors) = FALSE
        BY <3>3
      <4> QED
        BY <3>1, <4>1, Zenon
    <3> QED
      BY <3>2, <3>3
  <2>2. low' \in BOOLEAN
    BY <1>10, Zenon DEF Process!QueryMemory, Process!MemoryFalls
  <2>3. errors' \in 0..MaxOomErrors + 1 /\ (oom' => errors' <= MaxOomErrors)
    BY <1>10 DEF Process!QueryMemory, Process!MemoryFalls
  <2> QED
    BY <1>10, <2>1, <2>2, <2>3 DEF Process!QueryMemory, Process!MemoryFalls
<1>11. CASE Process!CollectDump \/ Process!HeirExits
  <2>1. heir' \in BOOLEAN
    BY <1>11, Zenon DEF Process!CollectDump, Process!HeirExits
  <2> QED
    BY <1>11, <2>1 DEF Process!CollectDump, Process!HeirExits
<1>12. ASSUME NEW s \in Streams, Process!Write(s)
       PROVE  ProcessType'
  BY <1>12 DEF Process!Write
<1>13. CASE UNCHANGED Process!vars
  BY <1>13 DEF Process!vars
<1> QED
  BY <1>1, <1>2, <1>3, <1>4, <1>5, <1>6, <1>7, <1>8, <1>9, <1>10, <1>11, <1>12, <1>13
     DEF Process!Next, Process!Worker, Process!Readers, Process!Runtime,
         Process!Environment

\* Reads and writes move the end of the stream through pipe and tail.
LEMMA TailedStep ==
    ASSUME Process!TaskProcessAssumption, ProcessInv, [Process!Next]_Process!vars
    PROVE  Tailed'
<1>a. /\ written \in [Streams -> Nat] /\ MaxOut \in Nat /\ MaxTail \in Nat
      /\ pipe \in [Streams -> Seq(1..MaxOut)] /\ tail \in [Streams -> Seq(1..MaxOut)]
  BY DEF Process!TaskProcessAssumption, ProcessInv, ProcessType, Process!TypeOK
<1>b. Tailed
  BY DEF ProcessInv
<1>1. CASE UNCHANGED <<written, pipe, tail>>
  BY <1>b, <1>1 DEF Tailed, Taken
<1>2. ASSUME NEW s \in Streams, Process!Read(s)
      PROVE  Tailed'
  <2>1. PICK n \in 1..Len(pipe[s]) :
          /\ tail' = [tail EXCEPT
                ![s] = Process!TailBuffer(tail[s], SubSeq(pipe[s], 1, n))]
          /\ pipe' = [pipe EXCEPT ![s] = SubSeq(pipe[s], n + 1, Len(pipe[s]))]
    BY <1>2 DEF Process!Read
  <2> DEFINE t == Process!TailBuffer(tail[s], SubSeq(pipe[s], 1, n))
             q == SubSeq(pipe[s], n + 1, Len(pipe[s]))
  <2>2. /\ Len(q) = Len(pipe[s]) - n /\ Len(t) = Kept(Taken(s) + n)
        /\ Run(t, Taken(s) + n - Len(t)) /\ Run(q, Taken(s) + n)
    BY ReadFacts
  <2>3. tail' = [tail EXCEPT ![s] = t] /\ pipe' = [pipe EXCEPT ![s] = q]
    BY <2>1
  <2> HIDE DEF t, q
  <2>4. UNCHANGED written
    BY <1>2 DEF Process!Read
  <2>5. tail'[s] = t /\ pipe'[s] = q
    BY <1>a, <2>3
  <2>6. Taken(s)' = Taken(s) + n /\ Len(pipe'[s]) <= written'[s]
    <3>1. /\ Len(pipe[s]) \in Nat /\ written[s] \in Nat /\ Len(pipe[s]) <= written[s]
          /\ Len(q) = Len(pipe[s]) - n
      BY <1>a, <1>b, <2>2 DEF Tailed
    <3>2. n \in Nat
      BY <3>1
    <3> QED
      BY <2>4, <2>5, <3>1, <3>2 DEF Taken
  <2>7. ASSUME NEW r \in Streams, r # s
        PROVE  UNCHANGED <<written[r], pipe[r], tail[r]>>
    BY <1>a, <2>3, <2>4, <2>7
  <2>8. /\ Run(pipe'[s], Taken(s)') /\ Len(tail'[s]) = Kept(Taken(s)')
        /\ Run(tail'[s], Taken(s)' - Len(tail'[s]))
    <3>1. Run(pipe'[s], Taken(s)')
      BY <2>2, <2>5, <2>6 DEF Run
    <3>2. Len(tail'[s]) = Kept(Taken(s)')
      BY <2>2, <2>5, <2>6 DEF Kept
    <3>3. Run(tail'[s], Taken(s)' - Len(tail'[s]))
      <4>1. Taken(s) \in Int /\ n \in Int /\ Len(t) \in Int
        BY <1>a, <2>2, <2>4 DEF Taken, Kept
      <4>2. Len(tail'[s]) = Len(t)
        BY <2>5
      <4>3. Taken(s)' - Len(tail'[s]) = Taken(s) + n - Len(t)
        BY <2>6, <4>1, <4>2
      <4>4. Run(t, Taken(s)' - Len(tail'[s]))
        BY <2>2, <4>3
      <4> QED
        BY <2>5, <4>4
    <3> QED
      BY <3>1, <3>2, <3>3
  <2>9. ASSUME NEW r \in Streams, r # s
        PROVE  /\ Len(pipe'[r]) <= written'[r]
               /\ Run(pipe'[r], Taken(r)') /\ Len(tail'[r]) = Kept(Taken(r)')
               /\ Run(tail'[r], Taken(r)' - Len(tail'[r]))
    BY <1>b, <2>7, <2>9 DEF Tailed, Taken
  <2> QED
    BY <2>6, <2>8, <2>9 DEF Tailed
<1>3. ASSUME NEW s \in Streams, Process!Write(s)
      PROVE  Tailed'
  <2>1. /\ written' = [written EXCEPT ![s] = @ + 1] /\ UNCHANGED tail
        /\ pipe' = [pipe EXCEPT ![s] = Append(@, written'[s])]
    BY <1>3 DEF Process!Write
  <2>2. /\ written'[s] = written[s] + 1 /\ tail'[s] = tail[s]
        /\ pipe'[s] = Append(pipe[s], written[s] + 1)
    BY <1>a, <2>1
  <2>3. /\ Len(pipe'[s]) = Len(pipe[s]) + 1
        /\ \A i \in 1..Len(pipe[s]) : pipe'[s][i] = pipe[s][i]
        /\ pipe'[s][Len(pipe[s]) + 1] = written[s] + 1
    BY <1>a, <2>2
  <2>4. Len(pipe[s]) \in Nat /\ written[s] \in Nat /\ Len(pipe[s]) <= written[s]
    BY <1>a, <1>b DEF Tailed
  <2>5. Taken(s)' = Taken(s) /\ Len(pipe'[s]) <= written'[s]
    BY <2>2, <2>3, <2>4 DEF Taken
  <2>6. Run(pipe'[s], Taken(s))
    <3>1. Run(pipe[s], Taken(s))
      BY <1>b DEF Tailed
    <3> SUFFICES ASSUME NEW i \in 1..Len(pipe'[s])
                 PROVE  pipe'[s][i] = Taken(s) + i
      BY DEF Run
    <3>2. CASE i \in 1..Len(pipe[s])
      BY <2>3, <3>1, <3>2 DEF Run
    <3>3. CASE i = Len(pipe[s]) + 1
      BY <2>3, <2>4, <3>3 DEF Taken
    <3> QED
      BY <2>3, <2>4, <3>2, <3>3
  <2>7. ASSUME NEW r \in Streams, r # s
        PROVE  UNCHANGED <<written[r], pipe[r], tail[r]>>
    BY <1>a, <2>1, <2>7
  <2>8. /\ Run(pipe'[s], Taken(s)') /\ Len(tail'[s]) = Kept(Taken(s)')
        /\ Run(tail'[s], Taken(s)' - Len(tail'[s]))
    BY <1>b, <2>2, <2>5, <2>6 DEF Tailed
  <2>9. ASSUME NEW r \in Streams, r # s
        PROVE  /\ Len(pipe'[r]) <= written'[r]
               /\ Run(pipe'[r], Taken(r)') /\ Len(tail'[r]) = Kept(Taken(r)')
               /\ Run(tail'[r], Taken(r)' - Len(tail'[r]))
    BY <1>b, <2>7, <2>9 DEF Tailed, Taken
  <2> QED
    BY <2>5, <2>8, <2>9 DEF Tailed
<1> USE DEF Process!streams
<1>4. CASE Process!Worker \/ Process!Stop
  BY <1>1, <1>4 DEF Process!Worker, Process!Stop, Process!Spawn, Process!SpawnFails,
     Process!Accept1Returns, Process!Accept2Returns, Process!AcceptTimeout,
     Process!Wait, Process!JoinReturns, Process!StopWait, Process!StopTimeout,
     Process!AgentEnds
<1>5. ASSUME NEW s \in Streams, Process!ReadEnd(s)
      PROVE  Tailed'
  BY <1>1, <1>5 DEF Process!ReadEnd
<1>6. CASE Process!Runtime
  BY <1>1, <1>6 DEF Process!Runtime, Process!Connect1, Process!Connect2,
     Process!Listen, Process!OutOfMemory, Process!Shutdown, Process!Exit,
     Process!Select
<1>7. CASE \/ Process!Killed \/ Process!ReceiveFails \/ Process!TaskEnds \/ Process!QueryMemory
           \/ Process!MemoryFalls \/ Process!CollectDump \/ Process!HeirExits
  BY <1>1, <1>7 DEF Process!Killed, Process!ReceiveFails, Process!TaskEnds, Process!QueryMemory,
     Process!MemoryFalls, Process!CollectDump, Process!HeirExits, Process!Select
<1>8. CASE UNCHANGED Process!vars
  BY <1>1, <1>8 DEF Process!vars
<1> QED
  BY <1>2, <1>3, <1>4, <1>5, <1>6, <1>7, <1>8
     DEF Process!Next, Process!Readers, Process!Environment

\* Every step keeps what is known of ended processes and closed channels.
LEMMA EndedStep ==
    ASSUME Process!TaskProcessAssumption, ProcessInv, [Process!Next]_Process!vars
    PROVE  Ended' /\ ClosedMeant'
<1> USE DEF ProcessInv, ProcessType, Process!TypeOK, Ended, ClosedMeant,
        Process!Alive, Process!agent, Process!ipc, Process!task, Process!streams
<1>1. CASE Process!Spawn \/ Process!SpawnFails
  BY <1>1 DEF Process!Spawn, Process!SpawnFails
<1>2. CASE Process!Accept1Returns \/ Process!Accept2Returns
  BY <1>2 DEF Process!Accept1Returns, Process!Accept2Returns
<1>3. CASE Process!AcceptTimeout \/ Process!Wait \/ Process!StopWait
  BY <1>3 DEF Process!AcceptTimeout, Process!Wait, Process!StopWait, Process!TryWait,
     Process!CloseIpc
<1>4. CASE Process!JoinReturns
  <2>1. \A s \in Streams : reader[s] = "returned"
    BY <1>4 DEF Process!JoinReturns, Process!Joined
  <2>2. p = "Exited" /\ ~heir
    BY <2>1 DEF Process!TaskProcessAssumption
  <2> QED
    BY <1>4, <2>1, <2>2 DEF Process!JoinReturns, Process!CloseIpc
<1>5. CASE Process!Stop \/ Process!StopTimeout \/ Process!AgentEnds
  BY <1>5 DEF Process!Stop, Process!StopTimeout, Process!AgentEnds, Process!CloseIpc,
     Process!Kill
<1>6. ASSUME NEW s \in Streams, Process!Read(s)
      PROVE  Ended' /\ ClosedMeant'
  BY <1>6 DEF Process!Read
<1>7. ASSUME NEW s \in Streams, Process!ReadEnd(s)
      PROVE  Ended' /\ ClosedMeant'
  BY <1>7 DEF Process!ReadEnd
<1>8. CASE \/ Process!Connect1 \/ Process!Connect2 \/ Process!Listen \/ Process!Exit
           \/ Process!ReceiveFails
  BY <1>8 DEF Process!Connect1, Process!Connect2, Process!Listen, Process!Exit,
     Process!ReceiveFails
<1>9. CASE Process!OutOfMemory \/ Process!Shutdown \/ Process!TaskEnds \/ Process!Killed
  BY <1>9 DEF Process!OutOfMemory, Process!Shutdown, Process!TaskEnds, Process!Killed,
     Process!Select
<1>10. CASE Process!QueryMemory \/ Process!MemoryFalls
  BY <1>10 DEF Process!QueryMemory, Process!MemoryFalls
<1>11. CASE Process!CollectDump \/ Process!HeirExits
  BY <1>11 DEF Process!CollectDump, Process!HeirExits
<1>12. ASSUME NEW s \in Streams, Process!Write(s)
       PROVE  Ended' /\ ClosedMeant'
  BY <1>12 DEF Process!Write
<1>13. CASE UNCHANGED Process!vars
  BY <1>13 DEF Process!vars
<1> QED
  BY <1>1, <1>2, <1>3, <1>4, <1>5, <1>6, <1>7, <1>8, <1>9, <1>10, <1>11, <1>12, <1>13
     DEF Process!Next, Process!Worker, Process!Readers, Process!Runtime,
         Process!Environment

\* Every step keeps the invariant of a worker.
LEMMA ProcessStep ==
    ASSUME Process!TaskProcessAssumption, ProcessInv, [Process!Next]_Process!vars
    PROVE  ProcessInv'
  BY ProcessTypeStep, TailedStep, EndedStep DEF ProcessInv

\* What is reported is the end of the output, and what is done is over.
LEMMA ProcessTruth ==
    ASSUME Process!TaskProcessAssumption, ProcessInv
    PROVE  Process!ProcessAccounted
<1>1. Process!DoneIsOver /\ Process!ShutdownMeant /\ Process!TypeOK
  BY DEF ProcessInv, ProcessType, Ended, ClosedMeant, Process!DoneIsOver,
     Process!ShutdownMeant
<1>2. Process!OutputIsTail
  <2> SUFFICES ASSUME w = "Done", NEW s \in Streams
               PROVE  out[s] = Process!Last(written[s], MaxTail)
    BY DEF Process!OutputIsTail
  <2>1. out[s] = tail[s] /\ pipe[s] = <<>>
    BY DEF ProcessInv, Ended
  <2>2. /\ tail[s] \in Seq(1..MaxOut) /\ written[s] \in Nat /\ MaxTail \in Nat
    BY DEF Process!TaskProcessAssumption, ProcessInv, ProcessType, Process!TypeOK
  <2>3. Taken(s) = written[s]
    BY <2>1, <2>2 DEF Taken
  <2>4. Len(tail[s]) = Kept(written[s]) /\ Run(tail[s], written[s] - Len(tail[s]))
    BY <2>3 DEF ProcessInv, Tailed
  <2>5. tail[s] = [i \in 1..Len(tail[s]) |-> tail[s][i]]
    BY <2>2
  <2>6. CASE written[s] < MaxTail
    <3>1. \A i \in 1..Len(tail[s]) : tail[s][i] = 0 + i
      BY <2>2, <2>4, <2>6 DEF Kept, Run
    <3>2. Len(tail[s]) = written[s]
      BY <2>4, <2>6 DEF Kept
    <3> QED
      BY <2>1, <2>5, <2>6, <3>1, <3>2 DEF Process!Last
  <2>7. CASE ~(written[s] < MaxTail)
    <3>1. \A i \in 1..Len(tail[s]) : tail[s][i] = written[s] - MaxTail + i
      BY <2>2, <2>4, <2>7 DEF Kept, Run
    <3>2. Len(tail[s]) = MaxTail
      BY <2>4, <2>7 DEF Kept
    <3> QED
      BY <2>1, <2>5, <2>7, <3>1, <3>2 DEF Process!Last
  <2> QED
    BY <2>6, <2>7
<1> QED
  BY <1>1, <1>2 DEF Process!ProcessAccounted

----------------------------------------------------------------------------
(* The pool's queue.  A pop receipt is no lock: a slow node may lose it to  *)
(* another one.  What decides is the deletion: a message is deleted once,  *)
(* its fate is settled then and only then, and only a claim that deletes   *)
(* it schedules its work set.                                              *)

\* A node that works towards a claim has a message.
HasMessage == \A n \in Nodes : node[n].pc # "Free" => node[n].msg \in Messages

\* The fate of a message is settled by its deletion.
Settled == \A m \in Messages : fate[m] = "Open" <=> queue[m].state # "Deleted"

\* A claimed message was scheduled by one node, any other one by none.
RanOnce ==
    \A m \in Messages :
        /\ fate[m] = "Claimed" => \E n \in Nodes : ran[m] = {n}
        /\ fate[m] # "Claimed" => ran[m] = {}

QueueInv == Pool!TypeOK /\ HasMessage /\ Settled /\ RanOnce

\* The queue starts with every work set waiting.
LEMMA QueueInit ==
    ASSUME Pool!PoolQueueAssumption, Pool!Init
    PROVE  QueueInv
PROOF
  BY DEF Pool!PoolQueueAssumption, Pool!Init, Pool!Free, QueueInv, Pool!TypeOK,
         HasMessage, Settled, RanOnce

\* A node that goes on keeps its message, one that is freed has none.
LEMMA NodeMoves ==
    ASSUME QueueInv, NEW n \in Nodes, node[n].pc # "Free",
           Pool!Frees(n) \/ \E q \in {"Claim", "Drop", "SettingUp"} : Pool!Goes(n, q)
    PROVE  /\ node' \in [Nodes -> [pc : {"Free", "Popped", "Claim", "Drop", "SettingUp"},
                                  msg : Messages \cup {None}]]
           /\ HasMessage'
PROOF
<1>1. CASE Pool!Frees(n)
  BY <1>1 DEF Pool!Frees, Pool!Free, QueueInv, Pool!TypeOK, HasMessage
<1>2. ASSUME NEW q \in {"Claim", "Drop", "SettingUp"}, Pool!Goes(n, q)
      PROVE  /\ node' \in [Nodes -> [pc : {"Free", "Popped", "Claim", "Drop", "SettingUp"},
                                    msg : Messages \cup {None}]]
             /\ HasMessage'
  BY <1>2 DEF Pool!Goes, QueueInv, Pool!TypeOK, HasMessage
<1>. QED  BY <1>1, <1>2

\* A claim that takes effect settles the fate of a message that was open.
LEMMA SettleStep ==
    ASSUME QueueInv, NEW n \in Nodes, Pool!Claiming(n), Pool!Holds(n), Pool!Delete(node[n].msg),
           NEW f \in {"Claimed", "Dropped", "Lost"},
           fate' = [fate EXCEPT ![node[n].msg] = f],
           IF f = "Claimed" THEN ran' = [ran EXCEPT ![node[n].msg] = @ \cup {n}]
                            ELSE ran' = ran
    PROVE  /\ queue' \in [Messages -> [state : {"Visible", "Hidden", "Deleted"},
                                       holder : Nodes \cup {None}]]
           /\ ran' \in [Messages -> SUBSET Nodes]
           /\ fate' \in [Messages -> {"Open", "Claimed", "Dropped", "Lost"}]
           /\ Settled' /\ RanOnce'
PROOF
<1>. DEFINE m == node[n].msg
<1>1. m \in Messages /\ queue[m].state # "Deleted"
  BY DEF Pool!Claiming, Pool!Holds, QueueInv, HasMessage
<1>2. fate[m] = "Open" /\ ran[m] = {}
  BY <1>1 DEF QueueInv, Settled, RanOnce
<1>3. queue' = [queue EXCEPT ![m].state = "Deleted"]
  BY DEF Pool!Delete
<1>4. fate' = [fate EXCEPT ![m] = f]
  OBVIOUS
<1>5. CASE f = "Claimed"
  <2>1. ran' = [ran EXCEPT ![m] = {n}]
    BY <1>2, <1>5
  <2>. HIDE DEF m
  <2>2. /\ queue'[m].state = "Deleted" /\ fate'[m] = "Claimed" /\ ran'[m] = {n}
        /\ \A k \in Messages : k # m => /\ queue'[k] = queue[k] /\ fate'[k] = fate[k]
                                       /\ ran'[k] = ran[k]
    BY <1>1, <1>3, <1>4, <1>5, <2>1 DEF QueueInv, Pool!TypeOK
  <2>3. Settled' /\ RanOnce'
    BY <1>1, <2>2 DEF QueueInv, Settled, RanOnce
  <2>4. ran' \in [Messages -> SUBSET Nodes]
    BY <2>1 DEF QueueInv, Pool!TypeOK
  <2>5. queue' \in [Messages -> [state : {"Visible", "Hidden", "Deleted"},
                                 holder : Nodes \cup {None}]]
    BY <1>1, <1>3 DEF QueueInv, Pool!TypeOK
  <2>6. fate' \in [Messages -> {"Open", "Claimed", "Dropped", "Lost"}]
    BY <1>4 DEF QueueInv, Pool!TypeOK
  <2>. QED  BY <2>3, <2>4, <2>5, <2>6
<1>6. CASE f # "Claimed"
  <2>1. ran' = ran
    BY <1>6
  <2>. HIDE DEF m
  <2>. QED  BY <1>1, <1>2, <1>3, <1>4, <1>6, <2>1 DEF QueueInv, Pool!TypeOK, Settled,
                                                      RanOnce
<1>. QED  BY <1>5, <1>6

\* Every step of the nodes, the queue and the service keeps the invariant.
LEMMA QueueStep ==
    ASSUME Pool!PoolQueueAssumption, QueueInv, [Pool!Next]_Pool!vars
    PROVE  QueueInv'
PROOF
<1>. USE DEF QueueInv
<1>a. MaxSlow \in Nat /\ MaxLostRequests \in Nat /\ MaxOutdated \in Nat
  BY DEF Pool!PoolQueueAssumption
<1>1. CASE Pool!StopTask
  BY <1>1 DEF Pool!StopTask, Pool!TypeOK, HasMessage, Settled, RanOnce
<1>2. CASE Pool!BecomeOutdated
  BY <1>2, <1>a DEF Pool!BecomeOutdated, Pool!TypeOK, HasMessage, Settled, RanOnce
<1>3. ASSUME NEW m \in Messages, Pool!VisibilityTimeout(m) \/ Pool!EarlyTimeout(m)
      PROVE  QueueInv'
  <2>1. /\ queue[m].state = "Hidden" /\ queue' = [queue EXCEPT ![m].state = "Visible"]
        /\ UNCHANGED <<stopped, outdated, node, ran, fate, faults, changes>>
    BY <1>3 DEF Pool!VisibilityTimeout, Pool!EarlyTimeout
  <2>2. slow' \in 0..MaxSlow
    BY <1>3, <1>a DEF Pool!VisibilityTimeout, Pool!EarlyTimeout, Pool!TypeOK
  <2>. QED  BY <2>1, <2>2 DEF Pool!TypeOK, HasMessage, Settled, RanOnce
<1>4. ASSUME NEW n \in Nodes, Pool!Reimage(n) PROVE QueueInv'
  BY <1>4 DEF Pool!Reimage, Pool!Frees, Pool!Free, Pool!TypeOK, HasMessage, Settled, RanOnce
<1>5. ASSUME NEW n \in Nodes, Pool!CanSchedule(n) PROVE QueueInv'
  <2>1. /\ node' \in [Nodes -> [pc : {"Free", "Popped", "Claim", "Drop", "SettingUp"},
                                msg : Messages \cup {None}]]
        /\ HasMessage'
    BY <1>5, NodeMoves DEF Pool!CanSchedule
  <2>. QED  BY <1>5, <2>1 DEF Pool!CanSchedule, Pool!TypeOK, Settled, RanOnce
<1>6. ASSUME NEW n \in Nodes, Pool!ClaimSucceeds(n) PROVE QueueInv'
  <2>0. /\ node' \in [Nodes -> [pc : {"Free", "Popped", "Claim", "Drop", "SettingUp"},
                                msg : Messages \cup {None}]]
        /\ HasMessage'
    BY <1>6, NodeMoves DEF Pool!ClaimSucceeds, Pool!Claiming
  <2>1. CASE node[n].pc = "Claim"
    <3>1. /\ queue' \in [Messages -> [state : {"Visible", "Hidden", "Deleted"},
                                      holder : Nodes \cup {None}]]
          /\ ran' \in [Messages -> SUBSET Nodes]
          /\ fate' \in [Messages -> {"Open", "Claimed", "Dropped", "Lost"}]
          /\ Settled' /\ RanOnce'
      BY <1>6, <2>1, SettleStep DEF Pool!ClaimSucceeds
    <3>. QED  BY <1>6, <2>0, <3>1 DEF Pool!ClaimSucceeds, Pool!TypeOK
  <2>2. CASE node[n].pc # "Claim"
    <3>1. /\ queue' \in [Messages -> [state : {"Visible", "Hidden", "Deleted"},
                                      holder : Nodes \cup {None}]]
          /\ ran' \in [Messages -> SUBSET Nodes]
          /\ fate' \in [Messages -> {"Open", "Claimed", "Dropped", "Lost"}]
          /\ Settled' /\ RanOnce'
      BY <1>6, <2>2, SettleStep DEF Pool!ClaimSucceeds
    <3>. QED  BY <1>6, <2>0, <3>1 DEF Pool!ClaimSucceeds, Pool!TypeOK
  <2>. QED  BY <2>1, <2>2
<1>7. ASSUME NEW n \in Nodes, Pool!ClaimRefused(n) PROVE QueueInv'
  BY <1>7 DEF Pool!ClaimRefused, Pool!Frees, Pool!Free, Pool!TypeOK, HasMessage, Settled,
              RanOnce
<1>8. ASSUME NEW n \in Nodes, Pool!ScaleInRefused(n) \/ Pool!ClaimFails(n) \/ Pool!Die(n)
      PROVE  QueueInv'
  <2>1. /\ faults < MaxLostRequests /\ faults' = faults + 1 /\ Pool!Frees(n)
        /\ UNCHANGED <<queue, stopped, outdated, ran, fate, changes, slow>>
    BY <1>8 DEF Pool!ScaleInRefused, Pool!ClaimFails, Pool!Die
  <2>. QED  BY <2>1, <1>a DEF Pool!Frees, Pool!Free, Pool!TypeOK, HasMessage, Settled,
                              RanOnce
<1>9. ASSUME NEW n \in Nodes, Pool!ClaimAnswerLost(n) PROVE QueueInv'
  <2>1. PICK f \in {"Lost", "Dropped"} : fate' = [fate EXCEPT ![node[n].msg] = f]
    BY <1>9 DEF Pool!ClaimAnswerLost
  <2>2. /\ queue' \in [Messages -> [state : {"Visible", "Hidden", "Deleted"},
                                    holder : Nodes \cup {None}]]
        /\ ran' \in [Messages -> SUBSET Nodes]
        /\ fate' \in [Messages -> {"Open", "Claimed", "Dropped", "Lost"}]
        /\ Settled' /\ RanOnce'
    BY <1>9, <2>1, SettleStep DEF Pool!ClaimAnswerLost
  <2>. QED  BY <1>9, <2>2, <1>a
    DEF Pool!ClaimAnswerLost, Pool!Frees, Pool!Free, Pool!TypeOK, HasMessage
<1>10. ASSUME NEW n \in Nodes, NEW m \in Messages, Pool!Pop(n, m) PROVE QueueInv'
  BY <1>10 DEF Pool!Pop, Pool!Hide, Pool!TypeOK, HasMessage, Settled, RanOnce
<1>11. ASSUME NEW n \in Nodes, NEW m \in Messages, Pool!PopLost(n, m) PROVE QueueInv'
  BY <1>11, <1>a DEF Pool!PopLost, Pool!Hide, Pool!TypeOK, HasMessage, Settled, RanOnce
<1>12. CASE UNCHANGED Pool!vars
  BY <1>12 DEF Pool!vars, Pool!TypeOK, HasMessage, Settled, RanOnce
<1>. QED
  BY <1>1, <1>2, <1>3, <1>4, <1>5, <1>6, <1>7, <1>8, <1>9, <1>10, <1>11, <1>12
     DEF Pool!Next, Pool!Answer, Pool!Fault

----------------------------------------------------------------------------
(* The log uploader, with one node.  The loop keeps no position of its     *)
(* own: between get_properties and append_block the blob is as long as the *)
(* position says, or by the block longer when the answer of a first append *)
(* was lost, and a pass that ends in any way throws the position away.     *)

Bytes == Uploaders \X (1..MaxLog)

\* The blob is a beginning of the log of n.
Prefix(n) ==
    blob # None =>
        /\ blob \in Seq(Bytes) /\ Len(blob) <= log[n]
        /\ \A i \in 1..Len(blob) : blob[i] = <<n, i>>

\* The block of a pass starts where the blob ends, or is already at its end, for as long
\* as it is going to be appended; it is empty only at the end of the file.
PositionFresh(n) ==
    up[n] = "append" =>
        /\ blob # None
        /\ resent[n] = "no" => pos[n] = Len(blob)
        /\ pos[n] + size[n] <= log[n]
        /\ stopped[n] /\ size[n] = 0 => pos[n] = log[n]

\* The loop is only told to stop when the log grows no more.
StopsAfterExit(n) ==
    /\ stopped[n] \/ permit[n] \/ worker[n] \in {"flushing", "flushed", "timedout"} => ~live[n]
    /\ worker[n] = "flushed" => up[n] = "ended"

\* A loop that has ended without a failure has uploaded everything.
EndedComplete(n) ==
    up[n] = "ended" /\ n \notin cut =>
        IF blob = None THEN log[n] = 0 ELSE Len(blob) = log[n]

\* What holds until a block is doubled.
Faithful(n) == Prefix(n) /\ PositionFresh(n) /\ EndedComplete(n)

UploadInv ==
    /\ Log!TypeOK
    /\ \A n \in Uploaders : /\ StopsAfterExit(n)
                            /\ up[n] = "ended" => stopped[n]
                            /\ up[n] = "append" => blob # None
                            /\ resent[n] # "doubled" => Faithful(n)

\* Nothing is written before the first pass.
LEMMA UploadInit ==
    ASSUME Log!LogUploaderAssumption, Log!Init
    PROVE  UploadInv
PROOF
  BY DEF Log!LogUploaderAssumption, Log!Init, UploadInv, Log!TypeOK, Prefix, PositionFresh,
         StopsAfterExit, EndedComplete, Faithful

Block(n) == [i \in 1..size[n] |-> <<n, pos[n] + i>>]

\* The block is part of the log.
LEMMA BlockFacts ==
    ASSUME Log!LogUploaderAssumption, Log!TypeOK, NEW n \in Uploaders,
           Log!Readable(n), blob # None
    PROVE  /\ size[n] \in Nat /\ pos[n] \in Nat /\ log[n] \in Nat
           /\ Block(n) \in Seq(Bytes) /\ Len(Block(n)) = size[n]
           /\ blob \in Seq(Bytes) /\ blob \o Block(n) \in Seq(Bytes)
           /\ Len(blob \o Block(n)) = Len(blob) + size[n]
PROOF
<1>1. /\ log[n] \in 0..MaxLog /\ pos[n] \in Nat /\ size[n] \in 0..MaxBlock
      /\ MaxBlock \in Nat \ {0} /\ MaxLog \in Nat
  BY DEF Log!LogUploaderAssumption, Log!TypeOK
<1>2. blob \in Seq(Bytes)
  BY DEF Log!TypeOK, Bytes
<1>. DEFINE k == size[n]
<1>3. k \in Nat /\ pos[n] + k <= log[n]
  BY <1>1 DEF Log!Readable
<1>. HIDE DEF k
<1>4. Block(n) = [i \in 1..k |-> <<n, pos[n] + i>>]
  BY DEF Block, k
<1>5. \A i \in 1..k : <<n, pos[n] + i>> \in Bytes
  BY <1>1, <1>3 DEF Bytes
<1>6. Block(n) \in Seq(Bytes) /\ Len(Block(n)) = k
  BY <1>3, <1>4, <1>5
<1>7. blob \o Block(n) \in Seq(Bytes) /\ Len(blob \o Block(n)) = Len(blob) + k
  BY <1>2, <1>6, ConcatProperties
<1>. QED  BY <1>1, <1>2, <1>3, <1>6, <1>7 DEF k

\* What an append does to a blob that is a beginning of the log, and ends where the block
\* starts.
LEMMA AppendFacts ==
    ASSUME Log!LogUploaderAssumption, Log!TypeOK, NEW n \in Uploaders,
           Log!Readable(n), blob # None, Prefix(n), pos[n] = Len(blob)
    PROVE  /\ Len(blob \o Block(n)) <= log[n]
           /\ \A i \in 1..Len(blob \o Block(n)) : (blob \o Block(n))[i] = <<n, i>>
PROOF
<1>1. /\ size[n] \in Nat /\ pos[n] \in Nat /\ log[n] \in Nat
      /\ Block(n) \in Seq(Bytes) /\ Len(Block(n)) = size[n]
      /\ blob \in Seq(Bytes) /\ blob \o Block(n) \in Seq(Bytes)
      /\ Len(blob \o Block(n)) = Len(blob) + size[n]
  BY BlockFacts
<1>2. \A i \in 1..Len(blob) : blob[i] = <<n, i>>
  BY DEF Prefix
<1>3. ASSUME NEW i \in 1..Len(blob \o Block(n)) PROVE (blob \o Block(n))[i] = <<n, i>>
  <2>1. CASE i <= Len(blob)
    BY <1>1, <1>2, <2>1, ConcatProperties
  <2>2. CASE i > Len(blob)
    <3>1. i - Len(blob) \in 1..size[n]
      BY <1>1, <2>2
    <3>2. (blob \o Block(n))[i] = Block(n)[i - Len(blob)]
      BY <1>1, <2>2, ConcatProperties
    <3>3. Block(n)[i - Len(blob)] = <<n, pos[n] + (i - Len(blob))>>
      BY <3>1 DEF Block
    <3>. QED  BY <1>1, <3>2, <3>3
  <2>. QED  BY <2>1, <2>2, <1>1
<1>. QED  BY <1>1, <1>3 DEF Log!Readable

\* Opening the file at the end of the blob starts a pass with a fresh position.
LEMMA OpenFacts ==
    ASSUME Log!LogUploaderAssumption, Log!TypeOK, NEW n \in Uploaders,
           NEW start \in Nat, Log!OpenFile(n, start)
    PROVE  /\ pos' \in [Uploaders -> Nat] /\ pos'[n] = start
           /\ size' \in [Uploaders -> 0..MaxBlock]
           /\ resent' \in [Uploaders -> {"no", "applied", "doubled"}]
           /\ resent'[n] = "doubled" <=> resent[n] = "doubled"
           /\ start <= log[n] =>
                start + size'[n] <= log[n] /\ (size'[n] = 0 => start = log[n])
  BY DEF Log!LogUploaderAssumption, Log!TypeOK, Log!OpenFile

\* Every step of the task, of the worker and of the loop keeps the invariant.
LEMMA UploadStep ==
    ASSUME Log!LogUploaderAssumption, Log!OneNode, UploadInv, [Log!Next]_Log!vars
    PROVE  UploadInv'
PROOF
<1>a. /\ MaxLog \in Nat /\ MaxBlock \in Nat \ {0} /\ MaxFails \in Nat
      /\ None \notin Seq(Bytes) /\ None # <<>>
  <2>1. <<>> \in Seq(Bytes)
    OBVIOUS
  <2>. QED  BY <2>1 DEF Log!LogUploaderAssumption, Bytes
<1>1. CASE UNCHANGED Log!vars
  BY <1>1 DEF Log!vars, UploadInv, Log!TypeOK, Prefix, PositionFresh, StopsAfterExit,
              EndedComplete, Faithful
<1>2. ASSUME NEW n \in Uploaders,
             \/ Log!WriteLog(n) \/ Log!TaskExits(n)
             \/ Log!StopSync(n) \/ Log!StopSyncReturns(n) \/ Log!DropUploader(n)
             \/ Log!Loop(n) \/ Log!AnswerLost(n) \/ Log!SyncFails(n)
      PROVE  UploadInv'
  <2>o. \A m \in Uploaders : m = n
    BY DEF Log!OneNode
  <2>t. /\ Log!TypeOK /\ StopsAfterExit(n)
        /\ up[n] = "ended" => stopped[n]
        /\ up[n] = "append" => blob # None
        /\ resent[n] # "doubled" => Prefix(n) /\ PositionFresh(n) /\ EndedComplete(n)
    BY DEF UploadInv, Faithful
  <2>s. SUFFICES /\ Log!TypeOK' /\ StopsAfterExit(n)'
                 /\ up'[n] = "ended" => stopped'[n]
                 /\ up'[n] = "append" => blob' # None
                 /\ resent'[n] # "doubled" =>
                      Prefix(n)' /\ PositionFresh(n)' /\ EndedComplete(n)'
    BY <2>o DEF UploadInv, Faithful
  <2>n. /\ log[n] \in 0..MaxLog /\ pos[n] \in Nat /\ size[n] \in 0..MaxBlock
        /\ up \in [Uploaders -> {"sync", "create", "append", "idle", "ended"}]
        /\ resent \in [Uploaders -> {"no", "applied", "doubled"}]
    BY <2>t DEF Log!TypeOK
  <2>1. CASE Log!WriteLog(n)
    <3>1. log' \in [Uploaders -> 0..MaxLog] /\ log'[n] = log[n] + 1 /\ live[n]
      BY <1>a, <2>1, <2>t DEF Log!WriteLog, Log!TypeOK
    <3>2. UNCHANGED <<live, worker, up, stopped, permit, pos, size, blob, fails, cut, resent>>
      BY <2>1 DEF Log!WriteLog
    <3>3. ~stopped[n] /\ up[n] # "ended"
      BY <3>1, <2>t DEF StopsAfterExit
    <3>4. resent[n] # "doubled" => Prefix(n)'
      BY <3>1, <3>2, <2>n, <2>t DEF Prefix
    <3>5. resent[n] # "doubled" => PositionFresh(n)' /\ EndedComplete(n)'
      BY <1>a, <3>1, <3>2, <3>3, <2>n, <2>t DEF PositionFresh, EndedComplete
    <3>. QED
      BY <3>1, <3>2, <3>4, <3>5, <2>t DEF Log!TypeOK, StopsAfterExit
  <2>2. CASE Log!TaskExits(n)
    BY <2>2, <2>t
       DEF Log!TaskExits, Log!TypeOK, Prefix, PositionFresh, StopsAfterExit, EndedComplete
  <2>3. CASE Log!StopSync(n)
    BY <2>3, <2>t DEF Log!StopSync, Log!TypeOK, Prefix, PositionFresh, StopsAfterExit,
                      EndedComplete
  <2>4. CASE Log!StopSyncReturns(n)
    BY <2>4, <2>t
       DEF Log!StopSyncReturns, Log!TypeOK, Prefix, PositionFresh, StopsAfterExit,
           EndedComplete
  <2>5. CASE Log!DropUploader(n)
    BY <2>5, <2>t
       DEF Log!DropUploader, Log!TypeOK, Prefix, PositionFresh, StopsAfterExit,
           EndedComplete
  <2>6. CASE Log!Wake(n)
    BY <2>6, <2>t DEF Log!Wake, Log!TypeOK, Prefix, PositionFresh, StopsAfterExit,
                      EndedComplete
  <2>7. CASE Log!NoFile(n)
    <3>1. /\ up'[n] \in {"idle", "ended", "sync"}
          /\ up' \in [Uploaders -> {"sync", "create", "append", "idle", "ended"}]
          /\ up'[n] = "ended" => stopped[n]
          /\ up[n] = "sync" /\ log[n] = 0 /\ cut' = cut \ {n}
          /\ UNCHANGED <<log, live, worker, stopped, permit, pos, size, blob, fails, resent>>
      BY <2>7, <2>t DEF Log!NoFile, Log!Synced, Log!TypeOK
    <3>2. resent[n] # "doubled" => blob = None \/ Len(blob) = 0
      BY <3>1, <2>t DEF Prefix
    <3>3. resent[n] # "doubled" => EndedComplete(n)'
      BY <3>1, <3>2 DEF EndedComplete
    <3>. QED
      BY <3>1, <3>3, <2>t DEF Log!TypeOK, Prefix, PositionFresh, StopsAfterExit
  <2>8. CASE Log!GetProperties(n)
    <3>1. CASE blob = None
      BY <2>8, <3>1, <2>t
         DEF Log!GetProperties, Log!TypeOK, Prefix, PositionFresh, StopsAfterExit,
             EndedComplete
    <3>2. CASE blob # None
      <4>1. Len(blob) \in Nat
        BY <3>2, <2>t DEF Log!TypeOK
      <4>2. /\ up[n] = "sync" /\ up' = [up EXCEPT ![n] = "append"]
            /\ Log!OpenFile(n, Len(blob))
            /\ UNCHANGED <<log, live, worker, stopped, permit, blob, fails, cut>>
        BY <2>8, <3>2 DEF Log!GetProperties
      <4>3. /\ pos' \in [Uploaders -> Nat] /\ pos'[n] = Len(blob)
            /\ size' \in [Uploaders -> 0..MaxBlock]
            /\ resent' \in [Uploaders -> {"no", "applied", "doubled"}]
            /\ resent'[n] = "doubled" <=> resent[n] = "doubled"
            /\ Len(blob) <= log[n] => /\ Len(blob) + size'[n] <= log[n]
                                      /\ size'[n] = 0 => Len(blob) = log[n]
        BY <4>1, <4>2, <2>t, OpenFacts
      <4>4. up'[n] = "append" /\ up' \in [Uploaders -> {"sync", "create", "append", "idle", "ended"}]
        BY <4>2, <2>n
      <4>5. Log!TypeOK'
        BY <4>2, <4>3, <4>4, <2>t DEF Log!TypeOK
      <4>6. resent'[n] # "doubled" => Prefix(n)' /\ PositionFresh(n)' /\ EndedComplete(n)'
        BY <3>2, <4>2, <4>3, <4>4, <2>t DEF Prefix, PositionFresh, EndedComplete
      <4>. QED  BY <3>2, <4>2, <4>4, <4>5, <4>6, <2>t DEF StopsAfterExit
    <3>. QED  BY <3>1, <3>2
  <2>9. CASE Log!CreateBlob(n)
    <3>1. /\ up[n] = "create" /\ up' = [up EXCEPT ![n] = "append"] /\ blob' = <<>>
          /\ Log!OpenFile(n, 0)
          /\ UNCHANGED <<log, live, worker, stopped, permit, fails, cut>>
      BY <2>9 DEF Log!CreateBlob
    <3>2. /\ pos' \in [Uploaders -> Nat] /\ pos'[n] = 0
          /\ size' \in [Uploaders -> 0..MaxBlock]
          /\ resent' \in [Uploaders -> {"no", "applied", "doubled"}]
          /\ 0 + size'[n] <= log[n] /\ (size'[n] = 0 => 0 = log[n])
      BY <3>1, <2>n, <2>t, OpenFacts
    <3>3. blob' \in Seq(Uploaders \X (1..MaxLog)) /\ Len(blob') = 0 /\ blob' # None
      BY <3>1, <1>a
    <3>4. up'[n] = "append" /\ up' \in [Uploaders -> {"sync", "create", "append", "idle", "ended"}]
      BY <3>1, <2>n
    <3>5. Log!TypeOK'
      BY <3>1, <3>2, <3>3, <3>4, <2>t DEF Log!TypeOK
    <3>6. Prefix(n)' /\ EndedComplete(n)'
      BY <3>1, <3>3, <3>4, <2>n DEF Prefix, Bytes, EndedComplete
    <3>7. PositionFresh(n)'
      BY <3>1, <3>2, <3>3, <2>n DEF PositionFresh
    <3>. QED
      BY <3>1, <3>3, <3>4, <3>5, <3>6, <3>7, <2>t DEF StopsAfterExit
  <2>e. ASSUME NEW lost \in {"no", "applied"}, up[n] = "append", Log!Readable(n),
               Log!Appended(n, lost), log' = log
        PROVE  /\ blob' \in Seq(Bytes) /\ blob' # None
               /\ Len(blob') = Len(blob) + size[n]
               /\ resent' \in [Uploaders -> {"no", "applied", "doubled"}]
               /\ resent'[n] # "doubled" =>
                    /\ resent[n] = "no" /\ resent'[n] = lost /\ pos[n] = Len(blob)
                    /\ Prefix(n)'
    <3>1. blob' = blob \o Block(n) /\ blob # None
      BY <2>e, <2>t DEF Log!Appended, Block
    <3>2. /\ blob' \in Seq(Bytes) /\ Len(blob') = Len(blob) + size[n]
      BY <2>e, <3>1, <2>t, BlockFacts
    <3>3. /\ resent' = [resent EXCEPT ![n] = IF @ = "no" THEN lost ELSE "doubled"]
      BY <2>e DEF Log!Appended
    <3>4. resent'[n] # "doubled" => resent[n] = "no" /\ resent'[n] = lost
      BY <3>3, <2>n
    <3>5. resent[n] = "no" => pos[n] = Len(blob) /\ Prefix(n)
      BY <2>e, <2>t DEF PositionFresh
    <3>6. resent[n] = "no" => Prefix(n)'
      BY <2>e, <3>1, <3>2, <3>5, <2>t, AppendFacts DEF Prefix
    <3>7. resent' \in [Uploaders -> {"no", "applied", "doubled"}]
      BY <2>e, <3>3, <2>n
    <3>. QED  BY <3>2, <3>4, <3>5, <3>6, <3>7, <1>a
  <2>10. CASE Log!AppendBlock(n)
    <3>1. /\ up[n] = "append" /\ Log!Readable(n) /\ Log!Appended(n, "no")
          /\ up' = [up EXCEPT ![n] = IF ~stopped[n] THEN "idle"
                                     ELSE IF size[n] = 0 THEN "ended" ELSE "sync"]
          /\ cut' = cut \ {n}
          /\ UNCHANGED <<log, live, worker, stopped, permit, pos, size, fails>>
      BY <2>10 DEF Log!AppendBlock, Log!Synced
    <3>2. /\ blob' \in Seq(Bytes) /\ blob' # None
          /\ Len(blob') = Len(blob) + size[n]
          /\ resent' \in [Uploaders -> {"no", "applied", "doubled"}]
          /\ resent'[n] # "doubled" =>
               resent[n] = "no" /\ pos[n] = Len(blob) /\ Prefix(n)'
      BY <3>1, <2>e
    <3>3. /\ up'[n] \in {"idle", "ended", "sync"}
          /\ up' \in [Uploaders -> {"sync", "create", "append", "idle", "ended"}]
          /\ up'[n] = "ended" => stopped[n] /\ size[n] = 0
      BY <3>1, <2>n
    <3>4. Log!TypeOK'
      BY <3>1, <3>2, <3>3, <2>t DEF Log!TypeOK, Bytes
    <3>5. resent'[n] # "doubled" => EndedComplete(n)'
      <4>1. resent'[n] # "doubled" /\ up'[n] = "ended" => pos[n] = log[n] /\ size[n] = 0
        BY <3>1, <3>2, <3>3, <2>t DEF PositionFresh
      <4>2. resent'[n] # "doubled" /\ up'[n] = "ended" => Len(blob') = log'[n]
        BY <3>1, <3>2, <4>1, <2>n
      <4>. QED  BY <3>2, <4>2 DEF EndedComplete
    <3>. QED
      BY <3>1, <3>2, <3>3, <3>4, <3>5, <2>t DEF PositionFresh, StopsAfterExit
  <2>11. CASE Log!AppendNothing(n)
    BY <2>11, <2>t
       DEF Log!AppendNothing, Log!Synced, Log!TypeOK, Prefix, PositionFresh,
           StopsAfterExit, EndedComplete
  <2>12. CASE Log!SyncFails(n)
    <3>1. /\ up[n] \in {"sync", "create", "append"}
          /\ up'[n] \in {"idle", "ended"}
          /\ up' \in [Uploaders -> {"sync", "create", "append", "idle", "ended"}]
          /\ up'[n] = "ended" => stopped[n]
          /\ cut' = cut \cup {n} /\ fails' \in 0..MaxFails
          /\ UNCHANGED <<log, live, worker, stopped, permit, pos, size>>
      BY <2>12, <2>t, <1>a DEF Log!SyncFails, Log!Synced, Log!TypeOK
    <3>2. /\ blob' = None \/ blob' \in Seq(Uploaders \X (1..MaxLog))
          /\ resent' \in [Uploaders -> {"no", "applied", "doubled"}]
          /\ resent'[n] # "doubled" => Prefix(n)'
      <4>1. CASE UNCHANGED <<blob, resent>>
        BY <4>1, <3>1, <2>t DEF Prefix, Log!TypeOK
      <4>2. CASE up[n] = "append" /\ Log!Readable(n) /\ Log!Appended(n, "applied")
        BY <4>2, <3>1, <2>e DEF Bytes
      <4>. QED  BY <4>1, <4>2, <2>12 DEF Log!SyncFails
    <3>3. n \in cut'
      BY <3>1
    <3>4. Log!TypeOK'
      BY <3>1, <3>2, <2>t DEF Log!TypeOK
    <3>. QED
      BY <3>1, <3>2, <3>3, <3>4, <2>t DEF PositionFresh, StopsAfterExit, EndedComplete
  <2>13. CASE Log!AnswerLost(n)
    <3>1. /\ up[n] = "append" /\ Log!Readable(n) /\ size[n] > 0
          /\ Log!Appended(n, "applied") /\ fails' \in 0..MaxFails
          /\ UNCHANGED <<log, live, worker, up, stopped, permit, pos, size, cut>>
      BY <2>13, <2>t, <1>a DEF Log!AnswerLost, Log!TypeOK
    <3>2. /\ blob' \in Seq(Bytes) /\ blob' # None
          /\ resent' \in [Uploaders -> {"no", "applied", "doubled"}]
          /\ resent'[n] # "doubled" => resent'[n] = "applied" /\ Prefix(n)'
      BY <3>1, <2>e
    <3>3. Log!TypeOK'
      BY <3>1, <3>2, <2>t DEF Log!TypeOK, Bytes
    <3>4. PositionFresh(n)' \/ resent'[n] = "doubled"
      BY <3>1, <3>2, <2>n DEF PositionFresh, Log!Readable
    <3>. QED
      BY <3>1, <3>2, <3>3, <3>4, <2>t DEF StopsAfterExit, EndedComplete
  <2>. QED
    BY <1>2, <2>1, <2>2, <2>3, <2>4, <2>5, <2>6, <2>7, <2>8, <2>9, <2>10, <2>11, <2>12,
       <2>13 DEF Log!Loop
<1>. QED  BY <1>1, <1>2 DEF Log!Next

\* A beginning of the log that is as long as the log is all of it.
LEMMA PrefixFacts ==
    ASSUME UploadInv
    PROVE  Log!LogComplete
PROOF
<1>. SUFFICES ASSUME ~Log!Doubled PROVE Log!BlobIsLog /\ Log!FlushComplete
  BY DEF Log!LogComplete
<1>0. \A n \in Uploaders : Prefix(n) /\ EndedComplete(n)
  BY DEF UploadInv, Log!Doubled, Faithful
<1>1. Log!BlobIsLog
  <2>. SUFFICES ASSUME blob # None, NEW i \in 1..Len(blob)
                PROVE  \E n \in Uploaders : blob[i] = <<n, i>> /\ i <= log[n]
    BY DEF Log!BlobIsLog
  <2>1. blob \in Seq(Uploaders \X (1..MaxLog))
    BY DEF UploadInv, Log!TypeOK
  <2>2. blob[i] \in Uploaders \X (1..MaxLog)
    BY <2>1
  <2>3. blob[i][1] \in Uploaders
    BY <2>2
  <2>4. Prefix(blob[i][1]) /\ log[blob[i][1]] \in Nat
    BY <1>0, <2>3 DEF UploadInv, Log!TypeOK
  <2>5. blob[i] = <<blob[i][1], i>> /\ i <= log[blob[i][1]]
    BY <2>1, <2>4 DEF Prefix
  <2>. QED  BY <2>3, <2>5
<1>2. Log!FlushComplete
  <2>. SUFFICES ASSUME NEW n \in Uploaders, worker[n] = "flushed", n \notin cut
                PROVE  Log!Uploaded(n) = 1..log[n]
    BY DEF Log!FlushComplete
  <2>1. IF blob = None THEN log[n] = 0 ELSE Len(blob) = log[n]
    BY <1>0 DEF UploadInv, StopsAfterExit, EndedComplete
  <2>2. CASE blob = None
    BY <2>1, <2>2 DEF Log!Uploaded
  <2>3. CASE blob # None
    <3>1. \A i \in 1..Len(blob) : blob[i] = <<n, i>>
      BY <1>0, <2>3 DEF Prefix
    <3>2. {j \in 1..Len(blob) : blob[j][1] = n} = 1..Len(blob)
      BY <3>1
    <3>3. {blob[i][2] : i \in 1..Len(blob)} = {i : i \in 1..Len(blob)}
      BY <3>1
    <3>. QED  BY <2>1, <2>3, <3>2, <3>3 DEF Log!Uploaded
  <2>. QED  BY <2>2, <2>3
<1>. QED  BY <1>1, <1>2

----------------------------------------------------------------------------
(* The proxy manager.  What the units run is only right if, between the    *)
(* steps of an update, an active unit runs what its file says and a socket *)
(* with a file is active.  Each holds except for the one unit that is being *)
(* changed, and neither survives a kill at that moment, which is why the   *)
(* property excludes it.                                                   *)

\* The unit being changed: its file is gone after RemoveFile, it is wanted when its file
\* is written, and then the file is the wanted one.
UnitShape ==
    /\ pc \in {"Remove", "Stop", "Write", "Start"} => unit \in Proxy!Units
    /\ pc \in {"Stop", "Write"} => files[unit] = None
    /\ pc \in {"Write", "Start"} => Proxy!Built(data)[unit] # None
    /\ pc = "Start" => files[unit] = Proxy!Built(data)[unit]
    /\ pc = "Add" => todo = {}

\* During an update each unit file is the wanted one or has still to be looked at.
Reconciled ==
    pc \in {"Scan", "Remove", "Stop", "Write", "Start", "Add", "Notify"} =>
        \A u \in Proxy!Units : files[u] # None =>
            \/ files[u] = Proxy!Built(data)[u]
            \/ pc \notin {"Add", "Notify"} /\ u \in todo
            \/ pc = "Remove" /\ u = unit

\* Before the report no wanted file is missing.
AllWritten ==
    pc = "Notify" => \A u \in Proxy!Units : Proxy!Built(data)[u] # None => files[u] # None

SocketFiles == \A u \in Proxy!Units : u[2] = "socket" => files[u] \in {None, "listen"}

\* Without a kill, an active unit runs what its file says.
ActiveMatches ==
    crashes = 0 =>
        \A u \in Proxy!Units : active[u] # None =>
            active[u] = files[u] \/ (pc = "Stop" /\ u = unit)

\* Without a kill, a socket that has a file is active.
SocketsUp ==
    crashes = 0 =>
        \A u \in Proxy!Units : u[2] = "socket" /\ files[u] # None =>
            active[u] # None \/ (pc = "Start" /\ u = unit)

ProxyInv ==
    /\ Proxy!TypeOK
    /\ UnitShape /\ Reconciled /\ AllWritten
    /\ SocketFiles /\ ActiveMatches /\ SocketsUp

Shape == UnitShape /\ Reconciled /\ AllWritten /\ SocketFiles /\ ActiveMatches /\ SocketsUp

\* The socket of a unit is a unit of the same port, and of a socket it is itself; the
\* files that are built have contents of the right kind.
LEMMA UnitFacts ==
    ASSUME Proxy!ProxyManagerAssumption, data \in Proxy!Forwards
    PROVE  /\ \A u \in Proxy!Units : /\ Proxy!Socket(u) \in Proxy!Units /\ Proxy!Socket(u)[2] = "socket"
                                     /\ u[2] = "socket" => Proxy!Socket(u) = u
           /\ Proxy!Built(data) \in [Proxy!Units -> Machines \cup {"listen", None}]
           /\ \A u \in Proxy!Units : u[2] = "socket" =>
                Proxy!Built(data)[u] \in {None, "listen"}
PROOF
<1>1. ASSUME NEW u \in Proxy!Units
      PROVE  /\ Proxy!Socket(u) \in Proxy!Units /\ Proxy!Socket(u)[2] = "socket"
             /\ u[2] = "socket" => Proxy!Socket(u) = u
  BY DEF Proxy!Units, Proxy!Socket
<1>2. Proxy!Built(data) \in [Proxy!Units -> Machines \cup {"listen", None}]
  <2>1. \A u \in Proxy!Units : u[1] \in Ports /\ data[u[1]] \in Machines \cup {None}
    BY DEF Proxy!Units, Proxy!Forwards
  <2>. QED  BY <2>1 DEF Proxy!Built
<1>3. \A u \in Proxy!Units : u[2] = "socket" => Proxy!Built(data)[u] \in {None, "listen"}
  BY DEF Proxy!Built
<1>. QED  BY <1>1, <1>2, <1>3

\* The manager starts with nothing to serve.
LEMMA ProxyInit ==
    ASSUME Proxy!ProxyManagerAssumption, Proxy!Init
    PROVE  ProxyInv
PROOF
<1>1. /\ Proxy!NoForwards \in Proxy!Forwards
      /\ Proxy!NoUnits \in [Proxy!Units -> Machines \cup {"listen", None}]
  BY DEF Proxy!NoForwards, Proxy!Forwards, Proxy!NoUnits
<1>2. Proxy!TypeOK
  <2>1. 0 \in 0..MaxProxyRetries /\ 0 \in 0..MaxChanges /\ 0 \in 0..MaxCrashes
    BY DEF Proxy!ProxyManagerAssumption
  <2>. QED  BY <1>1, <2>1, Zenon DEF Proxy!Init, Proxy!TypeOK
<1>3. \A u \in Proxy!Units : files[u] = None /\ active[u] = None
  BY DEF Proxy!Init, Proxy!NoUnits
<1>. QED
  BY <1>2, <1>3 DEF Proxy!Init, ProxyInv, UnitShape, Reconciled, AllWritten, SocketFiles,
                    ActiveMatches, SocketsUp

\* A step of the service leaves the manager and the units alone.
LEMMA ServiceStep ==
    ASSUME Proxy!ProxyManagerAssumption, ProxyInv,
           \/ \E m \in Machines : Proxy!CreateForward(m)
           \/ \E q \in Ports : Proxy!RemoveForward(q)
           \/ Proxy!TimerProxy
    PROVE  ProxyInv'
PROOF
<1>1. UNCHANGED <<heartbeat, data, saved, Proxy!units, pc, Proxy!work, crashes>>
  BY DEF Proxy!CreateForward, Proxy!RemoveForward, Proxy!TimerProxy, Proxy!config
<1>2. Shape'
  BY <1>1 DEF Shape, ProxyInv, UnitShape, Reconciled, AllWritten, SocketFiles,
              ActiveMatches, SocketsUp, Proxy!units, Proxy!work
<1>3. MaxChanges \in Nat
  BY DEF Proxy!ProxyManagerAssumption
<1>4. Proxy!TypeOK
  BY DEF ProxyInv
<1>5. ASSUME NEW m \in Machines, Proxy!CreateForward(m) PROVE Proxy!TypeOK'
  <2>1. table' \in Proxy!Forwards
    BY <1>4, <1>5 DEF Proxy!CreateForward, Proxy!TypeOK, Proxy!Forwards
  <2>2. blob' = table' /\ etag' \in {"None", "Current", "Old"}
        /\ current' = FALSE /\ savedCurrent' = FALSE /\ changes' \in 0..MaxChanges
    BY <1>3, <1>4, <1>5 DEF Proxy!CreateForward, Proxy!SaveProxyConfig, Proxy!TypeOK
  <2>. QED  BY <1>1, <1>4, <2>1, <2>2 DEF Proxy!TypeOK, Proxy!units, Proxy!work
<1>6. ASSUME NEW q \in Ports, Proxy!RemoveForward(q) PROVE Proxy!TypeOK'
  <2>1. table' \in Proxy!Forwards
    BY <1>4, <1>6 DEF Proxy!RemoveForward, Proxy!TypeOK, Proxy!Forwards
  <2>2. changes' \in 0..MaxChanges /\ UNCHANGED <<blob, Proxy!config>>
    BY <1>3, <1>4, <1>6 DEF Proxy!RemoveForward, Proxy!TypeOK
  <2>. QED  BY <1>1, <1>4, <2>1, <2>2 DEF Proxy!TypeOK, Proxy!units, Proxy!work,
                                          Proxy!config
<1>7. CASE Proxy!TimerProxy
  <2>1. blob' = table /\ etag' \in {"None", "Current", "Old"} /\ table' = table
        /\ current' = FALSE /\ savedCurrent' = FALSE /\ changes' = changes
    BY <1>4, <1>7 DEF Proxy!TimerProxy, Proxy!SaveProxyConfig, Proxy!TypeOK
  <2>. QED  BY <1>1, <1>4, <1>2, <2>1 DEF Proxy!TypeOK, Proxy!units, Proxy!work, ProxyInv,
                                          Shape
<1>. QED  BY <1>2, <1>5, <1>6, <1>7 DEF ProxyInv, Shape

\* A step that fetches, saves, notifies or sleeps changes no unit.
LEMMA QuietStep ==
    ASSUME Proxy!ProxyManagerAssumption, ProxyInv,
           Proxy!Boot \/ Proxy!Fetched \/ Proxy!NotModified \/ Proxy!Save
           \/ Proxy!Notify \/ Proxy!Sleep \/ Proxy!Crash
    PROVE  ProxyInv'
PROOF
<1>1. UNCHANGED Proxy!units
  BY DEF Proxy!Boot, Proxy!Fetched, Proxy!NotModified, Proxy!Save, Proxy!Notify,
         Proxy!Sleep, Proxy!Crash
<1>2. pc' \in {"Down", "Fetch", "Save", "List", "Sleep"}
  BY DEF Proxy!Boot, Proxy!Fetched, Proxy!NotModified, Proxy!Save, Proxy!Notify,
         Proxy!Sleep, Proxy!Crash, Proxy!Step
<1>3. Proxy!TypeOK
  BY DEF ProxyInv
<1>4. Proxy!TypeOK'
  <2>1. MaxProxyRetries \in Nat /\ MaxCrashes \in Nat
    BY DEF Proxy!ProxyManagerAssumption
  <2>2. CASE Proxy!Boot
    BY <1>3, <2>1, <2>2 DEF Proxy!Boot, Proxy!Step, Proxy!TypeOK, Proxy!service, Proxy!units
  <2>3. CASE Proxy!Fetched
    BY <1>3, <2>1, <2>3 DEF Proxy!Fetched, Proxy!Step, Proxy!TypeOK, Proxy!service,
                            Proxy!units, Proxy!work
  <2>4. CASE Proxy!NotModified
    BY <1>3, <2>1, <2>4 DEF Proxy!NotModified, Proxy!Step, Proxy!TypeOK, Proxy!service,
                            Proxy!units, Proxy!config
  <2>5. CASE Proxy!Save
    BY <1>3, <2>1, <2>5 DEF Proxy!Save, Proxy!Step, Proxy!TypeOK, Proxy!service, Proxy!units
  <2>6. CASE Proxy!Notify
    BY <1>3, <2>6 DEF Proxy!Notify, Proxy!TypeOK, Proxy!units, Proxy!config, Proxy!work
  <2>7. CASE Proxy!Sleep
    BY <1>3, <2>1, <2>7 DEF Proxy!Sleep, Proxy!TypeOK, Proxy!units, Proxy!config
  <2>8. CASE Proxy!Crash
    BY <1>3, <2>1, <2>8 DEF Proxy!Crash, Proxy!TypeOK, Proxy!service, Proxy!units,
                            Proxy!config, Proxy!work
  <2>. QED  BY <2>2, <2>3, <2>4, <2>5, <2>6, <2>7, <2>8
<1>5. \/ pc \notin {"Stop", "Start"} /\ crashes' = crashes
      \/ crashes' # 0
  BY <1>3 DEF Proxy!Boot, Proxy!Fetched, Proxy!NotModified, Proxy!Save, Proxy!Notify,
              Proxy!Sleep, Proxy!Crash, Proxy!Step, Proxy!TypeOK
<1>6. ActiveMatches' /\ SocketsUp'
  BY <1>1, <1>5 DEF ProxyInv, ActiveMatches, SocketsUp, Proxy!units
<1>. QED
  BY <1>1, <1>2, <1>4, <1>6
     DEF ProxyInv, UnitShape, Reconciled, AllWritten, SocketFiles, Proxy!units

\* proxy::update keeps the two facts on units, up to the unit in hand.
LEMMA UpdateStep ==
    ASSUME Proxy!ProxyManagerAssumption, ProxyInv,
           Proxy!ListFiles \/ Proxy!Scan \/ Proxy!RemoveFile \/ Proxy!StopUnit
           \/ Proxy!Add \/ Proxy!WriteFile \/ Proxy!StartUnit
    PROVE  ProxyInv'
PROOF
<1>t. Proxy!TypeOK /\ data \in Proxy!Forwards
  BY DEF ProxyInv, Proxy!TypeOK
<1>i. Shape
  BY DEF ProxyInv, Shape
<1>u. /\ \A u \in Proxy!Units : /\ Proxy!Socket(u) \in Proxy!Units /\ Proxy!Socket(u)[2] = "socket"
                                /\ u[2] = "socket" => Proxy!Socket(u) = u
      /\ Proxy!Built(data) \in [Proxy!Units -> Machines \cup {"listen", None}]
      /\ \A u \in Proxy!Units : u[2] = "socket" => Proxy!Built(data)[u] \in {None, "listen"}
  BY <1>t, UnitFacts
<1>n. None # "listen"
  BY DEF Proxy!ProxyManagerAssumption
<1>c. /\ UNCHANGED <<Proxy!service, Proxy!config, attempt, changes, crashes>>
      /\ Proxy!Built(data)' = Proxy!Built(data)
  <2>1. UNCHANGED <<Proxy!service, Proxy!config, attempt, changes, crashes>>
    BY DEF Proxy!ListFiles, Proxy!Scan, Proxy!RemoveFile, Proxy!StopUnit, Proxy!Add,
           Proxy!WriteFile, Proxy!StartUnit, Proxy!Step, Proxy!work
  <2>. QED  BY <2>1 DEF Proxy!config, Proxy!Built
<1>s. SUFFICES /\ pc' \in {"Scan", "Remove", "Stop", "Write", "Start", "Add", "Notify"}
               /\ todo' \subseteq Proxy!Units /\ unit' \in Proxy!Units \cup {None}
               /\ files' \in [Proxy!Units -> Machines \cup {"listen", None}]
               /\ active' \in [Proxy!Units -> Machines \cup {"listen", None}]
               /\ Shape'
  BY <1>t, <1>c DEF ProxyInv, Shape, Proxy!TypeOK, Proxy!service, Proxy!config
<1>. USE DEF Shape
<1>1. CASE Proxy!ListFiles
  <2>1. /\ pc' = "Scan" /\ todo' = {u \in Proxy!Units : files[u] # None}
        /\ UNCHANGED <<files, active, unit>> /\ pc = "List"
    BY <1>1 DEF Proxy!ListFiles, Proxy!Step, Proxy!units
  <2>. QED
    BY <2>1, <1>c, <1>t, <1>i DEF Proxy!TypeOK, UnitShape, Reconciled, AllWritten,
                                  SocketFiles,
                                  ActiveMatches, SocketsUp
<1>2. CASE Proxy!Scan
  <2>1. UNCHANGED <<files, active>> /\ pc = "Scan"
    BY <1>2 DEF Proxy!Scan, Proxy!units
  <2>2. SocketFiles' /\ ActiveMatches' /\ SocketsUp'
    BY <2>1, <1>c, <1>i DEF SocketFiles, ActiveMatches, SocketsUp
  <2>3. ASSUME NEW u \in todo, todo' = todo \ {u},
               IF files[u] = Proxy!Built(data)[u] THEN Proxy!Step("Scan") /\ UNCHANGED unit
               ELSE Proxy!Step("Remove") /\ unit' = u
        PROVE  /\ pc' \in {"Scan", "Remove"} /\ unit' \in Proxy!Units \cup {None}
               /\ UnitShape' /\ Reconciled' /\ AllWritten'
    BY <2>1, <2>3, <1>c, <1>t, <1>i DEF Proxy!Step, Proxy!TypeOK, UnitShape, Reconciled,
                                        AllWritten
  <2>4. CASE todo = {} /\ Proxy!Step("Add") /\ UNCHANGED <<todo, unit>>
    BY <2>1, <2>2, <2>4, <1>c, <1>t, <1>i
       DEF Proxy!Step, Proxy!TypeOK, UnitShape, Reconciled, AllWritten
  <2>. QED  BY <2>1, <2>2, <2>3, <2>4, <1>2, <1>t DEF Proxy!Scan, Proxy!TypeOK
<1>3. CASE Proxy!RemoveFile
  <2>1. /\ pc = "Remove" /\ pc' = "Stop" /\ unit \in Proxy!Units
        /\ files' = [files EXCEPT ![unit] = None]
        /\ UNCHANGED <<active, todo, unit>>
    BY <1>3, <1>i DEF Proxy!RemoveFile, Proxy!Step, Proxy!work, UnitShape
  <2>2. files'[unit] = None /\ \A u \in Proxy!Units : u # unit => files'[u] = files[u]
    BY <2>1, <1>t DEF Proxy!TypeOK
  <2>3. files' \in [Proxy!Units -> Machines \cup {"listen", None}]
    BY <2>1, <1>t DEF Proxy!TypeOK
  <2>. QED
    BY <2>1, <2>2, <2>3, <1>c, <1>t, <1>i
       DEF Proxy!TypeOK, UnitShape, Reconciled, AllWritten, SocketFiles, ActiveMatches,
           SocketsUp
<1>4. CASE Proxy!StopUnit
  <2>1. /\ pc = "Stop" /\ unit \in Proxy!Units /\ files[unit] = None
        /\ pc' = IF Proxy!Built(data)[unit] # None THEN "Write" ELSE "Scan"
        /\ UNCHANGED <<files, todo, unit>>
    BY <1>4, <1>i DEF Proxy!StopUnit, Proxy!Step, Proxy!work, UnitShape
  <2>2. active' = [u \in Proxy!Units |-> IF unit \in {u, Proxy!Socket(u)} THEN None ELSE active[u]]
    BY <1>4 DEF Proxy!StopUnit
  <2>3. /\ active' \in [Proxy!Units -> Machines \cup {"listen", None}]
        /\ \A u \in Proxy!Units : active'[u] = active[u] \/ active'[u] = None
        /\ active'[unit] = None
        /\ \A u \in Proxy!Units : u[2] = "socket" /\ u # unit => active'[u] = active[u]
    BY <2>1, <2>2, <1>t, <1>u DEF Proxy!TypeOK
  <2>4. UnitShape' /\ Reconciled' /\ AllWritten' /\ SocketFiles'
    BY <2>1, <1>c, <1>i DEF UnitShape, Reconciled, AllWritten, SocketFiles
  <2>5. ActiveMatches' /\ SocketsUp'
    BY <2>1, <2>3, <1>c, <1>i DEF ActiveMatches, SocketsUp
  <2>. QED  BY <2>1, <2>3, <2>4, <2>5, <1>t DEF Proxy!TypeOK
<1>5. CASE Proxy!Add
  <2>1. UNCHANGED <<files, active, todo>> /\ pc = "Add" /\ todo = {}
    BY <1>5, <1>i DEF Proxy!Add, Proxy!units, UnitShape
  <2>2. SocketFiles' /\ ActiveMatches' /\ SocketsUp'
    BY <2>1, <1>c, <1>i, <1>5 DEF SocketFiles, ActiveMatches, SocketsUp, Proxy!Add,
                                  Proxy!Step
  <2>3. ASSUME NEW u \in Proxy!Units, Proxy!Built(data)[u] # None, files[u] = None,
               Proxy!Step("Write"), unit' = u
        PROVE  UnitShape' /\ Reconciled' /\ AllWritten' /\ pc' = "Write"
    BY <2>1, <2>3, <1>c, <1>i DEF Proxy!Step, UnitShape, Reconciled, AllWritten
  <2>4. CASE /\ \A u \in Proxy!Units : Proxy!Built(data)[u] # None => files[u] # None
             /\ Proxy!Step("Notify") /\ unit' = None
    BY <2>1, <2>2, <2>4, <1>c, <1>t, <1>i DEF Proxy!Step, Proxy!TypeOK, UnitShape,
                                              Reconciled, AllWritten
  <2>. QED  BY <2>1, <2>2, <2>3, <2>4, <1>5, <1>t DEF Proxy!Add, Proxy!TypeOK
<1>6. CASE Proxy!WriteFile
  <2>1. /\ pc = "Write" /\ pc' = "Start" /\ unit \in Proxy!Units
        /\ files[unit] = None /\ Proxy!Built(data)[unit] # None
        /\ files' = [files EXCEPT ![unit] = Proxy!Built(data)[unit]]
        /\ UNCHANGED <<active, todo, unit>>
    BY <1>6, <1>i DEF Proxy!WriteFile, Proxy!Step, Proxy!work, UnitShape
  <2>2. /\ files'[unit] = Proxy!Built(data)[unit]
        /\ \A u \in Proxy!Units : u # unit => files'[u] = files[u]
        /\ files' \in [Proxy!Units -> Machines \cup {"listen", None}]
    BY <2>1, <1>t, <1>u DEF Proxy!TypeOK
  <2>3. UnitShape' /\ Reconciled' /\ AllWritten' /\ SocketFiles'
    BY <2>1, <2>2, <1>c, <1>i, <1>u DEF UnitShape, Reconciled, AllWritten, SocketFiles
  <2>4. ActiveMatches' /\ SocketsUp'
    BY <2>1, <2>2, <1>c, <1>i DEF ActiveMatches, SocketsUp
  <2>. QED  BY <2>1, <2>2, <2>3, <2>4, <1>t DEF Proxy!TypeOK
<1>7. CASE Proxy!StartUnit
  <2>1. /\ pc = "Start" /\ unit \in Proxy!Units /\ files[unit] = Proxy!Built(data)[unit]
        /\ Proxy!Built(data)[unit] # None
        /\ pc' \in {"Scan", "Add"} /\ (pc' = "Add" <=> todo = {})
        /\ UNCHANGED <<files, todo, unit>>
    BY <1>7, <1>i DEF Proxy!StartUnit, Proxy!Step, Proxy!work, UnitShape
  <2>2. UnitShape' /\ Reconciled' /\ AllWritten' /\ SocketFiles'
    BY <2>1, <1>c, <1>i DEF UnitShape, Reconciled, AllWritten, SocketFiles
  <2>3. CASE active[unit] # None \/ files[Proxy!Socket(unit)] = None
    <3>1. active' = active
      BY <1>7, <2>3 DEF Proxy!StartUnit
    <3>2. ActiveMatches' /\ SocketsUp'
      BY <2>1, <2>3, <3>1, <1>c, <1>i, <1>u DEF ActiveMatches, SocketsUp
    <3>. QED  BY <2>1, <2>2, <3>1, <3>2, <1>t DEF Proxy!TypeOK
  <2>4. CASE active[unit] = None /\ files[Proxy!Socket(unit)] # None
    <3>1. active' = [active EXCEPT ![unit] = files[unit], ![Proxy!Socket(unit)] = "listen"]
      BY <1>7, <2>4 DEF Proxy!StartUnit
    <3>2. Proxy!Socket(unit) \in Proxy!Units /\ files[Proxy!Socket(unit)] = "listen"
      BY <2>1, <2>4, <1>u, <1>i DEF SocketFiles
    <3>3. unit[2] = "socket" => Proxy!Socket(unit) = unit
      BY <2>1, <1>u
    <3>. DEFINE k == Proxy!Socket(unit)
    <3>. HIDE DEF k
    <3>4. /\ active'[k] = "listen" /\ active'[unit] = files[unit]
          /\ \A u \in Proxy!Units : u \notin {unit, k} => active'[u] = active[u]
          /\ active' \in [Proxy!Units -> Machines \cup {"listen", None}]
      BY <2>1, <3>1, <3>2, <1>t DEF Proxy!TypeOK, k
    <3>5. ActiveMatches' /\ SocketsUp'
      BY <2>1, <3>2, <3>4, <1>c, <1>i, <1>n DEF ActiveMatches, SocketsUp, k
    <3>. QED  BY <2>1, <2>2, <3>4, <3>5, <1>t DEF Proxy!TypeOK
  <2>. QED  BY <2>3, <2>4
<1>. QED  BY <1>1, <1>2, <1>3, <1>4, <1>5, <1>6, <1>7

\* With all files written and every unit as its file says, a port reaches its machine.
LEMMA NotifyServes ==
    ASSUME Proxy!ProxyManagerAssumption, ProxyInv
    PROVE  Proxy!ServesWhatItReports
PROOF
<1>. SUFFICES ASSUME pc = "Notify", crashes = 0, NEW q \in Ports
              PROVE  Proxy!Reaches(q) = data[q]
  BY DEF Proxy!ServesWhatItReports
<1>. DEFINE so == <<q, "socket">>
            sv == <<q, "service">>
<1>1. so \in Proxy!Units /\ sv \in Proxy!Units /\ so[2] = "socket" /\ so[1] = q /\ sv[1] = q
      /\ sv[2] = "service"
  BY DEF Proxy!Units
<1>2. /\ Proxy!Built(data)[so] = IF data[q] = None THEN None ELSE "listen"
      /\ Proxy!Built(data)[sv] = IF data[q] = None THEN None ELSE data[q]
  BY <1>1 DEF Proxy!Built
<1>3. files[so] = Proxy!Built(data)[so] /\ files[sv] = Proxy!Built(data)[sv]
  BY <1>1 DEF ProxyInv, Reconciled, AllWritten
<1>4. /\ active[so] # None => active[so] = files[so]
      /\ active[sv] # None => active[sv] = files[sv]
      /\ files[so] # None => active[so] # None
  BY <1>1 DEF ProxyInv, ActiveMatches, SocketsUp
<1>5. None # "listen"
  BY DEF Proxy!ProxyManagerAssumption
<1>. QED  BY <1>2, <1>3, <1>4, <1>5 DEF Proxy!Reaches

\* Every step of the service and of the manager keeps the invariant.
LEMMA ProxyStep ==
    ASSUME Proxy!ProxyManagerAssumption, ProxyInv, [Proxy!Next]_Proxy!vars
    PROVE  ProxyInv'
PROOF
<1>1. CASE UNCHANGED Proxy!vars
  BY <1>1 DEF Proxy!vars, Proxy!service, Proxy!config, Proxy!units, Proxy!work, ProxyInv,
              Proxy!TypeOK, UnitShape, Reconciled, AllWritten, SocketFiles, ActiveMatches,
              SocketsUp
<1>2. CASE Proxy!Next
  BY <1>2, ServiceStep, QuietStep, UpdateStep DEF Proxy!Next, Proxy!Manager
<1>. QED  BY <1>1, <1>2

----------------------------------------------------------------------------
(* The delivery of an event to a webhook.                                  *)

\* A function that holds the event: its try is not over.
Active(h) == worker[h].at \in {"send", "record", "queue"}

\* What a function that holds the event holds: a try that still counts, or the
\* outcome of one; and what the record may say.
MessageShape ==
    /\ log # None /\ ~Hooks!Handled(log) => log.tries < MAX_TRIES
    /\ log # None /\ log.state = "Succeeded" => received > 0
    /\ \A h \in Workers :
         /\ Active(h) => worker[h].message \in Hooks!Message
         /\ worker[h].at = "send" => ~Hooks!Handled(worker[h].message)
         /\ worker[h].at = "record" =>
              /\ ~Hooks!Handled(worker[h].message) => worker[h].message.tries < MAX_TRIES
              /\ worker[h].message.state = "Succeeded" => received > 0
         /\ worker[h].at = "queue" => ~Hooks!Handled(worker[h].message)

\* An event that is neither delivered nor given up is on its way.
OnItsWay ==
    log # None /\ ~Hooks!Handled(log) /\ sender = "done" =>
      \/ queue > 0
      \/ \E h \in Workers : worker[h].at \in {"send", "record", "queue"}
      \/ faults.unsaved + faults.unqueued + faults.dropped > 0

KeepInv == Hooks!TypeOK /\ MessageShape /\ OnItsWay

\* Without a death the event is in one place at a time: not queued yet, in the
\* queue once, or in the hands of one function.
OneToken ==
    /\ queue \in {0, 1}
    /\ sender # "done" => queue = 0 /\ posts = 0
    /\ \A h \in Workers : Active(h) => queue = 0 /\ sender = "done"
    /\ \A v, h \in Workers : Active(v) /\ Active(h) => v = h

\* Without a death or a lost answer, an accepted post was the last one.
AcceptedOnce ==
    \/ received = 0
    \/ /\ received = 1 /\ queue = 0 /\ sender = "done"
       /\ \A h \in Workers : Active(h) =>
            worker[h].at = "record" /\ worker[h].message.state = "Succeeded"

\* Without a death or a failed write of the record, the count of tries bounds the
\* posts wherever the event is.
PostsCounted ==
    /\ posts <= MAX_TRIES
    /\ sender = "logged" => log = Hooks!NewMessage
    /\ queue > 0 /\ log # None => posts <= log.tries
    /\ \A h \in Workers :
         /\ worker[h].at = "send" => posts < worker[h].message.tries
         /\ worker[h].at \in {"record", "queue"} =>
              posts <= worker[h].message.tries
         /\ worker[h].at = "queue" => log = worker[h].message

TokenInv ==
    faults.deaths = 0 =>
      /\ OneToken
      /\ faults.lost = 0 => AcceptedOnce
      /\ faults.unsaved = 0 => PostsCounted

\* The names of the faults.
LEMMA FaultNames ==
    DOMAIN Hooks!NoFaults = {"deaths", "lost", "unsaved", "unqueued", "dropped"}
  BY DEF Hooks!NoFaults

\* The event of the initial state is nowhere yet.
LEMMA KeepInit ==
    ASSUME Hooks!WebhooksAssumption, Hooks!Init
    PROVE  KeepInv
<1> USE DEF Hooks!WebhooksAssumption, Hooks!Init, Hooks!Idle
<1>1. faults \in [DOMAIN Hooks!NoFaults -> Nat]
  BY DEF Hooks!NoFaults
<1>2. Hooks!TypeOK
  BY <1>1 DEF Hooks!TypeOK
<1>3. MessageShape /\ OnItsWay
  BY DEF MessageShape, OnItsWay, Active
<1> QED
  BY <1>2, <1>3 DEF KeepInv

\* What a replaced record may be: the message, or what it was.
LEMMA ReplaceType ==
    ASSUME Hooks!TypeOK, NEW m \in Hooks!Message, Hooks!Replace(m)
    PROVE  /\ faults' \in [DOMAIN Hooks!NoFaults -> Nat]
           /\ \/ log' = m /\ faults' = faults
              \/ /\ log' = log /\ faults'.unsaved = faults.unsaved + 1
                 /\ faults'.deaths = faults.deaths
                 /\ faults'.lost = faults.lost
                 /\ faults'.unqueued = faults.unqueued
                 /\ faults'.dropped = faults.dropped
  BY FaultNames DEF Hooks!Replace, Hooks!TypeOK

\* What queueing a message does: nothing when it is handled.
LEMMA QueueType ==
    ASSUME Hooks!TypeOK, NEW m \in Hooks!Message, Hooks!QueueWebhook(m)
    PROVE  /\ faults' \in [DOMAIN Hooks!NoFaults -> Nat]
           /\ \/ Hooks!Handled(m) /\ queue' = queue /\ faults' = faults
              \/ ~Hooks!Handled(m) /\ queue' = queue + 1 /\ faults' = faults
              \/ /\ ~Hooks!Handled(m) /\ queue' = queue
                 /\ faults'.unqueued = faults.unqueued + 1
                 /\ faults'.deaths = faults.deaths
                 /\ faults'.lost = faults.lost
                 /\ faults'.unsaved = faults.unsaved
                 /\ faults'.dropped = faults.dropped
  BY FaultNames DEF Hooks!QueueWebhook, Hooks!TypeOK

\* A new event's message is one, and is not handled.
LEMMA NewMessageType ==
    ASSUME Hooks!WebhooksAssumption
    PROVE  Hooks!NewMessage \in Hooks!Message /\ ~Hooks!Handled(Hooks!NewMessage)
  BY DEF Hooks!WebhooksAssumption, Hooks!NewMessage, Hooks!Message, Hooks!States,
         Hooks!Handled

\* The function that has posted goes on with the outcome of its try.
Recorded(h, m) == worker' = [worker EXCEPT ![h] = [at |-> "record", message |-> m]]

\* What a post does to the counters, and when it counts as a success.
LEMMA SendType ==
    ASSUME Hooks!WebhooksAssumption, Hooks!TypeOK,
           NEW h \in Workers, Hooks!Send(h), worker[h].message \in Hooks!Message
    PROVE  /\ UNCHANGED <<webhook, sender, log, queue>>
           /\ posts' \in {posts, posts + 1} /\ received' \in {received, received + 1}
           /\ posts' \in Nat /\ received' \in 0..posts'
           /\ faults' \in [DOMAIN Hooks!NoFaults -> Nat]
           /\ faults'.unsaved = faults.unsaved /\ faults'.deaths = faults.deaths
           /\ faults'.unqueued = faults.unqueued
           /\ faults'.dropped = faults.dropped
           /\ faults'.lost = faults.lost \/ faults'.lost = faults.lost + 1
           /\ \E m \in Hooks!Message :
                /\ Recorded(h, m)
                /\ m.tries = worker[h].message.tries
                /\ ~Hooks!Handled(m) => m.tries < MAX_TRIES
                /\ \/ m.state = "Succeeded" /\ received' = received + 1
                   \/ /\ m.state # "Succeeded"
                      /\ received' = received \/ faults'.lost = faults.lost + 1
<1> USE FaultNames DEF Hooks!WebhooksAssumption, Hooks!TypeOK
<1> DEFINE old == worker[h].message
           good == [old EXCEPT !.state = "Succeeded"]
           bad == [old EXCEPT !.state = IF old.tries < MAX_TRIES THEN "Retrying"
                                        ELSE "Failed"]
<1>1. /\ good \in Hooks!Message /\ good.tries = old.tries /\ good.state = "Succeeded"
      /\ Hooks!Handled(good)
  BY DEF Hooks!Message, Hooks!States, Hooks!Handled
<1>2. /\ bad \in Hooks!Message /\ bad.tries = old.tries /\ bad.state # "Succeeded"
      /\ ~Hooks!Handled(bad) => bad.tries < MAX_TRIES
  BY DEF Hooks!Message, Hooks!States, Hooks!Handled
<1>3. Hooks!Sent(h, TRUE) => Recorded(h, good)
  BY DEF Hooks!Sent, Hooks!Outcome, Recorded
<1>4. Hooks!Sent(h, FALSE) => Recorded(h, bad)
  BY DEF Hooks!Sent, Hooks!Outcome, Recorded
<1>5. \/ Recorded(h, bad) /\ UNCHANGED <<posts, received, faults>>
      \/ /\ Recorded(h, good) /\ UNCHANGED faults
         /\ posts' = posts + 1 /\ received' = received + 1
      \/ Recorded(h, bad) /\ posts' = posts + 1 /\ UNCHANGED <<received, faults>>
      \/ /\ Recorded(h, bad)
         /\ posts' = posts + 1 /\ received' = received + 1
         /\ faults' = [faults EXCEPT !.lost = @ + 1]
  BY <1>3, <1>4, Zenon DEF Hooks!Send
<1>6. UNCHANGED <<webhook, sender, log, queue>>
  BY DEF Hooks!Send
<1> HIDE DEF good, bad
<1>7. CASE Recorded(h, bad) /\ UNCHANGED <<posts, received, faults>>
  BY <1>2, <1>6, <1>7
<1>8. CASE /\ Recorded(h, good) /\ UNCHANGED faults
           /\ posts' = posts + 1 /\ received' = received + 1
  BY <1>1, <1>6, <1>8
<1>9. CASE Recorded(h, bad) /\ posts' = posts + 1 /\ UNCHANGED <<received, faults>>
  BY <1>2, <1>6, <1>9
<1>10. CASE /\ Recorded(h, bad)
            /\ posts' = posts + 1 /\ received' = received + 1
            /\ faults' = [faults EXCEPT !.lost = @ + 1]
  BY <1>2, <1>6, <1>10
<1> QED
  BY <1>5, <1>7, <1>8, <1>9, <1>10

\* Every step keeps an event that is not handled on its way.
LEMMA KeepStep ==
    ASSUME Hooks!WebhooksAssumption, KeepInv, [Hooks!Next]_Hooks!vars
    PROVE  KeepInv'
<1> USE FaultNames DEF Hooks!WebhooksAssumption, KeepInv, Hooks!TypeOK, MessageShape,
                       OnItsWay,
        Active
<1>1. CASE Hooks!AddEvent
  BY <1>1, ReplaceType, NewMessageType DEF Hooks!AddEvent, Hooks!NewMessage
<1>2. CASE Hooks!AddEventQueue
  BY <1>2, QueueType, NewMessageType DEF Hooks!AddEventQueue
<1>3. CASE Hooks!SenderDies
  <2>1. faults' \in [DOMAIN Hooks!NoFaults -> Nat] /\ faults'.dropped = 1
    <3> DEFINE f == [faults EXCEPT !.deaths = @ + 1]
    <3>1. f \in [DOMAIN Hooks!NoFaults -> Nat]
      OBVIOUS
    <3>2. faults' = [f EXCEPT !.dropped = 1]
      BY <1>3 DEF Hooks!SenderDies
    <3> HIDE DEF f
    <3> QED
      BY <3>1, <3>2
  <2>2. faults'.unsaved \in Nat /\ faults'.unqueued \in Nat
    BY <2>1
  <2> QED
    BY <1>3, <2>1, <2>2 DEF Hooks!SenderDies
<1>4. ASSUME NEW h \in Workers, Hooks!ProcessFromQueue(h)
      PROVE  KeepInv'
  <2>1. CASE log = None \/ Hooks!Handled(log)
    BY <1>4, <2>1 DEF Hooks!ProcessFromQueue
  <2>2. CASE ~(log = None \/ Hooks!Handled(log))
    <3> DEFINE m == [log EXCEPT !.tries = @ + 1]
    <3>1. m \in Hooks!Message /\ ~Hooks!Handled(m)
      BY <2>2 DEF Hooks!Message, Hooks!Handled
    <3>2. /\ worker' = [worker EXCEPT ![h] = [at |-> "send", message |-> m]]
          /\ queue > 0 /\ queue' = queue - 1
          /\ UNCHANGED <<webhook, sender, log, posts, received, faults>>
      BY <1>4, <2>2 DEF Hooks!ProcessFromQueue
    <3> HIDE DEF m
    <3> QED
      BY <3>1, <3>2
  <2> QED
    BY <2>1, <2>2
<1>5. ASSUME NEW h \in Workers, Hooks!Send(h)
      PROVE  KeepInv'
  <2>1. worker[h].at = "send" /\ worker[h].message \in Hooks!Message
    BY <1>5 DEF Hooks!Send
  <2>2. PICK m \in Hooks!Message :
          /\ Recorded(h, m)
          /\ ~Hooks!Handled(m) => m.tries < MAX_TRIES
          /\ m.state = "Succeeded" => received' = received + 1
    BY <1>5, <2>1, SendType
  <2>3. /\ UNCHANGED <<webhook, sender, log, queue>>
        /\ posts' \in Nat /\ received' \in 0..posts' /\ received' >= received
        /\ faults' \in [DOMAIN Hooks!NoFaults -> Nat]
        /\ faults'.unsaved = faults.unsaved
        /\ faults'.unqueued = faults.unqueued
        /\ faults'.dropped = faults.dropped
    BY <1>5, <2>1, SendType
  <2> QED
    BY <2>1, <2>2, <2>3 DEF Recorded
<1>6. ASSUME NEW h \in Workers, Hooks!Record(h)
      PROVE  KeepInv'
  BY <1>6, ReplaceType DEF Hooks!Record
<1>7. ASSUME NEW h \in Workers, Hooks!Requeue(h)
      PROVE  KeepInv'
  BY <1>7, QueueType DEF Hooks!Requeue
<1>8. ASSUME NEW h \in Workers, Hooks!DeleteMessage(h)
      PROVE  KeepInv'
  BY <1>8 DEF Hooks!DeleteMessage, Hooks!Idle
<1>9. ASSUME NEW h \in Workers, Hooks!HostDies(h)
      PROVE  KeepInv'
  <2>1. /\ faults' \in [DOMAIN Hooks!NoFaults -> Nat]
        /\ queue' = queue + 1 \/ faults'.dropped = 1
    <3> DEFINE f == [faults EXCEPT !.deaths = @ + 1]
    <3>1. f \in [DOMAIN Hooks!NoFaults -> Nat]
      OBVIOUS
    <3>2. \/ faults' = f /\ queue' = queue + 1
          \/ faults' = [f EXCEPT !.dropped = 1] /\ queue' = queue
      BY <1>9 DEF Hooks!HostDies
    <3> HIDE DEF f
    <3> QED
      BY <3>1, <3>2
  <2>2. /\ faults'.unsaved \in Nat /\ faults'.unqueued \in Nat /\ queue' \in Nat
        /\ queue' = queue + 1 \/ queue' = queue
        /\ worker[h].at # "idle" /\ worker' = [worker EXCEPT ![h] = Hooks!Idle]
        /\ UNCHANGED <<webhook, sender, log, posts, received>>
    BY <1>9, <2>1 DEF Hooks!HostDies
  <2> QED
    BY <1>9, <2>1, <2>2 DEF Hooks!Idle
<1>10. CASE Hooks!DeleteWebhook
  BY <1>10 DEF Hooks!DeleteWebhook
<1>11. CASE Hooks!SearchExpired
  BY <1>11 DEF Hooks!SearchExpired
<1>12. CASE UNCHANGED Hooks!vars
  BY <1>12 DEF Hooks!vars
<1> QED
  BY <1>1, <1>2, <1>3, <1>4, <1>5, <1>6, <1>7, <1>8, <1>9, <1>10, <1>11, <1>12
     DEF Hooks!Next, Hooks!Function

\* Initially nothing is posted.
LEMMA TokenInit ==
    ASSUME Hooks!WebhooksAssumption, Hooks!Init
    PROVE  TokenInv
<1> USE DEF Hooks!WebhooksAssumption, Hooks!Init, Hooks!Idle, Active
<1>1. OneToken /\ AcceptedOnce
  BY DEF OneToken, AcceptedOnce
<1>2. PostsCounted
  BY DEF PostsCounted
<1> QED
  BY <1>1, <1>2 DEF TokenInv

\* Every step but a death keeps the event in one place, and its counts with it.
LEMMA TokenStep ==
    ASSUME Hooks!WebhooksAssumption, KeepInv, TokenInv, [Hooks!Next]_Hooks!vars
    PROVE  TokenInv'
<1> SUFFICES ASSUME faults'.deaths = 0
             PROVE  /\ OneToken'
                    /\ faults'.lost = 0 => AcceptedOnce'
                    /\ faults'.unsaved = 0 => PostsCounted'
  BY DEF TokenInv
<1> USE FaultNames DEF Hooks!WebhooksAssumption, KeepInv, TokenInv, Hooks!TypeOK,
                       MessageShape,
        OneToken, AcceptedOnce, PostsCounted, Active
<1>1. CASE Hooks!AddEvent
  BY <1>1, ReplaceType, NewMessageType DEF Hooks!AddEvent, Hooks!NewMessage
<1>2. CASE Hooks!AddEventQueue
  BY <1>2, QueueType, NewMessageType DEF Hooks!AddEventQueue, Hooks!NewMessage
<1>3. CASE Hooks!SenderDies
  BY <1>3 DEF Hooks!SenderDies
<1>4. ASSUME NEW h \in Workers, Hooks!ProcessFromQueue(h)
      PROVE  /\ OneToken'
             /\ faults'.lost = 0 => AcceptedOnce'
             /\ faults'.unsaved = 0 => PostsCounted'
  <2>1. CASE log = None \/ Hooks!Handled(log)
    BY <1>4, <2>1 DEF Hooks!ProcessFromQueue
  <2>2. CASE ~(log = None \/ Hooks!Handled(log))
    <3> DEFINE m == [log EXCEPT !.tries = @ + 1]
    <3>1. m \in Hooks!Message /\ m.tries = log.tries + 1
      BY <2>2 DEF Hooks!Message, Hooks!Handled
    <3>2. /\ worker' = [worker EXCEPT ![h] = [at |-> "send", message |-> m]]
          /\ queue > 0 /\ queue' = queue - 1
          /\ UNCHANGED <<webhook, sender, log, posts, received, faults>>
      BY <1>4, <2>2 DEF Hooks!ProcessFromQueue
    <3> HIDE DEF m
    <3> QED
      BY <2>2, <3>1, <3>2 DEF Hooks!Message
  <2> QED
    BY <2>1, <2>2
<1>5. ASSUME NEW h \in Workers, Hooks!Send(h)
      PROVE  /\ OneToken'
             /\ faults'.lost = 0 => AcceptedOnce'
             /\ faults'.unsaved = 0 => PostsCounted'
  <2>1. worker[h].at = "send" /\ worker[h].message \in Hooks!Message
    BY <1>5 DEF Hooks!Send
  <2>2. PICK m \in Hooks!Message :
          /\ Recorded(h, m)
          /\ m.tries = worker[h].message.tries
          /\ \/ m.state = "Succeeded" /\ received' = received + 1
             \/ /\ m.state # "Succeeded"
                /\ received' = received \/ faults'.lost = faults.lost + 1
    BY <1>5, <2>1, SendType
  <2>3. /\ UNCHANGED <<webhook, sender, log, queue>>
        /\ posts' \in {posts, posts + 1}
        /\ faults'.unsaved = faults.unsaved /\ faults'.deaths = faults.deaths
        /\ faults'.lost = faults.lost \/ faults'.lost = faults.lost + 1
    BY <1>5, <2>1, SendType
  <2>4. OneToken'
    BY <2>1, <2>2, <2>3 DEF Recorded
  <2>5. faults'.lost = 0 => AcceptedOnce'
    BY <2>1, <2>2, <2>3 DEF Recorded
  <2>6. faults'.unsaved = 0 => PostsCounted'
    BY <2>1, <2>2, <2>3 DEF Recorded, Hooks!Message
  <2> QED
    BY <2>4, <2>5, <2>6
<1>6. ASSUME NEW h \in Workers, Hooks!Record(h)
      PROVE  /\ OneToken'
             /\ faults'.lost = 0 => AcceptedOnce'
             /\ faults'.unsaved = 0 => PostsCounted'
  BY <1>6, ReplaceType DEF Hooks!Record, Hooks!Handled
<1>7. ASSUME NEW h \in Workers, Hooks!Requeue(h)
      PROVE  /\ OneToken'
             /\ faults'.lost = 0 => AcceptedOnce'
             /\ faults'.unsaved = 0 => PostsCounted'
  BY <1>7, QueueType DEF Hooks!Requeue
<1>8. ASSUME NEW h \in Workers, Hooks!DeleteMessage(h)
      PROVE  /\ OneToken'
             /\ faults'.lost = 0 => AcceptedOnce'
             /\ faults'.unsaved = 0 => PostsCounted'
  BY <1>8 DEF Hooks!DeleteMessage, Hooks!Idle
<1>9. ASSUME NEW h \in Workers, Hooks!HostDies(h)
      PROVE  FALSE
  <2>1. faults'.deaths = faults.deaths + 1
    BY <1>9 DEF Hooks!HostDies
  <2> QED
    BY <2>1
<1>10. CASE Hooks!DeleteWebhook
  BY <1>10 DEF Hooks!DeleteWebhook
<1>11. CASE Hooks!SearchExpired
  <2>1. \A h \in Workers : ~Active(h)
    BY <1>11 DEF Hooks!SearchExpired, Hooks!Running
  <2> QED
    BY <1>11, <2>1 DEF Hooks!SearchExpired
<1>12. CASE UNCHANGED Hooks!vars
  BY <1>12 DEF Hooks!vars
<1> QED
  BY <1>1, <1>2, <1>3, <1>4, <1>5, <1>6, <1>7, <1>8, <1>9, <1>10, <1>11, <1>12
     DEF Hooks!Next, Hooks!Function

\* What the token invariant says of the event's repetitions.
LEMMA RepeatedFacts ==
    ASSUME Hooks!WebhooksAssumption, KeepInv, TokenInv
    PROVE  Hooks!RepeatedOnlyByFault
<1>1. /\ faults.deaths \in Nat /\ faults.lost \in Nat /\ faults.unsaved \in Nat
      /\ received \in Nat /\ posts \in Nat
  BY FaultNames DEF KeepInv, Hooks!TypeOK
<1>2. faults.deaths = 0 /\ faults.lost = 0 => received <= 1
  BY <1>1 DEF TokenInv, AcceptedOnce
<1>3. faults.deaths = 0 /\ faults.unsaved = 0 => posts <= MAX_TRIES
  BY DEF TokenInv, PostsCounted
<1> QED
  BY <1>1, <1>2, <1>3 DEF Hooks!WebhooksAssumption, Hooks!RepeatedOnlyByFault

----------------------------------------------------------------------------
(* The node.                                                               *)

\* The part that runs has its invariant.
NodeInv ==
    /\ part = "registration" => RegistrationInv
    /\ part = "pool_queue" => QueueInv
    /\ part = "task_process" => ProcessInv
    /\ part = "log_uploader" => UploadInv
    /\ part = "proxy_manager" => ProxyInv
    /\ part = "webhooks" => KeepInv /\ TokenInv

\* A step of the node is one of the part that runs, or leaves it as it is.
LEMMA PartStep ==
    ASSUME [Next]_vars
    PROVE  /\ part' = part
           /\ part = "registration" => [Register!Next]_Register!vars
           /\ part = "pool_queue" => [Pool!Next]_Pool!vars
           /\ part = "task_process" => [Process!Next]_Process!vars
           /\ part = "log_uploader" => [Log!Next]_Log!vars
           /\ part = "proxy_manager" => [Proxy!Next]_Proxy!vars
           /\ part = "webhooks" => [Hooks!Next]_Hooks!vars
<1>1. CASE UNCHANGED vars
  <2>1. part' = part
    BY <1>1 DEF vars
  <2>2. UNCHANGED Register!vars
    BY <1>1 DEF vars, Register!vars, Register!service, Register!access, Register!call,
                Register!bounds
  <2>3. UNCHANGED Pool!vars
    BY <1>1 DEF vars, Pool!vars
  <2>4. UNCHANGED Process!vars
    BY <1>1 DEF vars, Process!vars, Process!agent, Process!ipc, Process!task,
                Process!streams
  <2>5. UNCHANGED Log!vars
    BY <1>1 DEF vars, Log!vars
  <2>6. UNCHANGED Proxy!vars
    BY <1>1 DEF vars, Proxy!vars, Proxy!service, Proxy!config, Proxy!units, Proxy!work
  <2>7. UNCHANGED Hooks!vars
    BY <1>1 DEF vars, Hooks!vars
  <2> QED
    BY <2>1, <2>2, <2>3, <2>4, <2>5, <2>6, <2>7
<1>2. CASE RunRegister
  BY <1>2 DEF RunRegister, RegistrationOthers
<1>3. CASE RunPool
  BY <1>3 DEF RunPool, PoolQueueOthers
<1>4. CASE RunProcess
  BY <1>4 DEF RunProcess, ProcessOthers
<1>5. CASE RunLog
  BY <1>5 DEF RunLog, LogOthers
<1>6. CASE RunProxy
  BY <1>6 DEF RunProxy, ProxyOthers
<1>7. CASE RunHooks
  BY <1>7 DEF RunHooks, HooksOthers
<1> QED
  BY <1>1, <1>2, <1>3, <1>4, <1>5, <1>6, <1>7 DEF Next

\* The invariant of the part that runs holds in every reachable state.
LEMMA NodeInvariant == Spec => []NodeInv
<1>a. /\ Register!RegistrationAssumption /\ Pool!PoolQueueAssumption
      /\ Process!TaskProcessAssumption /\ Log!LogUploaderAssumption /\ Log!OneNode
      /\ Proxy!ProxyManagerAssumption /\ Hooks!WebhooksAssumption
  BY NodeAssumption
<1>1. Init => NodeInv
  BY <1>a, RegistrationInit, QueueInit, ProcessInit, UploadInit, ProxyInit, KeepInit,
     TokenInit DEF Init, NodeInv
<1>2. NodeInv /\ [Next]_vars => NodeInv'
  <2> SUFFICES ASSUME NodeInv, [Next]_vars PROVE NodeInv'
    OBVIOUS
  <2> QED
    BY <1>a, PartStep, RegistrationStep, QueueStep, ProcessStep, UploadStep, ProxyStep,
       KeepStep, TokenStep DEF NodeInv
<1> QED
  BY <1>1, <1>2, PTL DEF Spec

\* However many nodes poll, however slow they are between AzureQueueClient::pop and
\* WorkQueue::claim, and whatever answers are lost, a work set is scheduled by one node
\* at most, and one that was dropped by none.
THEOREM OneNodePerWorkSet == Spec => []ScheduledOnce
<1>1. NodeInv => ScheduledOnce
  BY DEF NodeInv, QueueInv, RanOnce, ScheduledOnce, Pool!ScheduledOnce
<1> QED
  BY <1>1, NodeInvariant, PTL

\* What State<Done> reports is the last MAX_TAIL_LEN of all the output of a stream,
\* whatever the reads looked like and whoever held the stream last; a worker that is done
\* has no process and no open channel, and outside of a stop a task is only asked to shut
\* down by an agent that is ending.
THEOREM WorkerTellsTruth == Spec => []ProcessAccounted
<1>1. NodeInv => ProcessAccounted
  <2>1. Process!TaskProcessAssumption
    BY NodeAssumption
  <2>2. NodeInv => TypeOK
    BY DEF NodeInv, TypeOK, RegistrationInv, RegistrationType, QueueInv, UploadInv,
           ProxyInv
  <2> QED
    BY <2>1, <2>2, ProcessTruth DEF NodeInv, ProcessAccounted
<1> QED
  BY <1>1, NodeInvariant, PTL

\* Until append_block puts a block into the blob that was there already, the blob is a
\* beginning of the task's log, and all of it when the worker has waited for the loop and
\* the last pass has not failed: for every length of the log and of a block, although an
\* append may fail after it has taken effect, or lose its answer and not be repeated with
\* success (start_sync, sync_file).
THEOREM LogArrives == Spec => []LogComplete
<1>1. NodeInv => LogComplete
  BY PrefixFacts, NodeAssumption DEF NodeInv, LogComplete
<1> QED
  BY <1>1, NodeInvariant, PTL

\* When the manager is about to notify the service and has never been killed, every port
\* reaches exactly the machine of its forward: for any number of ports, whatever
\* proxy::update found on the disk and in whatever order it removed, wrote, stopped and
\* started the units, over restarts and changes of the configuration.
THEOREM ReportIsServed == Spec => []ServesWhatItReports
<1>1. NodeInv => ServesWhatItReports
  BY NotifyServes, NodeAssumption DEF NodeInv, ServesWhatItReports
<1> QED
  BY <1>1, NodeInvariant, PTL

\* An event that is neither delivered nor given up is in the queue or in a
\* function's hands, however many functions write its record over one another's
\* and whichever hosts die; only a failed write, the sender's death or a message that
\* went to the poison queue after MaxDequeue deaths leaves it behind.  A record that
\* says Succeeded is about an accepted event
\* (WebhookOperations.cs: Process, QueueWebhook).
THEOREM EventNeverForgotten == Spec => []NeverForgotten
<1>1. NodeInv => NeverForgotten
  BY DEF NodeInv, KeepInv, MessageShape, OnItsWay, NeverForgotten, Hooks!NeverForgotten
<1> QED
  BY <1>1, NodeInvariant, PTL

\* The endpoint gets an event twice only after a death or a lost answer, and more
\* than MAX_TRIES posts are made only after a death or a failed write of the
\* record.
THEOREM DeliveryRepeatedOnlyByFault == Spec => []RepeatedOnlyByFault
<1>1. NodeInv => RepeatedOnlyByFault
  BY RepeatedFacts, NodeAssumption DEF NodeInv, RepeatedOnlyByFault
<1> QED
  BY <1>1, NodeInvariant, PTL

\* No request of the Coordinator fails, no command is lost after its deletion or with
\* the record of its node, and no registered node is registered anew, before more
\* attempts of one call have failed than MAX_RETRY_ATTEMPTS, or it has taken longer than
\* max_elapsed_time, or its token has expired again after the refresh; only a node that
\* has not saved its first registration loses a command earlier (Coordinator::send,
\* Agent::execute_pending_commands, Registration::load_existing, AgentRegistration.Post).
THEOREM RequestsTolerateFaults == Spec => FaultsTolerated
<1>1. NodeInv /\ [Next]_vars =>
        [part = "registration" =>
           Register!FaultsTolerated /\ Register!CommandKept /\ Register!RecordKept]_vars
  BY PartStep, RequestStep, NodeAssumption DEF NodeInv
<1> QED
  BY <1>1, NodeInvariant, PTL DEF Spec, FaultsTolerated
=============================================================================
