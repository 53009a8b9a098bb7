----------------------------- MODULE PoolQueue ------------------------------
(***************************************************************************)
(* The nodes of a pool share its work queue: Agent::free (onefuzz-agent/   *)
(* src/agent.rs), WorkQueue::poll and claim (work.rs), the storage queue   *)
(* client (storage-queue/src), and the service's answer to can_schedule.   *)
(*                                                                         *)
(* A popped message is invisible for a while and then appears again; it is *)
(* deleted with the pop receipt of its last pop.  Between its pop and its  *)
(* claim a node may be slow or die, tasks may be stopped and the node may  *)
(* become outdated.  What the requests need to be authorised is the        *)
(* subject of Registration, what a node does with a work set that of Agent.*)
(***************************************************************************)
EXTENDS Naturals, Sequences

CONSTANTS
    Nodes,
    Messages,    \* the work sets in the queue
    UnitsOf,     \* the tasks of a work set, in order
    None,
    MaxSlow,     \* bound: pops that time out while their node is at work
    MaxFaults,   \* bound: requests that fail, answers that are lost, deaths
    MaxOutdated  \* bound: times a node becomes outdated

PoolQueueAssumption ==
    /\ UnitsOf \in [Messages -> Seq(STRING)]
    /\ \A m \in Messages : Len(UnitsOf[m]) > 0
    /\ None \notin Messages \cup Nodes
    /\ MaxSlow \in Nat /\ MaxFaults \in Nat /\ MaxOutdated \in Nat

Tasks == UNION {{UnitsOf[m][i] : i \in DOMAIN UnitsOf[m]} : m \in Messages}

VARIABLES
    queue,    \* per message: its visibility and who has its pop receipt
    stopped,  \* the tasks that have been stopped
    outdated, \* the nodes that may not process new work
    node,     \* per node: what it does, and with which message
    ran,      \* ghost: the nodes that scheduled a message
    fate,     \* ghost: what became of a message's deletion
    faults,
    changes,
    slow

vars == <<queue, stopped, outdated, node, ran, fate, faults, changes, slow>>

Free == [pc |-> "Free", msg |-> None]

\* The type invariant.
TypeOK ==
    /\ queue \in [Messages -> [state : {"Visible", "Hidden", "Deleted"},
                               holder : Nodes \cup {None}]]
    /\ stopped \subseteq Tasks
    /\ outdated \subseteq Nodes
    /\ node \in [Nodes -> [pc : {"Free", "Popped", "Claim", "Drop", "SettingUp"},
                           msg : Messages \cup {None}]]
    /\ ran \in [Messages -> SUBSET Nodes]
    /\ fate \in [Messages -> {"Open", "Claimed", "Dropped", "Lost"}]
    /\ faults \in 0..MaxFaults /\ changes \in 0..MaxOutdated /\ slow \in 0..MaxSlow

Init ==
    /\ queue = [m \in Messages |-> [state |-> "Visible", holder |-> None]]
    /\ stopped = {} /\ outdated = {}
    /\ node = [n \in Nodes |-> Free]
    /\ ran = [m \in Messages |-> {}]
    /\ fate = [m \in Messages |-> "Open"]
    /\ faults = 0 /\ changes = 0 /\ slow = 0

Goes(n, pc) == node' = [node EXCEPT ![n].pc = pc]
Frees(n) == node' = [node EXCEPT ![n] = Free]

----------------------------------------------------------------------------
(* The service and the machines.                                           *)

StopTask ==
    /\ \E t \in Tasks \ stopped : stopped' = stopped \cup {t}
    /\ UNCHANGED <<queue, outdated, node, ran, fate, faults, changes, slow>>

\* NodeOperations.CanProcessNewWork refuses an outdated node, among others.
BecomeOutdated ==
    /\ changes < MaxOutdated
    /\ \E n \in Nodes \ outdated : outdated' = outdated \cup {n}
    /\ changes' = changes + 1
    /\ UNCHANGED <<queue, stopped, node, ran, fate, faults, slow>>

\* A node that has done its work, or that is outdated and free, gets a new image.
Reimage(n) ==
    /\ node[n].pc = "SettingUp" \/ (n \in outdated /\ node[n].pc = "Free")
    /\ Frees(n)
    /\ outdated' = outdated \ {n}
    /\ UNCHANGED <<queue, stopped, ran, fate, faults, changes, slow>>

\* A message that was not deleted in time can be popped again.
Abandoned(m) == \A n \in Nodes : node[n].msg # m

VisibilityTimeout(m) ==
    /\ queue[m].state = "Hidden"
    /\ Abandoned(m)
    /\ queue' = [queue EXCEPT ![m].state = "Visible"]
    /\ UNCHANGED <<stopped, outdated, node, ran, fate, faults, changes, slow>>

\* The same while a node is still at work with the message.
EarlyTimeout(m) ==
    /\ queue[m].state = "Hidden"
    /\ ~Abandoned(m)
    /\ slow < MaxSlow
    /\ slow' = slow + 1
    /\ queue' = [queue EXCEPT ![m].state = "Visible"]
    /\ UNCHANGED <<stopped, outdated, node, ran, fate, faults, changes>>

\* The agent dies before it has claimed anything and starts again.
Die(n) ==
    /\ node[n].pc \in {"Popped", "Claim", "Drop"}
    /\ faults < MaxFaults
    /\ faults' = faults + 1
    /\ Frees(n)
    /\ UNCHANGED <<queue, stopped, outdated, ran, fate, changes, slow>>

----------------------------------------------------------------------------
(* Agent::free.                                                            *)

Hide(m, holder) == queue' = [queue EXCEPT ![m] = [state |-> "Hidden", holder |-> holder]]

\* AzureQueueClient::pop
Pop(n, m) ==
    /\ node[n].pc = "Free"
    /\ queue[m].state = "Visible"
    /\ Hide(m, n)
    /\ node' = [node EXCEPT ![n] = [pc |-> "Popped", msg |-> m]]
    /\ UNCHANGED <<stopped, outdated, ran, fate, faults, changes, slow>>

\* The answer to a pop is lost: the message is hidden and nobody has it.
PopLost(n, m) ==
    /\ node[n].pc = "Free"
    /\ queue[m].state = "Visible"
    /\ faults < MaxFaults
    /\ faults' = faults + 1
    /\ Hide(m, None)
    /\ UNCHANGED <<stopped, outdated, node, ran, fate, changes, slow>>

\* The request names the first work unit only.
WorkStopped(m) == Head(UnitsOf[m]) \in stopped

\* The service allows the work, or says that it was stopped, in which case it
\* is claimed to drop it; otherwise the message is left to reappear.
CanSchedule(n) ==
    /\ node[n].pc = "Popped"
    /\ \/ /\ n \notin outdated /\ ~WorkStopped(node[n].msg)
          /\ Goes(n, "Claim")
       \/ /\ WorkStopped(node[n].msg)
          /\ Goes(n, "Drop")
       \/ /\ n \in outdated /\ ~WorkStopped(node[n].msg)
          /\ Frees(n)
    /\ UNCHANGED <<queue, stopped, outdated, ran, fate, faults, changes, slow>>

\* The node could not acquire the scale-in protection it needs.
ScaleInRefused(n) ==
    /\ node[n].pc = "Popped"
    /\ n \notin outdated /\ ~WorkStopped(node[n].msg)
    /\ faults < MaxFaults
    /\ faults' = faults + 1
    /\ Frees(n)
    /\ UNCHANGED <<queue, stopped, outdated, ran, fate, changes, slow>>

Claiming(n) == node[n].pc \in {"Claim", "Drop"}

\* A pop receipt is good until the message is popped again or deleted.  A node
\* uses the receipt of its last pop only, so its name stands for the receipt.
Holds(n) ==
    /\ queue[node[n].msg].state # "Deleted"
    /\ queue[node[n].msg].holder = n

Delete(m) == queue' = [queue EXCEPT ![m].state = "Deleted"]

\* The message is deleted: the node schedules the work set, or has dropped it.
ClaimSucceeds(n) ==
    /\ Claiming(n) /\ Holds(n)
    /\ Delete(node[n].msg)
    /\ IF node[n].pc = "Claim"
       THEN /\ ran' = [ran EXCEPT ![node[n].msg] = @ \cup {n}]
            /\ fate' = [fate EXCEPT ![node[n].msg] = "Claimed"]
            /\ Goes(n, "SettingUp")
       ELSE /\ fate' = [fate EXCEPT ![node[n].msg] = "Dropped"]
            /\ Frees(n)
            /\ UNCHANGED ran
    /\ UNCHANGED <<stopped, outdated, faults, changes, slow>>

\* The work set is executed although it could not be claimed.
ClaimRefused_Runs(n) ==
    /\ Claiming(n) /\ ~Holds(n)
    /\ IF node[n].pc = "Claim"
       THEN ran' = [ran EXCEPT ![node[n].msg] = @ \cup {n}] /\ Goes(n, "SettingUp")
       ELSE Frees(n) /\ UNCHANGED ran
    /\ UNCHANGED <<queue, stopped, outdated, fate, faults, changes, slow>>

\* "We were unable to claim the work set": the node stays Free.
ClaimRefused(n) ==
    /\ Claiming(n) /\ ~Holds(n)
    /\ Frees(n)
    /\ UNCHANGED <<queue, stopped, outdated, ran, fate, faults, changes, slow>>

\* Every attempt to delete the message fails on the way.
ClaimFails(n) ==
    /\ Claiming(n)
    /\ faults < MaxFaults
    /\ faults' = faults + 1
    /\ Frees(n)
    /\ UNCHANGED <<queue, stopped, outdated, ran, fate, changes, slow>>

\* The message is deleted and the answer is lost; the further attempts of
\* send_retry find no message, and the claim has failed.
ClaimAnswerLost(n) ==
    /\ Claiming(n) /\ Holds(n)
    /\ faults < MaxFaults
    /\ faults' = faults + 1
    /\ Delete(node[n].msg)
    /\ fate' = [fate EXCEPT ![node[n].msg] =
                    IF node[n].pc = "Claim" THEN "Lost" ELSE "Dropped"]
    /\ Frees(n)
    /\ UNCHANGED <<stopped, outdated, ran, changes, slow>>

----------------------------------------------------------------------------
Answer(n) == CanSchedule(n) \/ ClaimSucceeds(n) \/ ClaimRefused(n)

Fault(n) == ScaleInRefused(n) \/ ClaimFails(n) \/ ClaimAnswerLost(n) \/ Die(n)

Next ==
    \/ StopTask \/ BecomeOutdated
    \/ \E m \in Messages : VisibilityTimeout(m) \/ EarlyTimeout(m)
    \/ \E n \in Nodes :
         \/ Reimage(n) \/ Answer(n) \/ Fault(n)
         \/ \E m \in Messages : Pop(n, m) \/ PopLost(n, m)

\* Every node goes on with what it does and polls while it is Free; the queue
\* shows an abandoned message again and passes none over for ever; the service
\* reimages the nodes that need it, between two of their polls (a node reads its
\* commands before each).
Spec ==
    /\ Init /\ [][Next]_vars
    /\ \A n \in Nodes : WF_vars(Answer(n)) /\ SF_vars(Reimage(n))
    /\ \A m \in Messages :
         /\ WF_vars(VisibilityTimeout(m))
         /\ SF_vars(\E n \in Nodes : Pop(n, m))

----------------------------------------------------------------------------
(* Properties.                                                             *)

\* A work set is scheduled by one node at most, however slow a node is between
\* its pop and its claim, and none is both dropped and scheduled.
ScheduledOnce ==
    \A m \in Messages :
        /\ \A n1, n2 \in ran[m] : n1 = n2
        /\ (ran[m] # {} <=> fate[m] = "Claimed")

\* Every work set is scheduled or dropped, or a claim has deleted it whose answer was
\* lost.
WorkTaken == \A m \in Messages : fate[m] # "Open"
=============================================================================
