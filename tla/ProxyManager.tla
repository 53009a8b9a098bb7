---------------------------- MODULE ProxyManager ----------------------------
(***************************************************************************)
(* Port forwarding to the nodes of a region: the service keeps a table of  *)
(* forwards (ProxyForwardOperations.cs) and saves it with fresh SAS URLs   *)
(* in a configuration blob at every tick of its timer (TimerProxy.cs,      *)
(* ProxyOperations.cs); the proxy manager (proxy-manager/src) fetches the  *)
(* blob, saves it, turns it into systemd socket and service units and      *)
(* tells the service which forwards it serves.                             *)
(*                                                                         *)
(* Each call of the manager that changes the machine is a step, so that    *)
(* the manager may be killed between any two of them.  The configuration   *)
(* is its forwards and the URLs in it; of the URLs and of the etag it only *)
(* matters whether they are those of the present blob.                     *)
(***************************************************************************)
EXTENDS Naturals

CONSTANTS
    Ports,               \* PORT_RANGES
    Machines,            \* the machines to forward to
    None,
    MAX_RETRY_ATTEMPTS,  \* further attempts of a request after its first
    MaxChanges,          \* bound: changes of the table
    MaxCrashes           \* bound: kills of the manager

ProxyManagerAssumption ==
    /\ Ports \subseteq Nat /\ Ports # {}
    /\ None \notin Machines \cup {"listen"}
    /\ MAX_RETRY_ATTEMPTS \in Nat /\ MaxChanges \in Nat /\ MaxCrashes \in Nat

VARIABLES
    table,      \* the forward of each port
    blob,       \* the forwards in the configuration blob
    heartbeat,  \* the forwards of the manager's last notification
    data,       \* Config::data: its forwards
    current,    \* Config::data is the content of the blob, its URLs included
    saved,      \* the forwards in the configuration file
    savedCurrent,
    etag,       \* Config::etag: none, the blob's, or an older one
    files,      \* the unit files of each port
    active,     \* the units of each port that systemd runs
    pc, attempt,
    todo,       \* the unit files that the scan has still to look at
    unit,       \* the unit being changed
    changes, crashes

config == <<data, current, saved, savedCurrent, etag>>
units == <<files, active>>
service == <<table, blob, heartbeat>>
work == <<attempt, todo, unit>>
vars == <<service, config, units, pc, work, changes, crashes>>

Forwards == [Ports -> Machines \cup {None}]
NoForwards == [p \in Ports |-> None]

\* A port has two units: a socket, whose content does not depend on the
\* machine, and a service, whose content names it.
Units == Ports \X {"socket", "service"}
Socket(u) == <<u[1], "socket">>
NoUnits == [u \in Units |-> None]

\* build: the content of each unit file.
Built(fwd) ==
    [u \in Units |-> IF fwd[u[1]] = None THEN None
                     ELSE IF u[2] = "socket" THEN "listen" ELSE fwd[u[1]]]

\* The type invariant.
TypeOK ==
    /\ table \in Forwards /\ blob \in Forwards /\ heartbeat \in Forwards
    /\ data \in Forwards /\ saved \in Forwards
    /\ current \in BOOLEAN /\ savedCurrent \in BOOLEAN
    /\ etag \in {"None", "Current", "Old"}
    /\ files \in [Units -> Machines \cup {"listen", None}]
    /\ active \in [Units -> Machines \cup {"listen", None}]
    /\ pc \in {"Down", "Fetch", "Save", "List", "Scan", "Remove", "Stop", "Write",
               "Start", "Add", "Notify", "Sleep"}
    /\ attempt \in 0..MAX_RETRY_ATTEMPTS
    /\ todo \subseteq Units
    /\ unit \in Units \cup {None}
    /\ changes \in 0..MaxChanges /\ crashes \in 0..MaxCrashes

Init ==
    /\ table = NoForwards /\ blob = NoForwards /\ heartbeat = NoForwards
    /\ data = NoForwards /\ saved = NoForwards
    /\ current = FALSE /\ savedCurrent \in BOOLEAN
    /\ etag = "None"
    /\ files = NoUnits /\ active = NoUnits
    /\ pc = "Down" /\ attempt = 0 /\ todo = {} /\ unit = None
    /\ changes = 0 /\ crashes = 0

----------------------------------------------------------------------------
(* The service.                                                            *)

\* ProxyOperations.SaveProxyConfig: the URLs are signed anew each time.
SaveProxyConfig(fwd) ==
    /\ blob' = fwd
    /\ etag' = IF etag = "Current" THEN "Old" ELSE etag
    /\ current' = FALSE /\ savedCurrent' = FALSE

LowestPort == CHOOSE p \in Ports : \A q \in Ports : p <= q

\* UpdateOrCreate: a machine keeps the port it has.  The ports in use are looked
\* up among the entries of this very machine, which has none, so a new entry
\* takes the first port and replaces the entry that is there.
CreateForward(mach) ==
    /\ changes < MaxChanges
    /\ changes' = changes + 1
    /\ table' = IF \E p \in Ports : table[p] = mach THEN table
                ELSE [table EXCEPT ![LowestPort] = mach]
    /\ SaveProxyConfig(table')
    /\ UNCHANGED <<heartbeat, data, saved, units, pc, work, crashes>>

\* RemoveForward, or the end of a forward's time.
RemoveForward(p) ==
    /\ changes < MaxChanges /\ table[p] # None
    /\ changes' = changes + 1
    /\ table' = [table EXCEPT ![p] = None]
    /\ UNCHANGED <<blob, heartbeat, config, units, pc, work, crashes>>

TimerProxy ==
    /\ SaveProxyConfig(table)
    /\ UNCHANGED <<table, heartbeat, data, saved, units, pc, work, changes, crashes>>

----------------------------------------------------------------------------
(* The manager.                                                            *)

Step(p) == pc' = p /\ UNCHANGED <<service, changes, crashes>>

\* Config::from_file.
Boot ==
    /\ pc = "Down"
    /\ Step("Fetch")
    /\ data' = saved /\ current' = savedCurrent /\ etag' = "None"
    /\ attempt' = 0 /\ todo' = {} /\ unit' = None
    /\ UNCHANGED <<saved, savedCurrent, units>>

\* Config::fetch when the blob has changed since, or is fetched for the first
\* time: what differs from the present data is taken over.
Fetched ==
    /\ pc = "Fetch" /\ etag # "Current"
    /\ Step(IF current THEN "Sleep" ELSE "Save")
    /\ data' = blob /\ current' = TRUE /\ etag' = "Current"
    /\ UNCHANGED <<saved, savedCurrent, units, work>>

\* 304 Not Modified is no success to send_retry_default: it is tried again, and
\* after the last attempt it is an error that ends the manager.
NotModified ==
    /\ pc = "Fetch" /\ etag = "Current"
    /\ IF attempt < MAX_RETRY_ATTEMPTS
       THEN attempt' = attempt + 1 /\ Step("Fetch")
       ELSE attempt' = 0 /\ Step("Down")
    /\ UNCHANGED <<config, units, todo, unit>>

Save ==
    /\ pc = "Save"
    /\ Step("List")
    /\ saved' = data /\ savedCurrent' = current
    /\ attempt' = 0
    /\ UNCHANGED <<data, current, etag, units, todo, unit>>

\* proxy::update lists the unit files, then looks at each.
ListFiles ==
    /\ pc = "List"
    /\ Step("Scan")
    /\ todo' = {u \in Units : files[u] # None}
    /\ UNCHANGED <<config, units, attempt, unit>>

Scan ==
    /\ pc = "Scan"
    /\ \/ \E u \in todo :
            /\ todo' = todo \ {u}
            /\ IF files[u] = Built(data)[u]
               THEN Step("Scan") /\ UNCHANGED unit
               ELSE Step("Remove") /\ unit' = u
       \/ todo = {} /\ Step("Add") /\ UNCHANGED <<todo, unit>>
    /\ UNCHANGED <<config, units, attempt>>

RemoveFile ==
    /\ pc = "Remove"
    /\ Step("Stop")
    /\ files' = [files EXCEPT ![unit] = None]
    /\ UNCHANGED <<active, config, work>>

\* A unit whose file was removed goes on running.
StopUnit_Forgotten ==
    /\ pc = "Stop"
    /\ Step(IF Built(data)[unit] # None THEN "Write" ELSE "Scan")
    /\ UNCHANGED <<files, active, config, work>>

\* The unit is stopped and systemd reloaded; a file that is still wanted is
\* written again.  A service requires its socket and stops with it.
StopUnit ==
    /\ pc = "Stop"
    /\ Step(IF Built(data)[unit] # None THEN "Write" ELSE "Scan")
    /\ active' = [u \in Units |-> IF unit \in {u, Socket(u)} THEN None ELSE active[u]]
    /\ UNCHANGED <<files, config, work>>

\* The loop over the wanted files that are missing.
Add ==
    /\ pc = "Add"
    /\ \/ \E u \in Units :
            /\ Built(data)[u] # None /\ files[u] = None
            /\ Step("Write") /\ unit' = u
       \/ /\ \A u \in Units : Built(data)[u] # None => files[u] # None
          /\ Step("Notify") /\ unit' = None
    /\ UNCHANGED <<config, units, attempt, todo>>

WriteFile ==
    /\ pc = "Write"
    /\ Step("Start")
    /\ files' = [files EXCEPT ![unit] = Built(data)[unit]]
    /\ UNCHANGED <<active, config, work>>

\* systemctl start does nothing to an active unit, and fails, unseen, for a
\* service whose socket has no unit file; it starts the socket of a service.
StartUnit ==
    /\ pc = "Start"
    /\ \E next \in {"Scan", "Add"} :
         /\ next = "Add" <=> todo = {}
         /\ Step(next)
    /\ active' = IF active[unit] # None \/ files[Socket(unit)] = None THEN active
                 ELSE [active EXCEPT ![unit] = files[unit],
                                     ![Socket(unit)] = "listen"]
    /\ UNCHANGED <<files, config, work>>

\* Config::notify; QueueProxyUpdate records the forwards.
Notify ==
    /\ pc = "Notify"
    /\ pc' = "Sleep"
    /\ heartbeat' = data
    /\ UNCHANGED <<table, blob, config, units, work, changes, crashes>>

\* The loop sleeps, and notifies when it has not done so for a while.
Sleep ==
    /\ pc = "Sleep"
    /\ pc' = "Fetch"
    /\ attempt' = 0
    /\ heartbeat' \in {heartbeat, data}
    /\ UNCHANGED <<table, blob, config, units, todo, unit, changes, crashes>>

Crash ==
    /\ pc # "Down" /\ crashes < MaxCrashes
    /\ crashes' = crashes + 1
    /\ pc' = "Down"
    /\ UNCHANGED <<service, config, units, work, changes>>

----------------------------------------------------------------------------
Manager == \/ Boot \/ Fetched \/ NotModified \/ Save
           \/ ListFiles \/ Scan \/ RemoveFile \/ StopUnit
           \/ Add \/ WriteFile \/ StartUnit \/ Notify \/ Sleep

Next ==
    \/ \E m \in Machines : CreateForward(m)
    \/ \E p \in Ports : RemoveForward(p)
    \/ TimerProxy \/ Manager \/ Crash

\* The manager runs and is restarted by systemd; the service's timer ticks.
Spec == Init /\ [][Next]_vars /\ WF_vars(Manager) /\ WF_vars(TimerProxy)

----------------------------------------------------------------------------
(* Properties.                                                             *)

\* Where a connection to a port ends: at an active service, or at the one that
\* the socket starts from its unit file.
Reaches(p) ==
    IF active[<<p, "service">>] # None THEN active[<<p, "service">>]
    ELSE IF active[<<p, "socket">>] # None THEN files[<<p, "service">>]
    ELSE None

\* When the manager is about to report its forwards, and nothing has killed it,
\* it serves exactly those: whatever order the units are found, rewritten and
\* started in.
ServesWhatItReports ==
    pc = "Notify" /\ crashes = 0 => \A p \in Ports : Reaches(p) = data[p]

\* Every port reaches the machine that the table says, and the service knows it,
\* although an unchanged configuration ends the manager again and again: Config::fetch
\* and proxy::update of a manager that was never killed half-way.
Converges ==
    crashes = 0 => \A p \in Ports : heartbeat[p] = table[p] /\ Reaches(p) = table[p]

\* The unit files and the service's record follow the table even when the manager
\* is killed between Config::save and the change of the units, where the file it
\* restarts from is already the new configuration.
FilesConverge == files = Built(table) /\ heartbeat = table
=============================================================================
