------------------------------ MODULE MCAgent ------------------------------
(***************************************************************************)
(* Instances of Agent for TLC: a work set of two tasks that needs a reboot *)
(* and a work set of one task, which shares a task with the first one.     *)
(***************************************************************************)
EXTENDS Agent

CONSTANTS t1, t2, pair, single

MCTasks == {t1, t2}
MCWorkSets == {pair, single}
MCTasksOf == [w \in WorkSets |-> IF w = pair THEN {t1, t2} ELSE {t1}]
MCRebootSets == {pair}
=============================================================================
