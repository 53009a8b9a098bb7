------------------------------- MODULE MCJobs -------------------------------
(* Instances of Jobs: a chain of tasks t1 <- t2 <- t3, of which some may be  *)
(* colocated and the others run alone, on one node or on several.            *)
EXTENDS Jobs

CONSTANTS
    t1, t2, t3,
    Alone,      \* tasks that cannot be colocated
    AloneCount  \* the number of nodes they ask for

Chain == [t \in Tasks |-> CASE t = t2 -> {t1} [] t = t3 -> {t2} [] OTHER -> {}]

Buckets == [t \in Tasks |-> IF t \in Alone THEN {t} ELSE Tasks \ Alone]

Counts == [t \in Tasks |-> IF t \in Alone THEN AloneCount ELSE 1]
=============================================================================
