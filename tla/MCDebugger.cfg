SPECIFICATION Spec
CONSTANTS
    None = None
    Thread = {t1, t2}
    Addr = {a, b}
    Kind <- Counters
    MaxCount = 3
INVARIANT CounterRestored
CHECK_DEADLOCK FALSE
