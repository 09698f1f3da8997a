\* Three threads, three sessions, on two machines.
SPECIFICATION Spec
CONSTANTS
    Threads = {t1, t2, t3}
    Vms = {v1, v2}
    Functions = {f}
    MaxSessions = 3
    None = None
INVARIANTS EachVmOnce FailsOnItsOwn NoWakeupLost
CHECK_DEADLOCK FALSE
