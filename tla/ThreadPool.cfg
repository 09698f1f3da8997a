\* More tasks than workers, and more workers than tasks for a while.
SPECIFICATION FairSpec
CONSTANTS
    w1 = w1
    w2 = w2
    w3 = w3
    None = None
    Workers = {w1, w2, w3}
    NumTasks = 4
INVARIANTS EachTaskOnce DrainedWhenGone NoWakeupLost
PROPERTIES ImplementsRunner CallerGetsThrough
