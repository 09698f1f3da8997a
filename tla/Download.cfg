\* Two targets and two workers, restored again and again from manifests that
\* other users replace.
SPECIFICATION FairSpec
CONSTANTS
    a = a
    b = b
    x = x
    y = y
    c1 = c1
    c2 = c2
    None = None
    Paths = {a, b}
    Chains = {x, y}
    Contents = {c1, c2}
    Boards <- SomeBoards
    MaxTargets = 2
    NumWorkers = 2
INVARIANTS ReportIsTrue
PROPERTIES TouchesOnlyWhatItHas DownloadConverges
