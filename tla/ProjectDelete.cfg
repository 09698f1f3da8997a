\* The user removes a file while utx deploy runs.
SPECIFICATION Spec
CONSTANTS
    a = a
    b = b
    c1 = c1
    c2 = c2
    x = x
    y = y
    None = None
    Paths = {a}
    Contents = {c1, c2}
    Chains = {x, y}
    Kinds = {"html"}
    Ext <- SameExt
    ChainOpts = {}
    KindOpts = {}
    Legacy <- NoLegacy
    Edited = {a}
    MaxLate = 0
    Faults = {"delete"}
PROPERTY LeavesStagingOnlyWhenSynced
