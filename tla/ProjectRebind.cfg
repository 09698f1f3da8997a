\* One file moved between chains and kinds, on networks that come and go.
SPECIFICATION Spec
CONSTANTS
    a = a
    b = b
    c1 = c1
    c2 = c2
    x = x
    y = y
    None = None
    Paths = {a}
    Contents = {c1}
    Chains = {x, y}
    Kinds = {"html", "go"}
    Ext <- SameExt
    ChainOpts = {x, y}
    KindOpts = {"html", "go"}
    Legacy <- SomeLegacy
    Edited = {a}
    MaxLate = 0
    Faults = {"delete", "lose", "network"}
SYMMETRY Symmetry
INVARIANTS SyncedMeansFinalized
