\* Deploying again and again empties the selection; the files may share a chain.
SPECIFICATION FairSpec
CONSTANTS
    a = a
    b = b
    c1 = c1
    c2 = c2
    x = x
    y = y
    None = None
    Paths = {a, b}
    Contents = {c1}
    Chains = {x, y}
    Kinds = {"html"}
    Ext <- SameExt
    ChainOpts = {x}
    KindOpts = {}
    Legacy <- NoLegacy
    Edited = {a}
    MaxLate = 0
    Faults = {}
PROPERTIES DeployConverges
