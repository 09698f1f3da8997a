\* Two files, each with a chain of its own, through any sequence of commands,
\* edits of one of them, failures, crashes and late effects.
SPECIFICATION Spec
CONSTANTS
    a = a
    b = b
    c1 = c1
    c2 = c2
    x = x
    y = y
    None = None
    Paths = {a, b}
    Contents = {c1, c2}
    Chains = {x, y}
    Kinds = {"html"}
    Ext <- SameExt
    ChainOpts = {}
    KindOpts = {}
    Legacy <- NoLegacy
    Edited = {a}
    MaxLate = 1
    Faults = {}
SYMMETRY Symmetry
INVARIANTS StagedIsTracked SyncedMeansFinalized PublishedIsTruthful
PROPERTIES LeavesStagingOnlyWhenSynced NoPartialManifest UnstagedMeansPublished
