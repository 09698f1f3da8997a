\* A root and three elements with names that collide, and one stale entry.
SPECIFICATION Spec
CONSTANTS
    r = r
    e1 = e1
    e2 = e2
    e3 = e3
    Nil = Nil
    Elems = {r, e1, e2, e3}
    Root = r
    Bases <- MCBases
    GivenNames <- MCGivenNames
    MaxSuffix = 1
    MaxIndex = 5
SYMMETRY Symmetry
INVARIANTS TreeShape IdIsPath UniqueNames RegisteredInTree FindsElement
