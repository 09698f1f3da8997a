\* Two utx processes in one working copy, two wallets, three keys.
SPECIFICATION Spec
SYMMETRY Symmetry
CONSTANTS
    Procs = {p1, p2}
    Wallets = {w, i}
    ImportPath = i
    Keys = {k1, k2, k3}
    Chains = {c1, c2, c3}
    MaxCommands = 3
    None = None
INVARIANTS KeyKept SessionNamesWallet
PROPERTIES WalletsKept DeployChainKept
CHECK_DEADLOCK FALSE
