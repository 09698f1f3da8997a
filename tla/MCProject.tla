----------------------------- MODULE MCProject -----------------------------
(* Instances of Project for TLC. *)
EXTENDS Project, TLC

\* Contents and chains are only compared with each other, and so are paths, but
\* for the one that is edited.
Symmetry == Permutations(Contents) \cup Permutations(Chains)

\* Every path has the same extension.
SameExt(p) == "html"

\* What an older utx or another tool left in the manifest of the repository.
NoLegacy == {}
SomeLegacy ==
    {[chain |-> c, kind |-> k, hash |-> None, labels |-> TRUE] :
        c \in Chains \cup {None}, k \in Kinds}
=============================================================================
