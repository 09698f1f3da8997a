---------------------------- MODULE MCGraphTree ----------------------------
(* Instances of GraphTree for TLC. *)
EXTENDS GraphTree, TLC

MCBases == {"a", "root"}
MCGivenNames == {Name("a", <<>>), Name("a", <<1>>)}

\* Elements other than the root are only compared.
Symmetry == Permutations(Elems \ {Root})
=============================================================================
