------------------------------ MODULE MCSession ------------------------------
(* Instances of Session for TLC. *)
EXTENDS Session, TLC

Symmetry == Permutations(Procs) \cup Permutations(Keys) \cup Permutations(Chains)
=============================================================================
