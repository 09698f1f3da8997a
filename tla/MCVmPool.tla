------------------------------ MODULE MCVmPool ------------------------------
(* Instances of VmPool for TLC. *)
EXTENDS VmPool, TLC
=============================================================================
