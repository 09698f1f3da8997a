---------------------------- MODULE DeployService ----------------------------
(***************************************************************************)
(* What DeployClient::deploy promises to the commands that call it.        *)
(*                                                                         *)
(* A call for a plan ends in "ok" or "error".  "ok" means that the plan    *)
(* has taken effect on its chain; after "error", or after the process      *)
(* died, it may or may not have taken effect, and may still do so later.   *)
(* A plan takes effect at most once, and only after it was requested.      *)
(***************************************************************************)
CONSTANTS
    Plans,      \* the plans a process may deploy
    Effects     \* the distinguishable ways in which a plan can take effect

VARIABLES
    phase,      \* of the last call: "none", "running", "ok" or "error"
    requested,  \* the node has been sent the plan
    effects     \* how the plan has taken effect so far

vars == <<phase, requested, effects>>

Init ==
    /\ phase = [p \in Plans |-> "none"]
    /\ requested = [p \in Plans |-> FALSE]
    /\ effects \in [Plans -> {{}} \cup {{e} : e \in Effects}]

Begin(p) ==
    /\ phase[p] # "running"
    /\ phase' = [phase EXCEPT ![p] = "running"]
    /\ UNCHANGED <<requested, effects>>

Request(p) ==
    /\ phase[p] = "running"
    /\ requested' = [requested EXCEPT ![p] = TRUE]
    /\ UNCHANGED <<phase, effects>>

TakeEffect(p, e) ==
    /\ requested[p]
    /\ effects[p] = {}
    /\ effects' = [effects EXCEPT ![p] = {e}]
    /\ UNCHANGED <<phase, requested>>

Succeed(p) ==
    /\ phase[p] = "running"
    /\ effects[p] # {}
    /\ phase' = [phase EXCEPT ![p] = "ok"]
    /\ UNCHANGED <<requested, effects>>

Fail(p) ==
    /\ phase[p] = "running"
    /\ phase' = [phase EXCEPT ![p] = "error"]
    /\ UNCHANGED <<requested, effects>>

\* The process dies.
Abort ==
    /\ phase' = [p \in Plans |-> "none"]
    /\ UNCHANGED <<requested, effects>>

Next ==
    \/ \E p \in Plans : Begin(p) \/ Request(p) \/ Succeed(p) \/ Fail(p)
    \/ \E p \in Plans, e \in Effects : TakeEffect(p, e)
    \/ Abort

Spec == Init /\ [][Next]_vars
=============================================================================
