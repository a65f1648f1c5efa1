-------------------------- MODULE MCGovernanceCore --------------------------
(* Small instances of GovernanceCore. *)
EXTENDS GovernanceCore, TLC

CONSTANTS f1, ann, bob, dan, i1, d1, r1, r2

\* Two analysts and one approver.
MC_ThreeRoles == (ann :> "analyst") @@ (bob :> "analyst") @@ (dan :> "approver")

\* One analyst and one approver.
MC_TwoRoles == (ann :> "analyst") @@ (dan :> "approver")

RequestSymmetry == Permutations(Request)
=============================================================================
