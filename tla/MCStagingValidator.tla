------------------------- MODULE MCStagingValidator -------------------------
(* Two executions that may overlap, one other analyst and one other approver. *)
EXTENDS StagingValidator

CONSTANTS OtherAnalyst, OtherApprover

Others == {OtherAnalyst, OtherApprover}
Roles_Of ==
    [s \in {Analyst, Approver} \cup Others |->
       IF s \in {Analyst, OtherAnalyst} THEN "analyst" ELSE "approver"]

=============================================================================
