SPECIFICATION FairSpec
CONSTANTS
    e1 = e1
    e2 = e2
    Execution = {e1, e2}
    Analyst = Analyst
    Approver = Approver
    OtherAnalyst = OtherAnalyst
    OtherApprover = OtherApprover
    Outsider <- Others
    RoleOf <- Roles_Of
    Null = Null
    MaxUpsets = 1
INVARIANTS
    ReportsAreEarned
PROPERTIES
    ProbesAreHarmless
    Resumes
CHECK_DEADLOCK FALSE
