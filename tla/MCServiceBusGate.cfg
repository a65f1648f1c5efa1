SPECIFICATION FairSpec
CONSTANTS
    f1 = f1
    f2 = f2
    Finding = {f1, f2}
    Gate = {g1, g2}
    Expected <- MCExpected
    None = None
    MaxSequence = 1
    MaxCopies = 2
    MaxDelivery = 2
    MaxFaults = 1
INVARIANTS
    OnlyTheNamedIsSettled
    ReportsAreReal
    RecoveryIsOfOurOwn
PROPERTIES
    NamedIsSettled
CHECK_DEADLOCK FALSE
