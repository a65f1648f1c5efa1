SPECIFICATION FairSpec
CONSTANTS
    app = app
    worker = worker
    governance = governance
    identity = identity
    old = old
    new = new
    c1 = c1
    c2 = c2
    c3 = c3
    c3x = c3x
    d1 = d1
    d2 = d2
    a1 = a1
    a2 = a2
    a3 = a3
    Process = {app, worker}
    Database = {governance, identity}
    TargetsOf <- Targets_Of
    Migration = {1, 2, 3}
    Checksum = {c1, c2, c3, c3x}
    Release = {old, new}
    FilesOf <- Files_Of
    None = None
    MaxFaults = 1
    Source = governance
    Expected = new
    Table = {1, 2}
    MaxRows = 2
    Declaration = {d1, d2}
    DeclarationOf <- Declaration_Of
    AddressesOf <- Addresses_Of
INVARIANTS
    AppliedOnceInOrder
    ServesItsOwnSchema
    SnapshotIsOneMoment
    PassMeansRestored
PROPERTIES
    EveryProcessServes
CHECK_DEADLOCK FALSE
