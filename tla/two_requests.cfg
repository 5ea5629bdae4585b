SPECIFICATION Spec
CONSTANTS
    Keys = {k1, k2}
    Users = {u1}
    NoUser = NoUser
    NoKey = NoKey
    Procs = {p1, p2}
    Faults = {"kernel", "crash"}
    Roles <- OneZone
    RoleStart <- OneZoneStart
    RoleEnd <- OneZoneEnd
    MaxRows = 2
SYMMETRY Symmetry
INVARIANTS
    LivePeersHaveRowsUntilReload
    WholeConfAddresses
    FilesSettle
PROPERTIES
    StoreSpec
