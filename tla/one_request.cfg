SPECIFICATION Spec
CONSTANTS
    Keys = {k1, k2}
    Users = {u1}
    NoUser = NoUser
    NoKey = NoKey
    Procs = {p1}
    Faults = {"kernel", "row", "sync", "crash", "reload"}
    Roles <- OneZone
    RoleStart <- OneZoneStart
    RoleEnd <- OneZoneEnd
    MaxRows = 2
SYMMETRY Symmetry
INVARIANTS
    ServiceTypeOK
    InterfaceWithinTable
    QuietInterfaceCurrent
    QuietConfCurrent
    ConfAlwaysWhole
PROPERTIES
    ClaimedByItsOwnDevice
    BookSpec
    ClaimantsOwnPeers
