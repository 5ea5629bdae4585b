SPECIFICATION Spec
CONSTANTS
    Keys = {k1, k2}
    Users = {}
    NoUser = NoUser
    NoKey = NoKey
    Procs = {p1, p2}
    Faults = {}
    Roles <- OneZone
    RoleStart <- OneZoneStart
    RoleEnd <- OneZoneEnd
    MaxRows = 2
SYMMETRY Symmetry
INVARIANTS
    RevokedPeersOffline
