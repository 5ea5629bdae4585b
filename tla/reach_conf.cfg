SPECIFICATION FairSpec
CONSTANTS
    Keys = {k1, k2}
    Users = {}
    NoUser = NoUser
    NoKey = NoKey
    Procs = {p1}
    Faults = {"kernel", "row", "log", "sync", "crash"}
    Roles <- OneZone
    RoleStart <- OneZoneStart
    RoleEnd <- OneZoneEnd
    MaxRows = 2
PROPERTIES
    ChangesReachConf
