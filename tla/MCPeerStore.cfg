SPECIFICATION StoreSpec
CONSTANTS
    Keys = {k1, k2, k3}
    Users = {u1, u2}
    NoUser = NoUser
    Roles <- MCRoles
    RoleStart <- MCRoleStart
    RoleEnd <- MCRoleEnd
    MaxRows = 3
SYMMETRY Symmetry
INVARIANTS
    StoreTypeOK
    ActiveAddressesDistinct
    AllocationNeverCollides
    AuditTrailTruthful
PROPERTIES
    OwnerSetOnce
    RevocationIsFinal
