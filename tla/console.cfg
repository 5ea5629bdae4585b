SPECIFICATION Spec
CONSTANTS
    Users = {root, ann}
    Root = root
    Nobody = nobody
    MaxPeers = 2
    MaxCalls = 2
    Tours = {{"login", "users", "claim"}, {"dashboard", "deploy", "day"}, {"dashboard", "peer", "deploy"}}
INVARIANTS
    ConsoleTypeOK
    ProvisionedUserListed
    PeerPageCurrent
    RevokedUpOnlyIfHeard
    NoDoubleDeployment
PROPERTIES
    AdminsOnly
    
