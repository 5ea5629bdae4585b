---------------------------- MODULE MCPeerService ----------------------------
(***************************************************************************)
(* Small instances of PeerService: two zones, the first with a single      *)
(* address, so that a revoked address is given out again and the zone      *)
(* fills up.                                                               *)
(***************************************************************************)
EXTENDS PeerService, TLC

Symmetry == Permutations(Keys) \cup Permutations(Users) \cup Permutations(Procs)

MCRoles == {"admin", "guest"}
MCRoleStart == [r \in MCRoles |-> IF r = "admin" THEN 2 ELSE 3]
MCRoleEnd == [r \in MCRoles |-> IF r = "admin" THEN 2 ELSE 4]

OneZone == {"guest"}
OneZoneStart == [r \in OneZone |-> 3]
OneZoneEnd == [r \in OneZone |-> 4]
=============================================================================
