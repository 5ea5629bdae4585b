----------------------------- MODULE MCPeerStore -----------------------------
(***************************************************************************)
(* A small instance of PeerStore: two zones, the first with a single       *)
(* address so that it fills up.                                            *)
(***************************************************************************)
EXTENDS PeerStore, TLC

Symmetry == Permutations(Keys) \cup Permutations(Users)

MCRoles == {"admin", "guest"}
MCRoleStart == [r \in MCRoles |-> IF r = "admin" THEN 2 ELSE 3]
MCRoleEnd == [r \in MCRoles |-> IF r = "admin" THEN 2 ELSE 4]
=============================================================================
