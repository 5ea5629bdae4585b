------------------------------- MODULE MCZones -------------------------------
(***************************************************************************)
(* The first and last octet of every zone and a host outside: the rules    *)
(* compare octets with the ends of ranges only.                            *)
(***************************************************************************)
EXTENDS Zones

Edges == {2, 15, 16, 49, 50, 99, 100, 149, 150, 199, 200, 254, Internet}
=============================================================================
