----------------------------- MODULE PeersTable -----------------------------
(***************************************************************************)
(* The table of the dashboard (frontend/app/(dashboard)/dashboard/page.tsx *)
(* and components/routing/, components/cyber/): the peers that a search    *)
(* and a role let through, in groups of one operator, while the stream     *)
(* goes on changing them.  The order that can be chosen is never used.     *)
(***************************************************************************)
EXTENDS Mounted, Integers, FiniteSets

CONSTANT MaxRows

Rows == 1 .. MaxRows

\* "gamer" stands for the roles that the filter does not offer, "guest" for the rest
NetworkRole == {"guest", "gamer"}
RoleOptions == {"all", "guest"}

\* operatorId may be null; rxTraffic in bytes, 0 or more than a bar can show
MappedPeer == [role : NetworkRole, operatorId : {"op", "null"},
               status : {"online", "idle", "offline"}, rxTraffic : {0, 200}]

\* searchQuery: the peers whose name or address has it
Tables == [kind : {"table"},
           peers : [Rows -> {p \in MappedPeer : p.status # "online" /\ p.rxTraffic = 0}],
           searchQuery : {Rows}, roleFilter : {"all"}]

SetSearchQuery(found) ==
    /\ Is("table")
    /\ ui' = [ui EXCEPT !.searchQuery = found]

SetRoleFilter(role) ==
    /\ Is("table")
    /\ ui' = [ui EXCEPT !.roleFilter = role]

\* a message of the stream has what it has of peer p
TableStats(p, online, rx) ==
    /\ Is("table")
    /\ ui' = [ui EXCEPT !.peers[p].status = IF online THEN "online" ELSE "idle",
                        !.peers[p].rxTraffic = rx]

FilteredPeers ==
    {p \in ui.searchQuery : ui.roleFilter \in {"all", ui.peers[p].role}}

OperatorOf(p) ==
    IF ui.peers[p].operatorId = "null" THEN "UNCLAIMED" ELSE ui.peers[p].operatorId

\* a header with the number of peers, and their rows
OperatorGroup(operator) ==
    LET peers == {p \in FilteredPeers : OperatorOf(p) = operator} IN
    [operatorId |-> operator, size |-> Cardinality(peers), rows |-> peers]

Groups == {OperatorGroup(operator) : operator \in {OperatorOf(p) : p \in FilteredPeers}}

\* in percent; both bars of a row are full from 100 bytes on
CyberProgress(value, max) ==
    IF (value * 100) \div max < 100 THEN (value * 100) \div max ELSE 100

StatusDot(status) ==
    [color |-> CASE status = "online" -> "primary"
                 [] status = "offline" -> "destructive"
                 [] OTHER -> "muted",
     pulse |-> status = "online"]

TableNext ==
    \/ \E found \in SUBSET Rows : SetSearchQuery(found)
    \/ \E role \in RoleOptions : SetRoleFilter(role)
    \/ \E p \in Rows, online \in BOOLEAN, rx \in {0, 200} : TableStats(p, online, rx)
=============================================================================
