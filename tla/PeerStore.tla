------------------------------ MODULE PeerStore ------------------------------
(***************************************************************************)
(* The SQLite tables behind OpenWard (db/peers.db.go, db/users.db.go) and  *)
(* the statements that change them.  The pool has one connection           *)
(* (SetMaxOpenConns(1)) and AllocateAndInsertPeer holds it from BEGIN      *)
(* IMMEDIATE to COMMIT, so each statement or transaction is one step, and  *)
(* a failed one changes nothing.                                           *)
(*                                                                         *)
(* A row is kept under its public key, which is UNIQUE.  Its ip_address is *)
(* the last octet while it is drawn from a zone, and Released once the     *)
(* "-rev-<id>" suffix has been appended: the suffix carries the row's own  *)
(* id, so a released address equals no other row's and no zone address.    *)
(* A user is identified by its email, which is UNIQUE.                     *)
(***************************************************************************)
EXTENDS Integers

CONSTANTS
    Keys,           \* WireGuard public keys
    Users,          \* emails
    NoUser,         \* user_id NULL
    Roles,          \* network roles
    RoleStart,      \* first octet of a role's zone
    RoleEnd,        \* last octet of a role's zone
    MaxRows         \* bound on the rows ever inserted

OctetRange(r) == RoleStart[r] .. RoleEnd[r]

ASSUME StoreAssumption ==
    /\ NoUser \notin Users
    /\ Roles \subseteq STRING
    /\ RoleStart \in [Roles -> 2 .. 254]
    /\ RoleEnd \in [Roles -> 2 .. 254]
    /\ MaxRows \in Nat
    /\ \A r, s \in Roles : r # s => OctetRange(r) \cap OctetRange(s) = {}

Octets == UNION {OctetRange(r) : r \in Roles}
Released == 0

VARIABLES
    peers,          \* public key -> row
    users,          \* emails with a row in users
    nextId,         \* AUTOINCREMENT of peers
    events          \* peer_events: which events a key has

storeVars == <<peers, users, nextId, events>>

NoRole == ""
NoRow == [id |-> 0, role |-> NoRole, ip |-> Released, status |-> "absent",
          owner |-> NoUser, config |-> FALSE]

Row == [id : 0 .. MaxRows, role : Roles \cup {NoRole}, ip : Octets \cup {Released},
        status : {"absent", "active", "revoked"}, owner : Users \cup {NoUser},
        config : BOOLEAN]

Stored(k) == peers[k].status # "absent"
Active(k) == peers[k].status = "active"
Revoked(k) == peers[k].status = "revoked"

-----------------------------------------------------------------------------
\* SELECT ip_address ... WHERE network_role = r AND status != 'revoked'
UsedOctets(r) ==
    {peers[k].ip : k \in {j \in Keys : Stored(j) /\ peers[j].role = r /\ ~Revoked(j)}}

\* Wrong: the scan of the zone goes one octet too far.
FirstFreePastEnd(r, o) ==
    LET free == (RoleStart[r] .. RoleEnd[r] + 1) \ UsedOctets(r)
    IN  o \in free /\ \A q \in free : o <= q

\* o is what firstFreeIP returns for role r
FirstFree(r, o) ==
    /\ o \in OctetRange(r) \ UsedOctets(r)
    /\ \A q \in OctetRange(r) \ UsedOctets(r) : o <= q

\* ip_address UNIQUE over the whole table, whatever the role or status
AddressTaken(o) == \E k \in Keys : Stored(k) /\ peers[k].ip = o

\* GetPeerByIP
HoldsAddress(k, o) == Active(k) /\ peers[k].ip = o

\* GetActivePeers
ActivePeers == [k \in Keys |-> IF Active(k) THEN peers[k].ip ELSE Released]

-----------------------------------------------------------------------------
StoreInit ==
    /\ peers = [k \in Keys |-> NoRow]
    /\ users = {}
    /\ nextId = 1
    /\ events = {}

\* Wrong: the row carries the id after its own.
InsertNextId(k, r, u) ==
    /\ ~Stored(k)
    /\ nextId <= MaxRows
    /\ u \in users \cup {NoUser}
    /\ \E o \in Octets :
          /\ FirstFree(r, o)
          /\ ~AddressTaken(o)
          /\ peers' = [peers EXCEPT ![k] =
                [id |-> nextId + 1, role |-> r, ip |-> o, status |-> "active",
                 owner |-> u, config |-> TRUE]]
    /\ nextId' = nextId + 1
    /\ UNCHANGED <<users, events>>

\* AllocateAndInsertPeer: pick the lowest free octet and insert, in one transaction
AllocateAndInsertPeer(k, r, u) ==
    /\ ~Stored(k)
    /\ nextId <= MaxRows
    /\ u \in users \cup {NoUser}
    /\ \E o \in Octets :
          /\ FirstFree(r, o)
          /\ ~AddressTaken(o)
          /\ peers' = [peers EXCEPT ![k] =
                [id |-> nextId, role |-> r, ip |-> o, status |-> "active",
                 owner |-> u, config |-> TRUE]]
    /\ nextId' = nextId + 1
    /\ UNCHANGED <<users, events>>

DeletePeerByPublicKey(k) ==
    /\ peers' = [peers EXCEPT ![k] = NoRow]
    /\ UNCHANGED <<users, nextId, events>>

\* Wrong: the row keeps its address.
MarkRevokedInPlace(i) ==
    /\ peers' = [k \in Keys |->
          IF Stored(k) /\ peers[k].id = i
          THEN [peers[k] EXCEPT !.status = "revoked", !.config = FALSE]
          ELSE peers[k]]
    /\ UNCHANGED <<users, nextId, events>>

\* the UPDATE of RevokePeer, by the id its SELECT found
MarkRevoked(i) ==
    /\ peers' = [k \in Keys |->
          IF Stored(k) /\ peers[k].id = i
          THEN [peers[k] EXCEPT !.status = "revoked", !.ip = Released, !.config = FALSE]
          ELSE peers[k]]
    /\ UNCHANGED <<users, nextId, events>>

\* Wrong: without AND user_id IS NULL.
ClaimAnyPeer(i, u) ==
    \E k \in Keys :
        /\ Stored(k) /\ peers[k].id = i
        /\ peers' = [peers EXCEPT ![k].owner = u]

\* Wrong: the claim sets the status as well.
ClaimAndActivate(i, u) ==
    \E k \in Keys :
        /\ Stored(k) /\ peers[k].id = i /\ peers[k].owner = NoUser
        /\ peers' = [peers EXCEPT ![k].owner = u, ![k].status = "active"]

\* UPDATE peers SET user_id = u WHERE id = i AND user_id IS NULL, one row affected
ClaimPeer(i, u) ==
    \E k \in Keys :
        /\ Stored(k) /\ peers[k].id = i /\ peers[k].owner = NoUser
        /\ peers' = [peers EXCEPT ![k].owner = u]

\* Wrong: two commits, and only the first, the user's, need come about.
ClaimInTwoCommits(i, u) ==
    /\ u \notin users
    /\ users' = users \cup {u}
    /\ ClaimPeer(i, u) \/ UNCHANGED peers
    /\ UNCHANGED <<nextId, events>>

\* the transaction of ClaimAccount: both statements commit or neither does
ClaimAccount(i, u) ==
    /\ u \notin users
    /\ users' = users \cup {u}
    /\ ClaimPeer(i, u)
    /\ UNCHANGED <<nextId, events>>

InsertUser(u) ==
    /\ u \notin users
    /\ users' = users \cup {u}
    /\ UNCHANGED <<peers, nextId, events>>

AddPeerEvent(k, action) ==
    /\ events' = events \cup {<<k, action>>}
    /\ UNCHANGED <<peers, users, nextId>>

Logged(k, action) == <<k, action>> \in events

(***************************************************************************)
(* What the callers may do.  A key pair is generated per creation, so a    *)
(* key is inserted once; a row is deleted only by the creation that        *)
(* inserted it, before it has logged "created"; "revoked" is logged after  *)
(* the UPDATE.  PeerService is shown to keep to this.                      *)
(***************************************************************************)
InsertFresh(k, r, u) ==
    /\ ~Logged(k, "created") /\ ~Logged(k, "revoked")
    /\ AllocateAndInsertPeer(k, r, u)

DeleteUnlogged(k) == ~Logged(k, "created") /\ DeletePeerByPublicKey(k)

LogCreation(k) == Stored(k) /\ AddPeerEvent(k, "created")

\* Wrong: the event before the UPDATE.
LogRevocationEarly(k) == Stored(k) /\ AddPeerEvent(k, "revoked")

LogRevocation(k) == ~Active(k) /\ AddPeerEvent(k, "revoked")

StoreNext ==
    \/ \E k \in Keys, r \in Roles, u \in Users \cup {NoUser} : InsertFresh(k, r, u)
    \/ \E k \in Keys : DeleteUnlogged(k)
    \/ \E i \in 1 .. MaxRows : MarkRevoked(i)
    \/ \E i \in 1 .. MaxRows, u \in Users : ClaimAccount(i, u)
    \/ \E u \in Users : InsertUser(u)
    \/ \E k \in Keys : LogCreation(k) \/ LogRevocation(k)

StoreSpec == StoreInit /\ [][StoreNext]_storeVars

-----------------------------------------------------------------------------
StoreTypeOK ==
    /\ peers \in [Keys -> Row]
    /\ users \in SUBSET Users
    /\ nextId \in 1 .. (MaxRows + 1)
    /\ events \in SUBSET (Keys \X {"created", "revoked"})

\* No two active peers share an address, and each lies in its role's zone: the
\* firewall tells zones apart by the octet alone.
ActiveAddressesDistinct ==
    /\ \A k \in Keys : Active(k) =>
          \E r \in Roles : peers[k].role = r /\ peers[k].ip \in OctetRange(r)
    /\ \A k, j \in Keys : Active(k) /\ Active(j) /\ peers[k].ip = peers[j].ip => k = j

\* The address the allocator picks is never refused by UNIQUE(ip_address), although
\* its query looks at one role and at rows that are not revoked, and UNIQUE at all
\* rows: an allocation fails only when the zone is full.
AllocationNeverCollides ==
    \A r \in Roles, o \in Octets : FirstFree(r, o) => ~AddressTaken(o)

\* The audit trail tells the truth: a key logged as created has a row, which no later
\* rollback removes, and a key logged as revoked is not active and never will be.
AuditTrailTruthful ==
    \A k \in Keys :
        /\ Logged(k, "created") => Stored(k)
        /\ Logged(k, "revoked") => ~Active(k)

\* The owner of a row, once set, is never replaced, whoever else is claiming it.
OwnerSetOnce ==
    [][\A k \in Keys : peers[k].owner # NoUser =>
          (peers'[k].owner = peers[k].owner \/ peers'[k] = NoRow)]_storeVars

\* A revoked row never becomes active again, and keeps neither address nor config.
RevocationIsFinal ==
    [][\A k \in Keys : Revoked(k) =>
          /\ peers'[k].status # "active"
          /\ peers'[k].ip = Released /\ ~peers'[k].config]_storeVars
=============================================================================
