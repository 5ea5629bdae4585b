--------------------------- MODULE PeerStoreProofs ---------------------------
(***************************************************************************)
(* What PeerStore guarantees for every number of keys, users and zones:    *)
(* the types, distinct addresses inside the zones, allocations that UNIQUE *)
(* never refuses, a truthful audit trail, owners set once and revocations  *)
(* that are final.                                                         *)
(*                                                                         *)
(* Distinct addresses are not inductive alone: the allocator reads only    *)
(* the rows of its own role that are not revoked, so the invariant adds    *)
(* that a row which is not active holds no zone address.                   *)
(***************************************************************************)
EXTENDS PeerStore, TLAPS

\* A row that is not active has given its address and its config up, or never had any.
InactiveHoldNothing ==
    \A k \in Keys : ~Active(k) => peers[k].ip = Released /\ ~peers[k].config

\* user_id REFERENCES users(id)
OwnersExist == \A k \in Keys : peers[k].owner \in users \cup {NoUser}

\* ids come from the AUTOINCREMENT counter, each to one row
IdsAssigned ==
    /\ \A k \in Keys : Stored(k) => peers[k].id \in 1 .. (nextId - 1)
    /\ \A k, j \in Keys : Stored(k) /\ Stored(j) /\ peers[k].id = peers[j].id => k = j

\* a key without a row has none of a row's data
AbsentIsNoRow == \A k \in Keys : ~Stored(k) => peers[k] = NoRow

StoreInv ==
    /\ StoreTypeOK
    /\ ActiveAddressesDistinct
    /\ InactiveHoldNothing
    /\ AuditTrailTruthful
    /\ OwnersExist
    /\ IdsAssigned
    /\ AbsentIsNoRow

-----------------------------------------------------------------------------
\* Zone octets are octets, and none of them is the mark of a released address.
LEMMA ZoneOctets ==
    /\ \A r \in Roles : OctetRange(r) \subseteq Octets
    /\ \A o \in Octets : o \in Int /\ o # Released
<1>1. \A r \in Roles : OctetRange(r) \subseteq Octets
  BY DEF Octets
<1>2. ASSUME NEW o \in Octets PROVE o \in Int /\ o # Released
  <2>1. PICK r \in Roles : o \in OctetRange(r)
    BY DEF Octets
  <2>2. RoleStart[r] \in 2 .. 254 /\ RoleEnd[r] \in 2 .. 254
    BY StoreAssumption
  <2>. QED
    BY <2>1, <2>2 DEF OctetRange, Released
<1>. QED
  BY <1>1, <1>2

\* A free address of a zone is held by no row of any role or status (firstFreeIP
\* against UNIQUE(ip_address)).
LEMMA FreeIsUntaken ==
    ASSUME StoreInv, NEW r \in Roles, NEW o \in Octets, FirstFree(r, o)
    PROVE  ~AddressTaken(o)
<1>1. SUFFICES ASSUME NEW k \in Keys, Stored(k), peers[k].ip = o
               PROVE  FALSE
  BY DEF AddressTaken
<1>2. Active(k)
  BY <1>1, ZoneOctets DEF StoreInv, InactiveHoldNothing
<1>3. PICK s \in Roles : peers[k].role = s /\ o \in OctetRange(s)
  BY <1>1, <1>2 DEF StoreInv, ActiveAddressesDistinct
<1>4. o \in OctetRange(r)
  BY DEF FirstFree
<1>5. peers[k].role = r
  BY <1>3, <1>4, StoreAssumption
<1>6. o \in UsedOctets(r)
  BY <1>1, <1>2, <1>5 DEF UsedOctets, Active, Revoked
<1>. QED
  BY <1>6 DEF FirstFree

-----------------------------------------------------------------------------
\* The absent row is a row.
LEMMA NoRowType == NoRow \in Row
BY StoreAssumption DEF NoRow, Row, NoRole, Released

\* The empty tables satisfy the invariant.
LEMMA StoreInvInit == StoreInit => StoreInv
<1>. SUFFICES ASSUME StoreInit PROVE StoreInv
  OBVIOUS
<1>. USE DEF StoreInit
<1>2. StoreTypeOK
  BY NoRowType, StoreAssumption DEF StoreTypeOK
<1>3. \A k \in Keys : peers[k] = NoRow
  OBVIOUS
<1>4. \A k \in Keys : ~Stored(k) /\ ~Active(k) /\ peers[k].ip = Released
                     /\ peers[k].owner = NoUser /\ ~peers[k].config
  BY <1>3 DEF Stored, Active, NoRow
<1>. QED
  BY <1>2, <1>3, <1>4 DEF StoreInv, ActiveAddressesDistinct, InactiveHoldNothing,
     AbsentIsNoRow, AuditTrailTruthful, OwnersExist, IdsAssigned, Logged

\* An insertion: the new row takes an address no row holds, in the zone of its role.
LEMMA InsertPreserves ==
    ASSUME StoreInv, NEW k \in Keys, NEW r \in Roles, NEW u \in Users \cup {NoUser},
           InsertFresh(k, r, u)
    PROVE  StoreInv'
<1>. USE DEF StoreInv
<1>1. ~Stored(k) /\ nextId <= MaxRows /\ u \in users \cup {NoUser}
  BY DEF InsertFresh, AllocateAndInsertPeer
<1>2. PICK o \in Octets :
          /\ FirstFree(r, o)
          /\ ~AddressTaken(o)
          /\ peers' = [peers EXCEPT ![k] =
                [id |-> nextId, role |-> r, ip |-> o, status |-> "active",
                 owner |-> u, config |-> TRUE]]
  BY DEF InsertFresh, AllocateAndInsertPeer
<1>3. nextId' = nextId + 1 /\ users' = users /\ events' = events
  BY DEF InsertFresh, AllocateAndInsertPeer
<1>4. peers \in [Keys -> Row]
  BY DEF StoreTypeOK
<1>5. /\ peers'[k] = [id |-> nextId, role |-> r, ip |-> o, status |-> "active",
                      owner |-> u, config |-> TRUE]
      /\ \A j \in Keys : j # k => peers'[j] = peers[j]
  BY <1>2, <1>4
<1>6. nextId \in 1 .. (MaxRows + 1) /\ MaxRows \in Nat
  BY StoreAssumption DEF StoreTypeOK
<1>7. StoreTypeOK'
  <2>1. [id |-> nextId, role |-> r, ip |-> o, status |-> "active",
         owner |-> u, config |-> TRUE] \in Row
    BY <1>1, <1>6 DEF Row
  <2>2. peers' \in [Keys -> Row]
    BY <2>1, <1>2, <1>4
  <2>. QED
    BY <2>2, <1>1, <1>3, <1>6 DEF StoreTypeOK
<1>8. ActiveAddressesDistinct'
  <2>1. o \in OctetRange(r)
    BY <1>2 DEF FirstFree
  <2>2. \A j \in Keys : Stored(j) => peers[j].ip # o
    BY <1>2 DEF AddressTaken
  <2>3. \A j \in Keys : j # k => (Active(j)' <=> Active(j))
    BY <1>5 DEF Active
  <2>4. \A j \in Keys : Active(j) => Stored(j)
    BY DEF Active, Stored
  <2>. QED
    BY <2>1, <2>2, <2>3, <2>4, <1>5 DEF ActiveAddressesDistinct
<1>9. InactiveHoldNothing'
  BY <1>5 DEF InactiveHoldNothing, Active
<1>10. AuditTrailTruthful'
  <2>1. ~Logged(k, "created") /\ ~Logged(k, "revoked")
    BY DEF InsertFresh
  <2>2. \A j \in Keys : j # k => (Stored(j)' <=> Stored(j)) /\ (Active(j)' <=> Active(j))
    BY <1>5 DEF Active, Stored
  <2>. QED
    BY <2>1, <2>2, <1>3, <1>5 DEF AuditTrailTruthful, Logged
<1>11. OwnersExist'
  BY <1>1, <1>3, <1>5 DEF OwnersExist
<1>12. IdsAssigned'
  <2>1. \A j \in Keys : j # k => (Stored(j)' <=> Stored(j)) /\ peers'[j].id = peers[j].id
    BY <1>5 DEF Stored
  <2>2. \A j \in Keys : Stored(j) => peers[j].id \in 1 .. (nextId - 1) /\ peers[j].id # nextId
    BY <1>6 DEF IdsAssigned
  <2>3. nextId \in 1 .. (nextId' - 1) /\ 1 .. (nextId - 1) \subseteq 1 .. (nextId' - 1)
    BY <1>3, <1>6
  <2>4. peers'[k].id = nextId
    BY <1>5
  <2>. QED
    BY <2>1, <2>2, <2>3, <2>4 DEF IdsAssigned
<1>13. AbsentIsNoRow'
  BY <1>5 DEF AbsentIsNoRow, Stored
<1>. QED
  BY <1>7, <1>8, <1>9, <1>10, <1>11, <1>12, <1>13

\* The rollback of a creation: the key has logged nothing, its row is gone.
LEMMA DeletePreserves ==
    ASSUME StoreInv, NEW k \in Keys, DeleteUnlogged(k)
    PROVE  StoreInv'
<1>. USE DEF StoreInv
<1>1. peers' = [peers EXCEPT ![k] = NoRow] /\ ~Logged(k, "created")
  BY DEF DeleteUnlogged, DeletePeerByPublicKey
<1>2. users' = users /\ nextId' = nextId /\ events' = events
  BY DEF DeleteUnlogged, DeletePeerByPublicKey
<1>3. peers \in [Keys -> Row]
  BY DEF StoreTypeOK
<1>4. peers'[k] = NoRow /\ \A j \in Keys : j # k => peers'[j] = peers[j]
  BY <1>1, <1>3
<1>5. StoreTypeOK'
  BY NoRowType, <1>1, <1>2, <1>3 DEF StoreTypeOK
<1>6. ~Stored(k)' /\ ~Active(k)' /\ peers'[k].ip = Released /\ peers'[k].owner = NoUser
      /\ ~peers'[k].config
  BY <1>4 DEF Stored, Active, NoRow
<1>7. \A j \in Keys : j # k => (Stored(j)' <=> Stored(j)) /\ (Active(j)' <=> Active(j))
  BY <1>4 DEF Stored, Active
<1>8. ActiveAddressesDistinct'
  BY <1>4, <1>6, <1>7 DEF ActiveAddressesDistinct
<1>9. InactiveHoldNothing' /\ OwnersExist' /\ IdsAssigned' /\ AbsentIsNoRow'
  BY <1>2, <1>4, <1>6, <1>7 DEF InactiveHoldNothing, OwnersExist, IdsAssigned, AbsentIsNoRow
<1>10. AuditTrailTruthful'
  BY <1>1, <1>2, <1>6, <1>7 DEF AuditTrailTruthful, Logged
<1>. QED
  BY <1>5, <1>8, <1>9, <1>10

\* The UPDATE of a revocation: the row, if it is still there, gives its address up.
LEMMA RevokePreserves ==
    ASSUME StoreInv, NEW i \in 1 .. MaxRows, MarkRevoked(i)
    PROVE  StoreInv'
<1>. USE DEF StoreInv
<1>. DEFINE Hit(k) == Stored(k) /\ peers[k].id = i
<1>1. /\ peers' = [k \in Keys |->
            IF Hit(k)
            THEN [peers[k] EXCEPT !.status = "revoked", !.ip = Released, !.config = FALSE]
            ELSE peers[k]]
      /\ users' = users /\ nextId' = nextId /\ events' = events
  BY DEF MarkRevoked
<1>. HIDE DEF Hit
<1>2. peers \in [Keys -> Row]
  BY DEF StoreTypeOK
<1>3. ASSUME NEW k \in Keys
      PROVE  /\ peers'[k] \in Row
             /\ Stored(k)' <=> Stored(k)
             /\ Active(k)' <=> (Active(k) /\ ~Hit(k))
             /\ peers'[k].id = peers[k].id /\ peers'[k].owner = peers[k].owner
             /\ ~Hit(k) => peers'[k] = peers[k]
             /\ Hit(k) => peers'[k].ip = Released /\ ~peers'[k].config
  <2>1. CASE Hit(k)
    <3>1. peers'[k] = [peers[k] EXCEPT !.status = "revoked", !.ip = Released,
                                       !.config = FALSE]
      BY <1>1, <2>1
    <3>. QED
      BY <3>1, <1>2, <2>1 DEF Row, Stored, Active, Hit
  <2>2. CASE ~Hit(k)
    BY <1>1, <1>2, <2>2 DEF Stored, Active
  <2>. QED
    BY <2>1, <2>2
<1>4. StoreTypeOK'
  <2>1. peers' \in [Keys -> Row]
    <3>1. DOMAIN peers' = Keys /\ peers' = [k \in Keys |-> peers'[k]]
      BY <1>1
    <3>. QED
      BY <3>1, <1>3
  <2>. QED
    BY <2>1, <1>1 DEF StoreTypeOK
<1>5. ActiveAddressesDistinct'
  BY <1>3 DEF ActiveAddressesDistinct
<1>6. InactiveHoldNothing'
  BY <1>3 DEF InactiveHoldNothing
<1>7. AuditTrailTruthful'
  BY <1>1, <1>3 DEF AuditTrailTruthful, Logged
<1>8. OwnersExist' /\ IdsAssigned' /\ AbsentIsNoRow'
  <2>1. OwnersExist'
    BY <1>1, <1>3 DEF OwnersExist
  <2>2. IdsAssigned'
    BY <1>1, <1>3 DEF IdsAssigned
  <2>3. AbsentIsNoRow'
    BY <1>3 DEF AbsentIsNoRow, Hit
  <2>. QED
    BY <2>1, <2>2, <2>3
<1>. QED
  BY <1>4, <1>5, <1>6, <1>7, <1>8

\* The claim transaction: one row gains an owner and keeps everything else.
LEMMA ClaimPreserves ==
    ASSUME StoreInv, NEW i \in 1 .. MaxRows, NEW u \in Users, ClaimAccount(i, u)
    PROVE  StoreInv'
<1>. USE DEF StoreInv
<1>1. users' = users \cup {u} /\ nextId' = nextId /\ events' = events
  BY DEF ClaimAccount
<1>2. PICK k \in Keys : Stored(k) /\ peers' = [peers EXCEPT ![k].owner = u]
  BY DEF ClaimAccount, ClaimPeer
<1>3. peers \in [Keys -> Row]
  BY DEF StoreTypeOK
<1>4. ASSUME NEW j \in Keys
      PROVE  /\ peers'[j] \in Row
             /\ Stored(j)' <=> Stored(j)
             /\ Active(j)' <=> Active(j)
             /\ peers'[j].id = peers[j].id /\ peers'[j].ip = peers[j].ip
             /\ peers'[j].role = peers[j].role /\ peers'[j].config = peers[j].config
             /\ peers'[j].owner = IF j = k THEN u ELSE peers[j].owner
  BY <1>2, <1>3 DEF Row, Stored, Active
<1>5. StoreTypeOK'
  <2>1. peers' \in [Keys -> Row]
    BY <1>2, <1>3, <1>4
  <2>. QED
    BY <2>1, <1>1 DEF StoreTypeOK
<1>6. ActiveAddressesDistinct' /\ InactiveHoldNothing'
  BY <1>4 DEF ActiveAddressesDistinct, InactiveHoldNothing
<1>7. AuditTrailTruthful'
  BY <1>1, <1>4 DEF AuditTrailTruthful, Logged
<1>8. OwnersExist' /\ IdsAssigned'
  BY <1>1, <1>4 DEF OwnersExist, IdsAssigned
<1>9. AbsentIsNoRow'
  BY <1>2, <1>3 DEF AbsentIsNoRow, Stored, Row
<1>. QED
  BY <1>5, <1>6, <1>7, <1>8, <1>9

\* Users and events: the rows stay, and an event is logged for a key that fits it.
LEMMA OthersPreserve ==
    ASSUME StoreInv,
           \/ \E u \in Users : InsertUser(u)
           \/ \E k \in Keys : LogCreation(k) \/ LogRevocation(k)
           \/ UNCHANGED storeVars
    PROVE  StoreInv'
<1>. USE DEF StoreInv
<1>1. peers' = peers /\ nextId' = nextId /\ users \subseteq users'
  BY DEF InsertUser, LogCreation, LogRevocation, AddPeerEvent, storeVars
<1>2. \A k \in Keys : (Stored(k)' <=> Stored(k)) /\ (Active(k)' <=> Active(k))
  BY <1>1 DEF Stored, Active
<1>3. /\ ActiveAddressesDistinct' /\ InactiveHoldNothing' /\ OwnersExist'
      /\ IdsAssigned' /\ AbsentIsNoRow'
  BY <1>1, <1>2 DEF ActiveAddressesDistinct, InactiveHoldNothing, OwnersExist, IdsAssigned,
     AbsentIsNoRow
<1>4. CASE \E u \in Users : InsertUser(u)
  <2>1. events' = events /\ users' \in SUBSET Users
    BY <1>4 DEF InsertUser, StoreTypeOK
  <2>. QED
    BY <2>1, <1>1, <1>2, <1>3 DEF StoreTypeOK, AuditTrailTruthful, Logged
<1>5. ASSUME NEW k \in Keys, LogCreation(k) PROVE StoreInv'
  <2>1. events' = events \cup {<<k, "created">>} /\ users' = users /\ Stored(k)
    BY <1>5 DEF LogCreation, AddPeerEvent
  <2>. QED
    BY <2>1, <1>1, <1>2, <1>3 DEF StoreTypeOK, AuditTrailTruthful, Logged
<1>6. ASSUME NEW k \in Keys, LogRevocation(k) PROVE StoreInv'
  <2>1. events' = events \cup {<<k, "revoked">>} /\ users' = users /\ ~Active(k)
    BY <1>6 DEF LogRevocation, AddPeerEvent
  <2>. QED
    BY <2>1, <1>1, <1>2, <1>3 DEF StoreTypeOK, AuditTrailTruthful, Logged
<1>7. CASE UNCHANGED storeVars
  <2>1. events' = events /\ users' = users
    BY <1>7 DEF storeVars
  <2>. QED
    BY <2>1, <1>1, <1>2, <1>3 DEF StoreTypeOK, AuditTrailTruthful, Logged
<1>. QED
  BY <1>4, <1>5, <1>6, <1>7

-----------------------------------------------------------------------------
\* Every step of the store keeps the invariant.
LEMMA StoreInvStep == StoreInv /\ [StoreNext]_storeVars => StoreInv'
<1>. SUFFICES ASSUME StoreInv, [StoreNext]_storeVars PROVE StoreInv'
  OBVIOUS
<1>1. ASSUME NEW k \in Keys, NEW r \in Roles, NEW u \in Users \cup {NoUser},
             InsertFresh(k, r, u)
      PROVE  StoreInv'
  BY <1>1, InsertPreserves
<1>2. ASSUME NEW k \in Keys, DeleteUnlogged(k) PROVE StoreInv'
  BY <1>2, DeletePreserves
<1>3. ASSUME NEW i \in 1 .. MaxRows, MarkRevoked(i) PROVE StoreInv'
  BY <1>3, RevokePreserves
<1>4. ASSUME NEW i \in 1 .. MaxRows, NEW u \in Users, ClaimAccount(i, u) PROVE StoreInv'
  BY <1>4, ClaimPreserves
<1>5. ASSUME \/ \E u \in Users : InsertUser(u)
             \/ \E k \in Keys : LogCreation(k) \/ LogRevocation(k)
             \/ UNCHANGED storeVars
      PROVE  StoreInv'
  BY <1>5, OthersPreserve
<1>. QED
  BY <1>1, <1>2, <1>3, <1>4, <1>5 DEF StoreNext

\* The invariant the results below are read from.
THEOREM StoreInvariance == StoreSpec => []StoreInv
<1>1. StoreInit => StoreInv
  BY StoreInvInit
<1>2. StoreInv /\ [StoreNext]_storeVars => StoreInv'
  BY StoreInvStep
<1>. QED
  BY <1>1, <1>2, PTL DEF StoreSpec

\* The tables keep their types: statuses, ids within the counter, known users.
THEOREM StoreTypeCorrect == StoreSpec => []StoreTypeOK
<1>1. StoreInv => StoreTypeOK
  BY DEF StoreInv
<1>. QED
  BY <1>1, StoreInvariance, PTL

\* Active peers have distinct addresses, each in the zone of its role.
THEOREM AddressesDistinct == StoreSpec => []ActiveAddressesDistinct
<1>1. StoreInv => ActiveAddressesDistinct
  BY DEF StoreInv
<1>. QED
  BY <1>1, StoreInvariance, PTL

\* firstFreeIP never offers an address that UNIQUE(ip_address) would refuse.
THEOREM NoCollisions == StoreSpec => []AllocationNeverCollides
<1>1. StoreInv => AllocationNeverCollides
  BY FreeIsUntaken DEF AllocationNeverCollides
<1>. QED
  BY <1>1, StoreInvariance, PTL

\* Logged creations have a row, logged revocations are not active.
THEOREM AuditTrailHolds == StoreSpec => []AuditTrailTruthful
<1>1. StoreInv => AuditTrailTruthful
  BY DEF StoreInv
<1>. QED
  BY <1>1, StoreInvariance, PTL

\* An owner is replaced by no step: only the row as a whole can go.
THEOREM OwnersKept == StoreSpec => OwnerSetOnce
<1>. DEFINE Kept == \A k \in Keys : peers[k].owner # NoUser =>
                      (peers'[k].owner = peers[k].owner \/ peers'[k] = NoRow)
<1>1. StoreInv /\ [StoreNext]_storeVars => [Kept]_storeVars
  <2>. SUFFICES ASSUME StoreInv, StoreNext, NEW k \in Keys, peers[k].owner # NoUser
                PROVE  peers'[k].owner = peers[k].owner \/ peers'[k] = NoRow
    BY DEF storeVars
  <2>. USE DEF StoreInv
  <2>1. peers \in [Keys -> Row]
    BY DEF StoreTypeOK
  <2>2. ASSUME NEW j \in Keys, NEW r \in Roles, NEW u \in Users \cup {NoUser},
               InsertFresh(j, r, u)
        PROVE  peers'[k].owner = peers[k].owner \/ peers'[k] = NoRow
    <3>1. CASE j = k
      <4>1. ~Stored(k)
        BY <2>2, <3>1 DEF InsertFresh, AllocateAndInsertPeer, Stored
      <4>2. peers[k] = NoRow
        BY <4>1 DEF AbsentIsNoRow, Stored
      <4>. QED
        BY <4>2 DEF NoRow
    <3>2. CASE j # k
      BY <2>1, <2>2, <3>2 DEF InsertFresh, AllocateAndInsertPeer
    <3>. QED
      BY <3>1, <3>2
  <2>3. ASSUME NEW j \in Keys, DeleteUnlogged(j)
        PROVE  peers'[k].owner = peers[k].owner \/ peers'[k] = NoRow
    BY <2>1, <2>3 DEF DeleteUnlogged, DeletePeerByPublicKey
  <2>4. ASSUME NEW i \in 1 .. MaxRows, MarkRevoked(i)
        PROVE  peers'[k].owner = peers[k].owner
    BY <2>1, <2>4 DEF MarkRevoked, Row
  <2>5. ASSUME NEW i \in 1 .. MaxRows, NEW u \in Users, ClaimAccount(i, u)
        PROVE  peers'[k].owner = peers[k].owner
    <3>1. PICK j \in Keys : peers[j].owner = NoUser
                           /\ peers' = [peers EXCEPT ![j].owner = u]
      BY <2>5 DEF ClaimAccount, ClaimPeer
    <3>. QED
      BY <2>1, <3>1
  <2>6. ASSUME \/ \E u \in Users : InsertUser(u)
               \/ \E j \in Keys : LogCreation(j) \/ LogRevocation(j)
        PROVE  peers' = peers
    BY <2>6 DEF InsertUser, LogCreation, LogRevocation, AddPeerEvent
  <2>. QED
    BY <2>2, <2>3, <2>4, <2>5, <2>6 DEF StoreNext
<1>. QED
  BY <1>1, StoreInvariance, PTL DEF StoreSpec, OwnerSetOnce

\* A revoked row is never active again and keeps neither address nor config.
THEOREM RevocationsFinal == StoreSpec => RevocationIsFinal
<1>. DEFINE Final == \A k \in Keys : Revoked(k) =>
                       /\ peers'[k].status # "active"
                       /\ peers'[k].ip = Released /\ ~peers'[k].config
<1>1. StoreInv /\ StoreInv' /\ [StoreNext]_storeVars => [Final]_storeVars
  <2>. SUFFICES ASSUME StoreInv, StoreInv', StoreNext, NEW k \in Keys, Revoked(k)
                PROVE  ~Active(k)'
    BY DEF StoreInv, InactiveHoldNothing, Active
  <2>. USE DEF StoreInv
  <2>1. peers \in [Keys -> Row] /\ Stored(k) /\ ~Active(k)
    BY DEF StoreTypeOK, Revoked, Stored, Active
  <2>2. ASSUME NEW j \in Keys, NEW r \in Roles, NEW u \in Users \cup {NoUser},
               InsertFresh(j, r, u)
        PROVE  ~Active(k)'
    <3>1. j # k
      BY <2>1, <2>2 DEF InsertFresh, AllocateAndInsertPeer
    <3>. QED
      BY <2>1, <2>2, <3>1 DEF InsertFresh, AllocateAndInsertPeer, Active
  <2>3. ASSUME NEW j \in Keys, DeleteUnlogged(j) PROVE ~Active(k)'
    BY <2>1, <2>3 DEF DeleteUnlogged, DeletePeerByPublicKey, Active, NoRow
  <2>4. ASSUME NEW i \in 1 .. MaxRows, MarkRevoked(i) PROVE ~Active(k)'
    BY <2>1, <2>4 DEF MarkRevoked, Row, Active
  <2>5. ASSUME NEW i \in 1 .. MaxRows, NEW u \in Users, ClaimAccount(i, u)
        PROVE  ~Active(k)'
    BY <2>1, <2>5 DEF ClaimAccount, ClaimPeer, Active, Row
  <2>6. ASSUME \/ \E u \in Users : InsertUser(u)
               \/ \E j \in Keys : LogCreation(j) \/ LogRevocation(j)
        PROVE  peers' = peers
    BY <2>6 DEF InsertUser, LogCreation, LogRevocation, AddPeerEvent
  <2>. QED
    BY <2>1, <2>2, <2>3, <2>4, <2>5, <2>6 DEF StoreNext, Active
<1>. QED
  BY <1>1, StoreInvariance, PTL DEF StoreSpec, RevocationIsFinal
=============================================================================
