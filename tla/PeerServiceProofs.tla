-------------------------- MODULE PeerServiceProofs --------------------------
(***************************************************************************)
(* Requests in any number and any interleaving, with failures, crashes and *)
(* reloads at any step, keep to what PeerStore allows its callers, so that *)
(* every result of PeerStoreProofs holds of the running service.           *)
(*                                                                         *)
(* The invariant ties the local variables of a request, read in an earlier *)
(* step, to the tables as they are now: a creation's key has a row that    *)
(* nobody else can delete, and the id a revocation found still belongs to  *)
(* its key, or to no row.                                                  *)
(***************************************************************************)
EXTENDS PeerService, PeerStoreProofs

Creating(p) == req[p].pc \in {"apply", "rollback", "logcreate"}

RequestOK(p) ==
    /\ Creating(p) => req[p].key \in used /\ Stored(req[p].key)
    /\ req[p].pc \in {"apply", "rollback"} => ~Logged(req[p].key, "created")
    /\ req[p].pc = "find" => req[p].key \in Keys
    /\ req[p].pc = "mark" =>
          /\ req[p].key \in used /\ req[p].id \in 1 .. MaxRows
          /\ Stored(req[p].key) => peers[req[p].key].id = req[p].id
    /\ req[p].pc = "logrevoke" => req[p].key \in used /\ ~Active(req[p].key)
    /\ req[p].pc = "claim" => req[p].id \in 1 .. MaxRows /\ req[p].user \in Users

CreatorsDistinct ==
    \A p, q \in Procs : Creating(p) /\ Creating(q) /\ req[p].key = req[q].key => p = q

\* a key pair that has not been generated is nowhere in the tables
UnusedUntouched ==
    \A k \in Keys \ used :
        ~Stored(k) /\ ~Logged(k, "created") /\ ~Logged(k, "revoked")

ServiceInv ==
    /\ StoreInv
    /\ req \in [Procs -> Request]
    /\ used \in SUBSET Keys
    /\ \A p \in Procs : RequestOK(p)
    /\ CreatorsDistinct
    /\ UnusedUntouched

-----------------------------------------------------------------------------
\* Before any request, nothing is under way and no key is used.
LEMMA ServiceInvInit == Init => ServiceInv
<1>. SUFFICES ASSUME Init PROVE ServiceInv
  OBVIOUS
<1>1. StoreInit /\ req = [p \in Procs |-> IdleReq] /\ used = {}
  BY DEF Init
<1>2. StoreInv
  BY <1>1, StoreInvInit
<1>3. IdleReq \in Request /\ IdleReq.pc = "idle"
  BY StoreAssumption, ServiceAssumption DEF IdleReq, Request, Released
<1>4. \A p \in Procs : req[p].pc = "idle"
  BY <1>1, <1>3
<1>5. UnusedUntouched
  BY <1>1 DEF UnusedUntouched, StoreInit, Stored, Logged, NoRow
<1>. QED
  BY <1>1, <1>2, <1>3, <1>4, <1>5 DEF ServiceInv, RequestOK, Creating, CreatorsDistinct

\* Each step of the service is a step PeerStore allows its callers, or leaves the
\* tables alone.
LEMMA ServiceMapsToStore == ServiceInv /\ [Next]_vars => [StoreNext]_storeVars
<1>. SUFFICES ASSUME ServiceInv, Next PROVE StoreNext \/ UNCHANGED storeVars
  BY DEF vars
<1>. USE DEF ServiceInv
<1>1. ASSUME NEW p \in Procs, CreatePeer(p) PROVE StoreNext
  <2>1. PICK k \in Keys \ used, r \in Roles, u \in Users \cup {NoUser} :
            AllocateAndInsertPeer(k, r, u)
    BY <1>1 DEF CreatePeer
  <2>2. InsertFresh(k, r, u)
    BY <2>1 DEF InsertFresh, UnusedUntouched
  <2>. QED
    BY <2>2 DEF StoreNext
<1>2. ASSUME NEW p \in Procs, RollBack(p) PROVE StoreNext
  <2>1. req[p].key \in Keys /\ ~Logged(req[p].key, "created")
    BY <1>2 DEF RollBack, At, RequestOK, Creating
  <2>2. DeleteUnlogged(req[p].key)
    BY <1>2, <2>1 DEF RollBack, DeleteUnlogged
  <2>. QED
    BY <2>1, <2>2 DEF StoreNext
<1>3. ASSUME NEW p \in Procs, LogCreated(p) PROVE StoreNext
  <2>1. req[p].key \in Keys /\ Stored(req[p].key)
    BY <1>3 DEF LogCreated, At, RequestOK, Creating
  <2>2. LogCreation(req[p].key)
    BY <1>3, <2>1 DEF LogCreated, LogCreation
  <2>. QED
    BY <2>1, <2>2 DEF StoreNext
<1>4. ASSUME NEW p \in Procs, MarkRow(p) PROVE StoreNext
  BY <1>4 DEF MarkRow, At, RequestOK, StoreNext
<1>5. ASSUME NEW p \in Procs, LogRevoked(p) PROVE StoreNext
  <2>1. req[p].key \in Keys /\ ~Active(req[p].key)
    BY <1>5 DEF LogRevoked, At, RequestOK
  <2>2. LogRevocation(req[p].key)
    BY <1>5, <2>1 DEF LogRevoked, LogRevocation
  <2>. QED
    BY <2>1, <2>2 DEF StoreNext
<1>6. ASSUME NEW p \in Procs, ClaimCommit(p) PROVE StoreNext
  BY <1>6 DEF ClaimCommit, At, RequestOK, StoreNext
<1>7. ASSUME NEW u \in Users, CreateUser(u) PROVE StoreNext
  BY <1>7 DEF CreateUser, StoreNext
<1>8. ASSUME NEW p \in Procs,
             \/ ApplyPeer(p) \/ ApplyFails(p) \/ FindRow(p) \/ RowFails(p) \/ LogFails(p)
             \/ ReadPeers(p) \/ ReadFails(p) \/ ReadPartly(p) \/ WriteTmp(p) \/ ReplaceConf(p)
             \/ SyncFails(p) \/ ClaimRefused(p)
      PROVE  UNCHANGED storeVars
  BY <1>8 DEF ApplyPeer, ApplyFails, FindRow, RowFails, LogFails, ReadPeers, ReadFails,
     ReadPartly, WriteTmp, ReplaceConf, SyncFails, ClaimRefused
<1>9. ASSUME NEW p \in Procs, NEW k \in Keys, RevokePeer(p, k) PROVE UNCHANGED storeVars
  BY <1>9 DEF RevokePeer
<1>10. ASSUME NEW p \in Procs, NEW u \in Users, ClaimStart(p, u) PROVE UNCHANGED storeVars
  BY <1>10 DEF ClaimStart
<1>11. ASSUME Crash \/ Reload PROVE UNCHANGED storeVars
  BY <1>11 DEF Crash, Reload
<1>. QED
  BY <1>1, <1>2, <1>3, <1>4, <1>5, <1>6, <1>7, <1>8, <1>9, <1>10, <1>11 DEF Next, Step

-----------------------------------------------------------------------------
\* A request that moves on while the tables and the keys stay as they are.
LEMMA LocalStep ==
    ASSUME ServiceInv, NEW p \in Procs, NEW v \in Request,
           req' = [req EXCEPT ![p] = v], UNCHANGED storeVars, used' = used,
           RequestOK(p)',
           Creating(p)' => Creating(p) /\ v.key = req[p].key
    PROVE  ServiceInv'
<1>. USE DEF ServiceInv
<1>1. StoreInv'
  BY StoreInvStep
<1>2. /\ req' \in [Procs -> Request]
      /\ req'[p] = v
      /\ \A q \in Procs : q # p => req'[q] = req[q]
  OBVIOUS
<1>3. /\ peers' = peers /\ events' = events /\ nextId' = nextId
      /\ \A k \in Keys : (Stored(k)' <=> Stored(k)) /\ (Active(k)' <=> Active(k))
  BY DEF storeVars, Stored, Active
<1>4. ASSUME NEW q \in Procs PROVE RequestOK(q)'
  <2>1. CASE q = p
    BY <2>1
  <2>2. CASE q # p
    BY <1>2, <1>3, <2>2 DEF RequestOK, Creating, Logged, Stored, Active
  <2>. QED
    BY <2>1, <2>2
<1>5. CreatorsDistinct'
  BY <1>2 DEF CreatorsDistinct, Creating
<1>6. UnusedUntouched'
  BY <1>3 DEF UnusedUntouched, Logged
<1>. QED
  BY <1>1, <1>2, <1>4, <1>5, <1>6

\* A reply ends a request whatever else the step did to the tables.
LEMMA IdleIsRequest ==
    IdleReq \in Request /\ IdleReq.pc = "idle" /\ IdleReq.key = NoKey
BY StoreAssumption, ServiceAssumption DEF IdleReq, Request, Released

\* CreatePeer: a key nobody used gets a row, and only this request creates it.
LEMMA CreateKeeps ==
    ASSUME ServiceInv, StoreInv', NEW p \in Procs, CreatePeer(p)
    PROVE  ServiceInv'
<1>. USE DEF ServiceInv
<1>1. PICK k \in Keys \ used, r \in Roles, u \in Users \cup {NoUser} :
          /\ AllocateAndInsertPeer(k, r, u)
          /\ used' = used \cup {k}
          /\ req' = [req EXCEPT ![p] =
                        [IdleReq EXCEPT !.pc = "apply", !.key = k, !.ip = peers'[k].ip]]
  BY DEF CreatePeer
<1>2. PICK o \in Octets :
          peers' = [peers EXCEPT ![k] =
                [id |-> nextId, role |-> r, ip |-> o, status |-> "active",
                 owner |-> u, config |-> TRUE]]
  BY <1>1 DEF AllocateAndInsertPeer
<1>3. peers \in [Keys -> Row] /\ events' = events
  BY <1>1 DEF StoreTypeOK, StoreInv, AllocateAndInsertPeer
<1>4. /\ Stored(k)' /\ peers'[k].ip = o
      /\ \A j \in Keys : j # k => peers'[j] = peers[j]
  BY <1>2, <1>3 DEF Stored
<1>5. /\ req'[p] = [IdleReq EXCEPT !.pc = "apply", !.key = k, !.ip = o]
      /\ \A q \in Procs : q # p => req'[q] = req[q]
  BY <1>1, <1>4
<1>6. req'[p] \in Request /\ req'[p].pc = "apply" /\ req'[p].key = k
  BY <1>5, IdleIsRequest DEF IdleReq, Request
<1>7. req' \in [Procs -> Request]
  BY <1>1, <1>5, <1>6
<1>8. ~Logged(k, "created")
  BY DEF UnusedUntouched
<1>9. ASSUME NEW q \in Procs PROVE RequestOK(q)'
  <2>1. CASE q = p
    BY <1>1, <1>3, <1>4, <1>6, <1>8, <2>1 DEF RequestOK, Creating, Logged
  <2>2. CASE q # p
    <3>1. req'[q] = req[q] /\ RequestOK(q)
      BY <1>5, <2>2
    <3>. QED
      BY <3>1, <1>1, <1>3, <1>4 DEF RequestOK, Creating, Logged, Stored, Active
  <2>. QED
    BY <2>1, <2>2
<1>10. CreatorsDistinct'
  <2>1. \A q \in Procs : q # p => (Creating(q)' <=> Creating(q)) /\ req'[q].key = req[q].key
    BY <1>5 DEF Creating
  <2>2. \A q \in Procs : Creating(q) => req[q].key # k
    BY DEF RequestOK
  <2>. QED
    BY <1>6, <2>1, <2>2 DEF CreatorsDistinct
<1>11. UnusedUntouched'
  BY <1>1, <1>3, <1>4 DEF UnusedUntouched, Logged, Stored
<1>. QED
  BY <1>1, <1>7, <1>9, <1>10, <1>11

\* RollBack: the row goes, and with it every id a revocation may have found.
LEMMA RollBackKeeps ==
    ASSUME ServiceInv, StoreInv', NEW p \in Procs, RollBack(p)
    PROVE  ServiceInv'
<1>. USE DEF ServiceInv
<1>1. PICK k \in used : k = req[p].key /\ Creating(p)
  BY DEF RollBack, At, RequestOK, Creating
<1>2. /\ peers' = [peers EXCEPT ![k] = NoRow] /\ events' = events
      /\ req' = [req EXCEPT ![p] = IdleReq] /\ used' = used
  BY <1>1 DEF RollBack, DeletePeerByPublicKey, Reply
<1>3. peers \in [Keys -> Row]
  BY DEF StoreTypeOK, StoreInv
<1>4. ~Stored(k)' /\ ~Active(k)' /\ \A j \in Keys : j # k => peers'[j] = peers[j]
  BY <1>1, <1>2, <1>3 DEF Stored, Active, NoRow
<1>5. /\ req' \in [Procs -> Request] /\ req'[p].pc = "idle"
      /\ \A q \in Procs : q # p => req'[q] = req[q]
  BY <1>2, IdleIsRequest
<1>6. ASSUME NEW q \in Procs PROVE RequestOK(q)'
  <2>1. CASE q = p
    BY <1>5, <2>1 DEF RequestOK, Creating
  <2>2. CASE q # p
    <3>1. req'[q] = req[q] /\ RequestOK(q) /\ (Creating(q) => req[q].key # k)
      BY <1>1, <1>5, <2>2 DEF CreatorsDistinct
    <3>. QED
      BY <3>1, <1>2, <1>4 DEF RequestOK, Creating, Logged, Stored, Active
  <2>. QED
    BY <2>1, <2>2
<1>7. CreatorsDistinct'
  BY <1>5 DEF CreatorsDistinct, Creating
<1>8. UnusedUntouched'
  BY <1>1, <1>2, <1>4 DEF UnusedUntouched, Logged, Stored
<1>. QED
  BY <1>2, <1>5, <1>6, <1>7, <1>8

\* Events: logged for a key in use, by the only request that creates it or after the
\* row was marked.
LEMMA LogKeeps ==
    ASSUME ServiceInv, StoreInv', NEW p \in Procs, LogCreated(p) \/ LogRevoked(p)
    PROVE  ServiceInv'
<1>. USE DEF ServiceInv
<1>1. PICK a \in {"created", "revoked"} :
          /\ events' = events \cup {<<req[p].key, a>>}
          /\ a = "created" => Creating(p)
  BY DEF LogCreated, LogRevoked, AddPeerEvent, At, Creating
<1>2. req[p].key \in used
  BY DEF LogCreated, LogRevoked, At, RequestOK, Creating
<1>3. req' = [req EXCEPT ![p].pc = "read"] /\ peers' = peers /\ used' = used
  BY DEF LogCreated, LogRevoked, Goto, AddPeerEvent
<1>4. /\ req' \in [Procs -> Request] /\ req'[p].pc = "read"
      /\ \A q \in Procs : q # p => req'[q] = req[q]
  BY <1>3 DEF Request
<1>5. \A j \in Keys : (Stored(j)' <=> Stored(j)) /\ (Active(j)' <=> Active(j))
  BY <1>3 DEF Stored, Active
<1>6. ASSUME NEW q \in Procs PROVE RequestOK(q)'
  <2>1. CASE q = p
    BY <1>4, <2>1 DEF RequestOK, Creating
  <2>2. CASE q # p
    <3>1. /\ req'[q] = req[q] /\ RequestOK(q)
          /\ Creating(q) /\ a = "created" => req[q].key # req[p].key
      BY <1>1, <1>4, <2>2 DEF CreatorsDistinct
    <3>. QED
      BY <3>1, <1>1, <1>3, <1>5 DEF RequestOK, Creating, Logged, Stored, Active
  <2>. QED
    BY <2>1, <2>2
<1>7. CreatorsDistinct'
  BY <1>4 DEF CreatorsDistinct, Creating
<1>8. UnusedUntouched'
  BY <1>1, <1>2, <1>3, <1>5 DEF UnusedUntouched, Logged
<1>. QED
  BY <1>3, <1>4, <1>6, <1>7, <1>8

\* MarkRow: the row of the key, if it is still there, is revoked by its id.
LEMMA MarkKeeps ==
    ASSUME ServiceInv, StoreInv', NEW p \in Procs, MarkRow(p)
    PROVE  ServiceInv'
<1>. USE DEF ServiceInv
<1>1. PICK k \in used : k = req[p].key /\ (Stored(k) => peers[k].id = req[p].id)
  BY DEF MarkRow, At, RequestOK
<1>2. req' = [req EXCEPT ![p].pc = "logrevoke"] /\ used' = used /\ events' = events
  BY DEF MarkRow, Goto, MarkRevoked
<1>3. /\ req' \in [Procs -> Request] /\ req'[p].pc = "logrevoke"
      /\ req'[p].key = req[p].key
      /\ \A q \in Procs : q # p => req'[q] = req[q]
  BY <1>2 DEF Request
<1>4. peers \in [Keys -> Row]
  BY DEF StoreTypeOK, StoreInv
<1>5. ASSUME NEW j \in Keys
      PROVE  /\ Stored(j)' <=> Stored(j)
             /\ Active(j)' => Active(j) /\ peers[j].id # req[p].id
             /\ peers'[j].id = peers[j].id
  BY <1>4 DEF MarkRow, MarkRevoked, Stored, Active, Row
<1>6. ~Active(k)'
  <2>1. Active(k) => Stored(k)
    BY DEF Active, Stored
  <2>. QED
    BY <1>1, <1>5, <2>1
<1>7. ASSUME NEW q \in Procs PROVE RequestOK(q)'
  <2>1. CASE q = p
    BY <1>1, <1>2, <1>3, <1>6, <2>1 DEF RequestOK, Creating, Active
  <2>2. CASE q # p
    <3>1. req'[q] = req[q] /\ RequestOK(q)
      BY <1>3, <2>2
    <3>. QED
      BY <3>1, <1>2, <1>5 DEF RequestOK, Creating, Logged, Stored, Active
  <2>. QED
    BY <2>1, <2>2
<1>8. CreatorsDistinct'
  BY <1>3 DEF CreatorsDistinct, Creating
<1>9. UnusedUntouched'
  BY <1>2, <1>5 DEF UnusedUntouched, Logged
<1>. QED
  BY <1>2, <1>3, <1>7, <1>8, <1>9

\* The claim transaction gives a row an owner; no request depends on owners.
LEMMA ClaimKeeps ==
    ASSUME ServiceInv, StoreInv', NEW p \in Procs, ClaimCommit(p)
    PROVE  ServiceInv'
<1>. USE DEF ServiceInv
<1>1. PICK k \in Keys : peers' = [peers EXCEPT ![k].owner = req[p].user]
  BY DEF ClaimCommit, ClaimAccount, ClaimPeer
<1>2. req' = [req EXCEPT ![p] = IdleReq] /\ used' = used /\ events' = events
  BY DEF ClaimCommit, Reply, ClaimAccount
<1>3. /\ req' \in [Procs -> Request] /\ req'[p].pc = "idle"
      /\ \A q \in Procs : q # p => req'[q] = req[q]
  BY <1>2, IdleIsRequest
<1>4. peers \in [Keys -> Row]
  BY DEF StoreTypeOK, StoreInv
<1>5. ASSUME NEW j \in Keys
      PROVE  /\ (Stored(j)' <=> Stored(j)) /\ (Active(j)' <=> Active(j))
             /\ peers'[j].id = peers[j].id
  BY <1>1, <1>4 DEF Stored, Active, Row
<1>6. ASSUME NEW q \in Procs PROVE RequestOK(q)'
  <2>1. CASE q = p
    BY <1>3, <2>1 DEF RequestOK, Creating
  <2>2. CASE q # p
    <3>1. req'[q] = req[q] /\ RequestOK(q)
      BY <1>3, <2>2
    <3>. QED
      BY <3>1, <1>2, <1>5 DEF RequestOK, Creating, Logged, Stored, Active
  <2>. QED
    BY <2>1, <2>2
<1>7. CreatorsDistinct'
  BY <1>3 DEF CreatorsDistinct, Creating
<1>8. UnusedUntouched'
  BY <1>2, <1>5 DEF UnusedUntouched, Logged
<1>. QED
  BY <1>2, <1>3, <1>6, <1>7, <1>8

-----------------------------------------------------------------------------
\* Steps that only move a request: nothing of the tables changes, and the request ends,
\* starts, or goes on with the same key.
LEMMA MovesKeep ==
    ASSUME ServiceInv, NEW p \in Procs,
           \/ ApplyPeer(p) \/ ApplyFails(p) \/ FindRow(p) \/ RowFails(p) \/ LogFails(p)
           \/ ReadPeers(p) \/ ReadFails(p) \/ ReadPartly(p) \/ WriteTmp(p) \/ ReplaceConf(p)
           \/ SyncFails(p) \/ ClaimRefused(p)
           \/ \E k \in Keys : RevokePeer(p, k)
           \/ \E u \in Users : ClaimStart(p, u)
    PROVE  ServiceInv'
<1>. USE DEF ServiceInv
<1>1. req[p] \in Request /\ req \in [Procs -> Request] /\ RequestOK(p)
  OBVIOUS
<1>2. ASSUME ApplyPeer(p) \/ ApplyFails(p) PROVE ServiceInv'
  <2>1. PICK c \in {"logcreate", "rollback"} : req' = [req EXCEPT ![p].pc = c]
    BY <1>2 DEF ApplyPeer, ApplyFails, Goto
  <2>2. /\ req[p].pc = "apply" /\ used' = used /\ UNCHANGED storeVars
    BY <1>2 DEF ApplyPeer, ApplyFails, At
  <2>. DEFINE v == [req[p] EXCEPT !.pc = c]
  <2>3. v \in Request /\ v.key = req[p].key /\ v.pc = c /\ req' = [req EXCEPT ![p] = v]
    BY <1>1, <2>1 DEF Request
  <2>. HIDE DEF v
  <2>4. req'[p] = v
    BY <1>1, <2>3
  <2>5. RequestOK(p)' /\ Creating(p)
    BY <1>1, <2>2, <2>3, <2>4 DEF RequestOK, Creating, storeVars, Stored, Logged
  <2>. QED
    BY <2>2, <2>3, <2>5, LocalStep
<1>3. ASSUME \/ RowFails(p) \/ ReadFails(p) \/ ReplaceConf(p) \/ SyncFails(p)
             \/ ClaimRefused(p) \/ (FindRow(p) /\ ~Stored(req[p].key))
      PROVE  ServiceInv'
  <2>1. req' = [req EXCEPT ![p] = IdleReq] /\ used' = used /\ UNCHANGED storeVars
    BY <1>3 DEF RowFails, ReadFails, ReplaceConf, SyncFails, ClaimRefused, FindRow, Reply
  <2>2. req'[p].pc = "idle"
    BY <1>1, <2>1, IdleIsRequest
  <2>3. RequestOK(p)' /\ ~Creating(p)'
    BY <2>2 DEF RequestOK, Creating
  <2>. QED
    BY <2>1, <2>3, IdleIsRequest, LocalStep
<1>4. ASSUME LogFails(p) \/ ReadPeers(p) \/ ReadPartly(p) PROVE ServiceInv'
  <2>1. PICK c \in {"read", "sync"} : req' = [req EXCEPT ![p].pc = c]
    BY <1>4 DEF LogFails, ReadPeers, ReadPartly, Goto
  <2>2. used' = used /\ UNCHANGED storeVars
    BY <1>4 DEF LogFails, ReadPeers, ReadPartly
  <2>. DEFINE v == [req[p] EXCEPT !.pc = c]
  <2>3. v \in Request /\ v.pc = c /\ req' = [req EXCEPT ![p] = v]
    BY <1>1, <2>1 DEF Request
  <2>. HIDE DEF v
  <2>4. req'[p].pc = c
    BY <1>1, <2>3
  <2>5. RequestOK(p)' /\ ~Creating(p)'
    BY <2>4 DEF RequestOK, Creating
  <2>. QED
    BY <2>2, <2>3, <2>5, LocalStep
<1>5. ASSUME WriteTmp(p) PROVE ServiceInv'
  <2>1. req' = [req EXCEPT ![p] = req[p]] /\ used' = used /\ UNCHANGED storeVars
    BY <1>1, <1>5 DEF WriteTmp
  <2>2. req' = req
    BY <1>5 DEF WriteTmp
  <2>3. RequestOK(p)' /\ (Creating(p)' => Creating(p))
    BY <1>1, <2>1, <2>2 DEF RequestOK, Creating, storeVars, Stored, Active, Logged
  <2>. QED
    BY <1>1, <2>1, <2>3, LocalStep
<1>6. ASSUME FindRow(p), Stored(req[p].key) PROVE ServiceInv'
  <2>1. /\ req' = [req EXCEPT ![p].pc = "mark", ![p].id = peers[req[p].key].id]
        /\ req[p].pc = "find" /\ used' = used /\ UNCHANGED storeVars
    BY <1>6 DEF FindRow, At
  <2>2. PICK k \in Keys : k = req[p].key /\ k \in used
    BY <1>1, <1>6, <2>1 DEF RequestOK, UnusedUntouched
  <2>3. peers[k].id \in 1 .. MaxRows
    <3>1. peers[k].id \in 1 .. (nextId - 1) /\ nextId \in 1 .. (MaxRows + 1)
      BY <1>6, <2>2 DEF StoreInv, IdsAssigned, StoreTypeOK
    <3>. QED
      BY <3>1, StoreAssumption
  <2>. DEFINE v == [req[p] EXCEPT !.pc = "mark", !.id = peers[k].id]
  <2>4. v \in Request /\ v.pc = "mark" /\ v.key = k /\ v.id = peers[k].id
    <3>. DEFINE w == [req[p] EXCEPT !.pc = "mark"]
    <3>1. w \in Request /\ w.pc = "mark" /\ w.key = k
      BY <1>1, <2>2 DEF Request
    <3>2. v = [w EXCEPT !.id = peers[k].id]
      OBVIOUS
    <3>3. peers[k].id \in 0 .. MaxRows
      BY <2>3, StoreAssumption
    <3>. HIDE DEF w, v
    <3>. QED
      BY <3>1, <3>2, <3>3 DEF Request
  <2>5. req' = [req EXCEPT ![p] = v]
    BY <1>1, <2>1, <2>2
  <2>. HIDE DEF v
  <2>6. req'[p] = v
    BY <1>1, <2>5
  <2>7. RequestOK(p)' /\ ~Creating(p)'
    BY <2>1, <2>2, <2>3, <2>4, <2>6 DEF RequestOK, Creating, storeVars
  <2>. QED
    BY <2>1, <2>4, <2>5, <2>7, LocalStep
<1>7. ASSUME NEW k \in Keys, RevokePeer(p, k) PROVE ServiceInv'
  <2>. DEFINE v == [IdleReq EXCEPT !.pc = "find", !.key = k]
  <2>1. req' = [req EXCEPT ![p] = v] /\ used' = used /\ UNCHANGED storeVars
    BY <1>7 DEF RevokePeer
  <2>2. v \in Request /\ v.pc = "find" /\ v.key = k
    BY IdleIsRequest DEF IdleReq, Request
  <2>. HIDE DEF v
  <2>3. req'[p] = v
    BY <1>1, <2>1
  <2>4. RequestOK(p)' /\ ~Creating(p)'
    BY <2>2, <2>3 DEF RequestOK, Creating
  <2>. QED
    BY <2>1, <2>2, <2>4, LocalStep
<1>8. ASSUME NEW u \in Users, ClaimStart(p, u) PROVE ServiceInv'
  <2>1. PICK k \in Keys, o \in Octets :
            /\ HoldsAddress(k, o)
            /\ req' = [req EXCEPT ![p] = [pc |-> "claim", key |-> k, ip |-> o,
                                         id |-> peers[k].id, user |-> u]]
    BY <1>8 DEF ClaimStart
  <2>2. used' = used /\ UNCHANGED storeVars
    BY <1>8 DEF ClaimStart
  <2>3. peers[k].id \in 1 .. MaxRows
    <3>1. peers[k].id \in 1 .. (nextId - 1) /\ nextId \in 1 .. (MaxRows + 1)
      BY <2>1 DEF HoldsAddress, Active, Stored, StoreInv, IdsAssigned, StoreTypeOK
    <3>. QED
      BY <3>1, StoreAssumption
  <2>. DEFINE v == [pc |-> "claim", key |-> k, ip |-> o, id |-> peers[k].id, user |-> u]
  <2>4. v \in Request /\ v.pc = "claim" /\ v.id = peers[k].id /\ v.user = u
    BY <2>3, StoreAssumption DEF Request
  <2>5. req' = [req EXCEPT ![p] = v]
    BY <2>1
  <2>. HIDE DEF v
  <2>6. req'[p] = v
    BY <1>1, <2>5
  <2>7. RequestOK(p)' /\ ~Creating(p)'
    BY <2>3, <2>4, <2>6 DEF RequestOK, Creating
  <2>. QED
    BY <2>2, <2>4, <2>5, <2>7, LocalStep
<1>. QED
  BY <1>2, <1>3, <1>4, <1>5, <1>6, <1>7, <1>8

\* A step that leaves rows, keys and events alone and every request as it is or idle.
LEMMA OutsideKeep ==
    ASSUME ServiceInv,
           \/ \E u \in Users : CreateUser(u)
           \/ Crash \/ Reload \/ UNCHANGED vars
    PROVE  ServiceInv'
<1>. USE DEF ServiceInv
<1>1. /\ peers' = peers /\ events' = events /\ used' = used
      /\ req' = req \/ req' = [p \in Procs |-> IdleReq]
  BY DEF CreateUser, InsertUser, Crash, Reload, vars, storeVars
<1>2. StoreInv'
  <2>1. (\E u \in Users : InsertUser(u)) \/ UNCHANGED storeVars
    BY DEF CreateUser, Crash, Reload, vars
  <2>. QED
    BY <2>1, OthersPreserve
<1>3. \A k \in Keys : (Stored(k)' <=> Stored(k)) /\ (Active(k)' <=> Active(k))
  BY <1>1 DEF Stored, Active
<1>4. req' \in [Procs -> Request]
  BY <1>1, IdleIsRequest
<1>5. \A p \in Procs : req'[p] = req[p] \/ req'[p].pc = "idle"
  BY <1>1, IdleIsRequest
<1>6. ASSUME NEW p \in Procs PROVE RequestOK(p)'
  <2>1. CASE req'[p] = req[p]
    BY <1>1, <2>1 DEF RequestOK, Creating, Stored, Active, Logged
  <2>2. CASE req'[p].pc = "idle"
    BY <2>2 DEF RequestOK, Creating
  <2>. QED
    BY <1>5, <2>1, <2>2
<1>7. CreatorsDistinct'
  BY <1>5 DEF CreatorsDistinct, Creating
<1>8. UnusedUntouched'
  BY <1>1, <1>3 DEF UnusedUntouched, Logged
<1>. QED
  BY <1>1, <1>2, <1>4, <1>6, <1>7, <1>8

\* Every step of the service keeps its invariant.
LEMMA ServiceInvStep == ServiceInv /\ [Next]_vars => ServiceInv'
<1>. SUFFICES ASSUME ServiceInv, [Next]_vars PROVE ServiceInv'
  OBVIOUS
<1>1. StoreInv'
  BY ServiceMapsToStore, StoreInvStep DEF ServiceInv
<1>2. ASSUME NEW p \in Procs, CreatePeer(p) PROVE ServiceInv'
  BY <1>1, <1>2, CreateKeeps
<1>3. ASSUME NEW p \in Procs, RollBack(p) PROVE ServiceInv'
  BY <1>1, <1>3, RollBackKeeps
<1>4. ASSUME NEW p \in Procs, LogCreated(p) \/ LogRevoked(p) PROVE ServiceInv'
  BY <1>1, <1>4, LogKeeps
<1>5. ASSUME NEW p \in Procs, MarkRow(p) PROVE ServiceInv'
  BY <1>1, <1>5, MarkKeeps
<1>6. ASSUME NEW p \in Procs, ClaimCommit(p) PROVE ServiceInv'
  BY <1>1, <1>6, ClaimKeeps
<1>7. ASSUME NEW p \in Procs,
             \/ ApplyPeer(p) \/ ApplyFails(p) \/ FindRow(p) \/ RowFails(p) \/ LogFails(p)
             \/ ReadPeers(p) \/ ReadFails(p) \/ ReadPartly(p) \/ WriteTmp(p) \/ ReplaceConf(p)
             \/ SyncFails(p) \/ ClaimRefused(p)
             \/ \E k \in Keys : RevokePeer(p, k)
             \/ \E u \in Users : ClaimStart(p, u)
      PROVE  ServiceInv'
  BY <1>7, MovesKeep
<1>8. ASSUME \/ \E u \in Users : CreateUser(u)
             \/ Crash \/ Reload \/ UNCHANGED vars
      PROVE  ServiceInv'
  BY <1>8, OutsideKeep
<1>. QED
  BY <1>2, <1>3, <1>4, <1>5, <1>6, <1>7, <1>8 DEF Next, Step

\* The invariant holds in every reachable state of the service.
THEOREM ServiceInvariance == Spec => []ServiceInv
<1>1. Init => ServiceInv
  BY ServiceInvInit
<1>2. ServiceInv /\ [Next]_vars => ServiceInv'
  BY ServiceInvStep
<1>. QED
  BY <1>1, <1>2, PTL DEF Spec

\* The service, with any number of requests and any failures, implements PeerStore.
THEOREM ServiceImplementsStore == Spec => StoreSpec
<1>1. Init => StoreInit
  BY DEF Init
<1>2. ServiceInv /\ [Next]_vars => [StoreNext]_storeVars
  BY ServiceMapsToStore
<1>. QED
  BY <1>1, <1>2, ServiceInvariance, PTL DEF Spec, StoreSpec

\* So, in every interleaving, active peers have distinct addresses in their zones.
THEOREM ServiceAddressesDistinct == Spec => []ActiveAddressesDistinct
BY ServiceImplementsStore, AddressesDistinct, PTL

\* So, in every interleaving, a revocation is final in the table.
THEOREM ServiceRevocationsFinal == Spec => RevocationIsFinal
BY ServiceImplementsStore, RevocationsFinal, PTL

\* So, in every interleaving, an owner is never replaced.
THEOREM ServiceOwnersKept == Spec => OwnerSetOnce
BY ServiceImplementsStore, OwnersKept, PTL

-----------------------------------------------------------------------------
OutsideTypeOK == Wg!WgTypeOK /\ Cf!ConfTypeOK /\ mishaps \in SUBSET Faults

\* What GetActivePeers returns is what a file may hold: every block has an address of
\* some zone.
LEMMA ActivePeersType == StoreInv => ActivePeers \in Cf!Blocks
<1>. SUFFICES ASSUME StoreInv, NEW k \in Keys
              PROVE  (IF Active(k) THEN peers[k].ip ELSE Released) \in Octets \cup {Released}
  BY DEF ActivePeers, Cf!Blocks
<1>. QED
  BY ZoneOctets DEF StoreInv, ActiveAddressesDistinct

\* The empty file and no blocks are of their types.
LEMMA FileTypes ==
    /\ Cf!NoBlocks \in Cf!Blocks
    /\ \A b \in Cf!Blocks : Cf!Whole(b) \in Cf!File /\ Cf!Torn(b) \in Cf!File
    /\ \A kind \in {"empty", "torn", "absent"} : Cf!NotWhole(kind) \in Cf!File
    /\ \A f \in Cf!File : f \in [kind : {"whole", "empty", "torn", "absent"},
                                  blocks : Cf!Blocks]
<1>1. Cf!NoBlocks \in Cf!Blocks
  BY DEF Cf!NoBlocks, Cf!Blocks
<1>. QED
  BY <1>1 DEF Cf!Whole, Cf!Torn, Cf!NotWhole, Cf!File

\* The system calls of SyncWgConfig keep the types of the files and of the callers.
LEMMA SyncTypes ==
    ASSUME Cf!ConfTypeOK, NEW p \in Procs,
           \/ \E b \in Cf!Blocks : Cf!SyncRead(p, b)
           \/ Cf!SyncOpen(p) \/ Cf!SyncWrite(p)
           \/ Cf!SyncRename(p) \/ Cf!SyncRenameNothing(p) \/ Cf!SyncFail(p)
           \/ Cf!SyncCrash
    PROVE  Cf!ConfTypeOK'
<1>. USE DEF Cf!ConfTypeOK
<1>1. CASE \E b \in Cf!Blocks : Cf!SyncRead(p, b)
  BY <1>1 DEF Cf!SyncRead
<1>2. CASE Cf!SyncOpen(p)
  BY <1>2, FileTypes DEF Cf!SyncOpen
<1>3. ASSUME NEW f \in Cf!File, Cf!PutText(p, f)
      PROVE  tmp' \in Cf!File /\ conf' \in Cf!File
             /\ at' \in [Procs -> {"closed", "tmp", "conf", "replaced"}]
  BY <1>3 DEF Cf!PutText
<1>4. CASE Cf!SyncWrite(p)
  <2>1. Cf!WrittenOver(Cf!OpenFile(p), snap[p]) \subseteq Cf!File
    BY FileTypes, SMTT(30) DEF Cf!WrittenOver, Cf!Spliced
  <2>. QED
    BY <1>3, <1>4, <2>1 DEF Cf!SyncWrite
<1>5. ASSUME Cf!EndSync(p)
      PROVE  /\ step' \in [Procs -> {"none", "open", "write", "rename"}]
             /\ snap' \in [Procs -> Cf!Blocks]
  BY <1>5, FileTypes DEF Cf!EndSync
<1>6. CASE Cf!SyncRename(p)
  <2>1. at' \in [Procs -> {"closed", "tmp", "conf", "replaced"}]
    BY <1>6 DEF Cf!SyncRename
  <2>. QED
    BY <1>5, <1>6, <2>1, FileTypes DEF Cf!SyncRename
<1>7. CASE Cf!SyncRenameNothing(p)
  BY <1>5, <1>7 DEF Cf!SyncRenameNothing
<1>8. CASE Cf!SyncFail(p)
  <2>1. Cf!WrittenPartly(Cf!OpenFile(p), snap[p]) \subseteq Cf!File
    BY FileTypes DEF Cf!WrittenPartly
  <2>. QED
    BY <1>3, <1>5, <1>8, <2>1 DEF Cf!SyncFail
<1>9. CASE Cf!SyncCrash
  BY <1>9, FileTypes DEF Cf!SyncCrash
<1>. QED
  BY <1>1, <1>2, <1>4, <1>6, <1>7, <1>8, <1>9

\* The types outside the tables are kept by every step.
LEMMA OutsideTypeStep ==
    ServiceInv /\ OutsideTypeOK /\ [Next]_vars => OutsideTypeOK'
<1>. SUFFICES ASSUME ServiceInv, OutsideTypeOK, [Next]_vars PROVE OutsideTypeOK'
  OBVIOUS
<1>. USE DEF OutsideTypeOK
<1>1. mishaps' \in SUBSET Faults
  BY DEF Next, Step, Mishap, vars, CreatePeer, ApplyPeer, ApplyFails, RollBack, LogCreated,
     RevokePeer, FindRow, MarkRow, LogRevoked, RowFails, LogFails, ReadPeers, ReadFails,
     ReadPartly, WriteTmp, ReplaceConf, SyncFails, ClaimStart, ClaimCommit, ClaimRefused, CreateUser,
     Crash, Reload
<1>2. Wg!WgTypeOK'
  <2>1. ASSUME NEW p \in Procs, ApplyPeer(p) PROVE Wg!WgTypeOK'
    <3>1. req[p].key \in Keys
      BY <2>1 DEF ApplyPeer, At, ServiceInv, RequestOK, Creating
    <3>. QED
      BY <2>1, <3>1 DEF ApplyPeer, Wg!ApplyPeerLive, Wg!WgTypeOK
  <2>2. ASSUME NEW p \in Procs, NEW k \in Keys, RevokePeer(p, k) PROVE Wg!WgTypeOK'
    BY <2>2 DEF RevokePeer, Wg!RemovePeerLive, Wg!WgTypeOK
  <2>3. CASE Reload
    BY <2>3 DEF Reload, Wg!LoadPeers, Wg!WgTypeOK
  <2>4. CASE UNCHANGED wgVars
    BY <2>4 DEF wgVars, Wg!WgTypeOK
  <2>. QED
    BY <2>1, <2>2, <2>3, <2>4 DEF Next, Step, vars, CreatePeer, ApplyFails, RollBack,
       LogCreated, FindRow, MarkRow, LogRevoked, RowFails, LogFails, ReadPeers, ReadFails,
       ReadPartly, WriteTmp, ReplaceConf, SyncFails, ClaimStart, ClaimCommit, ClaimRefused, CreateUser,
       Crash
<1>3. Cf!ConfTypeOK'
  <2>1. ASSUME NEW p \in Procs,
               \/ ReadPeers(p) \/ ReadPartly(p)
               \/ WriteTmp(p) \/ ReplaceConf(p) \/ SyncFails(p)
        PROVE  Cf!ConfTypeOK'
    <3>1. ActivePeers \in Cf!Blocks
      BY ActivePeersType DEF ServiceInv
    <3>2. \A ks \in SUBSET Keys :
             [k \in Keys |-> IF k \in ks THEN ActivePeers[k] ELSE Released] \in Cf!Blocks
      BY <3>1 DEF Cf!Blocks
    <3>3. ReadPeers(p) \/ ReadPartly(p) => \E b \in Cf!Blocks : Cf!SyncRead(p, b)
      BY <3>1, <3>2 DEF ReadPeers, ReadPartly
    <3>. QED
      BY <2>1, <3>3, SyncTypes DEF WriteTmp, ReplaceConf, SyncFails
  <2>2. CASE Crash
    BY <2>2, FileTypes DEF Crash, Cf!SyncCrash, Cf!ConfTypeOK
  <2>3. CASE UNCHANGED confVars
    BY <2>3 DEF confVars, Cf!ConfTypeOK
  <2>. QED
    BY <2>1, <2>2, <2>3 DEF Next, Step, vars, CreatePeer, ApplyPeer, ApplyFails, RollBack,
       LogCreated, RevokePeer, FindRow, MarkRow, LogRevoked, RowFails, LogFails, ReadFails,
       ClaimStart, ClaimCommit, ClaimRefused, CreateUser, Reload
<1>. QED
  BY <1>1, <1>2, <1>3

\* A fault that has happened stays in the history.
LEMMA MishapsGrow == [Next]_vars => mishaps \subseteq mishaps'
BY DEF Next, Step, Mishap, vars, CreatePeer, ApplyPeer, ApplyFails, RollBack, LogCreated,
   RevokePeer, FindRow, MarkRow, LogRevoked, RowFails, LogFails, ReadPeers, ReadFails,
   ReadPartly, WriteTmp, ReplaceConf, SyncFails, ClaimStart, ClaimCommit, ClaimRefused, CreateUser,
   Crash, Reload

\* Every variable of the service keeps its type.
THEOREM ServiceTypeCorrect == Spec => []ServiceTypeOK
<1>1. Init => OutsideTypeOK
  BY FileTypes DEF Init, OutsideTypeOK, Wg!WgInit, Wg!WgTypeOK, Cf!ConfInit, Cf!ConfTypeOK
<1>2. ServiceInv /\ OutsideTypeOK /\ [Next]_vars => OutsideTypeOK'
  BY OutsideTypeStep
<1>3. ServiceInv /\ OutsideTypeOK => ServiceTypeOK
  BY DEF ServiceInv, StoreInv, OutsideTypeOK, ServiceTypeOK
<1>. QED
  BY <1>1, <1>2, <1>3, ServiceInvariance, PTL DEF Spec
=============================================================================
