-------------------------- MODULE InterleavingProofs --------------------------
(***************************************************************************)
(* What holds of the interface and of wg0.conf with any number of requests *)
(* in any interleaving, beside the tables (PeerServiceProofs): a peer on   *)
(* the interface has a row, a complete wg0.conf can be loaded without      *)
(* moving anybody, and the shared .tmp name leaves no debris behind.       *)
(*                                                                         *)
(* Each of the three invariants says what a request under way holds that   *)
(* the shared state does not show: the key of a creation that is not on    *)
(* the interface yet, the peers it read, and the file it has open.         *)
(***************************************************************************)
EXTENDS PeerServiceProofs

\* What a request has read, and what a complete file was rendered from, gives no address
\* twice, and none to an active peer but its own.  A key that was used keeps this up: it
\* does not become active again, and does not get another address.
Sound(b) ==
    \A k \in Keys : b[k] # Released =>
        /\ k \in used
        /\ Active(k) => peers[k].ip = b[k]
        /\ \A j \in Keys : b[j] = b[k] => j = k

AddressesInv ==
    /\ \A p \in Procs : Sound(snap[p])
    /\ tmp.kind = "whole" => Sound(tmp.blocks)
    /\ conf.kind = "whole" => Sound(conf.blocks)

\* A key whose creation may still be rolled back is not on the interface.
RowsInv ==
    Spared({"reload"}) =>
        /\ LivePeersHaveRows
        /\ \A p \in Procs : req[p].pc \in {"apply", "rollback"} => req[p].key \notin live

\* A request is in SyncWgConfig between its reading of the peers and its answer.
InSync == \A p \in Procs : step[p] # "none" <=> req[p].pc = "sync"

\* Whoever is to blame for a .tmp file, or for an empty one under either name, is still
\* in SyncWgConfig.
Writing(p, name) == step[p] = "write" /\ at[p] = name

Blamed ==
    /\ tmp.kind # "absent" => \E p \in Procs : step[p] \in {"write", "rename"}
    /\ tmp.kind = "empty" => \E p \in Procs : Writing(p, "tmp")
    /\ conf.kind = "empty" => \E p \in Procs : Writing(p, "conf")

FilesInv == InSync /\ (Spared({"sync", "crash"}) => Blamed)

-----------------------------------------------------------------------------
\* Only SyncWgConfig and a crash touch the files, and no other step brings a request
\* into SyncWgConfig or out of it.
LEMMA OthersLeaveFiles ==
    ASSUME req \in [Procs -> Request], [Next]_vars, ~Crash,
           \A p \in Procs : ~ (ReadPeers(p) \/ ReadPartly(p) \/ WriteTmp(p) \/ ReplaceConf(p)
                               \/ SyncFails(p))
    PROVE  /\ UNCHANGED confVars
           /\ \A p \in Procs : req'[p].pc = "sync" <=> req[p].pc = "sync"
<1>. DEFINE Done == /\ UNCHANGED confVars
                    /\ \A p \in Procs : req'[p].pc = "sync" <=> req[p].pc = "sync"
<1>1. ASSUME NEW p \in Procs, UNCHANGED confVars, req[p].pc # "sync", NEW v \in Request,
             v.pc # "sync", req' = [req EXCEPT ![p] = v]
      PROVE  Done
  BY <1>1
<1>2. ASSUME NEW p \in Procs, UNCHANGED confVars, req[p].pc # "sync", NEW c,
             c \in {"logcreate", "rollback", "read", "logrevoke"},
             req' = [req EXCEPT ![p].pc = c]
      PROVE  Done
  <2>1. req'[p].pc = c /\ \A q \in Procs : q # p => req'[q] = req[q]
    BY <1>2 DEF Request
  <2>. QED
    BY <1>2, <2>1
<1>3. ASSUME NEW p \in Procs,
             ApplyPeer(p) \/ ApplyFails(p) \/ LogCreated(p) \/ MarkRow(p) \/ LogRevoked(p)
             \/ LogFails(p)
      PROVE  Done
  BY <1>2, <1>3 DEF ApplyPeer, ApplyFails, LogCreated, MarkRow, LogRevoked, LogFails, At, Goto
<1>4. ASSUME NEW p \in Procs,
             RollBack(p) \/ RowFails(p) \/ ReadFails(p) \/ ClaimCommit(p) \/ ClaimRefused(p)
      PROVE  Done
  BY <1>1, <1>4, IdleIsRequest DEF RollBack, RowFails, ReadFails, ClaimCommit, ClaimRefused,
     At, Reply
<1>5. ASSUME NEW p \in Procs, FindRow(p) PROVE Done
  <2>1. /\ UNCHANGED confVars /\ req[p].pc = "find" /\ req'[p].pc \in {"mark", "idle"}
        /\ \A q \in Procs : q # p => req'[q] = req[q]
    BY <1>5, IdleIsRequest DEF FindRow, At, Reply, Request
  <2>. QED
    BY <2>1
<1>6. ASSUME NEW p \in Procs, CreatePeer(p) \/ (\E k \in Keys : RevokePeer(p, k))
                              \/ (\E u \in Users : ClaimStart(p, u))
      PROVE  Done
  <2>1. UNCHANGED confVars /\ req[p].pc = "idle"
    BY <1>6 DEF CreatePeer, RevokePeer, ClaimStart, At
  <2>2. \A k, o : [IdleReq EXCEPT !.pc = "apply", !.key = k, !.ip = o].pc = "apply"
    BY DEF IdleReq
  <2>3. \A k : [IdleReq EXCEPT !.pc = "find", !.key = k].pc = "find"
    BY DEF IdleReq
  <2>4. PICK v : req' = [req EXCEPT ![p] = v] /\ v.pc \in {"apply", "find", "claim"}
    <3>1. CASE CreatePeer(p)
      <4>1. PICK k \in Keys : req' = [req EXCEPT ![p] =
                [IdleReq EXCEPT !.pc = "apply", !.key = k, !.ip = peers'[k].ip]]
        BY <3>1 DEF CreatePeer
      <4>. QED
        BY <2>2, <4>1
    <3>2. CASE \E k \in Keys : RevokePeer(p, k)
      BY <2>3, <3>2 DEF RevokePeer
    <3>3. CASE \E u \in Users : ClaimStart(p, u)
      <4>1. PICK u \in Users, k \in Keys, o \in Octets :
                req' = [req EXCEPT ![p] = [pc |-> "claim", key |-> k, ip |-> o,
                                           id |-> peers[k].id, user |-> u]]
        BY <3>3 DEF ClaimStart
      <4>2. [pc |-> "claim", key |-> k, ip |-> o, id |-> peers[k].id, user |-> u].pc = "claim"
        OBVIOUS
      <4>. QED
        BY <4>1, <4>2
    <3>. QED
      BY <1>6, <3>1, <3>2, <3>3
  <2>. QED
    BY <2>1, <2>4
<1>7. ASSUME (\E u \in Users : CreateUser(u)) \/ Reload \/ UNCHANGED vars PROVE Done
  BY <1>7 DEF CreateUser, Reload, vars, confVars
<1>. QED
  BY <1>3, <1>4, <1>5, <1>6, <1>7 DEF Next, Step

-----------------------------------------------------------------------------
\* A revocation removes no row, and leaves the rows that stay active as they are.
LEMMA MarkedRows ==
    ASSUME peers \in [Keys -> Row], NEW i, MarkRevoked(i), NEW k \in Keys
    PROVE  /\ Stored(k) => Stored(k)'
           /\ Active(k)' => Active(k) /\ peers'[k] = peers[k]
<1>1. CASE Stored(k) /\ peers[k].id = i
  <2>1. peers'[k] = [peers[k] EXCEPT !.status = "revoked", !.ip = Released, !.config = FALSE]
    BY <1>1 DEF MarkRevoked
  <2>. QED
    BY <2>1 DEF Row, Stored, Active
<1>2. CASE ~(Stored(k) /\ peers[k].id = i)
  <2>1. peers'[k] = peers[k]
    BY <1>2 DEF MarkRevoked
  <2>. QED
    BY <2>1 DEF Stored, Active
<1>. QED
  BY <1>1, <1>2

\* No step of the service gives a key that was used a row or an address it had not.
LEMMA AddressesStay ==
    ASSUME ServiceInv, [Next]_vars
    PROVE  /\ used \subseteq used'
           /\ \A k \in used : Active(k)' => Active(k) /\ peers'[k].ip = peers[k].ip
<1>. DEFINE Kept == /\ used \subseteq used'
                    /\ \A k \in used : Active(k)' => Active(k) /\ peers'[k].ip = peers[k].ip
<1>0. peers \in [Keys -> Row] /\ used \in SUBSET Keys
  BY DEF ServiceInv, StoreInv, StoreTypeOK
<1>1. ASSUME NEW p \in Procs, CreatePeer(p) PROVE Kept
  <2>1. PICK j \in Keys \ used, r \in Roles, u \in Users \cup {NoUser} :
            AllocateAndInsertPeer(j, r, u) /\ used' = used \cup {j}
    BY <1>1 DEF CreatePeer
  <2>2. \A k \in used : peers'[k] = peers[k]
    BY <1>0, <2>1 DEF AllocateAndInsertPeer
  <2>. QED
    BY <2>1, <2>2 DEF Active
<1>2. ASSUME NEW p \in Procs, RollBack(p) PROVE Kept
  <2>1. \A k \in Keys : peers'[k] = NoRow \/ peers'[k] = peers[k]
    BY <1>0, <1>2 DEF RollBack, DeletePeerByPublicKey
  <2>2. used' = used
    BY <1>2 DEF RollBack
  <2>. QED
    BY <1>0, <2>1, <2>2 DEF Active, NoRow
<1>3. ASSUME NEW p \in Procs, MarkRow(p) PROVE Kept
  <2>1. used' = used /\ MarkRevoked(req[p].id)
    BY <1>3 DEF MarkRow
  <2>. QED
    BY <1>0, <2>1, MarkedRows
<1>4. ASSUME NEW p \in Procs, ClaimCommit(p) PROVE Kept
  BY <1>0, <1>4 DEF ClaimCommit, ClaimAccount, ClaimPeer, Active, Row
<1>5. CASE peers' = peers /\ used' = used
  BY <1>5 DEF Active
<1>6. ASSUME NEW p \in Procs,
             \/ ApplyPeer(p) \/ ApplyFails(p) \/ LogCreated(p) \/ FindRow(p) \/ LogRevoked(p)
             \/ RowFails(p) \/ LogFails(p) \/ ReadPeers(p) \/ ReadFails(p) \/ ReadPartly(p)
             \/ WriteTmp(p) \/ ReplaceConf(p) \/ SyncFails(p) \/ ClaimRefused(p)
             \/ (\E k \in Keys : RevokePeer(p, k)) \/ (\E u \in Users : ClaimStart(p, u))
      PROVE  peers' = peers /\ used' = used
  BY <1>6 DEF ApplyPeer, ApplyFails, LogCreated, FindRow, LogRevoked, RowFails, LogFails,
     ReadPeers, ReadFails, ReadPartly, WriteTmp, ReplaceConf, SyncFails, ClaimRefused,
     RevokePeer, ClaimStart, AddPeerEvent, storeVars
<1>7. ASSUME (\E u \in Users : CreateUser(u)) \/ Crash \/ Reload \/ UNCHANGED vars
      PROVE  peers' = peers /\ used' = used
  BY <1>7 DEF CreateUser, InsertUser, Crash, Reload, vars, storeVars
<1>. QED
  BY <1>1, <1>2, <1>3, <1>4, <1>5, <1>6, <1>7 DEF Next, Step

\* What is complete after a write over another file is what was written.
LEMMA WrittenSound ==
    ASSUME NEW b, Sound(b), NEW f, NEW g \in Cf!WrittenOver(f, b), g.kind = "whole"
    PROVE  Sound(g.blocks)
<1>1. \A h : Cf!Torn(h).kind # "whole" /\ Cf!Whole(h).blocks = h
  BY DEF Cf!Torn, Cf!Whole
<1>2. g = Cf!Whole(b)
  BY <1>1 DEF Cf!WrittenOver
<1>. QED
  BY <1>1, <1>2

\* The system calls of SyncWgConfig and a crash keep what is read and what is complete
\* sound, as far as the table before the step tells.
LEMMA FilesStaySound ==
    ASSUME OutsideTypeOK, AddressesInv,
           \/ \E p \in Procs : \/ \E b : Sound(b) /\ Cf!SyncRead(p, b)
                             \/ Cf!SyncOpen(p) \/ Cf!SyncWrite(p)
                             \/ Cf!SyncRename(p) \/ Cf!SyncRenameNothing(p) \/ Cf!SyncFail(p)
           \/ Cf!SyncCrash \/ UNCHANGED confVars
    PROVE  /\ \A p \in Procs : Sound(snap'[p])
           /\ tmp'.kind = "whole" => Sound(tmp'.blocks)
           /\ conf'.kind = "whole" => Sound(conf'.blocks)
<1>. DEFINE Kept == /\ \A p \in Procs : Sound(snap'[p])
                    /\ tmp'.kind = "whole" => Sound(tmp'.blocks)
                    /\ conf'.kind = "whole" => Sound(conf'.blocks)
<1>. USE DEF AddressesInv
<1>0. /\ snap \in [Procs -> Cf!Blocks] /\ Sound(Cf!NoBlocks)
      /\ \A kind : Cf!NotWhole(kind).kind = kind
      /\ \A b : Cf!Torn(b).kind = "torn"
  BY DEF OutsideTypeOK, Cf!ConfTypeOK, Sound, Cf!NoBlocks, Cf!NotWhole, Cf!Torn
<1>1. ASSUME NEW p \in Procs, NEW b, Sound(b), Cf!SyncRead(p, b) PROVE Kept
  BY <1>0, <1>1 DEF Cf!SyncRead
<1>2. ASSUME NEW p \in Procs, Cf!SyncOpen(p) PROVE Kept
  BY <1>0, <1>2 DEF Cf!SyncOpen
<1>3. ASSUME NEW p \in Procs, NEW f, f.kind = "whole" => Sound(f.blocks), Cf!PutText(p, f)
      PROVE  /\ tmp'.kind = "whole" => Sound(tmp'.blocks)
             /\ conf'.kind = "whole" => Sound(conf'.blocks)
  BY <1>3 DEF Cf!PutText
<1>4. ASSUME NEW p \in Procs, Cf!SyncWrite(p) PROVE Kept
  <2>1. PICK f \in Cf!WrittenOver(Cf!OpenFile(p), snap[p]) : Cf!PutText(p, f)
    BY <1>4 DEF Cf!SyncWrite
  <2>2. f.kind = "whole" => Sound(f.blocks)
    BY WrittenSound
  <2>. QED
    BY <1>3, <1>4, <2>1, <2>2 DEF Cf!SyncWrite
<1>5. ASSUME NEW p \in Procs, Cf!EndSync(p) PROVE \A q \in Procs : Sound(snap'[q])
  BY <1>0, <1>5 DEF Cf!EndSync
<1>6. ASSUME NEW p \in Procs, Cf!SyncRename(p) \/ Cf!SyncRenameNothing(p) PROVE Kept
  BY <1>0, <1>5, <1>6 DEF Cf!SyncRename, Cf!SyncRenameNothing
<1>7. ASSUME NEW p \in Procs, Cf!SyncFail(p) PROVE Kept
  <2>1. CASE \E f \in Cf!WrittenPartly(Cf!OpenFile(p), snap[p]) : Cf!PutText(p, f)
    <3>1. PICK f \in Cf!WrittenPartly(Cf!OpenFile(p), snap[p]) : Cf!PutText(p, f)
      BY <2>1
    <3>2. f.kind # "whole"
      BY <1>0 DEF Cf!WrittenPartly
    <3>. QED
      BY <1>3, <1>5, <1>7, <3>1, <3>2 DEF Cf!SyncFail
  <2>2. CASE UNCHANGED <<tmp, conf, at>>
    BY <1>5, <1>7, <2>2 DEF Cf!SyncFail
  <2>. QED
    BY <1>7, <2>1, <2>2 DEF Cf!SyncFail
<1>8. CASE Cf!SyncCrash
  BY <1>0, <1>8 DEF Cf!SyncCrash
<1>9. CASE UNCHANGED confVars
  BY <1>9 DEF confVars
<1>. QED
  BY <1>1, <1>2, <1>4, <1>6, <1>7, <1>8, <1>9

\* Every step of the service keeps what is read and what is complete sound.
LEMMA AddressesStep ==
    ServiceInv /\ OutsideTypeOK /\ AddressesInv /\ [Next]_vars => AddressesInv'
<1>. SUFFICES ASSUME ServiceInv, OutsideTypeOK, AddressesInv, [Next]_vars
              PROVE  AddressesInv'
  OBVIOUS
<1>1. \A b : Sound(b) => Sound(b)'
  BY AddressesStay DEF Sound
<1>2. Sound(ActivePeers)
  BY DEF Sound, ServiceInv, StoreInv, ActiveAddressesDistinct, UnusedUntouched, ActivePeers,
     Active, Stored
<1>3. \A ks \in SUBSET Keys :
         Sound([k \in Keys |-> IF k \in ks THEN ActivePeers[k] ELSE Released])
  BY <1>2 DEF Sound
<1>4. ASSUME NEW p \in Procs,
             ReadPeers(p) \/ ReadPartly(p) \/ WriteTmp(p) \/ ReplaceConf(p) \/ SyncFails(p)
      PROVE  \/ \E b : Sound(b) /\ Cf!SyncRead(p, b)
             \/ Cf!SyncOpen(p) \/ Cf!SyncWrite(p)
             \/ Cf!SyncRename(p) \/ Cf!SyncRenameNothing(p) \/ Cf!SyncFail(p)
  BY <1>2, <1>3, <1>4 DEF ReadPeers, ReadPartly, WriteTmp, ReplaceConf, SyncFails
<1>5. Crash => Cf!SyncCrash
  BY DEF Crash
<1>6. /\ \A p \in Procs : Sound(snap'[p])
      /\ tmp'.kind = "whole" => Sound(tmp'.blocks)
      /\ conf'.kind = "whole" => Sound(conf'.blocks)
  BY <1>4, <1>5, FilesStaySound, OthersLeaveFiles DEF ServiceInv
<1>. QED
  BY <1>1, <1>6 DEF AddressesInv

\* However stale the reading a complete wg0.conf was rendered from, and whoever renamed
\* it, loading it gives no address to two peers and moves no active peer.
THEOREM WholeConfsMoveNobody == Spec => []WholeConfAddresses
<1>1. Init => OutsideTypeOK
  BY FileTypes DEF Init, OutsideTypeOK, Wg!WgInit, Wg!WgTypeOK, Cf!ConfInit, Cf!ConfTypeOK
<1>2. Init => AddressesInv
  BY DEF Init, Cf!ConfInit, AddressesInv, Sound, Cf!NoBlocks, Cf!NotWhole, Cf!Whole
<1>3. ServiceInv /\ OutsideTypeOK /\ [Next]_vars => OutsideTypeOK'
  BY OutsideTypeStep
<1>4. ServiceInv /\ OutsideTypeOK /\ AddressesInv /\ [Next]_vars => AddressesInv'
  BY AddressesStep
<1>5. AddressesInv => WholeConfAddresses
  BY DEF AddressesInv, Sound, WholeConfAddresses
<1>. QED
  BY <1>1, <1>2, <1>3, <1>4, <1>5, ServiceInvariance, PTL DEF Spec

-----------------------------------------------------------------------------
\* A step that puts no key on the interface, removes no row, and brings no creation to
\* where it may be rolled back keeps every live key's row.
LEMMA LiveRowsStay ==
    ASSUME LivePeersHaveRows,
           \A p \in Procs : req[p].pc \in {"apply", "rollback"} => req[p].key \notin live,
           live' \subseteq live,
           \A k \in live : Stored(k) => Stored(k)',
           \A p \in Procs :
              req'[p].pc \in {"apply", "rollback"} =>
                 req[p].pc \in {"apply", "rollback"} /\ req'[p].key = req[p].key
    PROVE  /\ LivePeersHaveRows'
           /\ \A p \in Procs : req'[p].pc \in {"apply", "rollback"} => req'[p].key \notin live'
BY DEF LivePeersHaveRows

\* Every step but a load of the interface keeps the rows of the live peers.
LEMMA LiveRowsStep ==
    ASSUME ServiceInv, OutsideTypeOK, Next, ~Reload, LivePeersHaveRows,
           \A p \in Procs : req[p].pc \in {"apply", "rollback"} => req[p].key \notin live
    PROVE  /\ LivePeersHaveRows'
           /\ \A p \in Procs : req'[p].pc \in {"apply", "rollback"} => req'[p].key \notin live'
<1>. DEFINE Kept ==
        /\ LivePeersHaveRows'
        /\ \A p \in Procs : req'[p].pc \in {"apply", "rollback"} => req'[p].key \notin live'
<1>0. /\ req \in [Procs -> Request] /\ live \in SUBSET Keys /\ peers \in [Keys -> Row]
      /\ used \in SUBSET Keys /\ \A p \in Procs : RequestOK(p)
  BY DEF ServiceInv, OutsideTypeOK, Wg!WgTypeOK, StoreInv, StoreTypeOK
<1>1. ASSUME NEW p \in Procs, CreatePeer(p) PROVE Kept
  <2>1. PICK k \in Keys \ used, r \in Roles, u \in Users \cup {NoUser} :
            /\ AllocateAndInsertPeer(k, r, u)
            /\ req' = [req EXCEPT ![p] =
                          [IdleReq EXCEPT !.pc = "apply", !.key = k, !.ip = peers'[k].ip]]
    BY <1>1 DEF CreatePeer
  <2>2. live' = live /\ ~Stored(k) /\ k \notin live
    BY <1>1, <2>1 DEF CreatePeer, wgVars, AllocateAndInsertPeer, LivePeersHaveRows
  <2>3. \A j \in Keys : j # k => peers'[j] = peers[j]
    BY <1>0, <2>1 DEF AllocateAndInsertPeer
  <2>4. \A o : [IdleReq EXCEPT !.pc = "apply", !.key = k, !.ip = o].key = k
    BY DEF IdleReq
  <2>5. req'[p].key = k /\ \A q \in Procs : q # p => req'[q] = req[q]
    BY <1>0, <2>1, <2>4
  <2>. QED
    BY <1>0, <2>2, <2>3, <2>5 DEF LivePeersHaveRows, Stored
<1>2. ASSUME NEW p \in Procs, ApplyPeer(p) PROVE Kept
  <2>1. PICK k \in Keys : k = req[p].key /\ Stored(k) /\ Creating(p)
    BY <1>0, <1>2 DEF ApplyPeer, At, RequestOK, Creating
  <2>2. live' = live \cup {k} /\ peers' = peers
    BY <1>2, <2>1 DEF ApplyPeer, Wg!ApplyPeerLive, storeVars
  <2>3. req'[p].pc = "logcreate" /\ \A q \in Procs : q # p => req'[q] = req[q]
    BY <1>0, <1>2 DEF ApplyPeer, Goto, Request
  <2>4. \A q \in Procs : q # p /\ Creating(q) => req[q].key # k
    BY <2>1 DEF ServiceInv, CreatorsDistinct
  <2>. QED
    BY <2>1, <2>2, <2>3, <2>4 DEF LivePeersHaveRows, Stored, Creating
<1>3. ASSUME NEW p \in Procs, RollBack(p) PROVE Kept
  <2>1. PICK k \in Keys : k = req[p].key /\ k \notin live
    BY <1>0, <1>3 DEF RollBack, At, RequestOK, Creating
  <2>2. live' = live /\ \A j \in Keys : j # k => peers'[j] = peers[j]
    BY <1>0, <1>3, <2>1 DEF RollBack, DeletePeerByPublicKey, wgVars
  <2>3. req'[p].pc = "idle" /\ \A q \in Procs : q # p => req'[q] = req[q]
    BY <1>0, <1>3, IdleIsRequest DEF RollBack, Reply
  <2>4. \A j \in live : Stored(j) => Stored(j)'
    BY <1>0, <2>1, <2>2 DEF Stored
  <2>. QED
    BY <2>2, <2>3, <2>4, LiveRowsStay
<1>4. ASSUME NEW p \in Procs, MarkRow(p) PROVE Kept
  <2>1. live' = live /\ \A j \in Keys : Stored(j) => Stored(j)'
    BY <1>0, <1>4, MarkedRows DEF MarkRow, wgVars
  <2>2. req'[p].pc = "logrevoke" /\ \A q \in Procs : q # p => req'[q] = req[q]
    BY <1>0, <1>4 DEF MarkRow, Goto, Request
  <2>. QED
    BY <1>0, <2>1, <2>2, LiveRowsStay
<1>5. ASSUME NEW p \in Procs, ClaimCommit(p) PROVE Kept
  <2>1. live' = live /\ \A j \in Keys : Stored(j) => Stored(j)'
    BY <1>0, <1>5 DEF ClaimCommit, ClaimAccount, ClaimPeer, wgVars, Stored, Row
  <2>2. req'[p].pc = "idle" /\ \A q \in Procs : q # p => req'[q] = req[q]
    BY <1>0, <1>5, IdleIsRequest DEF ClaimCommit, Reply
  <2>. QED
    BY <1>0, <2>1, <2>2, LiveRowsStay
<1>6. ASSUME NEW p \in Procs, NEW k \in Keys, RevokePeer(p, k) PROVE Kept
  <2>1. live' \subseteq live /\ peers' = peers
    BY <1>6 DEF RevokePeer, Wg!RemovePeerLive, storeVars
  <2>2. [IdleReq EXCEPT !.pc = "find", !.key = k].pc = "find"
    BY DEF IdleReq
  <2>3. req'[p].pc = "find" /\ \A q \in Procs : q # p => req'[q] = req[q]
    BY <1>0, <1>6, <2>2 DEF RevokePeer
  <2>. QED
    BY <2>1, <2>3, LiveRowsStay DEF Stored
<1>7. ASSUME NEW p \in Procs,
             \/ FindRow(p) \/ LogCreated(p) \/ LogRevoked(p) \/ RowFails(p) \/ LogFails(p)
             \/ ReadPeers(p) \/ ReadFails(p) \/ ReadPartly(p) \/ ReplaceConf(p) \/ SyncFails(p)
             \/ ClaimRefused(p) \/ \E u \in Users : ClaimStart(p, u)
      PROVE  Kept
  <2>1. live' = live /\ peers' = peers
    BY <1>7 DEF FindRow, LogCreated, LogRevoked, RowFails, LogFails, ReadPeers, ReadFails,
       ReadPartly, ReplaceConf, SyncFails, ClaimRefused, ClaimStart, AddPeerEvent, wgVars, storeVars
  <2>2. /\ req'[p].pc \in {"mark", "idle", "read", "sync", "claim"}
        /\ \A q \in Procs : q # p => req'[q] = req[q]
    BY <1>0, <1>7, IdleIsRequest DEF FindRow, LogCreated, LogRevoked, RowFails, LogFails,
       ReadPeers, ReadFails, ReadPartly, ReplaceConf, SyncFails, ClaimRefused, ClaimStart,
       Goto, Reply, Request
  <2>. QED
    BY <2>1, <2>2, LiveRowsStay DEF Stored
<1>8. ASSUME NEW p \in Procs, ApplyFails(p) PROVE Kept
  <2>1. /\ live' = live /\ peers' = peers /\ req[p].pc = "apply"
        /\ req'[p].key = req[p].key /\ \A q \in Procs : q # p => req'[q] = req[q]
    BY <1>0, <1>8 DEF ApplyFails, At, Goto, Request, wgVars, storeVars
  <2>. QED
    BY <2>1, LiveRowsStay DEF Stored
<1>9. ASSUME NEW p \in Procs, WriteTmp(p) PROVE Kept
  <2>1. live' = live /\ peers' = peers /\ req' = req
    BY <1>9 DEF WriteTmp, wgVars, storeVars
  <2>. QED
    BY <2>1, LiveRowsStay DEF Stored
<1>10. ASSUME \E u \in Users : CreateUser(u) PROVE Kept
  <2>1. live' = live /\ peers' = peers /\ req' = req
    BY <1>10 DEF CreateUser, InsertUser, wgVars
  <2>. QED
    BY <2>1, LiveRowsStay DEF Stored
<1>11. CASE Crash
  <2>1. live' = live /\ peers' = peers /\ \A p \in Procs : req'[p].pc = "idle"
    BY <1>11, IdleIsRequest DEF Crash, wgVars, storeVars
  <2>. QED
    BY <2>1, LiveRowsStay DEF Stored
<1>. QED
  BY <1>1, <1>2, <1>3, <1>4, <1>5, <1>6, <1>7, <1>8, <1>9, <1>10, <1>11 DEF Next, Step

\* Requests in any number and interleaving leave no peer on the interface that the
\* dashboard does not list, until the interface is loaded from a file.
THEOREM LivePeersStayListed == Spec => []LivePeersHaveRowsUntilReload
<1>1. Init => OutsideTypeOK
  BY FileTypes DEF Init, OutsideTypeOK, Wg!WgInit, Wg!WgTypeOK, Cf!ConfInit, Cf!ConfTypeOK
<1>2. Init => RowsInv
  <2>1. Init => \A p \in Procs : req[p].pc = "idle"
    BY IdleIsRequest DEF Init
  <2>. QED
    BY <2>1 DEF Init, Wg!WgInit, RowsInv, LivePeersHaveRows
<1>3. ServiceInv /\ OutsideTypeOK /\ [Next]_vars => OutsideTypeOK'
  BY OutsideTypeStep
<1>4. ServiceInv /\ OutsideTypeOK /\ RowsInv /\ [Next]_vars => RowsInv'
  <2>. SUFFICES ASSUME ServiceInv, OutsideTypeOK, RowsInv, [Next]_vars PROVE RowsInv'
    OBVIOUS
  <2>1. CASE Reload
    BY <2>1 DEF Reload, Mishap, Remembered, Spared, RowsInv
  <2>2. CASE Next /\ ~Reload
    BY <2>2, MishapsGrow, LiveRowsStep DEF RowsInv, Spared
  <2>3. CASE UNCHANGED vars
    BY <2>3 DEF vars, storeVars, wgVars, RowsInv, Spared, LivePeersHaveRows, Stored
  <2>. QED
    BY <2>1, <2>2, <2>3
<1>5. RowsInv => LivePeersHaveRowsUntilReload
  BY DEF RowsInv, LivePeersHaveRowsUntilReload
<1>. QED
  BY <1>1, <1>2, <1>3, <1>4, <1>5, ServiceInvariance, PTL DEF Spec

-----------------------------------------------------------------------------
\* A system call of SyncWgConfig that succeeds leaves a .tmp file only while somebody is
\* about to rename it, and an empty file only while somebody is about to write to it.
LEMMA CallsStayBlamed ==
    ASSUME Cf!ConfTypeOK, Blamed, NEW p \in Procs,
           \/ \E b : Cf!SyncRead(p, b)
           \/ Cf!SyncOpen(p) \/ Cf!SyncWrite(p)
           \/ Cf!SyncRename(p) \/ Cf!SyncRenameNothing(p)
    PROVE  Blamed'
<1>. USE DEF Blamed, Writing
<1>0. /\ step \in [Procs -> {"none", "open", "write", "rename"}]
      /\ at \in [Procs -> {"closed", "tmp", "conf", "replaced"}]
      /\ \A kind : Cf!NotWhole(kind).kind = kind
  BY DEF Cf!ConfTypeOK, Cf!NotWhole
<1>1. CASE \E b : Cf!SyncRead(p, b)
  BY <1>0, <1>1 DEF Cf!SyncRead
<1>2. CASE Cf!SyncOpen(p)
  BY <1>0, <1>2 DEF Cf!SyncOpen
<1>3. CASE Cf!SyncWrite(p)
  <2>1. PICK f \in Cf!WrittenOver(Cf!OpenFile(p), snap[p]) : Cf!PutText(p, f)
    BY <1>3 DEF Cf!SyncWrite
  <2>2. f.kind \in {"whole", "torn"}
    BY DEF Cf!WrittenOver, Cf!Whole, Cf!Torn
  <2>3. /\ step' = [step EXCEPT ![p] = "rename"]
        /\ tmp' = IF at[p] = "tmp" THEN f ELSE tmp
        /\ conf' = IF at[p] = "conf" THEN f ELSE conf
        /\ at' = [at EXCEPT ![p] = "closed"]
    BY <1>3, <2>1 DEF Cf!SyncWrite, Cf!PutText
  <2>4. step'[p] = "rename" /\ \A q \in Procs : q # p => step'[q] = step[q] /\ at'[q] = at[q]
    BY <1>0, <2>3
  <2>5. ASSUME tmp'.kind = "empty" PROVE \E q \in Procs : Writing(q, "tmp")'
    BY <2>2, <2>3, <2>4, <2>5
  <2>6. ASSUME conf'.kind = "empty" PROVE \E q \in Procs : Writing(q, "conf")'
    BY <2>2, <2>3, <2>4, <2>6
  <2>. QED
    BY <2>4, <2>5, <2>6
<1>4. CASE Cf!SyncRename(p)
  <2>1. /\ step[p] = "rename" /\ conf' = tmp /\ tmp'.kind = "absent"
        /\ \A q \in Procs : q # p => step'[q] = step[q]
        /\ \A q \in Procs : at[q] = "tmp" => at'[q] = "conf"
    BY <1>0, <1>4 DEF Cf!SyncRename, Cf!EndSync
  <2>. QED
    BY <2>1
<1>5. CASE Cf!SyncRenameNothing(p)
  BY <1>0, <1>5 DEF Cf!SyncRenameNothing, Cf!EndSync
<1>. QED
  BY <1>1, <1>2, <1>3, <1>4, <1>5

\* Every step keeps the place of a request in SyncWgConfig and its place in the request
\* together.
LEMMA InSyncStep ==
    ServiceInv /\ OutsideTypeOK /\ InSync /\ [Next]_vars => InSync'
<1>. SUFFICES ASSUME ServiceInv, OutsideTypeOK, InSync, [Next]_vars PROVE InSync'
  OBVIOUS
<1>. USE DEF InSync
<1>0. /\ step \in [Procs -> {"none", "open", "write", "rename"}]
      /\ req \in [Procs -> Request]
  BY DEF OutsideTypeOK, Cf!ConfTypeOK, ServiceInv
<1>1. ASSUME NEW p \in Procs, ReadPeers(p) \/ ReadPartly(p) PROVE InSync'
  <2>1. step' = [step EXCEPT ![p] = "open"]
    BY <1>1 DEF ReadPeers, ReadPartly, Cf!SyncRead
  <2>2. req'[p].pc = "sync" /\ \A q \in Procs : q # p => req'[q] = req[q]
    BY <1>0, <1>1 DEF ReadPeers, ReadPartly, Goto, Request
  <2>. QED
    BY <1>0, <2>1, <2>2
<1>2. ASSUME NEW p \in Procs, WriteTmp(p) PROVE InSync'
  <2>1. req' = req /\ step[p] # "none"
        /\ \E s \in {"write", "rename"} : step' = [step EXCEPT ![p] = s]
    BY <1>2 DEF WriteTmp, Cf!SyncOpen, Cf!SyncWrite
  <2>. QED
    BY <1>0, <2>1
<1>3. ASSUME NEW p \in Procs, ReplaceConf(p) \/ SyncFails(p) PROVE InSync'
  <2>1. step' = [step EXCEPT ![p] = "none"]
    BY <1>3 DEF ReplaceConf, SyncFails, Cf!SyncRename, Cf!SyncRenameNothing, Cf!SyncFail,
       Cf!EndSync
  <2>2. req'[p].pc = "idle" /\ \A q \in Procs : q # p => req'[q] = req[q]
    BY <1>0, <1>3, IdleIsRequest DEF ReplaceConf, SyncFails, Reply
  <2>. QED
    BY <1>0, <2>1, <2>2
<1>4. CASE Crash
  BY <1>4, IdleIsRequest DEF Crash, Cf!SyncCrash
<1>5. CASE /\ UNCHANGED confVars
           /\ \A p \in Procs : req'[p].pc = "sync" <=> req[p].pc = "sync"
  BY <1>5 DEF confVars
<1>. QED
  BY <1>0, <1>1, <1>2, <1>3, <1>4, <1>5, OthersLeaveFiles

\* Every step keeps somebody to blame, until a step of SyncWgConfig fails or the process
\* stops.
LEMMA FilesStep ==
    ServiceInv /\ OutsideTypeOK /\ FilesInv /\ [Next]_vars => FilesInv'
<1>. SUFFICES ASSUME ServiceInv, OutsideTypeOK, FilesInv, [Next]_vars PROVE FilesInv'
  OBVIOUS
<1>1. InSync'
  BY InSyncStep DEF FilesInv
<1>2. ASSUME Spared({"sync", "crash"})' PROVE Blamed'
  <2>1. Blamed
    BY <1>2, MishapsGrow DEF FilesInv, Spared
  <2>2. /\ ~Crash
        /\ \A p \in Procs : ~ReadPartly(p) /\ ~SyncFails(p)
    BY <1>2 DEF Crash, ReadPartly, SyncFails, Mishap, Remembered, Spared
  <2>3. ASSUME NEW p \in Procs, ReadPeers(p) \/ WriteTmp(p) \/ ReplaceConf(p) PROVE Blamed'
    <3>1. \/ \E b : Cf!SyncRead(p, b)
          \/ Cf!SyncOpen(p) \/ Cf!SyncWrite(p)
          \/ Cf!SyncRename(p) \/ Cf!SyncRenameNothing(p)
      BY <2>3 DEF ReadPeers, WriteTmp, ReplaceConf
    <3>. QED
      BY <2>1, <3>1, CallsStayBlamed DEF OutsideTypeOK
  <2>4. CASE UNCHANGED confVars
    BY <2>1, <2>4 DEF confVars, Blamed, Writing
  <2>. QED
    BY <2>2, <2>3, <2>4, OthersLeaveFiles DEF ServiceInv
<1>. QED
  BY <1>1, <1>2 DEF FilesInv

\* When all requests have answered, no .tmp file is left and wg0.conf is not empty,
\* however they renamed and overwrote each other's files.
THEOREM FilesAreSettled == Spec => []FilesSettle
<1>1. Init => OutsideTypeOK
  BY FileTypes DEF Init, OutsideTypeOK, Wg!WgInit, Wg!WgTypeOK, Cf!ConfInit, Cf!ConfTypeOK
<1>2. Init => FilesInv
  <2>1. Init => \A p \in Procs : req[p].pc = "idle" /\ step[p] = "none"
    BY IdleIsRequest DEF Init, Cf!ConfInit
  <2>. QED
    BY <2>1 DEF Init, Cf!ConfInit, Cf!NotWhole, Cf!Whole, FilesInv, InSync, Blamed
<1>3. ServiceInv /\ OutsideTypeOK /\ [Next]_vars => OutsideTypeOK'
  BY OutsideTypeStep
<1>4. ServiceInv /\ OutsideTypeOK /\ FilesInv /\ [Next]_vars => FilesInv'
  BY FilesStep
<1>5. FilesInv => FilesSettle
  BY DEF FilesInv, InSync, Blamed, Writing, FilesSettle, Quiet, At
<1>. QED
  BY <1>1, <1>2, <1>3, <1>4, <1>5, ServiceInvariance, PTL DEF Spec
=============================================================================
