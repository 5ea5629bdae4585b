--------------------------- MODULE OneRequestProofs ---------------------------
(***************************************************************************)
(* While requests come one at a time, with every failure and stop of the   *)
(* process:                                                                *)
(*   - the order of the calls in CreatePeer (row, then interface) and in   *)
(*     RevokePeer (interface, then row) fails safe: the interface serves   *)
(*     no key the table does not list as active, and no address but the    *)
(*     table's, as long as it is not loaded from wg0.conf;                 *)
(*   - between requests it serves every active row, unless a call failed   *)
(*     or the process stopped since;                                       *)
(*   - wg0.conf is a whole file, and between requests the table's;         *)
(*   - a peer claimed by a device is one whose key that device holds, and  *)
(*     whoever has claimed one is never left without;                      *)
(*   - the interface is the book of PeerBook: every step of the service is *)
(*     one of the book or leaves it alone.                                 *)
(*                                                                         *)
(* The invariants add where the request under way stands: a creation about *)
(* to change the interface has an active row with the address it will ask  *)
(* for, and a key being rolled back or revoked is off the interface until  *)
(* its row is.                                                             *)
(***************************************************************************)
EXTENDS InterleavingProofs

Off(k) == k \notin live /\ \A o \in Octets : route[o] # k

RequestFits(p) ==
    /\ req[p].pc = "apply" =>
          /\ Active(req[p].key) /\ peers[req[p].key].ip = req[p].ip
    /\ req[p].pc \in {"apply", "rollback", "find", "mark"} => Off(req[p].key)
    /\ req[p].pc = "mark" => Stored(req[p].key)

Within ==
    /\ \A k \in live : Active(k)
    /\ \A o \in Octets : route[o] # NoKey => HoldsAddress(route[o], o)

OneInv ==
    /\ ServiceInv
    /\ OutsideTypeOK
    /\ Spared({"reload"}) => Within /\ \A p \in Procs : RequestFits(p)

\* SyncWgConfig run by one request at a time writes to the .tmp file only, and renames it
\* when it holds all that was read.
WholeInv ==
    /\ conf.kind = "whole"
    /\ \A p \in Procs :
          /\ step[p] # "write" => at[p] = "closed"
          /\ step[p] = "write" => at[p] = "tmp" /\ tmp.kind = "empty"
          /\ step[p] = "rename" => tmp = Cf!Whole(snap[p])

\* wg0.conf lags behind the table by the creation under way, which may be undone without
\* a sync, or while a sync is still due.
ConfFits(p) ==
    /\ req[p].pc \in {"idle", "find", "mark", "claim"} => conf = Cf!Whole(ActivePeers)
    /\ req[p].pc \in {"apply", "rollback"} =>
          conf = Cf!Whole([ActivePeers EXCEPT ![req[p].key] = Released])
    /\ req[p].pc = "sync" => snap[p] = ActivePeers

ConfInv ==
    Spared({"row", "sync", "crash"}) => \A p \in Procs : ConfFits(p)

\* The interface differs from the table in the key of the request under way only, and
\* not before the request has changed one of the two nor after it has changed both.
Current(k) == /\ Active(k) <=> k \in live
              /\ Active(k) => route[peers[k].ip] = k

Changing(p, k) == req[p].pc \in {"apply", "rollback", "find", "mark"} /\ req[p].key = k

CurrentInv ==
    Spared({"row", "crash", "reload"}) =>
        \A k \in Keys : Current(k) \/ \E p \in Procs : Changing(p, k)

\* Initially the interface is empty.
LEMMA OneInvInit == Init => OneInv
<1>. SUFFICES ASSUME Init PROVE OneInv
  OBVIOUS
<1>1. ServiceInv /\ OutsideTypeOK
  BY ServiceInvInit, FileTypes DEF Init, OutsideTypeOK, Wg!WgInit, Wg!WgTypeOK,
     Cf!ConfInit, Cf!ConfTypeOK
<1>2. live = {} /\ \A o \in Octets : route[o] = NoKey
  BY DEF Init, Wg!WgInit
<1>3. \A p \in Procs : req[p].pc = "idle"
  BY IdleIsRequest DEF Init
<1>. QED
  BY <1>1, <1>2, <1>3 DEF OneInv, Within, RequestFits

\* Steps that touch neither the rows nor the interface keep the table ahead of it.
LEMMA WithinStays ==
    ASSUME Within, peers' = peers, UNCHANGED wgVars
    PROVE  Within'
BY DEF Within, wgVars, HoldsAddress, Active

\* The step of the only request keeps the interface within the table.
LEMMA OneStep ==
    ASSUME NEW self, Procs = {self}, OneInv, ServiceInv', OutsideTypeOK', Next,
           Within, \A p \in Procs : RequestFits(p), ~Reload
    PROVE  Within' /\ \A p \in Procs : RequestFits(p)'
<1>. USE DEF OneInv
<1>0. /\ self \in Procs /\ req \in [Procs -> Request] /\ RequestOK(self)
      /\ RequestFits(self) /\ peers \in [Keys -> Row] /\ used \in SUBSET Keys
      /\ live \in SUBSET Keys /\ route \in [Octets -> Keys \cup {NoKey}]
      /\ NoKey \notin Keys
  BY ServiceAssumption DEF ServiceInv, OutsideTypeOK, Wg!WgTypeOK, StoreInv, StoreTypeOK
<1>. SUFFICES Within' /\ RequestFits(self)'
  OBVIOUS
<1>1. CASE CreatePeer(self)
  <2>1. PICK k \in Keys \ used, r \in Roles, u \in Users \cup {NoUser} :
            /\ AllocateAndInsertPeer(k, r, u)
            /\ req' = [req EXCEPT ![self] =
                          [IdleReq EXCEPT !.pc = "apply", !.key = k, !.ip = peers'[k].ip]]
    BY <1>1 DEF CreatePeer
  <2>2. live' = live /\ route' = route
    BY <1>1 DEF CreatePeer, wgVars
  <2>3. ~Stored(k) /\ ~Active(k)
    BY <2>1 DEF AllocateAndInsertPeer, Stored, Active
  <2>4. Active(k)' /\ \A j \in Keys : j # k => peers'[j] = peers[j]
    BY <1>0, <2>1 DEF AllocateAndInsertPeer, Active
  <2>5. Off(k)
    BY <1>0, <2>3 DEF Within, Off, HoldsAddress
  <2>6. Within'
    BY <1>0, <2>2, <2>4, <2>5 DEF Within, HoldsAddress, Active, Off
  <2>7. req'[self].pc = "apply" /\ req'[self].key = k /\ req'[self].ip = peers'[k].ip
    BY <1>0, <2>1, IdleIsRequest DEF IdleReq
  <2>. QED
    BY <2>2, <2>4, <2>5, <2>6, <2>7 DEF RequestFits, Off, Active
<1>2. CASE ApplyPeer(self)
  <2>1. PICK k \in Keys, o \in Octets :
            /\ k = req[self].key /\ o = req[self].ip
            /\ Active(k) /\ peers[k].ip = o
    <3>1. req[self].key \in Keys /\ Active(req[self].key)
          /\ peers[req[self].key].ip = req[self].ip
      BY <1>0, <1>2 DEF ApplyPeer, At, RequestFits, RequestOK, Creating
    <3>2. peers[req[self].key].ip \in Octets
      BY <3>1, ZoneOctets DEF ServiceInv, StoreInv, ActiveAddressesDistinct
    <3>. QED
      BY <3>1, <3>2
  <2>2. /\ live' = live \cup {k}
        /\ route' = [a \in Octets |-> IF a = o THEN k
                                      ELSE IF route[a] = k THEN NoKey ELSE route[a]]
        /\ peers' = peers
    BY <1>2, <2>1 DEF ApplyPeer, Wg!ApplyPeerLive, storeVars
  <2>3. Within'
    BY <2>1, <2>2 DEF Within, HoldsAddress, Active
  <2>4. req'[self].pc = "logcreate"
    BY <1>0, <1>2 DEF ApplyPeer, Goto, Request
  <2>. QED
    BY <2>3, <2>4 DEF RequestFits
<1>3. CASE ApplyFails(self)
  <2>1. /\ peers' = peers /\ UNCHANGED wgVars /\ req[self].pc = "apply"
        /\ req'[self].pc = "rollback" /\ req'[self].key = req[self].key
    BY <1>0, <1>3 DEF ApplyFails, Goto, storeVars, At, Request
  <2>2. RequestFits(self)'
    BY <1>0, <2>1 DEF RequestFits, Off, wgVars
  <2>. QED
    BY <2>1, <2>2, WithinStays
<1>4. CASE RollBack(self)
  <2>1. PICK k \in Keys : k = req[self].key /\ Off(k)
    BY <1>0, <1>4 DEF RollBack, At, RequestFits, RequestOK, Creating
  <2>2. /\ \A j \in Keys : j # k => peers'[j] = peers[j]
        /\ live' = live /\ route' = route
    BY <1>0, <1>4, <2>1 DEF RollBack, DeletePeerByPublicKey, wgVars
  <2>3. Within'
    BY <1>0, <2>1, <2>2 DEF Within, Off, HoldsAddress, Active
  <2>4. req'[self].pc = "idle"
    BY <1>0, <1>4, IdleIsRequest DEF RollBack, Reply
  <2>. QED
    BY <2>3, <2>4 DEF RequestFits
<1>5. CASE MarkRow(self)
  <2>1. PICK k \in Keys : /\ k = req[self].key /\ Off(k)
                          /\ Stored(k) => peers[k].id = req[self].id
    BY <1>0, <1>5 DEF MarkRow, At, RequestFits, RequestOK
  <2>2. /\ \A j \in Keys :
              (Stored(j) /\ peers[j].id = req[self].id) \/ peers'[j] = peers[j]
        /\ live' = live /\ route' = route
    BY <1>0, <1>5 DEF MarkRow, MarkRevoked, wgVars
  <2>3. Stored(k)
    BY <1>0, <1>5, <2>1 DEF MarkRow, At, RequestFits
  <2>4. \A j \in Keys : j # k => peers'[j] = peers[j]
    BY <2>1, <2>2, <2>3 DEF ServiceInv, StoreInv, IdsAssigned
  <2>5. Within'
    BY <1>0, <2>1, <2>2, <2>4 DEF Within, Off, HoldsAddress, Active
  <2>6. req'[self].pc = "logrevoke"
    BY <1>0, <1>5 DEF MarkRow, Goto, Request
  <2>. QED
    BY <2>5, <2>6 DEF RequestFits
<1>6. ASSUME NEW k \in Keys, RevokePeer(self, k) PROVE Within' /\ RequestFits(self)'
  <2>1. /\ peers' = peers /\ live' = live \ {k}
        /\ route' = [a \in Octets |-> IF route[a] = k THEN NoKey ELSE route[a]]
    BY <1>6 DEF RevokePeer, Wg!RemovePeerLive, storeVars
  <2>2. req'[self].pc = "find" /\ req'[self].key = k
    BY <1>0, <1>6, IdleIsRequest DEF RevokePeer, IdleReq
  <2>3. Within'
    BY <1>0, <2>1 DEF Within, HoldsAddress, Active
  <2>. QED
    BY <1>0, <2>1, <2>2, <2>3 DEF RequestFits, Off
<1>7. CASE FindRow(self)
  <2>1. peers' = peers /\ UNCHANGED wgVars /\ req[self].pc = "find"
    BY <1>7 DEF FindRow, storeVars, At
  <2>2. \/ req'[self].pc = "idle"
        \/ /\ req'[self].pc = "mark" /\ req'[self].key = req[self].key
           /\ Stored(req[self].key)
    BY <1>0, <1>7, IdleIsRequest DEF FindRow, Reply, Request
  <2>3. RequestFits(self)'
    BY <1>0, <2>1, <2>2 DEF RequestFits, Off, wgVars, Stored
  <2>. QED
    BY <2>1, <2>3, WithinStays
<1>8. ASSUME NEW u \in Users, ClaimStart(self, u) PROVE Within' /\ RequestFits(self)'
  <2>1. peers' = peers /\ UNCHANGED wgVars /\ req'[self].pc = "claim"
    BY <1>0, <1>8 DEF ClaimStart, storeVars
  <2>. QED
    BY <2>1, WithinStays DEF RequestFits
<1>9. CASE ClaimCommit(self)
  <2>1. PICK k \in Keys : peers' = [peers EXCEPT ![k].owner = req[self].user]
    BY <1>9 DEF ClaimCommit, ClaimAccount, ClaimPeer
  <2>2. \A j \in Keys : /\ peers'[j].status = peers[j].status
                        /\ peers'[j].ip = peers[j].ip
    BY <1>0, <2>1 DEF Row
  <2>3. Within'
    BY <1>0, <1>9, <2>2 DEF ClaimCommit, wgVars, Within, HoldsAddress, Active
  <2>4. req'[self].pc = "idle"
    BY <1>0, <1>9, IdleIsRequest DEF ClaimCommit, Reply
  <2>. QED
    BY <2>3, <2>4 DEF RequestFits
<1>10. ASSUME \/ LogCreated(self) \/ LogRevoked(self) \/ RowFails(self) \/ LogFails(self)
              \/ ReadPeers(self) \/ ReadFails(self) \/ ReadPartly(self) \/ ReplaceConf(self)
              \/ SyncFails(self) \/ ClaimRefused(self) \/ Crash
       PROVE  Within' /\ RequestFits(self)'
  <2>1. peers' = peers /\ UNCHANGED wgVars
    BY <1>10 DEF LogCreated, LogRevoked, RowFails, LogFails, ReadPeers, ReadFails,
       ReadPartly, ReplaceConf, SyncFails, ClaimRefused, Crash, AddPeerEvent, storeVars
  <2>2. req'[self].pc \in {"idle", "read", "sync"}
    BY <1>0, <1>10, IdleIsRequest DEF LogCreated, LogRevoked, RowFails, LogFails, ReadPeers,
       ReadFails, ReadPartly, ReplaceConf, SyncFails, ClaimRefused, Crash, Goto, Reply, Request
  <2>. QED
    BY <2>1, <2>2, WithinStays DEF RequestFits
<1>11. ASSUME WriteTmp(self) \/ \E u \in Users : CreateUser(u)
       PROVE  Within' /\ RequestFits(self)'
  <2>1. peers' = peers /\ UNCHANGED wgVars /\ req' = req
    BY <1>11 DEF WriteTmp, CreateUser, InsertUser, storeVars
  <2>. QED
    BY <1>0, <2>1, WithinStays DEF RequestFits, Off, wgVars, Active, Stored
<1>. QED
  BY <1>1, <1>2, <1>3, <1>4, <1>5, <1>6, <1>7, <1>8, <1>9, <1>10, <1>11 DEF Next, Step

\* Every step of the service, with one request at a time, keeps the invariant.
LEMMA OneInvStep ==
    ASSUME NEW self, Procs = {self}, OneInv, [Next]_vars
    PROVE  OneInv'
<1>1. ServiceInv' /\ OutsideTypeOK'
  BY ServiceInvStep, OutsideTypeStep DEF OneInv
<1>2. mishaps \subseteq mishaps'
  BY MishapsGrow
<1>3. CASE UNCHANGED vars
  BY <1>1, <1>3, WithinStays DEF OneInv, vars, storeVars, wgVars, Spared, RequestFits,
     Off, Active, Stored
<1>4. CASE Reload
  <2>1. ~Spared({"reload"})'
    BY <1>4 DEF Reload, Mishap, Remembered, Spared
  <2>. QED
    BY <1>1, <2>1 DEF OneInv
<1>5. CASE Next /\ ~Reload /\ Spared({"reload"})
  BY <1>1, <1>5, OneStep DEF OneInv
<1>6. CASE ~Spared({"reload"})
  BY <1>1, <1>2, <1>6 DEF OneInv, Spared
<1>. QED
  BY <1>3, <1>4, <1>5, <1>6

\* With one request at a time, a failure or a crash at any step leaves the interface
\* within the table.
THEOREM OneRequestFailsSafe ==
    ASSUME NEW self, Procs = {self}
    PROVE  Spec => []InterfaceWithinTable
<1>1. Init => OneInv
  BY OneInvInit
<1>2. OneInv /\ [Next]_vars => OneInv'
  BY OneInvStep
<1>3. OneInv => InterfaceWithinTable
  BY DEF OneInv, InterfaceWithinTable, Within
<1>. QED
  BY <1>1, <1>2, <1>3, PTL DEF Spec

-----------------------------------------------------------------------------
\* What is written over an empty file is there completely.
LEMMA WrittenOverEmpty ==
    ASSUME NEW f, f.kind = "empty", NEW b, NEW g \in Cf!WrittenOver(f, b)
    PROVE  g = Cf!Whole(b)
BY DEF Cf!WrittenOver

\* No step of the only request, no failure and no crash leaves wg0.conf incomplete.
LEMMA WholeStep ==
    ASSUME NEW self, Procs = {self}, ServiceInv, OutsideTypeOK, WholeInv, [Next]_vars
    PROVE  WholeInv'
<1>. USE DEF WholeInv
<1>0. /\ self \in Procs /\ req \in [Procs -> Request]
      /\ step \in [Procs -> {"none", "open", "write", "rename"}]
      /\ at \in [Procs -> {"closed", "tmp", "conf", "replaced"}]
      /\ snap \in [Procs -> Cf!Blocks]
      /\ \A kind : Cf!NotWhole(kind).kind = kind
      /\ \A b : Cf!Whole(b).kind = "whole"
  BY DEF OutsideTypeOK, Cf!ConfTypeOK, ServiceInv, Cf!NotWhole, Cf!Whole
<1>1. ASSUME NEW b, Cf!SyncRead(self, b) PROVE WholeInv'
  BY <1>0, <1>1 DEF Cf!SyncRead
<1>2. CASE Cf!SyncOpen(self)
  BY <1>0, <1>2 DEF Cf!SyncOpen
<1>3. CASE Cf!SyncWrite(self)
  <2>1. PICK f \in Cf!WrittenOver(Cf!OpenFile(self), snap[self]) : Cf!PutText(self, f)
    BY <1>3 DEF Cf!SyncWrite
  <2>2. step[self] = "write" /\ at[self] = "tmp" /\ tmp.kind = "empty"
    BY <1>0, <1>3 DEF Cf!SyncWrite
  <2>3. f = Cf!Whole(snap[self])
    BY <2>2, WrittenOverEmpty DEF Cf!OpenFile
  <2>4. tmp' = f /\ conf' = conf /\ at'[self] = "closed"
    BY <1>0, <2>1, <2>2 DEF Cf!PutText
  <2>5. step'[self] = "rename" /\ snap' = snap
    BY <1>0, <1>3 DEF Cf!SyncWrite
  <2>. QED
    BY <2>3, <2>4, <2>5
<1>4. CASE Cf!SyncRename(self)
  BY <1>0, <1>4 DEF Cf!SyncRename, Cf!EndSync
<1>5. CASE Cf!SyncRenameNothing(self)
  BY <1>0, <1>5 DEF Cf!SyncRenameNothing, Cf!EndSync
<1>6. CASE Cf!SyncFail(self)
  <2>1. step' = [step EXCEPT ![self] = "none"]
    BY <1>6 DEF Cf!SyncFail, Cf!EndSync
  <2>2. conf' = conf /\ at'[self] = "closed"
    BY <1>0, <1>6 DEF Cf!SyncFail, Cf!PutText
  <2>. QED
    BY <1>0, <2>1, <2>2
<1>7. CASE Crash
  BY <1>0, <1>7 DEF Crash, Cf!SyncCrash
<1>8. CASE UNCHANGED confVars
  BY <1>8 DEF confVars
<1>9. ASSUME ReadPeers(self) \/ ReadPartly(self) \/ WriteTmp(self) \/ ReplaceConf(self)
             \/ SyncFails(self)
      PROVE  WholeInv'
  <2>1. \/ \E b : Cf!SyncRead(self, b)
        \/ Cf!SyncOpen(self) \/ Cf!SyncWrite(self)
        \/ Cf!SyncRename(self) \/ Cf!SyncRenameNothing(self) \/ Cf!SyncFail(self)
    BY <1>9 DEF ReadPeers, ReadPartly, WriteTmp, ReplaceConf, SyncFails
  <2>. QED
    BY <1>1, <1>2, <1>3, <1>4, <1>5, <1>6, <2>1
<1>. QED
  BY <1>0, <1>7, <1>8, <1>9, OthersLeaveFiles

\* With one request at a time, wg0.conf is at every moment one complete rendering:
\* whatever fails and wherever the process stops, only the .tmp file is incomplete.
THEOREM ConfStaysWhole ==
    ASSUME NEW self, Procs = {self}
    PROVE  Spec => []ConfAlwaysWhole
<1>1. Init => ServiceInv /\ OutsideTypeOK
  BY OneInvInit DEF OneInv
<1>2. Init => WholeInv
  BY DEF Init, Cf!ConfInit, Cf!Whole, WholeInv
<1>3. ServiceInv /\ OutsideTypeOK /\ [Next]_vars => ServiceInv' /\ OutsideTypeOK'
  BY ServiceInvStep, OutsideTypeStep
<1>4. ServiceInv /\ OutsideTypeOK /\ WholeInv /\ [Next]_vars => WholeInv'
  BY WholeStep
<1>5. WholeInv => ConfAlwaysWhole
  BY DEF WholeInv, ConfAlwaysWhole
<1>. QED
  BY <1>1, <1>2, <1>3, <1>4, <1>5, PTL DEF Spec

-----------------------------------------------------------------------------
\* A step of the only request keeps wg0.conf as far behind the table as its place says.
LEMMA ConfStep ==
    ASSUME NEW self, Procs = {self}, ServiceInv, OutsideTypeOK, WholeInv, Next,
           ConfFits(self), Spared({"row", "sync", "crash"})'
    PROVE  ConfFits(self)'
<1>. USE DEF ConfFits
<1>0. /\ self \in Procs /\ req \in [Procs -> Request] /\ RequestOK(self)
      /\ peers \in [Keys -> Row] /\ used \in SUBSET Keys
      /\ snap \in [Procs -> Cf!Blocks]
  BY DEF OutsideTypeOK, Cf!ConfTypeOK, ServiceInv, StoreInv, StoreTypeOK
<1>1. CASE CreatePeer(self)
  <2>1. PICK k \in Keys \ used, r \in Roles, u \in Users \cup {NoUser} :
            /\ AllocateAndInsertPeer(k, r, u)
            /\ req' = [req EXCEPT ![self] =
                          [IdleReq EXCEPT !.pc = "apply", !.key = k, !.ip = peers'[k].ip]]
    BY <1>1 DEF CreatePeer
  <2>2. conf' = conf /\ req[self].pc = "idle" /\ conf = Cf!Whole(ActivePeers)
    BY <1>1 DEF CreatePeer, confVars, At
  <2>3. ~Active(k) /\ \A j \in Keys : j # k => peers'[j] = peers[j]
    BY <1>0, <2>1 DEF AllocateAndInsertPeer, Stored, Active
  <2>4. ActivePeers = [ActivePeers' EXCEPT ![k] = Released]
    BY <2>3 DEF ActivePeers, Active
  <2>5. \A o : /\ [IdleReq EXCEPT !.pc = "apply", !.key = k, !.ip = o].pc = "apply"
               /\ [IdleReq EXCEPT !.pc = "apply", !.key = k, !.ip = o].key = k
    BY DEF IdleReq
  <2>6. req'[self].pc = "apply" /\ req'[self].key = k
    BY <1>0, <2>1, <2>5
  <2>. QED
    BY <2>2, <2>4, <2>6
<1>2. CASE RollBack(self)
  <2>1. PICK k \in Keys : k = req[self].key
    BY <1>0, <1>2 DEF RollBack, At, RequestOK, Creating
  <2>2. /\ peers' = [peers EXCEPT ![k] = NoRow] /\ conf' = conf
        /\ conf = Cf!Whole([ActivePeers EXCEPT ![k] = Released])
    BY <1>2, <2>1 DEF RollBack, DeletePeerByPublicKey, confVars, At
  <2>3. ActivePeers' = [ActivePeers EXCEPT ![k] = Released]
    BY <1>0, <2>1, <2>2 DEF ActivePeers, Active, NoRow
  <2>4. req'[self].pc = "idle"
    BY <1>0, <1>2, IdleIsRequest DEF RollBack, Reply
  <2>. QED
    BY <2>2, <2>3, <2>4
<1>3. CASE MarkRow(self)
  BY <1>0, <1>3 DEF MarkRow, Goto, Request
<1>4. CASE ClaimCommit(self)
  <2>1. PICK k \in Keys : peers' = [peers EXCEPT ![k].owner = req[self].user]
    BY <1>4 DEF ClaimCommit, ClaimAccount, ClaimPeer
  <2>2. \A j \in Keys : peers'[j].status = peers[j].status /\ peers'[j].ip = peers[j].ip
    BY <1>0, <2>1 DEF Row
  <2>3. ActivePeers' = ActivePeers
    BY <2>2 DEF ActivePeers, Active
  <2>4. conf' = conf /\ conf = Cf!Whole(ActivePeers)
    BY <1>4 DEF ClaimCommit, confVars, At
  <2>5. req'[self].pc = "idle"
    BY <1>0, <1>4, IdleIsRequest DEF ClaimCommit, Reply
  <2>. QED
    BY <2>3, <2>4, <2>5
<1>5. ASSUME ApplyPeer(self) \/ LogCreated(self) \/ LogRevoked(self) \/ LogFails(self)
      PROVE  ConfFits(self)'
  <2>1. req'[self].pc \in {"logcreate", "read"}
    BY <1>0, <1>5 DEF ApplyPeer, LogCreated, LogRevoked, LogFails, Goto, Request
  <2>. QED
    BY <2>1
<1>6. CASE ApplyFails(self)
  <2>1. /\ peers' = peers /\ conf' = conf /\ req[self].pc = "apply"
        /\ req'[self].pc = "rollback" /\ req'[self].key = req[self].key
    BY <1>0, <1>6 DEF ApplyFails, At, Goto, Request, storeVars, confVars
  <2>. QED
    BY <2>1 DEF ActivePeers, Active
<1>7. ASSUME \/ FindRow(self) \/ ClaimRefused(self)
             \/ (\E k \in Keys : RevokePeer(self, k)) \/ (\E u \in Users : ClaimStart(self, u))
      PROVE  ConfFits(self)'
  <2>1. /\ peers' = peers /\ conf' = conf /\ req[self].pc \in {"idle", "find", "claim"}
    BY <1>7 DEF FindRow, ClaimRefused, RevokePeer, ClaimStart, At, storeVars, confVars
  <2>2. \A k : [IdleReq EXCEPT !.pc = "find", !.key = k].pc = "find"
    BY DEF IdleReq
  <2>3. req'[self].pc \in {"idle", "mark", "find", "claim"}
    <3>1. CASE FindRow(self) \/ ClaimRefused(self)
      BY <1>0, <3>1, IdleIsRequest DEF FindRow, ClaimRefused, Reply, Request
    <3>2. CASE \E k \in Keys : RevokePeer(self, k)
      BY <1>0, <2>2, <3>2 DEF RevokePeer
    <3>3. CASE \E u \in Users : ClaimStart(self, u)
      BY <1>0, <3>3 DEF ClaimStart
    <3>. QED
      BY <1>7, <3>1, <3>2, <3>3
  <2>. QED
    BY <2>1, <2>3 DEF ActivePeers, Active
<1>8. CASE ReadPeers(self)
  <2>1. peers' = peers /\ snap' = [snap EXCEPT ![self] = ActivePeers]
    BY <1>8 DEF ReadPeers, Cf!SyncRead, storeVars
  <2>2. req'[self].pc = "sync"
    BY <1>0, <1>8 DEF ReadPeers, Goto, Request
  <2>. QED
    BY <1>0, <2>1, <2>2 DEF ActivePeers, Active
<1>9. CASE WriteTmp(self)
  <2>1. /\ peers' = peers /\ req' = req /\ req[self].pc = "sync" /\ snap' = snap
    BY <1>9 DEF WriteTmp, Cf!SyncOpen, Cf!SyncWrite, storeVars, At
  <2>. QED
    BY <2>1 DEF ActivePeers, Active
<1>10. CASE ReplaceConf(self)
  <2>1. peers' = peers /\ req[self].pc = "sync" /\ step[self] = "rename"
    BY <1>10 DEF ReplaceConf, Cf!SyncRename, Cf!SyncRenameNothing, storeVars, At
  <2>2. tmp = Cf!Whole(ActivePeers)
    BY <1>0, <2>1 DEF WholeInv
  <2>3. conf' = tmp
    BY <1>10, <2>2 DEF ReplaceConf, Cf!SyncRename, Cf!SyncRenameNothing, Cf!Whole
  <2>4. req'[self].pc = "idle"
    BY <1>0, <1>10, IdleIsRequest DEF ReplaceConf, Reply
  <2>. QED
    BY <2>1, <2>2, <2>3, <2>4 DEF ActivePeers, Active
<1>11. ASSUME RowFails(self) \/ ReadFails(self) \/ ReadPartly(self) \/ SyncFails(self) \/ Crash
       PROVE  ConfFits(self)'
  BY <1>11 DEF RowFails, ReadFails, ReadPartly, SyncFails, Crash, Mishap, Remembered, Spared
<1>12. ASSUME (\E u \in Users : CreateUser(u)) \/ Reload PROVE ConfFits(self)'
  <2>1. peers' = peers /\ req' = req /\ UNCHANGED confVars
    BY <1>12 DEF CreateUser, InsertUser, Reload, storeVars
  <2>. QED
    BY <2>1 DEF ActivePeers, Active, confVars
<1>. QED
  BY <1>1, <1>2, <1>3, <1>4, <1>5, <1>6, <1>7, <1>8, <1>9, <1>10, <1>11, <1>12
     DEF Next, Step

\* With one request at a time, wg0.conf lists exactly the active peers whenever no
\* request is under way, unless a statement, a sync or the process failed before.
THEOREM ConfFollowsTable ==
    ASSUME NEW self, Procs = {self}
    PROVE  Spec => []QuietConfCurrent
<1>1. Init => ServiceInv /\ OutsideTypeOK
  BY OneInvInit DEF OneInv
<1>2. Init => WholeInv
  BY DEF Init, Cf!ConfInit, Cf!Whole, WholeInv
<1>3. Init => ConfInv
  <2>. SUFFICES ASSUME Init PROVE \A p \in Procs : ConfFits(p)
    BY DEF ConfInv
  <2>1. \A p \in Procs : req[p].pc = "idle"
    BY IdleIsRequest DEF Init
  <2>2. ActivePeers = Cf!NoBlocks
    BY DEF Init, StoreInit, ActivePeers, Active, NoRow, Cf!NoBlocks
  <2>. QED
    BY <2>1, <2>2 DEF Init, Cf!ConfInit, ConfFits
<1>4. ServiceInv /\ OutsideTypeOK /\ [Next]_vars => ServiceInv' /\ OutsideTypeOK'
  BY ServiceInvStep, OutsideTypeStep
<1>5. ServiceInv /\ OutsideTypeOK /\ WholeInv /\ [Next]_vars => WholeInv'
  BY WholeStep
<1>6. ServiceInv /\ OutsideTypeOK /\ WholeInv /\ ConfInv /\ [Next]_vars => ConfInv'
  <2>. SUFFICES ASSUME ServiceInv, OutsideTypeOK, WholeInv, ConfInv, [Next]_vars,
                       Spared({"row", "sync", "crash"})'
                PROVE  ConfFits(self)'
    BY DEF ConfInv
  <2>1. ConfFits(self)
    BY MishapsGrow DEF ConfInv, Spared
  <2>2. CASE UNCHANGED vars
    BY <2>1, <2>2 DEF vars, storeVars, confVars, ConfFits, ActivePeers, Active
  <2>. QED
    BY <2>1, <2>2, ConfStep
<1>7. ConfInv => QuietConfCurrent
  BY DEF ConfInv, ConfFits, QuietConfCurrent, Quiet, At
<1>. QED
  BY <1>1, <1>2, <1>3, <1>4, <1>5, <1>6, <1>7, PTL DEF Spec

-----------------------------------------------------------------------------
\* A key whose row and place on the interface stay is as current as before.
LEMMA CurrentStays ==
    ASSUME NEW k \in Keys, Current(k),
           Active(k)' <=> Active(k), Active(k) => peers'[k].ip = peers[k].ip,
           k \in live' <=> k \in live,
           Active(k) => route'[peers[k].ip] = route[peers[k].ip]
    PROVE  Current(k)'
BY DEF Current

\* A step of the only request changes the table and the interface in its own key only,
\* and ends its change in both.
LEMMA CurrentStep ==
    ASSUME NEW self, Procs = {self}, OneInv, Next, Spared({"row", "crash", "reload"})',
           \A k \in Keys : Current(k) \/ Changing(self, k)
    PROVE  \A k \in Keys : Current(k)' \/ Changing(self, k)'
<1>. SUFFICES ASSUME NEW k \in Keys, ~Changing(self, k)' PROVE Current(k)'
  OBVIOUS
<1>0. /\ self \in Procs /\ req \in [Procs -> Request] /\ RequestOK(self)
      /\ peers \in [Keys -> Row] /\ used \in SUBSET Keys
      /\ live \in SUBSET Keys /\ route \in [Octets -> Keys \cup {NoKey}]
      /\ NoKey \notin Keys
      /\ \A j \in Keys : Active(j) => peers[j].ip \in Octets
  <2>1. \A j \in Keys : Active(j) => peers[j].ip \in Octets
    BY ZoneOctets DEF OneInv, ServiceInv, StoreInv, ActiveAddressesDistinct
  <2>. QED
    BY <2>1, ServiceAssumption DEF OneInv, OutsideTypeOK, Wg!WgTypeOK, ServiceInv, StoreInv,
       StoreTypeOK
<1>1. Within /\ RequestFits(self)
  BY <1>0, MishapsGrow DEF OneInv, Spared
<1>2. CASE CreatePeer(self)
  <2>1. PICK j \in Keys \ used, r \in Roles, u \in Users \cup {NoUser} :
            /\ AllocateAndInsertPeer(j, r, u)
            /\ req' = [req EXCEPT ![self] =
                          [IdleReq EXCEPT !.pc = "apply", !.key = j, !.ip = peers'[j].ip]]
    BY <1>2 DEF CreatePeer
  <2>2. \A o : /\ [IdleReq EXCEPT !.pc = "apply", !.key = j, !.ip = o].pc = "apply"
               /\ [IdleReq EXCEPT !.pc = "apply", !.key = j, !.ip = o].key = j
    BY DEF IdleReq
  <2>3. k # j
    BY <1>0, <2>1, <2>2 DEF Changing
  <2>4. peers'[k] = peers[k] /\ live' = live /\ route' = route
    BY <1>0, <1>2, <2>1, <2>3 DEF CreatePeer, AllocateAndInsertPeer, wgVars
  <2>5. ~Changing(self, k)
    BY <1>2 DEF CreatePeer, At, Changing
  <2>. QED
    BY <2>4, <2>5, CurrentStays DEF Active
<1>3. CASE ApplyPeer(self)
  <2>1. PICK j \in Keys : j = req[self].key
    BY <1>0, <1>3 DEF ApplyPeer, At, RequestOK, Creating
  <2>2. Active(j) /\ peers[j].ip = req[self].ip /\ peers[j].ip \in Octets
    BY <1>0, <1>1, <1>3, <2>1 DEF ApplyPeer, At, RequestFits
  <2>3. /\ live' = live \cup {j}
        /\ route' = [a \in Octets |-> IF a = peers[j].ip THEN j
                                      ELSE IF route[a] = j THEN NoKey ELSE route[a]]
        /\ peers' = peers
    BY <1>3, <2>1, <2>2 DEF ApplyPeer, Wg!ApplyPeerLive, storeVars
  <2>4. CASE k = j
    BY <2>2, <2>3, <2>4 DEF Current, Active
  <2>5. CASE k # j
    <3>1. Current(k)
      BY <2>1, <2>5 DEF Changing
    <3>2. Active(k) => peers[k].ip # peers[j].ip
      BY <2>2, <2>5 DEF OneInv, ServiceInv, StoreInv, ActiveAddressesDistinct
    <3>3. Active(k) => route'[peers[k].ip] = route[peers[k].ip]
      BY <1>0, <2>3, <2>5, <3>1, <3>2 DEF Current
    <3>. QED
      BY <2>3, <2>5, <3>1, <3>3, CurrentStays DEF Active
  <2>. QED
    BY <2>4, <2>5
<1>4. CASE RollBack(self)
  <2>1. PICK j \in Keys : j = req[self].key /\ Off(j)
    BY <1>0, <1>1, <1>4 DEF RollBack, At, RequestOK, Creating, RequestFits
  <2>2. peers' = [peers EXCEPT ![j] = NoRow] /\ live' = live /\ route' = route
    BY <1>4, <2>1 DEF RollBack, DeletePeerByPublicKey, wgVars
  <2>3. CASE k = j
    BY <1>0, <2>1, <2>2, <2>3 DEF Current, Active, NoRow, Off
  <2>4. CASE k # j
    <3>1. Current(k) /\ peers'[k] = peers[k]
      BY <1>0, <2>1, <2>2, <2>4 DEF Changing
    <3>. QED
      BY <2>2, <3>1, CurrentStays DEF Active
  <2>. QED
    BY <2>3, <2>4
<1>5. CASE MarkRow(self)
  <2>1. PICK j \in Keys : /\ j = req[self].key /\ Off(j) /\ Stored(j)
                          /\ peers[j].id = req[self].id
    BY <1>0, <1>1, <1>5 DEF MarkRow, At, RequestOK, RequestFits
  <2>2. /\ peers' = [i \in Keys |->
              IF Stored(i) /\ peers[i].id = req[self].id
              THEN [peers[i] EXCEPT !.status = "revoked", !.ip = Released, !.config = FALSE]
              ELSE peers[i]]
        /\ live' = live /\ route' = route
    BY <1>5 DEF MarkRow, MarkRevoked, wgVars
  <2>3. CASE k = j
    <3>1. peers'[k].status = "revoked"
      BY <1>0, <2>1, <2>2, <2>3 DEF Row
    <3>. QED
      BY <2>1, <2>2, <2>3, <3>1 DEF Current, Active, Off
  <2>4. CASE k # j
    <3>1. Stored(k) => peers[k].id # req[self].id
      BY <2>1, <2>4 DEF OneInv, ServiceInv, StoreInv, IdsAssigned
    <3>2. Current(k) /\ peers'[k] = peers[k]
      BY <2>1, <2>2, <2>4, <3>1 DEF Changing
    <3>. QED
      BY <2>2, <3>2, CurrentStays DEF Active
  <2>. QED
    BY <2>3, <2>4
<1>6. ASSUME NEW j \in Keys, RevokePeer(self, j) PROVE Current(k)'
  <2>1. [IdleReq EXCEPT !.pc = "find", !.key = j].pc = "find"
        /\ [IdleReq EXCEPT !.pc = "find", !.key = j].key = j
    BY DEF IdleReq
  <2>2. k # j
    BY <1>0, <1>6, <2>1 DEF RevokePeer, Changing
  <2>3. /\ peers' = peers /\ live' = live \ {j}
        /\ route' = [a \in Octets |-> IF route[a] = j THEN NoKey ELSE route[a]]
    BY <1>6 DEF RevokePeer, Wg!RemovePeerLive, storeVars
  <2>4. Current(k)
    BY <1>6 DEF RevokePeer, At, Changing
  <2>5. Active(k) => route'[peers[k].ip] = route[peers[k].ip]
    BY <1>0, <2>2, <2>3, <2>4 DEF Current
  <2>. QED
    BY <2>2, <2>3, <2>4, <2>5, CurrentStays DEF Active
<1>7. CASE FindRow(self)
  <2>1. /\ peers' = peers /\ live' = live /\ route' = route /\ req[self].pc = "find"
        /\ req[self].key \in Keys /\ Off(req[self].key)
    BY <1>0, <1>1, <1>7 DEF FindRow, storeVars, wgVars, At, RequestOK, RequestFits
  <2>2. CASE k = req[self].key
    <3>1. ~Stored(k)
      <4>1. Stored(k) => req'[self].pc = "mark" /\ req'[self].key = k
        BY <1>0, <1>7, <2>2 DEF FindRow, Request
      <4>. QED
        BY <4>1 DEF Changing
    <3>. QED
      BY <2>1, <2>2, <3>1 DEF Current, Active, Stored, Off
  <2>3. CASE k # req[self].key
    <3>1. Current(k)
      BY <2>3 DEF Changing
    <3>. QED
      BY <2>1, <3>1, CurrentStays DEF Active
  <2>. QED
    BY <2>2, <2>3
<1>8. CASE ClaimCommit(self)
  <2>1. PICK j \in Keys : peers' = [peers EXCEPT ![j].owner = req[self].user]
    BY <1>8 DEF ClaimCommit, ClaimAccount, ClaimPeer
  <2>2. peers'[k].status = peers[k].status /\ peers'[k].ip = peers[k].ip
    BY <1>0, <2>1 DEF Row
  <2>3. Current(k) /\ live' = live /\ route' = route
    BY <1>8 DEF ClaimCommit, wgVars, At, Changing
  <2>. QED
    BY <2>2, <2>3, CurrentStays DEF Active
<1>9. CASE ApplyFails(self)
  <2>1. /\ peers' = peers /\ live' = live /\ route' = route /\ req[self].pc = "apply"
        /\ req'[self].pc = "rollback" /\ req'[self].key = req[self].key
    BY <1>0, <1>9 DEF ApplyFails, At, Goto, Request, storeVars, wgVars
  <2>2. Current(k)
    BY <2>1 DEF Changing
  <2>. QED
    BY <2>1, <2>2, CurrentStays DEF Active
<1>10. ASSUME \/ LogCreated(self) \/ LogRevoked(self) \/ LogFails(self) \/ ReadPeers(self)
              \/ ReadFails(self) \/ ReadPartly(self) \/ WriteTmp(self) \/ ReplaceConf(self)
              \/ SyncFails(self) \/ ClaimRefused(self) \/ \E u \in Users : ClaimStart(self, u)
       PROVE  Current(k)'
  <2>1. peers' = peers /\ live' = live /\ route' = route
    BY <1>10 DEF LogCreated, LogRevoked, LogFails, ReadPeers, ReadFails, ReadPartly, WriteTmp,
       ReplaceConf, SyncFails, ClaimRefused, ClaimStart, AddPeerEvent, storeVars, wgVars
  <2>2. req[self].pc \in {"logcreate", "logrevoke", "read", "sync", "claim", "idle"}
    BY <1>10 DEF LogCreated, LogRevoked, LogFails, ReadPeers, ReadFails, ReadPartly, WriteTmp,
       ReplaceConf, SyncFails, ClaimRefused, ClaimStart, At
  <2>. QED
    BY <2>1, <2>2, CurrentStays DEF Active, Changing
<1>11. CASE \E u \in Users : CreateUser(u)
  <2>1. peers' = peers /\ live' = live /\ route' = route /\ req' = req
    BY <1>11 DEF CreateUser, InsertUser, wgVars
  <2>. QED
    BY <2>1, CurrentStays DEF Active, Changing
<1>12. ASSUME RowFails(self) \/ Crash \/ Reload PROVE FALSE
  BY <1>12 DEF RowFails, Crash, Reload, Mishap, Remembered, Spared
<1>. QED
  BY <1>2, <1>3, <1>4, <1>5, <1>6, <1>7, <1>8, <1>9, <1>10, <1>11, <1>12 DEF Next, Step

\* With one request at a time, the interface serves exactly the active peers, each at
\* its address, whenever no request is under way: a creation that failed at the
\* interface has been undone in the table.
THEOREM InterfaceFollowsTable ==
    ASSUME NEW self, Procs = {self}
    PROVE  Spec => []QuietInterfaceCurrent
<1>1. Init => OneInv
  BY OneInvInit
<1>2. Init => CurrentInv
  <2>1. Init => live = {} /\ \A k \in Keys : peers[k] = NoRow
    BY DEF Init, StoreInit, Wg!WgInit
  <2>2. NoRow.status # "active"
    BY DEF NoRow
  <2>. QED
    BY <2>1, <2>2 DEF CurrentInv, Current, Active
<1>3. OneInv /\ [Next]_vars => OneInv'
  BY OneInvStep
<1>4. OneInv /\ CurrentInv /\ [Next]_vars => CurrentInv'
  <2>. SUFFICES ASSUME OneInv, CurrentInv, [Next]_vars,
                       Spared({"row", "crash", "reload"})'
                PROVE  \A k \in Keys : Current(k)' \/ Changing(self, k)'
    BY DEF CurrentInv
  <2>1. \A k \in Keys : Current(k) \/ Changing(self, k)
    BY MishapsGrow DEF CurrentInv, Spared
  <2>2. CASE UNCHANGED vars
    BY <2>1, <2>2 DEF vars, storeVars, wgVars, Current, Changing, Active
  <2>. QED
    BY <2>1, <2>2, CurrentStep
<1>5. CurrentInv => QuietInterfaceCurrent
  BY DEF CurrentInv, Current, Changing, QuietInterfaceCurrent, Quiet, At
<1>. QED
  BY <1>1, <1>2, <1>3, <1>4, <1>5, PTL DEF Spec

\* With one request at a time, the caller whose claim passes the checks is the device
\* the peer's key was made for: the interface routes its address to that key.
THEOREM OwnDeviceClaims ==
    ASSUME NEW self, Procs = {self}
    PROVE  Spec => ClaimedByItsOwnDevice
<1>1. Init => OneInv
  BY OneInvInit
<1>2. OneInv /\ [Next]_vars => OneInv'
  BY OneInvStep
<1>3. OneInv /\ [Next]_vars =>
         [\A p \in Procs :
            Spared({"reload"}) /\ At(p, "idle") /\ req'[p].pc = "claim" =>
                route[req'[p].ip] = req'[p].key]_vars
  <2>. SUFFICES ASSUME OneInv, Next, Spared({"reload"}), At(self, "idle"),
                       req'[self].pc = "claim"
                PROVE  route[req'[self].ip] = req'[self].key
    OBVIOUS
  <2>0. self \in Procs /\ req \in [Procs -> Request] /\ Within
        /\ route \in [Octets -> Keys \cup {NoKey}]
    BY DEF OneInv, ServiceInv, OutsideTypeOK, Wg!WgTypeOK
  <2>1. \E u \in Users : ClaimStart(self, u)
    <3>1. ~Step(self)
      BY DEF Step, ApplyPeer, ApplyFails, RollBack, LogCreated, FindRow, MarkRow, LogRevoked,
         RowFails, LogFails, ReadPeers, ReadFails, ReadPartly, WriteTmp, ReplaceConf,
         SyncFails, ClaimCommit, ClaimRefused, At
    <3>2. ASSUME CreatePeer(self) \/ \E k \in Keys : RevokePeer(self, k) PROVE FALSE
      <4>1. \A k, o : /\ [IdleReq EXCEPT !.pc = "apply", !.key = k, !.ip = o].pc = "apply"
                      /\ [IdleReq EXCEPT !.pc = "find", !.key = k].pc = "find"
        BY DEF IdleReq
      <4>2. ASSUME CreatePeer(self) PROVE FALSE
        BY <2>0, <4>1, <4>2 DEF CreatePeer
      <4>3. ASSUME NEW k \in Keys, RevokePeer(self, k) PROVE FALSE
        BY <2>0, <4>1, <4>3 DEF RevokePeer
      <4>. QED
        BY <3>2, <4>2, <4>3
    <3>3. ASSUME (\E u \in Users : CreateUser(u)) \/ Crash \/ Reload PROVE FALSE
      BY <2>0, <3>3, IdleIsRequest DEF CreateUser, Crash, Reload, At
    <3>. QED
      BY <3>1, <3>2, <3>3 DEF Next
  <2>2. PICK u \in Users, k \in Keys, o \in Octets :
            /\ route[o] # NoKey
            /\ HoldsAddress(k, o)
            /\ req' = [req EXCEPT ![self] = [pc |-> "claim", key |-> k, ip |-> o,
                                            id |-> peers[k].id, user |-> u]]
    BY <2>1 DEF ClaimStart
  <2>3. req'[self].key = k /\ req'[self].ip = o
    BY <2>0, <2>2
  <2>4. route[o] \in Keys /\ HoldsAddress(route[o], o)
    BY <2>0, <2>2 DEF Within
  <2>5. route[o] = k
    BY <2>2, <2>4 DEF HoldsAddress, OneInv, ServiceInv, StoreInv, ActiveAddressesDistinct
  <2>. QED
    BY <2>3, <2>5
<1>. QED
  BY <1>1, <1>2, <1>3, PTL DEF Spec, ClaimedByItsOwnDevice

\* A row keeps its owner, unless the creation that made it is undone.
LEMMA OwnerStays ==
    ASSUME ServiceInv, Next, NEW k \in Keys, peers[k].owner # NoUser,
           \A p \in Procs : req[p].pc \in {"apply", "rollback"} => req[p].key # k
    PROVE  peers'[k].owner = peers[k].owner
<1>0. peers \in [Keys -> Row] /\ Stored(k)
  BY StoreAssumption DEF ServiceInv, StoreInv, StoreTypeOK, AbsentIsNoRow, NoRow
<1>1. ASSUME NEW p \in Procs, CreatePeer(p) PROVE peers'[k] = peers[k]
  BY <1>0, <1>1 DEF CreatePeer, AllocateAndInsertPeer
<1>2. ASSUME NEW p \in Procs, RollBack(p) PROVE peers'[k] = peers[k]
  BY <1>0, <1>2 DEF RollBack, DeletePeerByPublicKey, At
<1>3. ASSUME NEW p \in Procs, MarkRow(p) PROVE peers'[k].owner = peers[k].owner
  BY <1>0, <1>3 DEF MarkRow, MarkRevoked, Row
<1>4. ASSUME NEW p \in Procs, ClaimCommit(p) PROVE peers'[k] = peers[k]
  <2>1. PICK j \in Keys : /\ peers[j].owner = NoUser
                          /\ peers' = [peers EXCEPT ![j].owner = req[p].user]
    BY <1>4 DEF ClaimCommit, ClaimAccount, ClaimPeer
  <2>. QED
    BY <1>0, <2>1
<1>5. ASSUME NEW p \in Procs,
             \/ ApplyPeer(p) \/ ApplyFails(p) \/ LogCreated(p) \/ FindRow(p) \/ LogRevoked(p)
             \/ RowFails(p) \/ LogFails(p) \/ ReadPeers(p) \/ ReadFails(p) \/ ReadPartly(p)
             \/ WriteTmp(p) \/ ReplaceConf(p) \/ SyncFails(p) \/ ClaimRefused(p)
             \/ (\E j \in Keys : RevokePeer(p, j)) \/ (\E u \in Users : ClaimStart(p, u))
      PROVE  peers' = peers
  BY <1>5 DEF ApplyPeer, ApplyFails, LogCreated, FindRow, LogRevoked, RowFails, LogFails,
     ReadPeers, ReadFails, ReadPartly, WriteTmp, ReplaceConf, SyncFails, ClaimRefused,
     RevokePeer, ClaimStart, AddPeerEvent, storeVars
<1>6. ASSUME (\E u \in Users : CreateUser(u)) \/ Crash \/ Reload PROVE peers' = peers
  BY <1>6 DEF CreateUser, InsertUser, Crash, Reload, storeVars
<1>. QED
  BY <1>1, <1>2, <1>3, <1>4, <1>5, <1>6 DEF Next, Step

\* Only a new key comes into the part of a creation that may be undone.
LEMMA UndoneIsNew ==
    ASSUME NEW self, Procs = {self}, ServiceInv, Next, NEW k \in Keys, Stored(k),
           req[self].pc \in {"apply", "rollback"} => req[self].key # k,
           req'[self].pc \in {"apply", "rollback"}
    PROVE  req'[self].key # k
<1>0. self \in Procs /\ req \in [Procs -> Request]
  BY DEF ServiceInv
<1>1. CASE CreatePeer(self)
  <2>1. PICK j \in Keys, r \in Roles, u \in Users \cup {NoUser} :
            /\ AllocateAndInsertPeer(j, r, u)
            /\ req' = [req EXCEPT ![self] =
                          [IdleReq EXCEPT !.pc = "apply", !.key = j, !.ip = peers'[j].ip]]
    BY <1>1 DEF CreatePeer
  <2>2. \A o : [IdleReq EXCEPT !.pc = "apply", !.key = j, !.ip = o].key = j
    BY DEF IdleReq
  <2>3. req'[self].key = j /\ j # k
    BY <1>0, <2>1, <2>2 DEF AllocateAndInsertPeer
  <2>. QED
    BY <2>3
<1>2. CASE ApplyFails(self)
  BY <1>0, <1>2 DEF ApplyFails, At, Goto, Request
<1>3. ASSUME Step(self), ~ApplyFails(self), req' # req PROVE FALSE
  BY <1>0, <1>3, IdleIsRequest DEF Step, ApplyPeer, RollBack, LogCreated, FindRow, MarkRow,
     LogRevoked, RowFails, LogFails, ReadPeers, ReadFails, ReadPartly, WriteTmp, ReplaceConf,
     SyncFails, ClaimCommit, ClaimRefused, Goto, Reply, Request
<1>4. ASSUME NEW j \in Keys, RevokePeer(self, j) PROVE FALSE
  <2>1. [IdleReq EXCEPT !.pc = "find", !.key = j].pc = "find"
    BY DEF IdleReq
  <2>. QED
    BY <1>0, <1>4, <2>1 DEF RevokePeer
<1>5. ASSUME NEW u \in Users, ClaimStart(self, u) PROVE FALSE
  BY <1>0, <1>5 DEF ClaimStart
<1>6. ASSUME Crash \/ Reload \/ \E u \in Users : CreateUser(u)
      PROVE  req' = req
  BY <1>0, <1>6, IdleIsRequest DEF Crash, Reload, CreateUser
<1>7. CASE req' = req
  BY <1>7
<1>. QED
  BY <1>1, <1>2, <1>3, <1>4, <1>5, <1>6, <1>7 DEF Next

\* With one request at a time, an account that a claim creates has the claimed peer with
\* it, and no account that has a peer is ever left without one, whatever is revoked or
\* undone, fails or stops.
THEOREM ClaimantsKeepPeers ==
    ASSUME NEW self, Procs = {self}
    PROVE  Spec => ClaimantsOwnPeers
<1>1. ServiceInv /\ [Next]_vars =>
         [\A u \in users' : OwnsPeer(u)' \/ CreateUser(u) \/ (u \in users /\ ~OwnsPeer(u))]_vars
  <2>. SUFFICES ASSUME ServiceInv, Next, NEW u \in users', ~CreateUser(u),
                       u \in users => OwnsPeer(u)
                PROVE  OwnsPeer(u)'
    OBVIOUS
  <2>0. /\ self \in Procs /\ req \in [Procs -> Request] /\ peers \in [Keys -> Row]
        /\ users \in SUBSET Users /\ NoUser \notin Users
    BY StoreAssumption DEF ServiceInv, StoreInv, StoreTypeOK
  <2>1. CASE u \in users
    <3>1. PICK k \in Keys :
              /\ peers[k].owner = u
              /\ \A p \in Procs : req[p].pc \in {"apply", "rollback"} => req[p].key # k
      BY <2>1 DEF OwnsPeer
    <3>2. Stored(k) /\ peers[k].owner # NoUser
      BY <2>0, <2>1, <3>1 DEF ServiceInv, StoreInv, AbsentIsNoRow, NoRow
    <3>3. peers'[k].owner = u
      BY <3>1, <3>2, OwnerStays
    <3>4. req'[self].pc \in {"apply", "rollback"} => req'[self].key # k
      BY <2>0, <3>1, <3>2, UndoneIsNew
    <3>. QED
      BY <3>3, <3>4 DEF OwnsPeer
  <2>2. CASE u \notin users
    <3>1. ClaimCommit(self) /\ req[self].user = u
      <4>1. ASSUME ~ClaimCommit(self), \A v \in Users : ~CreateUser(v) PROVE users' = users
        BY <4>1 DEF Next, Step, CreatePeer, AllocateAndInsertPeer, ApplyPeer, ApplyFails,
           RollBack, DeletePeerByPublicKey, LogCreated, RevokePeer, FindRow, MarkRow,
           MarkRevoked, LogRevoked, RowFails, LogFails, ReadPeers, ReadFails, ReadPartly,
           WriteTmp, ReplaceConf, SyncFails, ClaimStart, ClaimRefused, Crash, Reload,
           AddPeerEvent, storeVars
      <4>2. ASSUME NEW v \in Users, CreateUser(v) PROVE v = u
        BY <2>2, <4>2 DEF CreateUser, InsertUser
      <4>3. ClaimCommit(self)
        BY <2>2, <4>1, <4>2
      <4>. QED
        BY <2>2, <4>3 DEF ClaimCommit, ClaimAccount
    <3>2. PICK k \in Keys : peers' = [peers EXCEPT ![k].owner = u]
      BY <3>1 DEF ClaimCommit, ClaimAccount, ClaimPeer
    <3>3. peers'[k].owner = u
      BY <2>0, <3>2 DEF Row
    <3>4. req'[self].pc = "idle"
      BY <2>0, <3>1, IdleIsRequest DEF ClaimCommit, Reply
    <3>. QED
      BY <3>3, <3>4 DEF OwnsPeer
  <2>. QED
    BY <2>1, <2>2
<1>. QED
  BY <1>1, ServiceInvariance, PTL DEF Spec, ClaimantsOwnPeers
-----------------------------------------------------------------------------
\* A step at whose ends no creation is about to change the interface, and that generates
\* no key pair, leaves what may still be entered as it is.
LEMMA EnterableStays ==
    ASSUME NEW self, Procs = {self}, req[self].pc # "apply", req'[self].pc # "apply",
           used' = used
    PROVE  Enterable' = Enterable
BY DEF Enterable, At

\* The key of a creation that leaves the interface behind can be entered no more.
LEMMA EnterableEnds ==
    ASSUME NEW self, Procs = {self}, OneInv, req'[self].pc # "apply", used' = used
    PROVE  Enterable' = Enterable \ used
<1>1. /\ Enterable' = Keys \ used
      /\ Enterable = (Keys \ used) \cup
                        {k \in Keys : req[self].pc = "apply" /\ req[self].key = k}
  BY DEF Enterable, At
<1>2. req[self].pc = "apply" => req[self].key \in used
  BY DEF OneInv, ServiceInv, RequestOK, Creating
<1>. QED
  BY <1>1, <1>2

\* The steps after which a creation is about to change the interface: its first, and those
\* of nobody's request.
LEMMA ApplyNext ==
    ASSUME NEW self, Procs = {self}, req \in [Procs -> Request], Next,
           req'[self].pc = "apply"
    PROVE  CreatePeer(self) \/ req' = req
<1>1. ASSUME Step(self) PROVE req' = req
  <2>1. \/ req'[self].pc \in {"logcreate", "rollback", "idle", "read", "mark", "logrevoke", "sync"}
        \/ req' = req
    BY <1>1, IdleIsRequest DEF Step, ApplyPeer, ApplyFails, RollBack, LogCreated, FindRow,
       MarkRow, LogRevoked, RowFails, LogFails, ReadPeers, ReadFails, ReadPartly, WriteTmp,
       ReplaceConf, SyncFails, ClaimCommit, ClaimRefused, Goto, Reply, Request
  <2>. QED
    BY <2>1
<1>2. ASSUME NEW k \in Keys, RevokePeer(self, k) PROVE FALSE
  BY <1>2, IdleIsRequest DEF RevokePeer, IdleReq
<1>3. ASSUME NEW u \in Users, ClaimStart(self, u) PROVE FALSE
  BY <1>3 DEF ClaimStart
<1>4. ASSUME Crash \/ Reload \/ \E u \in Users : CreateUser(u) PROVE req' = req
  BY <1>4, IdleIsRequest DEF Crash, Reload, CreateUser
<1>. QED
  BY <1>1, <1>2, <1>3, <1>4 DEF Next

\* The address a creation asks the interface for is one of the subnet.
AddressInv == \A p \in Procs : req[p].pc = "apply" => req[p].ip \in Octets

LEMMA AddressStep ==
    ASSUME NEW self, Procs = {self}, OneInv, AddressInv, [Next]_vars
    PROVE  AddressInv'
<1>0. self \in Procs /\ req \in [Procs -> Request] /\ peers \in [Keys -> Row]
  BY DEF OneInv, ServiceInv, StoreInv, StoreTypeOK
<1>. SUFFICES ASSUME req'[self].pc = "apply" PROVE req'[self].ip \in Octets
  BY DEF AddressInv
<1>1. CASE req' = req
  BY <1>1 DEF AddressInv
<1>2. CASE CreatePeer(self)
  <2>1. PICK k \in Keys \ used, r \in Roles, u \in Users \cup {NoUser} :
            /\ AllocateAndInsertPeer(k, r, u)
            /\ req' = [req EXCEPT ![self] =
                          [IdleReq EXCEPT !.pc = "apply", !.key = k, !.ip = peers'[k].ip]]
    BY <1>2 DEF CreatePeer
  <2>2. peers'[k].ip \in Octets
    BY <1>0, <2>1 DEF AllocateAndInsertPeer
  <2>. QED
    BY <1>0, <2>1, <2>2 DEF IdleReq
<1>. QED
  BY <1>0, <1>1, <1>2, ApplyNext DEF vars

\* A creation enters its key in a line of the book that is empty, unless the interface
\* was loaded from a file: the table would not have given the address away before.
LEMMA ApplyAdmits ==
    ASSUME NEW self, Procs = {self}, OneInv, AddressInv, ApplyPeer(self)
    PROVE  \E k \in Keys, o \in Octets : Bk!Admit(k, o)
<1>0. /\ self \in Procs /\ req \in [Procs -> Request] /\ RequestOK(self)
      /\ route \in [Octets -> Keys \cup {NoKey}] /\ NoKey \notin Keys
      /\ used \in SUBSET Keys /\ ActiveAddressesDistinct
  BY ServiceAssumption DEF OneInv, ServiceInv, OutsideTypeOK, Wg!WgTypeOK, StoreInv
<1>1. /\ req[self].pc = "apply" /\ req'[self].pc = "logcreate"
      /\ used' = used /\ mishaps' = mishaps
  BY <1>0 DEF ApplyPeer, At, Goto, Request
<1>2. PICK k \in Keys, o \in Octets : k = req[self].key /\ o = req[self].ip /\ k \in used
  BY <1>0, <1>1 DEF RequestOK, Creating, AddressInv
<1>3. Enterable = (Keys \ used) \cup {k} /\ Enterable' = Enterable \ {k}
  BY <1>0, <1>1, <1>2 DEF Enterable, At
<1>4. route' = [[a \in Octets |-> IF route[a] = k THEN NoKey ELSE route[a]] EXCEPT ![o] = k]
  BY <1>0, <1>2 DEF ApplyPeer, Wg!ApplyPeerLive
<1>5. ASSUME "reload" \notin mishaps
      PROVE  /\ route[o] = NoKey
             /\ route = [a \in Octets |-> IF route[a] = k THEN NoKey ELSE route[a]]
  <2>1. Within /\ RequestFits(self)
    BY <1>0, <1>5 DEF OneInv, Spared
  <2>2. Active(k) /\ peers[k].ip = o /\ Off(k)
    BY <1>1, <1>2, <2>1 DEF RequestFits
  <2>3. route[o] = NoKey
    BY <1>0, <1>2, <2>1, <2>2 DEF Within, HoldsAddress, Off, ActiveAddressesDistinct
  <2>. QED
    BY <1>0, <2>2, <2>3 DEF Off
<1>6. Bk!Admit(k, o)
  BY <1>1, <1>2, <1>3, <1>4, <1>5 DEF Bk!Admit, Bk!Without
<1>. QED
  BY <1>6

\* Loading wg0.conf enters a key at the address of its [Peer] block only.
LEMMA ReloadLoads ==
    ASSUME NEW self, Procs = {self}, req \in [Procs -> Request], OutsideTypeOK', Reload
    PROVE  Bk!Load
<1>1. route' \in [Octets -> Keys \cup {NoKey}] /\ NoKey \notin Keys
  BY ServiceAssumption DEF OutsideTypeOK, Wg!WgTypeOK
<1>2. ASSUME NEW a \in Octets, route'[a] # NoKey
      PROVE  conf.blocks[route'[a]] = a
  BY <1>2 DEF Reload, Wg!LoadPeers
<1>3. Bk!EnteredOnce(route')
  BY <1>2 DEF Bk!EnteredOnce
<1>4. Enterable' = Enterable /\ "reload" \in mishaps'
  BY DEF Reload, Enterable, At, Mishap, Remembered
<1>. QED
  BY <1>1, <1>3, <1>4 DEF Bk!Load

\* Every step of the service is one of the book, or does not touch it.
LEMMA BookStep ==
    ASSUME NEW self, Procs = {self}, OneInv, OneInv', AddressInv, [Next]_vars
    PROVE  [Bk!BookNext]_(Bk!bookVars)
<1>0. /\ self \in Procs /\ req \in [Procs -> Request] /\ used \in SUBSET Keys
      /\ OutsideTypeOK'
  BY DEF OneInv, ServiceInv
<1>1. CASE UNCHANGED vars
  BY <1>1 DEF vars, wgVars, Bk!bookVars, Enterable, At
<1>2. CASE CreatePeer(self)
  <2>1. PICK k \in Keys \ used : used' = used \cup {k} /\ \E i :
            req' = [req EXCEPT ![self] = [IdleReq EXCEPT !.pc = "apply", !.key = k, !.ip = i]]
    BY <1>2 DEF CreatePeer
  <2>2. req'[self].pc = "apply" /\ req'[self].key = k /\ req[self].pc = "idle"
    BY <1>0, <1>2, <2>1 DEF IdleReq, CreatePeer, At
  <2>3. Enterable' = Enterable
    BY <2>1, <2>2 DEF Enterable, At
  <2>. QED
    BY <1>2, <2>3 DEF CreatePeer, wgVars, Bk!bookVars
<1>3. CASE ApplyPeer(self)
  BY <1>3, ApplyAdmits DEF Bk!BookNext
<1>4. ASSUME ApplyFails(self) \/ Crash
      PROVE  Bk!BookNext
  <2>1. req'[self].pc # "apply" /\ used' = used /\ route' = route
    BY <1>0, <1>4, IdleIsRequest DEF ApplyFails, Crash, Goto, wgVars, Request
  <2>2. ("reload" \in mishaps') <=> ("reload" \in mishaps)
    BY <1>4 DEF ApplyFails, Crash, Mishap
  <2>3. Bk!Discard(used)
    BY <2>1, <2>2, EnterableEnds DEF Bk!Discard
  <2>. QED
    BY <1>0, <2>3 DEF Bk!BookNext
<1>5. ASSUME NEW k \in Keys, RevokePeer(self, k)
      PROVE  Bk!BookNext
  <2>1. req'[self].pc = "find" /\ req[self].pc = "idle" /\ used' = used /\ mishaps' = mishaps
    BY <1>0, <1>5 DEF RevokePeer, IdleReq, At
  <2>2. Enterable' = Enterable
    BY <2>1, EnterableStays
  <2>3. Bk!Expel(k)
    BY <1>5, <2>1, <2>2 DEF Bk!Expel, Bk!Without, RevokePeer, Wg!RemovePeerLive
  <2>. QED
    BY <2>3 DEF Bk!BookNext
<1>6. CASE Reload
  BY <1>0, <1>6, ReloadLoads DEF Bk!BookNext
<1>7. ASSUME \/ RollBack(self) \/ LogCreated(self) \/ FindRow(self) \/ MarkRow(self)
             \/ LogRevoked(self) \/ RowFails(self) \/ LogFails(self) \/ ReadPeers(self)
             \/ ReadFails(self) \/ ReadPartly(self) \/ WriteTmp(self) \/ ReplaceConf(self)
             \/ SyncFails(self) \/ ClaimCommit(self) \/ ClaimRefused(self)
             \/ \E u \in Users : ClaimStart(self, u) \/ CreateUser(u)
      PROVE  UNCHANGED Bk!bookVars
  <2>1. used' = used /\ route' = route
    BY <1>7 DEF RollBack, LogCreated, FindRow, MarkRow, LogRevoked, RowFails, LogFails,
       ReadPeers, ReadFails, ReadPartly, WriteTmp, ReplaceConf, SyncFails, ClaimCommit,
       ClaimRefused, ClaimStart, CreateUser, wgVars
  <2>2. ("reload" \in mishaps') <=> ("reload" \in mishaps)
    BY <1>7 DEF RollBack, LogCreated, FindRow, MarkRow, LogRevoked, RowFails, LogFails,
       ReadPeers, ReadFails, ReadPartly, WriteTmp, ReplaceConf, SyncFails, ClaimCommit,
       ClaimRefused, ClaimStart, CreateUser, Mishap
  <2>3. CASE req' = req
    BY <2>1, <2>2, <2>3 DEF Bk!bookVars, Enterable, At
  <2>4. CASE req' # req
    <3>1. req'[self].pc # "apply"
      <4>1. Next /\ ~CreatePeer(self)
        BY <1>0, <1>7, <2>1, <2>4 DEF Next, Step, CreatePeer
      <4>. QED
        BY <1>0, <2>4, <4>1, ApplyNext
    <3>2. req[self].pc # "apply"
      BY <1>7, <2>4 DEF RollBack, LogCreated, FindRow, MarkRow, LogRevoked, RowFails, LogFails,
         ReadPeers, ReadFails, ReadPartly, WriteTmp, ReplaceConf, SyncFails, ClaimCommit,
         ClaimRefused, ClaimStart, CreateUser, At
    <3>. QED
      BY <2>1, <2>2, <3>1, <3>2, EnterableStays DEF Bk!bookVars
  <2>. QED
    BY <2>3, <2>4
<1>. QED
  BY <1>1, <1>2, <1>3, <1>4, <1>5, <1>6, <1>7 DEF Next, Step

\* With one request at a time, the interface is the book of PeerBook, whatever fails and
\* wherever the process stops: nobody's address goes to another device, and no key that
\* was revoked or whose creation failed comes back, unless a file is loaded.
THEOREM ServiceKeepsBook ==
    ASSUME NEW self, Procs = {self}
    PROVE  Spec => BookSpec
<1>1. Init => OneInv /\ AddressInv
  BY OneInvInit, IdleIsRequest DEF Init, AddressInv
<1>2. OneInv /\ AddressInv /\ [Next]_vars => OneInv' /\ AddressInv'
  BY OneInvStep, AddressStep
<1>3. Init => Bk!BookInit
  BY IdleIsRequest DEF Init, Wg!WgInit, Bk!BookInit, Enterable, At
<1>4. OneInv /\ OneInv' /\ AddressInv /\ [Next]_vars => [Bk!BookNext]_(Bk!bookVars)
  BY BookStep
<1>. QED
  BY <1>1, <1>2, <1>3, <1>4, PTL DEF Spec, BookSpec, Bk!BookSpec
=============================================================================
