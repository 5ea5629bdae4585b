----------------------------- MODULE PeerService -----------------------------
(***************************************************************************)
(* The requests that create, revoke and claim peers (services/             *)
(* peers.service.go, services/users.service.go), run by net/http on one    *)
(* goroutine each, over the tables (PeerStore), the live interface         *)
(* (WgInterface) and the generated file (ConfigFile).                      *)
(*                                                                         *)
(* Nothing but the single database connection orders two requests, so a    *)
(* step here is one statement or transaction, one change of the interface, *)
(* or one system call on the file.  req[p] is where request p is and its   *)
(* local variables.  A request that is refused before it changes anything  *)
(* (validation, a full zone, an interface that does not answer a revoke)   *)
(* is a stuttering step.                                                   *)
(*                                                                         *)
(* Faults says what may fail: "kernel" the change of the interface for a   *)
(* creation, "row" a statement on peers, "log" the insert of an event,     *)
(* "sync" a step of SyncWgConfig; "crash" the process stops, and is        *)
(* started again, "reload" the interface is loaded from wg0.conf (wg-quick *)
(* at boot, or wg syncconf).  mishaps is the history of those that did and *)
(* that a property below makes an exception for.                           *)
(***************************************************************************)
EXTENDS PeerStore

CONSTANTS
    Procs,          \* request slots of the HTTP server
    NoKey,          \* no public key
    Faults          \* what may go wrong

Remembered == {"row", "sync", "crash", "reload"}
FaultKinds == Remembered \cup {"kernel", "log"}

ASSUME ServiceAssumption ==
    /\ NoKey \notin Keys
    /\ Faults \in SUBSET FaultKinds

VARIABLES
    live, route,                    \* of WgInterface
    tmp, conf, step, snap, at,      \* of ConfigFile
    req,                            \* the requests
    used,                           \* key pairs generated so far
    mishaps                         \* history: the faults that happened

Wg == INSTANCE WgInterface WITH WgKeys <- Keys, WgOctets <- Octets
Cf == INSTANCE ConfigFile WITH ConfKeys <- Keys, ConfAddrs <- Octets,
                               NoAddr <- Released, Syncers <- Procs

wgVars == <<live, route>>
confVars == <<tmp, conf, step, snap, at>>
vars == <<storeVars, wgVars, confVars, req, used, mishaps>>

IdleReq == [pc |-> "idle", key |-> NoKey, ip |-> Released, id |-> 0, user |-> NoUser]

Request == [pc : {"idle", "apply", "rollback", "logcreate", "find", "mark", "logrevoke",
                  "read", "sync", "claim"},
            key : Keys \cup {NoKey}, ip : Octets \cup {Released},
            id : 0 .. MaxRows, user : Users \cup {NoUser}]

At(p, pc) == req[p].pc = pc
Goto(p, pc) == req' = [req EXCEPT ![p].pc = pc]
Reply(p) == req' = [req EXCEPT ![p] = IdleReq]
Mishap(f) == f \in Faults /\ mishaps' = mishaps \cup ({f} \cap Remembered)

Init ==
    /\ StoreInit
    /\ Wg!WgInit
    /\ Cf!ConfInit
    /\ req = [p \in Procs |-> IdleReq]
    /\ used = {}
    /\ mishaps = {}

-----------------------------------------------------------------------------
(* CreatePeer: the row first, then the interface, then the event and the file. *)

CreatePeer(p) ==
    /\ At(p, "idle")
    /\ \E k \in Keys \ used, r \in Roles, u \in Users \cup {NoUser} :
          /\ AllocateAndInsertPeer(k, r, u)
          /\ used' = used \cup {k}
          /\ req' = [req EXCEPT ![p] =
                        [IdleReq EXCEPT !.pc = "apply", !.key = k, !.ip = peers'[k].ip]]
    /\ UNCHANGED <<wgVars, confVars, mishaps>>

ApplyPeer(p) ==
    /\ At(p, "apply")
    /\ Wg!ApplyPeerLive(req[p].key, req[p].ip)
    /\ Goto(p, "logcreate")
    /\ UNCHANGED <<storeVars, confVars, used, mishaps>>

\* Wrong: an error is reported although the interface has the peer.
ApplyFailsLate(p) ==
    /\ At(p, "apply")
    /\ Mishap("kernel")
    /\ Wg!ApplyPeerLive(req[p].key, req[p].ip)
    /\ Goto(p, "rollback")
    /\ UNCHANGED <<storeVars, confVars, used>>

ApplyFails(p) ==
    /\ At(p, "apply")
    /\ Mishap("kernel")
    /\ Goto(p, "rollback")
    /\ UNCHANGED <<storeVars, wgVars, confVars, used>>

\* Wrong: the row stays.
RollBackForgotten(p) ==
    /\ At(p, "rollback")
    /\ Reply(p)
    /\ UNCHANGED <<storeVars, wgVars, confVars, used, mishaps>>

\* the creation is undone, without a sync of the file
RollBack(p) ==
    /\ At(p, "rollback")
    /\ DeletePeerByPublicKey(req[p].key)
    /\ Reply(p)
    /\ UNCHANGED <<wgVars, confVars, used, mishaps>>

\* Wrong: the creation does not sync the file.
LogCreatedNoSync(p) ==
    /\ At(p, "logcreate")
    /\ AddPeerEvent(req[p].key, "created")
    /\ Reply(p)
    /\ UNCHANGED <<wgVars, confVars, used, mishaps>>

LogCreated(p) ==
    /\ At(p, "logcreate")
    /\ AddPeerEvent(req[p].key, "created")
    /\ Goto(p, "read")
    /\ UNCHANGED <<wgVars, confVars, used, mishaps>>

-----------------------------------------------------------------------------
(* RevokePeer: the interface first, then the row (a SELECT of its id and an    *)
(* UPDATE by that id), then the event and the file.                            *)

\* Wrong: an interface that does not answer is ignored.
RevokeUnapplied(p, k) ==
    /\ At(p, "idle")
    /\ req' = [req EXCEPT ![p] = [IdleReq EXCEPT !.pc = "find", !.key = k]]
    /\ UNCHANGED <<storeVars, wgVars, confVars, used, mishaps>>

RevokePeer(p, k) ==
    /\ At(p, "idle")
    /\ Wg!RemovePeerLive(k)
    /\ req' = [req EXCEPT ![p] = [IdleReq EXCEPT !.pc = "find", !.key = k]]
    /\ UNCHANGED <<storeVars, confVars, used, mishaps>>

\* Wrong: a SELECT that finds no row does not end the request.
FindRowOrNone(p) ==
    /\ At(p, "find")
    /\ req' = [req EXCEPT ![p].pc = "mark", ![p].id = peers[req[p].key].id]
    /\ UNCHANGED <<storeVars, wgVars, confVars, used, mishaps>>

FindRow(p) ==
    /\ At(p, "find")
    /\ IF Stored(req[p].key)
       THEN req' = [req EXCEPT ![p].pc = "mark", ![p].id = peers[req[p].key].id]
       ELSE Reply(p)
    /\ UNCHANGED <<storeVars, wgVars, confVars, used, mishaps>>

MarkRow(p) ==
    /\ At(p, "mark")
    /\ MarkRevoked(req[p].id)
    /\ Goto(p, "logrevoke")
    /\ UNCHANGED <<wgVars, confVars, used, mishaps>>

\* Wrong: the revocation does not sync the file.
LogRevokedNoSync(p) ==
    /\ At(p, "logrevoke")
    /\ AddPeerEvent(req[p].key, "revoked")
    /\ Reply(p)
    /\ UNCHANGED <<wgVars, confVars, used, mishaps>>

LogRevoked(p) ==
    /\ At(p, "logrevoke")
    /\ AddPeerEvent(req[p].key, "revoked")
    /\ Goto(p, "read")
    /\ UNCHANGED <<wgVars, confVars, used, mishaps>>

\* A statement on peers fails: the request answers with an error where it stands.
RowFails(p) ==
    /\ req[p].pc \in {"rollback", "find", "mark"}
    /\ Mishap("row")
    /\ Reply(p)
    /\ UNCHANGED <<storeVars, wgVars, confVars, used>>

\* The event cannot be written: only a warning.
LogFails(p) ==
    /\ req[p].pc \in {"logcreate", "logrevoke"}
    /\ Mishap("log")
    /\ Goto(p, "read")
    /\ UNCHANGED <<storeVars, wgVars, confVars, used>>

-----------------------------------------------------------------------------
(* SyncWgConfig, the last call of both; whatever becomes of it, the request    *)
(* answers with success.                                                       *)

ReadPeers(p) ==
    /\ At(p, "read")
    /\ Cf!SyncRead(p, ActivePeers)
    /\ Goto(p, "sync")
    /\ UNCHANGED <<storeVars, wgVars, used, mishaps>>

ReadFails(p) ==
    /\ At(p, "read")
    /\ Mishap("sync")
    /\ Reply(p)
    /\ UNCHANGED <<storeVars, wgVars, confVars, used>>

\* GetActivePeers does not ask rows.Err(): a reading that breaks off counts as complete
ReadPartly(p) ==
    /\ At(p, "read")
    /\ Mishap("sync")
    /\ \E ks \in SUBSET Keys :
          Cf!SyncRead(p, [k \in Keys |-> IF k \in ks THEN ActivePeers[k] ELSE Released])
    /\ Goto(p, "sync")
    /\ UNCHANGED <<storeVars, wgVars, used>>

WriteTmp(p) ==
    /\ At(p, "sync")
    /\ Cf!SyncOpen(p) \/ Cf!SyncWrite(p)
    /\ UNCHANGED <<storeVars, wgVars, req, used, mishaps>>

ReplaceConf(p) ==
    /\ At(p, "sync")
    /\ Cf!SyncRename(p) \/ Cf!SyncRenameNothing(p)
    /\ Reply(p)
    /\ UNCHANGED <<storeVars, wgVars, used, mishaps>>

SyncFails(p) ==
    /\ At(p, "sync")
    /\ Mishap("sync")
    /\ Cf!SyncFail(p)
    /\ Reply(p)
    /\ UNCHANGED <<storeVars, wgVars, used>>

-----------------------------------------------------------------------------
(* ClaimAccount: look the peer up by the caller's address, check it, hash the  *)
(* password, then the transaction.  The caller is a machine behind wg0, so its *)
(* address is one the interface routes; its peer_id is the id it was told.     *)

\* Wrong: the peer is the one the request names, wherever the request comes from.
ClaimStartById(p, u) ==
    /\ At(p, "idle")
    /\ \E k \in Keys, o \in Octets :
          /\ route[o] # NoKey
          /\ Active(k)
          /\ peers[k].owner = NoUser
          /\ req' = [req EXCEPT ![p] = [pc |-> "claim", key |-> k, ip |-> o,
                                        id |-> peers[k].id, user |-> u]]
    /\ UNCHANGED <<storeVars, wgVars, confVars, used, mishaps>>

ClaimStart(p, u) ==
    /\ At(p, "idle")
    /\ \E k \in Keys, o \in Octets :
          /\ route[o] # NoKey
          /\ HoldsAddress(k, o)
          /\ peers[k].owner = NoUser
          /\ req' = [req EXCEPT ![p] = [pc |-> "claim", key |-> k, ip |-> o,
                                        id |-> peers[k].id, user |-> u]]
    /\ UNCHANGED <<storeVars, wgVars, confVars, used, mishaps>>

ClaimCommit(p) ==
    /\ At(p, "claim")
    /\ ClaimAccount(req[p].id, req[p].user)
    /\ Reply(p)
    /\ UNCHANGED <<wgVars, confVars, used, mishaps>>

\* the email exists, or the row is gone or owned by now: rolled back
ClaimRefused(p) ==
    /\ At(p, "claim")
    /\ \/ req[p].user \in users
       \/ \A k \in Keys : Stored(k) /\ peers[k].id = req[p].id => peers[k].owner # NoUser
    /\ Reply(p)
    /\ UNCHANGED <<storeVars, wgVars, confVars, used, mishaps>>

-----------------------------------------------------------------------------
\* an administrator's createUser
CreateUser(u) ==
    /\ InsertUser(u)
    /\ UNCHANGED <<wgVars, confVars, req, used, mishaps>>

\* The process stops in the middle of its requests and is started again: main.go opens
\* the tables it finds and repairs nothing.
Crash ==
    /\ Mishap("crash")
    /\ req' = [p \in Procs |-> IdleReq]
    /\ Cf!SyncCrash
    /\ UNCHANGED <<storeVars, wgVars, used>>

\* wg-quick up at boot or wg syncconf by the operator.  An empty file has no peers; a torn
\* one is loaded when it parses, and when it does not, nothing changes.
Reload ==
    /\ Mishap("reload")
    /\ Wg!LoadPeers(conf.blocks)
    /\ UNCHANGED <<storeVars, confVars, req, used>>

\* the steps of a request that is under way
Step(p) ==
    \/ ApplyPeer(p) \/ ApplyFails(p) \/ RollBack(p) \/ LogCreated(p)
    \/ FindRow(p) \/ MarkRow(p) \/ LogRevoked(p) \/ RowFails(p) \/ LogFails(p)
    \/ ReadPeers(p) \/ ReadFails(p) \/ ReadPartly(p) \/ WriteTmp(p) \/ ReplaceConf(p) \/ SyncFails(p)
    \/ ClaimCommit(p) \/ ClaimRefused(p)

Next ==
    \/ \E p \in Procs : CreatePeer(p) \/ Step(p)
    \/ \E p \in Procs, k \in Keys : RevokePeer(p, k)
    \/ \E p \in Procs, u \in Users : ClaimStart(p, u)
    \/ \E u \in Users : CreateUser(u)
    \/ Crash
    \/ Reload

Spec == Init /\ [][Next]_vars

\* A goroutine that is under way is scheduled; nobody is bound to send a request.
FairSpec == Spec /\ \A p \in Procs : WF_vars(Step(p))
-----------------------------------------------------------------------------
ServiceTypeOK ==
    /\ StoreTypeOK
    /\ Wg!WgTypeOK
    /\ Cf!ConfTypeOK
    /\ req \in [Procs -> Request]
    /\ used \in SUBSET Keys
    /\ mishaps \in SUBSET Faults

Quiet == \A p \in Procs : At(p, "idle")
Spared(kinds) == mishaps \cap kinds = {}

\* The order of the calls fails safe: whichever step of a creation or a revocation fails
\* or is the last before a crash, the interface never serves a key the table does not
\* list as active, nor at another address than the table's.  (One request at a time.)
InterfaceWithinTable ==
    Spared({"reload"}) =>
        /\ \A k \in live : Active(k)
        /\ \A o \in Octets : route[o] # NoKey => HoldsAddress(route[o], o)

\* Between requests the interface serves exactly the active peers, at their addresses,
\* even after creations that failed at the interface and were rolled back.  (One request
\* at a time.)
QuietInterfaceCurrent ==
    Quiet /\ Spared({"row", "crash", "reload"}) =>
        \A k \in Keys : /\ Active(k) <=> k \in live
                        /\ Active(k) => route[peers[k].ip] = k

\* Between requests wg0.conf lists exactly the active peers: it is regenerated from the
\* database whenever peers change.  (One request at a time.)
QuietConfCurrent ==
    Quiet /\ Spared({"row", "sync", "crash"}) => conf = Cf!Whole(ActivePeers)

\* wg0.conf is always one complete rendering, whatever fails and wherever the process
\* stops: a write goes to the .tmp file, which replaces wg0.conf only when it is
\* complete.  (One request at a time.)
ConfAlwaysWhole == conf.kind = "whole"

\* A peer on the interface has a row, so the dashboard lists it and it can be revoked.
LivePeersHaveRows == \A k \in live : Stored(k)

\* Until the interface is loaded from a file that was written earlier, this holds with
\* requests in any interleaving.
LivePeersHaveRowsUntilReload == Spared({"reload"}) => LivePeersHaveRows

\* A complete wg0.conf, whatever stale reading it was rendered from and whoever renamed
\* it, can be loaded without moving anybody: no two of its [Peer] blocks have the same
\* address, and an active peer it lists is listed at the address of its row.  A file with
\* the end of an older one behind it (torn) may give an address twice.
WholeConfAddresses ==
    conf.kind = "whole" =>
        \A k \in Keys : conf.blocks[k] # Released =>
            /\ Active(k) => peers[k].ip = conf.blocks[k]
            /\ \A j \in Keys : conf.blocks[j] = conf.blocks[k] => j = k

\* Although requests share the .tmp name and rename each other's files, when all have
\* answered no .tmp file is left and wg0.conf has been written to.
FilesSettle ==
    Quiet /\ Spared({"sync", "crash"}) => tmp.kind = "absent" /\ conf.kind # "empty"

\* A key may still be entered on the interface if its pair has not been generated, or its
\* creation is about to change the interface.
Enterable == (Keys \ used) \cup {k \in Keys : \E p \in Procs : At(p, "apply") /\ req[p].key = k}

Bk == INSTANCE PeerBook WITH BookKeys <- Keys, Addresses <- Octets, book <- route,
                             fresh <- Enterable, loaded <- "reload" \in mishaps

\* The interface is the book of PeerBook: a creation takes no device's address, a revoked
\* key and one whose creation failed stay off until the interface is loaded from a file.
\* (One request at a time.)
BookSpec == Bk!BookSpec

\* A claim that passes the checks of ClaimAccount comes from the device whose key the
\* peer has: its address is routed to that key.  (One request at a time.)
ClaimedByItsOwnDevice ==
    [][\A p \in Procs :
          Spared({"reload"}) /\ At(p, "idle") /\ req'[p].pc = "claim" =>
              route[req'[p].ip] = req'[p].key]_vars

\* u has a peer that is not about to be undone with the creation that made it.
OwnsPeer(u) ==
    \E k \in Keys : /\ peers[k].owner = u
                    /\ \A p \in Procs : req[p].pc \in {"apply", "rollback"} => req[p].key # k

\* Nobody is locked out by a claim: an account that no administrator creates comes with a
\* peer of its own, and no account loses its last one, be it to revocations, creations
\* that are undone, failures or stops; its email cannot claim again.  (One request at a
\* time.)
ClaimantsOwnPeers ==
    [][\A u \in users' : OwnsPeer(u)' \/ CreateUser(u) \/ (u \in users /\ ~OwnsPeer(u))]_vars

\* A peer that stays active appears in wg0.conf, and a revoked one disappears from it,
\* unless the code only warns of a failure in between, or does not notice that a reading
\* of the peers has broken off.  (One request at a time.)
ChangesReachConf ==
    \A k \in Keys :
        /\ Active(k) ~> (~Active(k) \/ conf.blocks[k] = peers[k].ip
                            \/ ~Spared({"row", "sync", "crash"}))
        /\ Revoked(k) ~> (conf.blocks[k] = Released \/ ~Spared({"row", "sync", "crash"}))

\* The confirmation of the dashboard says a revocation is permanent: between requests a
\* revoked peer is not on the interface.
RevokedPeersOffline ==
    Quiet /\ Spared({"reload"}) => \A k \in live : ~Revoked(k)
=============================================================================
