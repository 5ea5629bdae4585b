---------------------------- MODULE DashboardApi ----------------------------
(***************************************************************************)
(* The API as the dashboard sees it: the accounts and the peers, and for   *)
(* each request of frontend/lib/api.ts the checks of its route             *)
(* (routers/main.router.go, middlewares/) and its handler.  A handler is   *)
(* one step here; PeerStore and PeerService have the inside of those that  *)
(* write.  Passwords are right or refused, and a token is what it claims,  *)
(* for which user, and whether its day has passed.                         *)
(***************************************************************************)
EXTENDS Integers, FiniteSets

CONSTANTS Users, Root, Nobody, MaxPeers, MaxCalls

ASSUME ApiAssumption ==
    /\ Root \in Users
    /\ Nobody \notin Users
    /\ MaxPeers \in Nat
    /\ MaxCalls \in Nat

PeerIds == 1 .. MaxPeers
Slots == 1 .. MaxCalls
Roles == {"standard", "admin"}

VARIABLES
    accounts,       \* the role of each user of the table, or "none"
    peers,          \* the status of each row, or "none"
    calls           \* the requests of the tab in flight

tableVars == <<accounts, peers>>
apiVars == <<tableVars, calls>>

Token == [user : Users, role : Roles, live : BOOLEAN]
NoToken == [user |-> Nobody, role |-> "none", live |-> FALSE]

Reads == {"getUsers", "getPeers"}
Writes == {"register", "createPeer", "revokePeer"}

\* a request and what becomes of it: whose page waits for it, its answer, and the
\* reads of the same page that were sent later
Call == [op : Reads \cup Writes \cup {"login", "none"},
         token : Token \cup {NoToken},
         user : Users \cup {Nobody},
         role : Roles \cup {"none"},
         peer : 0 .. MaxPeers,
         page : {"mounted", "left", "cut"},
         answer : {"none", "ok", "forbidden", "refused"},
         users : SUBSET Users,
         peers : [PeerIds -> {"none", "active", "revoked"}],
         newer : SUBSET Slots,
         stale : BOOLEAN]

Idle == [op |-> "none", token |-> NoToken, user |-> Nobody, role |-> "none",
         peer |-> 0, page |-> "cut", answer |-> "none", users |-> {},
         peers |-> [p \in PeerIds |-> "none"], newer |-> {}, stale |-> FALSE]

\* the seeded administrator, and no peer
ApiInit ==
    /\ accounts = [u \in Users |-> IF u = Root THEN "admin" ELSE "none"]
    /\ peers = [p \in PeerIds |-> "none"]
    /\ calls = [s \in Slots |-> Idle]

\* fetchWrapper: the token is the one in the storage when the request is sent
Request(op, token) == [Idle EXCEPT !.op = op, !.token = token, !.page = "mounted"]

GenerateToken(u) == [user |-> u, role |-> accounts[u], live |-> TRUE]

-----------------------------------------------------------------------------
(* The checks of a route. *)

Public == {"login"}
AdminOnly == {"getUsers", "register", "createPeer", "revokePeer"}

\* a token is accepted for a day, and believed in what it claims
RequireAuth(c) == c.op \in Public \/ c.token.live

\* Wrong: a route without RequireRole.
RequireRoleButForUsers(c) == c.op \in AdminOnly \ {"getUsers"} => c.token.role = "admin"

RequireRole(c) == c.op \in AdminOnly => c.token.role = "admin"

\* Register the routes: RequireAdminIP, RequireAuth, RequireRole, in this order
Turned(c, inside) ==
    IF ~inside THEN "forbidden"
    ELSE IF ~RequireAuth(c) THEN "refused"
    ELSE IF ~RequireRole(c) THEN "forbidden"
    ELSE "ok"

-----------------------------------------------------------------------------
(* The handlers of request s. *)

\* the answer, unless nobody is left to hear it
Reply(s, c) == calls' = [calls EXCEPT ![s] = IF calls[s].page = "cut" THEN Idle ELSE c]

\* what the code after the await does not read is forgotten
Done(s) == [calls[s] EXCEPT !.answer = "ok", !.token = NoToken, !.role = "none"]

Failed(s, answer) == [Done(s) EXCEPT !.answer = answer, !.user = Nobody, !.peer = 0]

Login(s) ==
    /\ accounts[calls[s].user] # "none"
    /\ Reply(s, [Done(s) EXCEPT !.token = GenerateToken(calls[s].user)])
    /\ UNCHANGED tableVars

GetAllUsers(s) ==
    /\ Reply(s, [Done(s) EXCEPT !.users = {u \in Users : accounts[u] # "none"}])
    /\ UNCHANGED tableVars

GetAllPeers(s) ==
    /\ Reply(s, [Done(s) EXCEPT !.peers = peers])
    /\ UNCHANGED tableVars

\* the email is UNIQUE
CreateUser(s) ==
    /\ accounts[calls[s].user] = "none"
    /\ accounts' = [accounts EXCEPT ![calls[s].user] = calls[s].role]
    /\ Reply(s, Done(s))
    /\ UNCHANGED peers

\* a failure is answered while the row stays, if the interface refuses the peer and the
\* removal of its row fails too
CreatePeer(s) ==
    \E p \in PeerIds :
        /\ peers[p] = "none"
        /\ \A q \in PeerIds : q < p => peers[q] # "none"
        /\ peers' = [peers EXCEPT ![p] = "active"]
        /\ \/ Reply(s, [Done(s) EXCEPT !.peer = p])
           \/ Reply(s, Failed(s, "refused"))
        /\ UNCHANGED accounts

\* a revoked peer may be revoked again
RevokePeer(s) ==
    /\ calls[s].peer \in PeerIds
    /\ peers[calls[s].peer] # "none"
    /\ peers' = [peers EXCEPT ![calls[s].peer] = "revoked"]
    /\ Reply(s, Done(s))
    /\ UNCHANGED accounts

Handle(s) ==
    \/ calls[s].op = "login" /\ Login(s)
    \/ calls[s].op = "getUsers" /\ GetAllUsers(s)
    \/ calls[s].op = "getPeers" /\ GetAllPeers(s)
    \/ calls[s].op = "register" /\ CreateUser(s)
    \/ calls[s].op = "createPeer" /\ CreatePeer(s)
    \/ calls[s].op = "revokePeer" /\ RevokePeer(s)

\* the request is turned away, or its handler refuses it or fails, or it is done
Respond(s) ==
    /\ calls[s].op # "none"
    /\ calls[s].answer = "none"
    /\ \/ \E inside \in BOOLEAN :
             /\ Turned(calls[s], inside) # "ok"
             /\ Reply(s, Failed(s, Turned(calls[s], inside)))
             /\ UNCHANGED tableVars
       \/ /\ Turned(calls[s], TRUE) = "ok"
          /\ Reply(s, Failed(s, "refused"))
          /\ UNCHANGED tableVars
       \/ Turned(calls[s], TRUE) = "ok" /\ Handle(s)

-----------------------------------------------------------------------------
(* What others do meanwhile: another console, and POST /api/auth/claim, which
   needs no token and makes a standard user. *)

RevokeElsewhere(p) ==
    /\ peers[p] = "active"
    /\ peers' = [peers EXCEPT ![p] = "revoked"]
    /\ UNCHANGED <<accounts, calls>>

ClaimElsewhere(u) ==
    /\ accounts[u] = "none"
    /\ accounts' = [accounts EXCEPT ![u] = "standard"]
    /\ UNCHANGED <<peers, calls>>
=============================================================================
