------------------------------ MODULE Console ------------------------------
(***************************************************************************)
(* One tab of the dashboard (frontend/app, components/auth-guard.tsx,      *)
(* lib/api.ts, lib/auth.ts) over the API of DashboardApi.  The tab shows   *)
(* one page; a page is a record of its React state, with the text of its   *)
(* fields left out.  Requests stay in flight, in any order, while the      *)
(* operator goes on; an answer runs the code after its await in one step.  *)
(* Answers may be lost, and a request whose answer is lost may still be    *)
(* served later.                                                           *)
(*                                                                         *)
(* Nothing that a page fetched reaches it once it is left: its setters do  *)
(* nothing.  What still acts then is a request that writes, and the code   *)
(* after the await of a login and of a revocation, which goes to           *)
(* /dashboard from wherever the operator is.                               *)
(***************************************************************************)
EXTENDS DashboardApi

CONSTANT Tours

VARIABLES
    stored,         \* localStorage.token, which all tabs share
    screen,         \* the page and its state
    tour,           \* a bound, fixed at the start: the pages that a behaviour opens,
                    \* whether a "claim" happens elsewhere and a "day" passes
    made            \* history: rows that the creations of this visit have put in
                    \* the table since the operator was last told of an outcome

vars == <<apiVars, tour, stored, screen, made>>

\* up: idle or online
Statuses == {"unlisted", "offline", "up"}

Closed == [page |-> "closed"]

LoginScreens == [page : {"login"}, isLoading : BOOLEAN, error : BOOLEAN]

\* gone, here and below: the peers revoked before the page was opened; heard: those of
\* them that a message of the stream has named since the list was shown
DashboardScreens == [page : {"dashboard"}, peers : [PeerIds -> Statuses],
                     gone : SUBSET PeerIds, heard : SUBSET PeerIds]

\* late: the last answer used is older than one used before
PeerScreens == [page : {"peer"}, id : PeerIds, peer : 0 .. MaxPeers,
                status : Statuses, error : BOOLEAN, gone : SUBSET PeerIds,
                heard : SUBSET PeerIds, late : BOOLEAN]

\* success: the user it names; missed: the reads sent since have failed, or an
\* older one was used after them
UsersScreens == [page : {"users"}, users : SUBSET Users, loading : BOOLEAN,
                 isProvisioning : BOOLEAN, isAdmin : BOOLEAN, error : BOOLEAN,
                 success : Users \cup {Nobody}, missed : BOOLEAN]

\* filled: identifier and operator are given; given: a configuration was shown
DeployScreens == [page : {"deploy"}, users : BOOLEAN, filled : BOOLEAN,
                  isDeploying : BOOLEAN, generatedConfig : 0 .. MaxPeers,
                  error : BOOLEAN, given : BOOLEAN]

Screens == {Closed} \cup LoginScreens \cup DashboardScreens \cup PeerScreens
               \cup UsersScreens \cup DeployScreens

Gone == {p \in PeerIds : peers[p] = "revoked"}

LoginPage == [page |-> "login", isLoading |-> FALSE, error |-> FALSE]

DashboardPage == [page |-> "dashboard", peers |-> [p \in PeerIds |-> "unlisted"],
                  gone |-> Gone, heard |-> {}]

PeerDetailPage(p) == [page |-> "peer", id |-> p, peer |-> 0, status |-> "unlisted",
                      error |-> FALSE, gone |-> Gone, heard |-> {}, late |-> FALSE]

\* the role that the token in the storage claims, expired or not
GetJwtRole == stored.role

\* isAdmin is read once, when the page opens
UsersPage == [page |-> "users", users |-> {}, loading |-> TRUE,
              isProvisioning |-> FALSE, isAdmin |-> GetJwtRole = "admin",
              error |-> FALSE, success |-> Nobody, missed |-> FALSE]

DeployPage == [page |-> "deploy", users |-> FALSE, filled |-> FALSE,
               isDeploying |-> FALSE, generatedConfig |-> 0, error |-> FALSE,
               given |-> FALSE]

Pages == {LoginPage, DashboardPage, UsersPage, DeployPage}
             \cup {PeerDetailPage(p) : p \in PeerIds}

ConsoleInit ==
    /\ ApiInit
    /\ stored = NoToken
    /\ screen = Closed
    /\ tour \in Tours
    /\ made = 0

On(page) == screen.page = page

-----------------------------------------------------------------------------
(* Requests in flight. *)

Free(cs, s) == cs[s].op = "none" /\ \A t \in Slots : t < s => cs[t].op # "none"

\* c is sent in slot s: a later read than those the page waits for
Sent(cs, s, c) == [t \in Slots |->
    IF t = s THEN c
    ELSE IF {c.op, cs[t].op} \subseteq Reads THEN [cs[t] EXCEPT !.newer = @ \cup {s}]
    ELSE cs[t]]

\* the call of s is over; if its answer was used, those of older reads are stale
Over(s, used) == [t \in Slots |->
    IF t = s THEN Idle
    ELSE [calls[t] EXCEPT !.stale = calls[t].stale \/ (used /\ s \in calls[t].newer),
                          !.newer = calls[t].newer \ {s}]]

Send(c) == \E s \in Slots : Free(calls, s) /\ calls' = Sent(calls, s, c)

Failures == {"forbidden", "refused"}

\* the page on the screen gets the answer of its request s
Answered(s, op, answers) ==
    /\ calls[s].op = op
    /\ calls[s].page = "mounted"
    /\ calls[s].answer \in answers

\* the page of the requests is gone: of those in heard the answer still acts, of the
\* other writes only what the server is yet to do remains
Orphans(cs, heard) == [s \in Slots |->
    IF cs[s].page # "cut" /\ cs[s].op \in heard THEN [cs[s] EXCEPT !.page = "left"]
    ELSE IF cs[s].answer = "none" /\ cs[s].op \in Writes
         THEN [cs[s] EXCEPT !.page = "cut"]
    ELSE Idle]

\* what the effects of a page fetch when it opens
Fetch(page, token) ==
    IF page.page = "peer"
    THEN [Request("getPeers", token) EXCEPT !.peer = page.id]
    ELSE IF page.page = "dashboard" THEN Request("getPeers", token)
    ELSE Request("getUsers", token)

Mount(page, cs, token) ==
    /\ screen' = page
    /\ made' = 0
    /\ IF page.page = "login" THEN calls' = cs
       ELSE \E s \in Slots : Free(cs, s) /\ calls' = Sent(cs, s, Fetch(page, token))

\* router.push: a page that is shown already stays as it is
Push(page, cs, token) ==
    IF On(page.page) THEN calls' = cs /\ UNCHANGED <<screen, made>>
    ELSE Mount(page, Orphans(cs, {"login", "revokePeer"}), token)

-----------------------------------------------------------------------------
(* What the pages show and offer. *)

\* whether a click, or a form it submits, comes through
CyberButton(disabled) == ~disabled

\* the button is disabled while a login is under way, the fields are not
LoginView == [submit |-> CyberButton(screen.isLoading)]

\* the rows, in whatever group; without one "NO PEERS FOUND"
RoutingTable == {p \in PeerIds : screen.peers[p] # "unlisted"}

\* "LOCATING_NODE...", "NODE_NOT_FOUND" or the peer
PeerView == IF screen.error THEN "NODE_NOT_FOUND"
            ELSE IF screen.peer = 0 THEN "LOCATING_NODE"
            ELSE "node"

\* none of the buttons is ever disabled; the code and the disconnection are alerts
NodeOperations == {"export", "renderQR", "disconnect", "revoke"}

PeerOperations == IF PeerView = "node" THEN NodeOperations ELSE {}

\* the list, and for an administrator the form and its message of success
UsersView ==
    [refresh |-> CyberButton(screen.loading),
     rows    |-> IF screen.loading THEN "SCANNING_RECORDS"
                 ELSE IF screen.users = {} THEN "NO_RECORDS_FOUND"
                 ELSE "users",
     submit  |-> screen.isAdmin /\ CyberButton(screen.isProvisioning),
     success |-> screen.isAdmin /\ screen.success # Nobody]

\* "NODE_DEPLOYMENT_SUCCESSFUL" and the configuration, in place of the form
ConfigView == screen.generatedConfig # 0

\* the operators can be chosen once they are listed, and the form is submitted by its
\* button
FormView == [shown |-> screen.generatedConfig = 0, operators |-> screen.users,
             submit |-> CyberButton(screen.isDeploying \/ ~screen.filled)]

-----------------------------------------------------------------------------
(* The tab: links, the history and the address bar. *)

\* there is no page under /dashboard/config
NavItems == {DashboardPage, UsersPage}

\* a row leads to its peer, however the rows are filtered
PeerTableRow(p) == PeerDetailPage(p)

\* "DEPLOY_NEW_PEER"
ActionBar == {DeployPage}

DashboardView == ActionBar \cup {PeerTableRow(p) : p \in RoutingTable}

Links ==
    CASE On("login") -> {}
      [] On("dashboard") -> NavItems \cup DashboardView
      [] OTHER -> NavItems

\* AuthGuard: a token in the storage is enough
AuthGuard(page) == IF stored = NoToken THEN LoginPage ELSE page

\* an address is typed, or the tab is opened or reloaded
Open(page) ==
    /\ On("closed")
    /\ page.page \in tour
    /\ Mount(AuthGuard(page), calls, stored)
    /\ UNCHANGED <<tour, tableVars, stored>>

Close ==
    /\ ~On("closed")
    /\ screen' = Closed
    /\ made' = 0
    /\ calls' = Orphans(calls, {})
    /\ UNCHANGED <<tour, tableVars, stored>>

Leave(page) ==
    /\ page.page \in tour \ {screen.page}
    /\ Mount(AuthGuard(page), Orphans(calls, {"login", "revokePeer"}), stored)
    /\ UNCHANGED <<tour, tableVars, stored>>

\* the pages have links of their own to /dashboard
FollowLink(page) ==
    /\ ~On("closed")
    /\ page \in Links
    /\ Leave(page)

\* the history may hold any page of the tour
Back(page) ==
    /\ ~On("closed")
    /\ Leave(page)

-----------------------------------------------------------------------------
(* Sign-in, app/page.tsx. *)

SubmitLogin(u) ==
    /\ On("login")
    /\ LoginView.submit
    /\ screen' = [screen EXCEPT !.isLoading = TRUE, !.error = FALSE]
    /\ Send([Request("login", stored) EXCEPT !.user = u])
    /\ UNCHANGED <<tour, tableVars, stored, made>>

\* also when the page was left meanwhile
SignedIn(s) ==
    /\ calls[s].op = "login"
    /\ calls[s].answer = "ok"
    /\ stored' = calls[s].token
    /\ Push(DashboardPage, Over(s, FALSE), calls[s].token)
    /\ UNCHANGED <<tour, tableVars>>

LoginRefused(s) ==
    /\ On("login")
    /\ Answered(s, "login", Failures)
    /\ screen' = [screen EXCEPT !.error = TRUE, !.isLoading = FALSE]
    /\ calls' = Over(s, FALSE)
    /\ UNCHANGED <<tour, tableVars, stored, made>>

\* another tab of the browser signs in
OtherTabSignsIn(u) ==
    /\ accounts[u] # "none"
    /\ stored' = GenerateToken(u)
    /\ UNCHANGED <<tour, apiVars, screen, made>>

Expire ==
    /\ stored.live
    /\ stored' = [stored EXCEPT !.live = FALSE]
    /\ UNCHANGED <<tour, apiVars, screen, made>>

-----------------------------------------------------------------------------
(* The dashboard and the page of a peer. *)

\* mapPeer: what the row's status becomes
MapStatusRaw(status) == status

MapStatus(status) ==
    CASE status = "none" -> "unlisted" [] status = "active" -> "up" [] OTHER -> "offline"

PeersListed(s) ==
    /\ On("dashboard")
    /\ Answered(s, "getPeers", {"ok"})
    /\ screen' = [screen EXCEPT
          !.peers = [p \in PeerIds |-> MapStatus(calls[s].peers[p])],
          !.heard = {}]
    /\ calls' = Over(s, TRUE)
    /\ UNCHANGED <<tour, tableVars, stored, made>>

PeersRefused(s) ==
    /\ On("dashboard")
    /\ Answered(s, "getPeers", Failures)
    /\ calls' = Over(s, FALSE)
    /\ UNCHANGED <<tour, tableVars, stored, screen, made>>

\* Wrong: a message about one peer puts up every peer of the list.
LiveUpdateOfAll(stats) ==
    /\ screen' = [screen EXCEPT
          !.peers = [p \in PeerIds |->
              IF stats # {} /\ @[p] # "unlisted" THEN "up" ELSE @[p]],
          !.heard = @ \cup (stats \cap screen.gone \cap RoutingTable)]
    /\ UNCHANGED <<tour, apiVars, stored, made>>

LiveUpdate(stats) ==
    /\ screen' = [screen EXCEPT
          !.peers = [p \in PeerIds |->
              IF p \in stats /\ @[p] # "unlisted" THEN "up" ELSE @[p]],
          !.heard = @ \cup (stats \cap screen.gone \cap RoutingTable)]
    /\ UNCHANGED <<tour, apiVars, stored, made>>

LivePeerUpdate(stats) ==
    /\ screen' = IF screen.peer \notin stats THEN screen
                 ELSE [screen EXCEPT !.status = "up",
                                     !.heard = @ \cup ({screen.peer} \cap screen.gone)]
    /\ UNCHANGED <<tour, apiVars, stored, made>>

\* a message of the stream: every peer of the interface, whatever its row says
LiveStats(stats) ==
    \/ On("dashboard") /\ LiveUpdate(stats)
    \/ On("peer") /\ LivePeerUpdate(stats)

\* Wrong: the first peer found stays.
FirstPeerFound(s) ==
    /\ On("peer")
    /\ Answered(s, "getPeers", {"ok"})
    /\ calls[s].peers[calls[s].peer] # "none"
    /\ screen' = IF screen.peer # 0 THEN screen
                 ELSE [screen EXCEPT
                          !.peer = calls[s].peer,
                          !.status = MapStatus(calls[s].peers[calls[s].peer]),
                          !.heard = {},
                          !.late = calls[s].stale]
    /\ calls' = Over(s, TRUE)
    /\ UNCHANGED <<tour, tableVars, stored, made>>

\* the effect of [id]: the id is that of the render which sent the request
PeerFound(s) ==
    /\ On("peer")
    /\ Answered(s, "getPeers", {"ok"})
    /\ calls[s].peers[calls[s].peer] # "none"
    /\ screen' = [screen EXCEPT
          !.peer = calls[s].peer,
          !.status = MapStatus(calls[s].peers[calls[s].peer]),
          !.heard = {},
          !.late = calls[s].stale]
    /\ calls' = Over(s, TRUE)
    /\ UNCHANGED <<tour, tableVars, stored, made>>

PeerNotFound(s) ==
    /\ On("peer")
    /\ Answered(s, "getPeers", Failures \cup {"ok"})
    /\ calls[s].answer = "ok" => calls[s].peers[calls[s].peer] = "none"
    /\ screen' = [screen EXCEPT !.error = TRUE]
    /\ calls' = Over(s, FALSE)
    /\ UNCHANGED <<tour, tableVars, stored, made>>

\* the history leads to the page of another peer: the same page with another id
ChangeAddress(q) ==
    /\ On("peer")
    /\ q # screen.id
    /\ peers[q] # "none"
    /\ screen' = [screen EXCEPT !.id = q]
    /\ Send([Request("getPeers", stored) EXCEPT !.peer = q])
    /\ UNCHANGED <<tour, tableVars, stored, made>>

\* handleRevoke: the button stays enabled
ConfirmRevoke ==
    /\ On("peer")
    /\ "revoke" \in PeerOperations
    /\ Send([Request("revokePeer", stored) EXCEPT !.peer = screen.peer])
    /\ UNCHANGED <<tour, tableVars, stored, screen, made>>

\* also when the page was left meanwhile
Revoked(s) ==
    /\ calls[s].op = "revokePeer"
    /\ calls[s].answer = "ok"
    /\ Push(DashboardPage, Over(s, FALSE), stored)
    /\ UNCHANGED <<tour, tableVars, stored>>

\* an alert, or an answer for a page that was left
Unheard(s) ==
    /\ calls[s].op \in {"revokePeer", "login"}
    /\ calls[s].op = "revokePeer" \/ calls[s].page = "left"
    /\ calls[s].answer \in Failures
    /\ calls' = Over(s, FALSE)
    /\ UNCHANGED <<tour, tableVars, stored, screen, made>>

-----------------------------------------------------------------------------
(* The users page. *)

UsersListed(s) ==
    /\ On("users")
    /\ Answered(s, "getUsers", {"ok"})
    /\ screen' = [screen EXCEPT !.users = calls[s].users, !.loading = FALSE,
                                !.missed = @ \/ calls[s].stale]
    /\ calls' = Over(s, TRUE)
    /\ UNCHANGED <<tour, tableVars, stored, made>>


UsersRefused(s) ==
    /\ On("users")
    /\ Answered(s, "getUsers", Failures)
    /\ screen' = [screen EXCEPT
          !.loading = FALSE,
          !.error = @ \/ calls[s].answer = "forbidden",
          !.missed = @ \/ (calls[s].newer = {} /\ ~calls[s].stale)]
    /\ calls' = Over(s, FALSE)
    /\ UNCHANGED <<tour, tableVars, stored, made>>

RefreshUsers ==
    /\ On("users")
    /\ UsersView.refresh
    /\ screen' = [screen EXCEPT !.loading = TRUE]
    /\ Send(Request("getUsers", stored))
    /\ UNCHANGED <<tour, tableVars, stored, made>>

SubmitUser(u, r) ==
    /\ On("users")
    /\ UsersView.submit
    /\ screen' = [screen EXCEPT !.isProvisioning = TRUE, !.error = FALSE,
                                !.success = Nobody]
    /\ Send([Request("register", stored) EXCEPT !.user = u, !.role = r])
    /\ UNCHANGED <<tour, tableVars, stored, made>>

\* Wrong: no second fetch while one is loading.
UserCreatedWhileLoading(s) ==
    /\ On("users")
    /\ Answered(s, "register", {"ok"})
    /\ screen' = [screen EXCEPT !.success = calls[s].user, !.isProvisioning = FALSE,
                                !.loading = TRUE, !.missed = FALSE]
    /\ calls' = IF screen.loading THEN Over(s, FALSE)
                ELSE Sent(Over(s, FALSE), s, Request("getUsers", stored))
    /\ UNCHANGED <<tour, tableVars, stored, made>>

\* success, an empty form, and the list is fetched again
UserCreated(s) ==
    /\ On("users")
    /\ Answered(s, "register", {"ok"})
    /\ screen' = [screen EXCEPT !.success = calls[s].user, !.isProvisioning = FALSE,
                                !.loading = TRUE, !.missed = FALSE]
    /\ calls' = Sent(Over(s, FALSE), s, Request("getUsers", stored))
    /\ UNCHANGED <<tour, tableVars, stored, made>>

UserRefused(s) ==
    /\ On("users")
    /\ Answered(s, "register", Failures)
    /\ screen' = [screen EXCEPT !.error = TRUE, !.isProvisioning = FALSE]
    /\ calls' = Over(s, FALSE)
    /\ UNCHANGED <<tour, tableVars, stored, made>>

-----------------------------------------------------------------------------
(* The deploy page. *)

\* a failure is only logged: the operators stay unlisted
OperatorsListed(s) ==
    /\ On("deploy")
    /\ Answered(s, "getUsers", Failures \cup {"ok"})
    /\ screen' = [screen EXCEPT !.users = calls[s].answer = "ok"]
    /\ calls' = Over(s, TRUE)
    /\ UNCHANGED <<tour, tableVars, stored, made>>

FillForm ==
    /\ On("deploy")
    /\ FormView.shown
    /\ FormView.operators
    /\ ~screen.filled
    /\ screen' = [screen EXCEPT !.filled = TRUE]
    /\ UNCHANGED <<tour, apiVars, stored, made>>

\* Wrong: the button stays enabled.
SubmitDeployAgain ==
    /\ On("deploy")
    /\ FormView.shown
    /\ screen.filled
    /\ screen' = [screen EXCEPT !.isDeploying = TRUE, !.error = FALSE]
    /\ Send(Request("createPeer", stored))
    /\ UNCHANGED <<tour, tableVars, stored, made>>

SubmitDeploy ==
    /\ On("deploy")
    /\ FormView.shown
    /\ FormView.submit
    /\ screen' = [screen EXCEPT !.isDeploying = TRUE, !.error = FALSE]
    /\ Send(Request("createPeer", stored))
    /\ UNCHANGED <<tour, tableVars, stored, made>>

\* the answer always has a configuration; isDeploying stays set
Deployed(s) ==
    /\ On("deploy")
    /\ Answered(s, "createPeer", {"ok"})
    /\ screen' = [screen EXCEPT !.generatedConfig = calls[s].peer, !.given = TRUE]
    /\ calls' = Over(s, FALSE)
    /\ UNCHANGED <<tour, tableVars, stored, made>>

DeployRefused(s) ==
    /\ On("deploy")
    /\ Answered(s, "createPeer", Failures)
    /\ screen' = [screen EXCEPT !.error = TRUE, !.isDeploying = FALSE]
    /\ made' = 0
    /\ calls' = Over(s, FALSE)
    /\ UNCHANGED <<tour, tableVars, stored>>

\* "DEPLOY ANOTHER NODE": an empty form
DeployAnother ==
    /\ On("deploy")
    /\ ConfigView
    /\ screen' = [screen EXCEPT !.generatedConfig = 0, !.filled = FALSE]
    /\ made' = 0
    /\ UNCHANGED <<tour, apiVars, stored>>

-----------------------------------------------------------------------------
(* The network and the server. *)

Serve(s) ==
    /\ Respond(s)
    /\ made' = IF calls[s].op = "createPeer" /\ calls[s].page = "mounted" /\ peers' # peers
               THEN made + 1
               ELSE made
    /\ UNCHANGED <<tour, stored, screen>>

\* the request or its answer is lost: fetch fails
Lose(s) ==
    /\ calls[s].op # "none"
    /\ calls[s].page # "cut"
    /\ calls[s].answer # "refused"
    /\ calls' = [calls EXCEPT ![s] = Failed(s, "refused")]
    /\ UNCHANGED <<tour, tableVars, stored, screen, made>>

\* a cut request is never served
LoseCut(s) ==
    /\ calls[s].op # "none"
    /\ calls[s].page = "cut"
    /\ calls' = [calls EXCEPT ![s] = Idle]
    /\ UNCHANGED <<tour, tableVars, stored, screen, made>>

\* fetch fails while the request is still on its way: it is served later
GiveUp(s) ==
    /\ calls[s].op \in Writes
    /\ calls[s].page # "cut"
    /\ calls[s].answer = "none"
    /\ \E t \in Slots :
          /\ Free(calls, t)
          /\ calls' = [calls EXCEPT ![s] = Failed(s, "refused"),
                                    ![t] = [calls[s] EXCEPT !.page = "cut"]]
    /\ UNCHANGED <<tour, tableVars, stored, screen, made>>

Elsewhere ==
    /\ \/ \E p \in PeerIds : RevokeElsewhere(p)
       \/ "claim" \in tour /\ \E u \in Users : ClaimElsewhere(u)
    /\ UNCHANGED <<tour, stored, screen, made>>

-----------------------------------------------------------------------------
\* the code after the await of request s
Deliver(s) ==
    \/ SignedIn(s) \/ LoginRefused(s)
    \/ PeersListed(s) \/ PeersRefused(s)
    \/ PeerFound(s) \/ PeerNotFound(s)
    \/ Revoked(s) \/ Unheard(s)
    \/ UsersListed(s) \/ UsersRefused(s)
    \/ UserCreated(s) \/ UserRefused(s)
    \/ OperatorsListed(s) \/ Deployed(s) \/ DeployRefused(s)

Operator ==
    \/ \E page \in Pages : Open(page) \/ FollowLink(page) \/ Back(page)
    \/ Close
    \/ \E u \in Users : SubmitLogin(u) \/ OtherTabSignsIn(u)
    \/ \E q \in PeerIds : ChangeAddress(q)
    \/ ConfirmRevoke
    \/ RefreshUsers
    \/ \E u \in Users \ {Root}, r \in Roles : SubmitUser(u, r)
    \/ FillForm \/ SubmitDeploy \/ DeployAnother

Next ==
    \/ Operator
    \/ \E stats \in SUBSET PeerIds : LiveStats(stats)
    \/ "day" \in tour /\ Expire
    \/ Elsewhere
    \/ \E s \in Slots : Deliver(s) \/ Serve(s) \/ Lose(s) \/ LoseCut(s) \/ GiveUp(s)

\* fetch comes to an end, and what awaits it runs
Fairness == \A s \in Slots : WF_vars(Lose(s) \/ Serve(s)) /\ WF_vars(Deliver(s))

Spec == ConsoleInit /\ [][Next]_vars /\ Fairness

-----------------------------------------------------------------------------
ConsoleTypeOK ==
    /\ accounts \in [Users -> Roles \cup {"none"}]
    /\ peers \in [PeerIds -> {"none", "active", "revoked"}]
    /\ stored \in Token \cup {NoToken}
    /\ screen \in Screens
    /\ calls \in [Slots -> Call]
    /\ made \in 0 .. MaxPeers

InFlight(op) == {s \in Slots : calls[s].op = op /\ calls[s].page = "mounted"}

\* The list is fetched again after a user was provisioned, while other fetches of it may
\* be in flight: as long as the message of success is shown, and when nothing is being
\* fetched, the user is in the list, unless that fetch failed or an older one overtook it.
ProvisionedUserListed ==
    On("users") /\ UsersView.success /\ InFlight("getUsers") = {} =>
        \/ screen.missed
        \/ UsersView.rows = "users" /\ screen.success \in screen.users

\* The page of a peer reads the list again for each id, and the answers may come in any
\* order: when nothing is being fetched it shows the peer of its address, unless an older
\* answer came last.
PeerPageCurrent ==
    On("peer") /\ PeerView = "node" /\ InFlight("getPeers") = {} =>
        screen.late \/ screen.peer = screen.id

\* The list of a page and the stream both say who is connected, and take turns in any
\* order.  A peer that was revoked before the page was opened is shown there as idle or
\* online only if the stream has named that very peer since the list was shown: no list,
\* and no message about others, brings it back.  The stream itself may name it, as its
\* key may still be on the interface.
RevokedUpOnlyIfHeard ==
    /\ On("dashboard") =>
          \A p \in screen.gone : screen.peers[p] = "up" => p \in screen.heard
    /\ On("peer") /\ screen.peer \in screen.gone /\ screen.status = "up" =>
          screen.peer \in screen.heard

\* However often the form is submitted, and whatever is lost, the creations of a visit
\* put no second row in the table before the operator is told that one failed, or asks
\* for another.
NoDoubleDeployment == made <= 1

\* The request s is granted: it is answered, or the tables change for it.
Granted(s) ==
    /\ calls[s].answer = "none"
    /\ calls'[s] # calls[s]
    /\ calls'[s].answer = "ok" \/ tableVars' # tableVars

AdminStep ==
    /\ \A s \in Slots : calls[s].op \in AdminOnly /\ Granted(s) =>
          \E u \in Users : u = calls[s].token.user /\ accounts[u] = "admin"
    /\ \A u \in Users : accounts'[u] # accounts[u] =>
          /\ accounts[u] = "none"
          /\ \/ accounts'[u] = "standard"
             \/ \E s \in Slots : calls[s].op = "register" /\ Granted(s)

\* Tokens are believed for a day in what they claim, and anyone with a peer may claim an
\* account: still what is for administrators is granted only to a user who is one in the
\* table now, no role ever changes, and an administrator comes into being only this way.
AdminsOnly == [][AdminStep]_vars

\* the spinner of a page, or the button that is disabled meanwhile
Waiting ==
    \/ On("login") /\ ~LoginView.submit
    \/ On("users") /\ UsersView.rows = "SCANNING_RECORDS"
    \/ On("peer") /\ PeerView = "LOCATING_NODE"
    \/ On("deploy") /\ screen.isDeploying /\ ~screen.given

Provisioning == On("users") /\ screen.isProvisioning

=============================================================================
