--------------------------- MODULE ConsoleProofs ---------------------------
(***************************************************************************)
(* Theorems of Console, for any users, peers, slots and tours.             *)
(***************************************************************************)
EXTENDS Console, TLAPS

Requests == [Slots -> Call]

\* what the invariants tell of a call: d differs from c in nothing else, or has failed
Like(d, c) ==
    /\ d.op = c.op
    /\ d.page = c.page
    /\ d.token \in {c.token, NoToken}
    /\ \/ /\ d.answer = c.answer
          /\ d.user = c.user
          /\ d.role = c.role
          /\ d.peers = c.peers
       \/ d.answer \in Failures

LEMMA IdleIsCall == Idle \in Call
BY ApiAssumption DEF Idle, Call, Reads, Writes, NoToken, PeerIds, Slots, Roles

LEMMA RequestIsCall ==
    ASSUME NEW op \in Reads \cup Writes \cup {"login"}, NEW token \in Token \cup {NoToken}
    PROVE  /\ Request(op, token) \in Call
           /\ Request(op, token).op = op
           /\ Request(op, token).token = token
           /\ Request(op, token).answer = "none"
           /\ Request(op, token).page = "mounted"
<1> DEFINE r(i) == [i EXCEPT !.op = op, !.token = token, !.page = "mounted"]
<1>1. ASSUME NEW i \in Call
      PROVE  /\ r(i) \in Call
             /\ r(i).op = op
             /\ r(i).token = token
             /\ r(i).answer = i.answer
             /\ r(i).page = "mounted"
  <2>1. /\ op \in Reads \cup Writes \cup {"login", "none"}
        /\ "mounted" \in {"mounted", "left", "cut"}
    OBVIOUS
  <2>2. r(i) \in Call
    <3>1. [i EXCEPT !.op = op] \in Call
      BY <2>1 DEF Call
    <3>2. \A c \in Call : [c EXCEPT !.token = token] \in Call
      BY DEF Call
    <3>3. \A c \in Call : [c EXCEPT !.page = "mounted"] \in Call
      BY <2>1 DEF Call
    <3>4. r(i) = [[[i EXCEPT !.op = op] EXCEPT !.token = token] EXCEPT !.page = "mounted"]
      BY Zenon
    <3>5. QED
      BY <3>1, <3>2, <3>3, <3>4
  <2>3. /\ r(i).op = op
        /\ r(i).token = token
        /\ r(i).answer = i.answer
        /\ r(i).page = "mounted"
    BY DEF Call
  <2>4. QED
    BY <2>2, <2>3
<1>2. Request(op, token) = r(Idle) /\ Idle.answer = "none"
    BY DEF Request, Idle
<1>3. QED
    BY <1>1, <1>2, IdleIsCall

LEMMA OverCalls ==
    ASSUME calls \in Requests, NEW s \in Slots, NEW used \in BOOLEAN
    PROVE  /\ Over(s, used) \in Requests
           /\ Over(s, used)[s] = Idle
           /\ \A t \in Slots \ {s} : Like(Over(s, used)[t], calls[t])
<1>1. ASSUME NEW t \in Slots \ {s}
      PROVE  Over(s, used)[t] \in Call /\ Like(Over(s, used)[t], calls[t])
  <2> DEFINE d == [calls[t] EXCEPT !.stale = calls[t].stale \/ (used /\ s \in calls[t].newer),
                                   !.newer = calls[t].newer \ {s}]
  <2>1. Over(s, used)[t] = d
    BY DEF Over
  <2>2. calls[t] \in Call
    BY DEF Requests
  <2>3. d \in Call
    <3>1. \A c \in Call, n \in SUBSET Slots : [c EXCEPT !.newer = n] \in Call
      BY DEF Call
    <3>2. \A c \in Call, b \in BOOLEAN : [c EXCEPT !.stale = b] \in Call
      BY DEF Call
    <3>3. /\ calls[t].newer \ {s} \in SUBSET Slots
          /\ calls[t].stale \/ (used /\ s \in calls[t].newer) \in BOOLEAN
      BY <2>2 DEF Call
    <3>4. d = [[calls[t] EXCEPT !.stale = calls[t].stale \/ (used /\ s \in calls[t].newer)]
                  EXCEPT !.newer = calls[t].newer \ {s}]
      BY Zenon
    <3>5. QED
      BY <2>2, <3>1, <3>2, <3>3, <3>4
  <2>4. Like(d, calls[t])
    BY <2>2 DEF Call, Like
  <2>5. QED
    BY <2>1, <2>3, <2>4
<1>2. Over(s, used)[s] = Idle
    BY DEF Over
<1>3. Over(s, used) \in Requests
    BY <1>1, <1>2, IdleIsCall DEF Over, Requests
<1>4. QED
    BY <1>1, <1>2, <1>3

\* d is c after another call, s, is over
SameCall(d, c, s, used) ==
    /\ d.op = c.op
    /\ d.page = c.page
    /\ d.answer = c.answer
    /\ d.peer = c.peer
    /\ d.users = c.users
    /\ d.newer = c.newer \ {s}
    /\ d.stale = IF used /\ s \in c.newer THEN TRUE ELSE c.stale

LEMMA OverFields ==
    ASSUME calls \in Requests, NEW s \in Slots, NEW used, NEW t \in Slots \ {s}
    PROVE  SameCall(Over(s, used)[t], calls[t], s, used)
<1>1. calls[t] \in Call
    BY DEF Requests
<1>2. QED
    BY <1>1 DEF Over, Call, SameCall

LEMMA SentCalls ==
    ASSUME NEW cs \in Requests, NEW s \in Slots, NEW c \in Call
    PROVE  /\ Sent(cs, s, c) \in Requests
           /\ Sent(cs, s, c)[s] = c
           /\ \A t \in Slots \ {s} : Like(Sent(cs, s, c)[t], cs[t])
<1>1. ASSUME NEW t \in Slots \ {s}
      PROVE  Sent(cs, s, c)[t] \in Call /\ Like(Sent(cs, s, c)[t], cs[t])
  <2> DEFINE d == [cs[t] EXCEPT !.newer = cs[t].newer \cup {s}]
  <2>1. Sent(cs, s, c)[t] \in {cs[t], d}
    BY DEF Sent
  <2>2. cs[t] \in Call
    BY DEF Requests
  <2>3. d \in Call
    BY <2>2 DEF Call
  <2>4. Like(d, cs[t]) /\ Like(cs[t], cs[t])
    BY <2>2 DEF Call, Like
  <2>5. QED
    BY <2>1, <2>2, <2>3, <2>4
<1>2. Sent(cs, s, c)[s] = c
    BY DEF Sent
<1>3. Sent(cs, s, c) \in Requests
    BY <1>1, <1>2 DEF Sent, Requests
<1>4. QED
    BY <1>1, <1>2, <1>3

LEMMA OrphanCalls ==
    ASSUME NEW cs \in Requests, NEW heard
    PROVE  /\ Orphans(cs, heard) \in Requests
           /\ \A t \in Slots : /\ Orphans(cs, heard)[t].page # "mounted"
                               /\ Orphans(cs, heard)[t].token \in {cs[t].token, NoToken}
                               /\ Orphans(cs, heard)[t].answer \in {cs[t].answer, "none"}
                               /\ \/ Orphans(cs, heard)[t] = Idle
                                  \/ /\ Orphans(cs, heard)[t].op = cs[t].op
                                     /\ Orphans(cs, heard)[t].answer = cs[t].answer
                                     /\ Orphans(cs, heard)[t].user = cs[t].user
                                     /\ Orphans(cs, heard)[t].role = cs[t].role
<1>1. ASSUME NEW t \in Slots
      PROVE  /\ Orphans(cs, heard)[t] \in Call
             /\ Orphans(cs, heard)[t].page # "mounted"
             /\ Orphans(cs, heard)[t].token \in {cs[t].token, NoToken}
             /\ Orphans(cs, heard)[t].answer \in {cs[t].answer, "none"}
             /\ \/ Orphans(cs, heard)[t] = Idle
                \/ /\ Orphans(cs, heard)[t].op = cs[t].op
                   /\ Orphans(cs, heard)[t].answer = cs[t].answer
                   /\ Orphans(cs, heard)[t].user = cs[t].user
                   /\ Orphans(cs, heard)[t].role = cs[t].role
  <2> DEFINE l == [cs[t] EXCEPT !.page = "left"]
  <2> DEFINE k == [cs[t] EXCEPT !.page = "cut"]
  <2>1. Orphans(cs, heard)[t] \in {l, k, Idle}
    BY DEF Orphans
  <2>2. cs[t] \in Call
    BY DEF Requests
  <2>3. l \in Call /\ k \in Call
    BY <2>2 DEF Call
  <2>4. /\ l.page = "left" /\ l.token = cs[t].token /\ l.answer = cs[t].answer
        /\ k.page = "cut" /\ k.token = cs[t].token /\ k.answer = cs[t].answer
        /\ l.op = cs[t].op /\ l.user = cs[t].user /\ l.role = cs[t].role
        /\ k.op = cs[t].op /\ k.user = cs[t].user /\ k.role = cs[t].role
    BY <2>2 DEF Call
  <2>5. Idle.page = "cut" /\ Idle.token = NoToken /\ Idle.answer = "none"
    BY DEF Idle
  <2>6. QED
    BY <2>1, <2>3, <2>4, <2>5, IdleIsCall
<1>2. Orphans(cs, heard) \in Requests
    BY <1>1 DEF Orphans, Requests
<1>3. QED
    BY <1>1, <1>2

-----------------------------------------------------------------------------
(* Types, and every token in the tab claims what the table says: no role ever
   changes. *)

Tokens == {t \in Token \cup {NoToken} : t = NoToken \/ accounts[t.user] = t.role}

\* a login and a registration name their user
Sound(c, tokens) ==
    /\ c.token \in tokens
    /\ c.answer = "none" =>
          /\ c.op \in {"login", "register"} => c.user \in Users
          /\ c.op = "register" => c.role \in Roles

Carrying(tokens) == {cs \in Requests : \A s \in Slots : Sound(cs[s], tokens)}

LEMMA IdleIsSound == ASSUME NEW tokens, NoToken \in tokens PROVE Sound(Idle, tokens)
BY DEF Sound, Idle

TypeInv ==
    /\ accounts \in [Users -> Roles \cup {"none"}]
    /\ peers \in [PeerIds -> {"none", "active", "revoked"}]
    /\ stored \in Tokens
    /\ screen \in Screens
    /\ calls \in Carrying(Tokens)

LEMMA NoTokenIsTrue == NoToken \in Tokens
BY DEF Tokens

LEMMA TokensStay ==
    ASSUME accounts \in [Users -> Roles \cup {"none"}],
           \A u \in Users : accounts[u] # "none" => accounts'[u] = accounts[u]
    PROVE  Tokens \subseteq Tokens'
<1> SUFFICES ASSUME NEW t \in Token, accounts[t.user] = t.role
             PROVE  accounts'[t.user] = t.role
    BY DEF Tokens, Token
<1>1. t.user \in Users /\ t.role # "none"
    BY DEF Token, Roles
<1>2. QED
    BY <1>1

LEMMA OverCarries ==
    ASSUME NEW tokens, NoToken \in tokens, calls \in Carrying(tokens),
           NEW s \in Slots, NEW used \in BOOLEAN
    PROVE  Over(s, used) \in Carrying(tokens)
<1>1. calls \in Requests /\ \A t \in Slots : Sound(calls[t], tokens)
    BY DEF Carrying
<1>2. \A t \in Slots \ {s} : Sound(Over(s, used)[t], tokens)
    BY <1>1, OverCalls DEF Sound, Like, Failures
<1>3. QED
    BY <1>1, <1>2, OverCalls, IdleIsSound DEF Carrying

LEMMA SentCarries ==
    ASSUME NEW tokens, NoToken \in tokens, NEW cs \in Carrying(tokens),
           NEW s \in Slots, NEW c \in Call, Sound(c, tokens)
    PROVE  Sent(cs, s, c) \in Carrying(tokens)
<1>1. cs \in Requests /\ \A t \in Slots : Sound(cs[t], tokens)
    BY DEF Carrying
<1>2. \A t \in Slots \ {s} : Sound(Sent(cs, s, c)[t], tokens)
    BY <1>1, SentCalls DEF Sound, Like, Failures
<1>3. QED
    BY <1>1, <1>2, SentCalls DEF Carrying

LEMMA OrphansCarry ==
    ASSUME NEW tokens, NoToken \in tokens, NEW cs \in Carrying(tokens), NEW heard
    PROVE  Orphans(cs, heard) \in Carrying(tokens)
<1>1. cs \in Requests /\ \A t \in Slots : Sound(cs[t], tokens)
    BY DEF Carrying
<1>2. ASSUME NEW t \in Slots PROVE Sound(Orphans(cs, heard)[t], tokens)
    BY <1>1, OrphanCalls, IdleIsSound DEF Sound
<1>3. QED
    BY <1>1, <1>2, OrphanCalls DEF Carrying

LEMMA SendCarries ==
    ASSUME TypeInv, NEW c \in Call, Sound(c, Tokens), Send(c)
    PROVE  calls' \in Carrying(Tokens)
BY SentCarries, NoTokenIsTrue DEF Send, TypeInv

LEMMA PagesAreScreens ==
    ASSUME NEW page \in Pages
    PROVE  page \in Screens
<1>1. Gone \in SUBSET PeerIds
    BY DEF Gone
<1>2. LoginPage \in Screens
    BY DEF LoginPage, LoginScreens, Screens
<1>3. DashboardPage \in Screens
    BY <1>1 DEF DashboardPage, DashboardScreens, Screens, Statuses
<1>4. UsersPage \in Screens
  <2>1. (GetJwtRole = "admin") \in BOOLEAN
    OBVIOUS
  <2>2. UsersPage \in UsersScreens
    BY <2>1 DEF UsersPage, UsersScreens
  <2>3. QED
    BY <2>2 DEF Screens
<1>5. DeployPage \in Screens
    BY ApiAssumption DEF DeployPage, DeployScreens, Screens
<1>6. ASSUME NEW p \in PeerIds PROVE PeerDetailPage(p) \in Screens
    BY <1>1, ApiAssumption DEF PeerDetailPage, PeerScreens, Screens, Statuses
<1>7. QED
    BY <1>2, <1>3, <1>4, <1>5, <1>6 DEF Pages

LEMMA FetchIsCall ==
    ASSUME NEW page \in Pages, NEW token \in Token \cup {NoToken}
    PROVE  /\ Fetch(page, token) \in Call
           /\ Fetch(page, token).token = token
           /\ Fetch(page, token).op \in Reads
           /\ Fetch(page, token).answer = "none"
           /\ Fetch(page, token).page = "mounted"
<1> DEFINE c(p) == [Request("getPeers", token) EXCEPT !.peer = p]
<1>1. ASSUME NEW p \in PeerIds
      PROVE  /\ c(p) \in Call
             /\ c(p).token = token
             /\ c(p).op = "getPeers"
             /\ c(p).answer = "none"
             /\ c(p).page = "mounted"
  <2>1. /\ Request("getPeers", token) \in Call
        /\ Request("getPeers", token).op = "getPeers"
        /\ Request("getPeers", token).token = token
        /\ Request("getPeers", token).answer = "none"
        /\ Request("getPeers", token).page = "mounted"
    BY RequestIsCall DEF Reads
  <2>2. p \in 0 .. MaxPeers
    BY ApiAssumption DEF PeerIds
  <2> DEFINE d(i) == [i EXCEPT !.peer = p]
  <2>3. ASSUME NEW i \in Call
        PROVE  /\ d(i) \in Call
               /\ d(i).token = i.token
               /\ d(i).op = i.op
               /\ d(i).answer = i.answer
               /\ d(i).page = i.page
    BY <2>2 DEF Call
  <2>4. QED
    BY <2>1, <2>3
<1>2. page.page = "peer" => page.id \in PeerIds
    BY DEF Pages, LoginPage, DashboardPage, UsersPage, DeployPage, PeerDetailPage
<1>3. QED
    BY <1>1, <1>2, RequestIsCall DEF Fetch, Reads

LEMMA MountCarries ==
    ASSUME TypeInv, NEW page \in Pages, NEW cs \in Carrying(Tokens), NEW token \in Tokens,
           Mount(page, cs, token)
    PROVE  screen' \in Screens /\ calls' \in Carrying(Tokens)
<1>1. screen' \in Screens
    BY PagesAreScreens DEF Mount
<1>2. CASE calls' = cs
    BY <1>1, <1>2
<1>3. ASSUME NEW s \in Slots, calls' = Sent(cs, s, Fetch(page, token))
      PROVE  calls' \in Carrying(Tokens)
  <2>1. token \in Token \cup {NoToken}
    BY DEF Tokens
  <2>2. QED
    BY <1>3, <2>1, FetchIsCall, SentCarries, NoTokenIsTrue DEF Sound, Reads
<1>4. QED
    BY <1>1, <1>2, <1>3 DEF Mount

LEMMA PushCarries ==
    ASSUME TypeInv, NEW page \in Pages, NEW cs \in Carrying(Tokens), NEW token \in Tokens,
           Push(page, cs, token)
    PROVE  screen' \in Screens /\ calls' \in Carrying(Tokens)
<1>1. CASE calls' = cs /\ UNCHANGED screen
    BY <1>1 DEF TypeInv
<1>2. CASE Mount(page, Orphans(cs, {"login", "revokePeer"}), token)
    BY <1>2, MountCarries, OrphansCarry, NoTokenIsTrue
<1>3. QED
    BY <1>1, <1>2 DEF Push

LEMMA ScreenOfPage ==
    ASSUME screen \in Screens
    PROVE  /\ On("closed") => screen = Closed
           /\ On("login") => screen \in LoginScreens
           /\ On("dashboard") => screen \in DashboardScreens
           /\ On("peer") => screen \in PeerScreens
           /\ On("users") => screen \in UsersScreens
           /\ On("deploy") => screen \in DeployScreens
BY DEF On, Screens, Closed, LoginScreens, DashboardScreens, PeerScreens, UsersScreens,
       DeployScreens

\* the tables and the token stay: what is left of a step
LEMMA QuietStep ==
    ASSUME TypeInv, UNCHANGED <<tableVars, stored>>, screen' \in Screens,
           calls' \in Carrying(Tokens)
    PROVE  TypeInv'
<1>1. accounts' = accounts /\ peers' = peers /\ stored' = stored
    BY DEF tableVars
<1>2. Tokens' = Tokens
    BY <1>1 DEF Tokens
<1>3. QED
    BY <1>1, <1>2 DEF TypeInv

LEMMA TokenTypes ==
    ASSUME TypeInv
    PROVE  /\ stored \in Token \cup {NoToken}
           /\ calls \in Requests
           /\ \A s \in Slots : calls[s] \in Call /\ Sound(calls[s], Tokens)
           /\ Tokens \subseteq Token \cup {NoToken}
BY DEF TypeInv, Tokens, Carrying, Requests, Sound

LEMMA StoredRequest ==
    ASSUME TypeInv, NEW op \in {"login", "getUsers", "getPeers", "register", "createPeer",
                                "revokePeer"}
    PROVE  /\ Request(op, stored) \in Call
           /\ Request(op, stored).op = op
           /\ Request(op, stored).token = stored
           /\ Request(op, stored).answer = "none"
           /\ Request(op, stored).page = "mounted"
BY TokenTypes, RequestIsCall DEF Reads, Writes

LEMMA TokenFacts ==
    ASSUME TypeInv
    PROVE  NoToken \in Tokens /\ calls \in Carrying(Tokens) /\ stored \in Tokens
BY NoTokenIsTrue DEF TypeInv

-----------------------------------------------------------------------------
(* The types and the tokens through every step. *)

LEMMA OperatorTypes ==
    ASSUME TypeInv, Operator
    PROVE  TypeInv'
<1> USE TokenFacts, TokenTypes
<1>1. screen \in Screens
    BY DEF TypeInv
<1>2. AuthGuard(LoginPage) \in Pages /\ \A page \in Pages : AuthGuard(page) \in Pages
    BY DEF AuthGuard, Pages
<1>3. ASSUME NEW page \in Pages, Open(page) PROVE TypeInv'
  <2>1. screen' \in Screens /\ calls' \in Carrying(Tokens)
    BY <1>2, <1>3, MountCarries DEF Open
  <2>2. QED
    BY <1>3, <2>1, QuietStep DEF Open
<1>4. ASSUME NEW page \in Pages, Leave(page) PROVE TypeInv'
  <2>1. Orphans(calls, {"login", "revokePeer"}) \in Carrying(Tokens)
    BY OrphansCarry
  <2>2. screen' \in Screens /\ calls' \in Carrying(Tokens)
    BY <1>2, <1>4, <2>1, MountCarries DEF Leave
  <2>3. QED
    BY <1>4, <2>2, QuietStep DEF Leave
<1>5. ASSUME Close PROVE TypeInv'
  <2>1. calls' \in Carrying(Tokens)
    BY <1>5, OrphansCarry DEF Close
  <2>2. QED
    BY <1>5, <2>1, QuietStep DEF Close, Screens
<1>6. ASSUME NEW u \in Users, SubmitLogin(u) PROVE TypeInv'
  <2> DEFINE c == [Request("login", stored) EXCEPT !.user = u]
  <2>1. Request("login", stored) \in Call /\ Request("login", stored).token = stored
    BY StoredRequest
  <2>2. c \in Call /\ c.token = stored /\ c.user = u /\ c.op = "login"
    BY <2>1, StoredRequest DEF Call
  <2>3. calls' \in Carrying(Tokens)
    BY <1>6, <2>2, SendCarries DEF Sound, SubmitLogin
  <2>4. screen \in LoginScreens
    BY <1>1, <1>6, ScreenOfPage DEF SubmitLogin
  <2>5. screen' \in LoginScreens
    BY <1>6, <2>4 DEF SubmitLogin, LoginScreens
  <2>6. QED
    BY <1>6, <2>3, <2>5, QuietStep DEF SubmitLogin, Screens
<1>7. ASSUME NEW u \in Users, OtherTabSignsIn(u) PROVE TypeInv'
  <2>1. accounts[u] \in Roles
    BY <1>7 DEF OtherTabSignsIn, TypeInv
  <2>2. stored' \in Tokens
    BY <1>7, <2>1 DEF OtherTabSignsIn, GenerateToken, Tokens, Token
  <2>3. UNCHANGED <<accounts, peers, calls, screen>>
    BY <1>7 DEF OtherTabSignsIn, apiVars, tableVars
  <2>4. Tokens' = Tokens
    BY <2>3 DEF Tokens
  <2>5. QED
    BY <2>2, <2>3, <2>4 DEF TypeInv
<1>8. ASSUME NEW q \in PeerIds, ChangeAddress(q) PROVE TypeInv'
  <2> DEFINE c == [Request("getPeers", stored) EXCEPT !.peer = q]
  <2>1. /\ Request("getPeers", stored) \in Call
        /\ Request("getPeers", stored).token = stored
        /\ Request("getPeers", stored).op = "getPeers"
    BY StoredRequest
  <2>2. q \in 0 .. MaxPeers
    BY ApiAssumption DEF PeerIds
  <2>3. c \in Call /\ c.token = stored /\ c.op = "getPeers"
    BY <2>1, <2>2 DEF Call
  <2>4. calls' \in Carrying(Tokens)
    BY <1>8, <2>3, SendCarries DEF Sound, ChangeAddress
  <2>5. screen \in PeerScreens
    BY <1>1, <1>8, ScreenOfPage DEF ChangeAddress
  <2>6. screen' \in PeerScreens
    BY <1>8, <2>5 DEF ChangeAddress, PeerScreens
  <2>7. QED
    BY <1>8, <2>4, <2>6, QuietStep DEF ChangeAddress, Screens
<1>9. ASSUME ConfirmRevoke PROVE TypeInv'
  <2> DEFINE c == [Request("revokePeer", stored) EXCEPT !.peer = screen.peer]
  <2>1. /\ Request("revokePeer", stored) \in Call
        /\ Request("revokePeer", stored).token = stored
        /\ Request("revokePeer", stored).op = "revokePeer"
    BY StoredRequest
  <2>2. screen \in PeerScreens
    BY <1>1, <1>9, ScreenOfPage DEF ConfirmRevoke
  <2>3. screen.peer \in 0 .. MaxPeers
    BY <2>2 DEF PeerScreens
  <2>4. c \in Call /\ c.token = stored /\ c.op = "revokePeer"
    BY <2>1, <2>3 DEF Call
  <2>5. calls' \in Carrying(Tokens)
    BY <1>9, <2>4, SendCarries DEF Sound, ConfirmRevoke
  <2>6. QED
    BY <1>1, <1>9, <2>5, QuietStep DEF ConfirmRevoke
<1>10. ASSUME RefreshUsers PROVE TypeInv'
  <2>1. /\ Request("getUsers", stored) \in Call
        /\ Request("getUsers", stored).token = stored
        /\ Request("getUsers", stored).op = "getUsers"
    BY StoredRequest
  <2>2. calls' \in Carrying(Tokens)
    BY <1>10, <2>1, SendCarries DEF Sound, RefreshUsers
  <2>3. screen \in UsersScreens
    BY <1>1, <1>10, ScreenOfPage DEF RefreshUsers
  <2>4. screen' \in UsersScreens
    BY <1>10, <2>3 DEF RefreshUsers, UsersScreens
  <2>5. QED
    BY <1>10, <2>2, <2>4, QuietStep DEF RefreshUsers, Screens
<1>11. ASSUME NEW u \in Users, NEW r \in Roles, SubmitUser(u, r) PROVE TypeInv'
  <2> DEFINE c == [Request("register", stored) EXCEPT !.user = u, !.role = r]
  <2>1. /\ Request("register", stored) \in Call
        /\ Request("register", stored).token = stored
    BY StoredRequest
  <2>2. c \in Call /\ c.token = stored /\ c.user = u /\ c.role = r
    BY <2>1 DEF Call
  <2>3. calls' \in Carrying(Tokens)
    BY <1>11, <2>2, SendCarries DEF Sound, SubmitUser
  <2>4. screen \in UsersScreens
    BY <1>1, <1>11, ScreenOfPage DEF SubmitUser
  <2>5. screen' \in UsersScreens
    BY <1>11, <2>4 DEF SubmitUser, UsersScreens
  <2>6. QED
    BY <1>11, <2>3, <2>5, QuietStep DEF SubmitUser, Screens
<1>12. ASSUME FillForm \/ DeployAnother PROVE TypeInv'
  <2>1. screen \in DeployScreens
    BY <1>1, <1>12, ScreenOfPage DEF FillForm, DeployAnother
  <2>2. 0 \in 0 .. MaxPeers
    BY ApiAssumption
  <2>3. ASSUME FillForm PROVE screen' \in DeployScreens
    BY <2>1, <2>3 DEF FillForm, DeployScreens
  <2>4. ASSUME DeployAnother PROVE screen' \in DeployScreens
    BY <2>1, <2>2, <2>4 DEF DeployAnother, DeployScreens
  <2>5. QED
    BY <1>12, <2>3, <2>4, QuietStep DEF FillForm, DeployAnother, Screens, apiVars
<1>13. ASSUME SubmitDeploy PROVE TypeInv'
  <2>1. /\ Request("createPeer", stored) \in Call
        /\ Request("createPeer", stored).token = stored
        /\ Request("createPeer", stored).op = "createPeer"
    BY StoredRequest
  <2>2. calls' \in Carrying(Tokens)
    BY <1>13, <2>1, SendCarries DEF Sound, SubmitDeploy
  <2>3. screen \in DeployScreens
    BY <1>1, <1>13, ScreenOfPage DEF SubmitDeploy
  <2>4. screen' \in DeployScreens
    BY <1>13, <2>3 DEF SubmitDeploy, DeployScreens
  <2>5. QED
    BY <1>13, <2>2, <2>4, QuietStep DEF SubmitDeploy, Screens
<1>14. QED
    BY <1>3, <1>4, <1>5, <1>6, <1>7, <1>8, <1>9, <1>10, <1>11, <1>12, <1>13
    DEF Operator, FollowLink, Back

LEMMA DeliverTypes ==
    ASSUME TypeInv, NEW s \in Slots, Deliver(s)
    PROVE  TypeInv'
<1> USE TokenFacts, TokenTypes
<1>1. screen \in Screens
    BY DEF TypeInv
<1>2. \A used \in BOOLEAN : Over(s, used) \in Carrying(Tokens)
    BY OverCarries
<1>3. calls[s] \in Call
    OBVIOUS
<1>4. LoginPage \in Pages /\ DashboardPage \in Pages
    BY DEF Pages
<1>5. ASSUME SignedIn(s) PROVE TypeInv'
  <2>0. calls[s].token \in Tokens
    BY DEF Sound
  <2>1. screen' \in Screens /\ calls' \in Carrying(Tokens)
    BY <1>2, <1>4, <1>5, <2>0, PushCarries DEF SignedIn
  <2>2. stored' \in Tokens
    BY <1>5, <2>0 DEF SignedIn
  <2>3. accounts' = accounts /\ peers' = peers
    BY <1>5 DEF SignedIn, tableVars
  <2>4. Tokens' = Tokens
    BY <2>3 DEF Tokens
  <2>5. QED
    BY <2>1, <2>2, <2>3, <2>4 DEF TypeInv
<1>6. ASSUME Revoked(s) PROVE TypeInv'
  <2>1. screen' \in Screens /\ calls' \in Carrying(Tokens)
    BY <1>2, <1>4, <1>6, PushCarries DEF Revoked
  <2>2. QED
    BY <1>6, <2>1, QuietStep DEF Revoked
<1>7. ASSUME PeersRefused(s) \/ Unheard(s) PROVE TypeInv'
    BY <1>1, <1>2, <1>7, QuietStep DEF PeersRefused, Unheard
<1>8. ASSUME LoginRefused(s) PROVE TypeInv'
  <2>1. screen \in LoginScreens
    BY <1>1, <1>8, ScreenOfPage DEF LoginRefused
  <2>2. screen' \in LoginScreens
    BY <1>3, <1>8, <2>1 DEF LoginRefused, LoginScreens
  <2>3. QED
    BY <1>1, <1>2, <1>8, <2>2, QuietStep DEF LoginRefused, Screens
<1>9. ASSUME PeersListed(s) PROVE TypeInv'
  <2>1. screen \in DashboardScreens
    BY <1>1, <1>9, ScreenOfPage DEF PeersListed
  <2>2. screen' \in DashboardScreens
    BY <1>3, <1>9, <2>1 DEF PeersListed, DashboardScreens, MapStatus, Statuses
  <2>3. QED
    BY <1>1, <1>2, <1>9, <2>2, QuietStep DEF PeersListed, Screens
<1>10. ASSUME PeerFound(s) PROVE TypeInv'
  <2>1. screen \in PeerScreens
    BY <1>1, <1>10, ScreenOfPage DEF PeerFound
  <2>2. screen' \in PeerScreens
    BY <1>3, <1>10, <2>1 DEF PeerFound, PeerScreens, MapStatus, Statuses, Call
  <2>3. QED
    BY <1>1, <1>2, <1>10, <2>2, QuietStep DEF PeerFound, Screens
<1>11. ASSUME PeerNotFound(s) PROVE TypeInv'
  <2>1. screen \in PeerScreens
    BY <1>1, <1>11, ScreenOfPage DEF PeerNotFound
  <2>2. screen' \in PeerScreens
    BY <1>3, <1>11, <2>1 DEF PeerNotFound, PeerScreens
  <2>3. QED
    BY <1>1, <1>2, <1>11, <2>2, QuietStep DEF PeerNotFound, Screens
<1>12. ASSUME UsersListed(s) PROVE TypeInv'
  <2>1. screen \in UsersScreens
    BY <1>1, <1>12, ScreenOfPage DEF UsersListed
  <2>2. screen' \in UsersScreens
    <3>1. calls[s].users \in SUBSET Users /\ calls[s].stale \in BOOLEAN
      BY <1>3 DEF Call
    <3>2. QED
      BY <1>12, <2>1, <3>1 DEF UsersListed, UsersScreens
  <2>3. QED
    BY <1>1, <1>2, <1>12, <2>2, QuietStep DEF UsersListed, Screens
<1>13. ASSUME UsersRefused(s) PROVE TypeInv'
  <2>1. screen \in UsersScreens
    BY <1>1, <1>13, ScreenOfPage DEF UsersRefused
  <2>2. screen' \in UsersScreens
    BY <1>3, <1>13, <2>1 DEF UsersRefused, UsersScreens
  <2>3. QED
    BY <1>1, <1>2, <1>13, <2>2, QuietStep DEF UsersRefused, Screens
<1>14. ASSUME UserCreated(s) PROVE TypeInv'
  <2>1. screen \in UsersScreens
    BY <1>1, <1>14, ScreenOfPage DEF UserCreated
  <2>2. screen' \in UsersScreens
    BY <1>3, <1>14, <2>1 DEF UserCreated, UsersScreens, Call
  <2>3. /\ Request("getUsers", stored) \in Call
        /\ Request("getUsers", stored).token = stored
        /\ Request("getUsers", stored).op = "getUsers"
    BY StoredRequest
  <2>4. calls' \in Carrying(Tokens)
    BY <1>2, <1>14, <2>3, SentCarries DEF UserCreated, Sound
  <2>5. QED
    BY <1>14, <2>2, <2>4, QuietStep DEF UserCreated, Screens
<1>15. ASSUME UserRefused(s) PROVE TypeInv'
  <2>1. screen \in UsersScreens
    BY <1>1, <1>15, ScreenOfPage DEF UserRefused
  <2>2. screen' \in UsersScreens
    BY <1>3, <1>15, <2>1 DEF UserRefused, UsersScreens
  <2>3. QED
    BY <1>1, <1>2, <1>15, <2>2, QuietStep DEF UserRefused, Screens
<1>16. ASSUME OperatorsListed(s) PROVE TypeInv'
  <2>1. screen \in DeployScreens
    BY <1>1, <1>16, ScreenOfPage DEF OperatorsListed
  <2>2. screen' \in DeployScreens
    BY <1>3, <1>16, <2>1 DEF OperatorsListed, DeployScreens
  <2>3. QED
    BY <1>1, <1>2, <1>16, <2>2, QuietStep DEF OperatorsListed, Screens
<1>17. ASSUME Deployed(s) PROVE TypeInv'
  <2>1. screen \in DeployScreens
    BY <1>1, <1>17, ScreenOfPage DEF Deployed
  <2>2. screen' \in DeployScreens
    BY <1>3, <1>17, <2>1 DEF Deployed, DeployScreens, Call
  <2>3. QED
    BY <1>1, <1>2, <1>17, <2>2, QuietStep DEF Deployed, Screens
<1>18. ASSUME DeployRefused(s) PROVE TypeInv'
  <2>1. screen \in DeployScreens
    BY <1>1, <1>18, ScreenOfPage DEF DeployRefused
  <2>2. screen' \in DeployScreens
    BY <1>3, <1>18, <2>1 DEF DeployRefused, DeployScreens
  <2>3. QED
    BY <1>1, <1>2, <1>18, <2>2, QuietStep DEF DeployRefused, Screens
<1>19. QED
    BY <1>5, <1>6, <1>7, <1>8, <1>9, <1>10, <1>11, <1>12, <1>13, <1>14, <1>15, <1>16, <1>17,
       <1>18
    DEF Deliver

\* the answers keep the request they are for
LEMMA AnswerIsCall ==
    ASSUME TypeInv, NEW s \in Slots
    PROVE  /\ /\ Done(s) \in Call
              /\ Done(s).token = NoToken
              /\ Done(s).answer = "ok"
              /\ Done(s).op = calls[s].op
              /\ Done(s).page = calls[s].page
              /\ Done(s).user = calls[s].user
              /\ Done(s).peer = calls[s].peer
              /\ Done(s).newer = calls[s].newer /\ Done(s).stale = calls[s].stale
           /\ \A a \in {"forbidden", "refused"} :
                 /\ Failed(s, a) \in Call
                 /\ Failed(s, a).token = NoToken
                 /\ Failed(s, a).answer = a
                 /\ Failed(s, a).op = calls[s].op
                 /\ Failed(s, a).page = calls[s].page
                 /\ Failed(s, a).newer = calls[s].newer
                 /\ Failed(s, a).stale = calls[s].stale
<1> DEFINE d(c) == [c EXCEPT !.answer = "ok", !.token = NoToken, !.role = "none"]
<1> DEFINE f(c, a) == [c EXCEPT !.answer = a, !.user = Nobody, !.peer = 0]
<1>1. calls[s] \in Call
    BY TokenTypes
<1>2. ASSUME NEW c \in Call
      PROVE  /\ d(c) \in Call
             /\ d(c).token = NoToken
             /\ d(c).answer = "ok"
             /\ d(c).op = c.op
             /\ d(c).page = c.page
             /\ d(c).user = c.user
             /\ d(c).peer = c.peer
             /\ d(c).newer = c.newer /\ d(c).stale = c.stale
    BY DEF Call
<1>3. 0 \in 0 .. MaxPeers
    BY ApiAssumption
<1>4. ASSUME NEW c \in Call, NEW a \in {"forbidden", "refused"}
      PROVE  /\ f(c, a) \in Call
             /\ f(c, a).token = c.token
             /\ f(c, a).answer = a
             /\ f(c, a).op = c.op
             /\ f(c, a).page = c.page
             /\ f(c, a).newer = c.newer /\ f(c, a).stale = c.stale
    BY <1>3 DEF Call
<1>5. Done(s) = d(calls[s])
    BY DEF Done
<1>6. /\ Done(s) \in Call
      /\ Done(s).token = NoToken
      /\ Done(s).answer = "ok"
      /\ Done(s).op = calls[s].op
      /\ Done(s).page = calls[s].page
      /\ Done(s).user = calls[s].user
      /\ Done(s).peer = calls[s].peer
      /\ Done(s).newer = calls[s].newer /\ Done(s).stale = calls[s].stale
  <2> HIDE DEF d
  <2>1. /\ d(calls[s]) \in Call
        /\ d(calls[s]).token = NoToken
        /\ d(calls[s]).answer = "ok"
        /\ d(calls[s]).op = calls[s].op
        /\ d(calls[s]).page = calls[s].page
        /\ d(calls[s]).user = calls[s].user
        /\ d(calls[s]).peer = calls[s].peer
        /\ d(calls[s]).newer = calls[s].newer /\ d(calls[s]).stale = calls[s].stale
    BY <1>1, <1>2
  <2>2. QED
    BY <1>5, <2>1
<1>7. ASSUME NEW a \in {"forbidden", "refused"}
      PROVE  /\ Failed(s, a) \in Call
             /\ Failed(s, a).token = NoToken
             /\ Failed(s, a).answer = a
             /\ Failed(s, a).op = calls[s].op
             /\ Failed(s, a).page = calls[s].page
             /\ Failed(s, a).newer = calls[s].newer /\ Failed(s, a).stale = calls[s].stale
  <2>1. Failed(s, a) = f(Done(s), a)
    BY DEF Failed
  <2> HIDE DEF f
  <2>2. /\ f(Done(s), a) \in Call
        /\ f(Done(s), a).token = NoToken
        /\ f(Done(s), a).answer = a
        /\ f(Done(s), a).op = calls[s].op
        /\ f(Done(s), a).page = calls[s].page
        /\ f(Done(s), a).newer = calls[s].newer
        /\ f(Done(s), a).stale = calls[s].stale
    BY <1>4, <1>6, <1>7
  <2>3. QED
    BY <2>1, <2>2
<1>8. QED
    BY <1>6, <1>7

LEMMA PutCarries ==
    ASSUME NEW tokens, NoToken \in tokens, calls \in Carrying(tokens), NEW s \in Slots,
           NEW c \in Call, Sound(c, tokens)
    PROVE  [calls EXCEPT ![s] = c] \in Carrying(tokens)
BY DEF Carrying, Requests

LEMMA ReplyCarries ==
    ASSUME TypeInv, NEW s \in Slots, NEW c \in Call, Sound(c, Tokens), Reply(s, c)
    PROVE  calls' \in Carrying(Tokens)
<1>1. Idle \in Call /\ Sound(Idle, Tokens)
    BY IdleIsCall, IdleIsSound, TokenFacts
<1>2. QED
    BY <1>1, PutCarries, TokenFacts DEF Reply

LEMMA ServeTypes ==
    ASSUME TypeInv, NEW s \in Slots, Respond(s), UNCHANGED <<stored, screen>>
    PROVE  TypeInv'
<1> USE TokenFacts, TokenTypes
<1>1. /\ accounts \in [Users -> Roles \cup {"none"}]
      /\ peers \in [PeerIds -> {"none", "active", "revoked"}]
      /\ screen \in Screens
      /\ calls[s] \in Call
    BY DEF TypeInv
<1>2. ASSUME UNCHANGED tableVars, calls' \in Carrying(Tokens)
      PROVE  TypeInv'
    BY <1>1, <1>2, QuietStep
<1>3. ASSUME NEW answer \in {"forbidden", "refused"}, Reply(s, Failed(s, answer)),
             UNCHANGED tableVars
      PROVE  TypeInv'
    BY <1>2, <1>3, AnswerIsCall, ReplyCarries DEF Sound
<1>4. ASSUME Login(s), calls[s].op = "login" PROVE TypeInv'
  <2> DEFINE token == GenerateToken(calls[s].user)
  <2> DEFINE c == [Done(s) EXCEPT !.token = token]
  <2>1. calls[s].user \in Users
    BY <1>4 DEF Respond, Sound
  <2>2. token \in Tokens
    BY <1>1, <1>4, <2>1 DEF Login, GenerateToken, Tokens, Token
  <2>3. c \in Call /\ c.token = token /\ c.answer = "ok"
    BY <2>2, AnswerIsCall DEF Call
  <2>4. calls' \in Carrying(Tokens)
    BY <1>4, <2>2, <2>3, ReplyCarries DEF Login, Sound
  <2>5. QED
    BY <1>2, <1>4, <2>4 DEF Login
<1>5. ASSUME GetAllUsers(s) PROVE TypeInv'
  <2> DEFINE us == {u \in Users : accounts[u] # "none"}
  <2> DEFINE c == [Done(s) EXCEPT !.users = us]
  <2>1. c \in Call /\ c.token = NoToken /\ c.answer = "ok"
    BY AnswerIsCall DEF Call
  <2>2. calls' \in Carrying(Tokens)
    BY <1>5, <2>1, ReplyCarries DEF GetAllUsers, Sound
  <2>3. QED
    BY <1>2, <1>5, <2>2 DEF GetAllUsers
<1>6. ASSUME GetAllPeers(s) PROVE TypeInv'
  <2> DEFINE c == [Done(s) EXCEPT !.peers = peers]
  <2>1. c \in Call /\ c.token = NoToken /\ c.answer = "ok"
    BY <1>1, AnswerIsCall DEF Call
  <2>2. calls' \in Carrying(Tokens)
    BY <1>6, <2>1, ReplyCarries DEF GetAllPeers, Sound
  <2>3. QED
    BY <1>2, <1>6, <2>2 DEF GetAllPeers
<1>7. ASSUME CreateUser(s), calls[s].op = "register" PROVE TypeInv'
  <2>1. calls[s].user \in Users /\ calls[s].role \in Roles
    BY <1>7 DEF Respond, Sound
  <2>2. accounts' \in [Users -> Roles \cup {"none"}]
    BY <1>1, <1>7, <2>1 DEF CreateUser
  <2>3. Tokens \subseteq Tokens'
    BY <1>1, <1>7, TokensStay DEF CreateUser
  <2>4. calls' \in Carrying(Tokens)
    BY <1>7, AnswerIsCall, ReplyCarries DEF CreateUser, Sound
  <2>5. calls' \in Carrying(Tokens')
    BY <2>3, <2>4 DEF Carrying, Sound
  <2>6. QED
    BY <1>1, <1>7, <2>2, <2>3, <2>5 DEF TypeInv, CreateUser
<1>8. ASSUME NEW p \in PeerIds, NEW status \in {"active", "revoked"},
             peers' = [peers EXCEPT ![p] = status], UNCHANGED accounts,
             calls' \in Carrying(Tokens)
      PROVE  TypeInv'
  <2>1. Tokens' = Tokens
    BY <1>8 DEF Tokens
  <2>2. peers' \in [PeerIds -> {"none", "active", "revoked"}]
    BY <1>1, <1>8
  <2>3. QED
    BY <1>1, <1>8, <2>1, <2>2 DEF TypeInv
<1>9. ASSUME CreatePeer(s) PROVE TypeInv'
  <2>1. PICK p \in PeerIds : /\ peers' = [peers EXCEPT ![p] = "active"]
                             /\ \/ Reply(s, [Done(s) EXCEPT !.peer = p])
                                \/ Reply(s, Failed(s, "refused"))
                             /\ UNCHANGED accounts
    BY <1>9 DEF CreatePeer
  <2> DEFINE c == [Done(s) EXCEPT !.peer = p]
  <2>2. p \in 0 .. MaxPeers
    BY ApiAssumption DEF PeerIds
  <2>3. c \in Call /\ c.token = NoToken /\ c.answer = "ok"
    BY <2>2, AnswerIsCall DEF Call
  <2>4. calls' \in Carrying(Tokens)
    BY <2>1, <2>3, AnswerIsCall, ReplyCarries DEF Sound
  <2>5. QED
    BY <1>8, <2>1, <2>4
<1>10. ASSUME RevokePeer(s) PROVE TypeInv'
  <2>1. calls' \in Carrying(Tokens)
    BY <1>10, AnswerIsCall, ReplyCarries DEF RevokePeer, Sound
  <2>2. QED
    BY <1>8, <1>10, <2>1 DEF RevokePeer
<1>11. \A inside \in BOOLEAN : Turned(calls[s], inside) \in {"forbidden", "refused", "ok"}
    BY DEF Turned
<1>12. QED
    BY <1>3, <1>4, <1>5, <1>6, <1>7, <1>9, <1>10, <1>11 DEF Respond, Handle

LEMMA OtherTypes ==
    ASSUME TypeInv
    PROVE  /\ \A stats \in SUBSET PeerIds : LiveStats(stats) => TypeInv'
           /\ Expire => TypeInv'
           /\ Elsewhere => TypeInv'
           /\ \A s \in Slots : Lose(s) \/ LoseCut(s) \/ GiveUp(s) => TypeInv'
<1> USE TokenFacts, TokenTypes
<1>1. /\ accounts \in [Users -> Roles \cup {"none"}]
      /\ peers \in [PeerIds -> {"none", "active", "revoked"}]
      /\ screen \in Screens
      /\ \A s \in Slots : calls[s] \in Call
    BY DEF TypeInv
<1>2. ASSUME NEW stats \in SUBSET PeerIds, On("dashboard"), LiveUpdate(stats) PROVE TypeInv'
  <2>1. screen \in DashboardScreens
    BY <1>1, <1>2, ScreenOfPage
  <2>2. screen' \in DashboardScreens
    BY <1>2, <2>1 DEF LiveUpdate, DashboardScreens, Statuses
  <2>3. QED
    BY <1>2, <2>2, QuietStep DEF LiveUpdate, Screens, apiVars
<1>3. ASSUME NEW stats \in SUBSET PeerIds, On("peer"), LivePeerUpdate(stats) PROVE TypeInv'
  <2>1. screen \in PeerScreens
    BY <1>1, <1>3, ScreenOfPage
  <2>2. screen' \in PeerScreens
    BY <1>3, <2>1 DEF LivePeerUpdate, PeerScreens, Statuses
  <2>3. QED
    BY <1>3, <2>2, QuietStep DEF LivePeerUpdate, Screens, apiVars
<1>4. ASSUME Expire PROVE TypeInv'
  <2>1. UNCHANGED <<accounts, peers, calls, screen>>
    BY <1>4 DEF Expire, apiVars, tableVars
  <2>2. Tokens' = Tokens
    BY <2>1 DEF Tokens
  <2>3. stored.live /\ stored \in Tokens /\ stored' = [stored EXCEPT !.live = FALSE]
    BY <1>4 DEF Expire
  <2>4. ~NoToken.live
    BY DEF NoToken
  <2>5. stored \in Token /\ accounts[stored.user] = stored.role
    BY <2>3, <2>4 DEF Tokens
  <2>6. stored' \in Token /\ stored'.user = stored.user /\ stored'.role = stored.role
    BY <2>3, <2>5 DEF Token
  <2>7. stored' \in Tokens
    BY <2>5, <2>6 DEF Tokens
  <2>8. QED
    BY <2>1, <2>2, <2>7 DEF TypeInv
<1>5. ASSUME NEW p \in PeerIds, RevokeElsewhere(p), UNCHANGED <<stored, screen>>
      PROVE  TypeInv'
  <2>1. Tokens' = Tokens
    BY <1>5 DEF Tokens, RevokeElsewhere
  <2>2. peers' \in [PeerIds -> {"none", "active", "revoked"}]
    BY <1>1, <1>5 DEF RevokeElsewhere
  <2>3. QED
    BY <1>1, <1>5, <2>1, <2>2 DEF TypeInv, RevokeElsewhere
<1>6. ASSUME NEW u \in Users, ClaimElsewhere(u), UNCHANGED <<stored, screen>>
      PROVE  TypeInv'
  <2>1. accounts' \in [Users -> Roles \cup {"none"}]
    BY <1>1, <1>6 DEF ClaimElsewhere, Roles
  <2>2. Tokens \subseteq Tokens'
    BY <1>1, <1>6, TokensStay DEF ClaimElsewhere
  <2>3. calls \in Carrying(Tokens')
    BY <2>2 DEF Carrying, Sound
  <2>4. QED
    BY <1>1, <1>6, <2>1, <2>2, <2>3 DEF TypeInv, ClaimElsewhere
<1>7. ASSUME NEW s \in Slots, Lose(s) \/ LoseCut(s) \/ GiveUp(s) PROVE TypeInv'
  <2>1. Idle \in Call /\ Sound(Idle, Tokens)
    BY IdleIsCall, IdleIsSound
  <2>2. Failed(s, "refused") \in Call /\ Sound(Failed(s, "refused"), Tokens)
    BY AnswerIsCall DEF Sound
  <2>3. ASSUME NEW t \in Slots,
               calls' = [calls EXCEPT ![s] = Failed(s, "refused"),
                                      ![t] = [calls[s] EXCEPT !.page = "cut"]]
        PROVE  calls' \in Carrying(Tokens)
    <3> DEFINE k == [calls[s] EXCEPT !.page = "cut"]
    <3>1. calls[s] \in Call /\ Sound(calls[s], Tokens)
      OBVIOUS
    <3>2. k \in Call /\ Sound(k, Tokens)
      BY <3>1 DEF Call, Sound
    <3>3. QED
      BY <2>2, <2>3, <3>2 DEF Carrying, Requests
  <2>4. calls' \in Carrying(Tokens)
    BY <1>7, <2>1, <2>2, <2>3, PutCarries DEF Lose, LoseCut, GiveUp
  <2>5. QED
    BY <1>1, <1>7, <2>4, QuietStep DEF Lose, LoseCut, GiveUp
<1>8. QED
    BY <1>2, <1>3, <1>4, <1>5, <1>6, <1>7 DEF LiveStats, Elsewhere

\* Every variable has its type, and every token in the tab, in the storage or in a
\* request, claims the role its user has in the table.
THEOREM TypesAndTokens == Spec => []TypeInv
<1>1. ConsoleInit => TypeInv
  <2> SUFFICES ASSUME ConsoleInit PROVE TypeInv
    OBVIOUS
  <2>1. calls \in Carrying(Tokens)
    BY IdleIsCall, IdleIsSound, NoTokenIsTrue
    DEF ConsoleInit, ApiInit, Carrying, Requests
  <2>2. QED
    BY <2>1, NoTokenIsTrue DEF ConsoleInit, ApiInit, TypeInv, Roles, Screens
<1>2. TypeInv /\ [Next]_vars => TypeInv'
  <2> SUFFICES ASSUME TypeInv, [Next]_vars PROVE TypeInv'
    OBVIOUS
  <2>1. CASE UNCHANGED vars
    BY <2>1 DEF vars, apiVars, tableVars, TypeInv, Tokens, Gone
  <2>2. CASE Next
    BY <2>2, OperatorTypes, DeliverTypes, ServeTypes, OtherTypes DEF Next, Serve
  <2>3. QED
    BY <2>1, <2>2
<1>3. QED
    BY <1>1, <1>2, PTL DEF Spec

-----------------------------------------------------------------------------
(* Who is granted what. *)

\* ds has no answer of the server that cs has not
NoAnswer(ds, cs) == \A s \in Slots :
    ds[s].answer = "ok" =>
        /\ cs[s].answer = "ok"
        /\ ds[s].op = cs[s].op
        /\ ds[s].user = cs[s].user

LEMMA OverNoAnswer ==
    ASSUME calls \in Requests, NEW s \in Slots, NEW used \in BOOLEAN
    PROVE  NoAnswer(Over(s, used), calls)
<1>1. Idle.answer = "none"
    BY DEF Idle
<1>2. QED
    BY <1>1, OverCalls DEF NoAnswer, Like, Failures

LEMMA SentNoAnswer ==
    ASSUME NEW cs \in Requests, NEW s \in Slots, NEW c \in Call, c.answer = "none"
    PROVE  NoAnswer(Sent(cs, s, c), cs)
BY SentCalls DEF NoAnswer, Like, Failures

LEMMA OrphansNoAnswer ==
    ASSUME NEW cs \in Requests, NEW heard
    PROVE  NoAnswer(Orphans(cs, heard), cs)
<1>1. Idle.answer = "none"
    BY DEF Idle
<1>2. QED
    BY <1>1, OrphanCalls DEF NoAnswer

LEMMA MountNoAnswer ==
    ASSUME NEW page \in Pages, NEW cs \in Requests, NEW token \in Token \cup {NoToken},
           Mount(page, cs, token)
    PROVE  NoAnswer(calls', cs)
<1>1. CASE calls' = cs
    BY <1>1 DEF NoAnswer
<1>2. ASSUME NEW s \in Slots, calls' = Sent(cs, s, Fetch(page, token))
      PROVE  NoAnswer(calls', cs)
    BY <1>2, FetchIsCall, SentNoAnswer
<1>3. QED
    BY <1>1, <1>2 DEF Mount

LEMMA PushNoAnswer ==
    ASSUME NEW page \in Pages, NEW cs \in Requests, NEW token \in Token \cup {NoToken},
           Push(page, cs, token)
    PROVE  NoAnswer(calls', cs)
<1> DEFINE os == Orphans(cs, {"login", "revokePeer"})
<1>1. CASE calls' = cs
    BY <1>1 DEF NoAnswer
<1>2. CASE Mount(page, os, token)
  <2>1. os \in Requests /\ NoAnswer(os, cs)
    BY OrphanCalls, OrphansNoAnswer
  <2>2. NoAnswer(calls', os)
    BY <1>2, <2>1, MountNoAnswer
  <2>3. QED
    BY <2>1, <2>2 DEF NoAnswer
<1>3. QED
    BY <1>1, <1>2 DEF Push

LEMMA SendNoAnswer ==
    ASSUME calls \in Requests, NEW c \in Call, c.answer = "none", Send(c)
    PROVE  NoAnswer(calls', calls)
BY SentNoAnswer DEF Send

\* what the operator does and what follows an await grants nothing
LEMMA TabAsksOnly ==
    ASSUME TypeInv, Operator \/ \E s \in Slots : Deliver(s)
    PROVE  UNCHANGED tableVars /\ NoAnswer(calls', calls)
<1>0. /\ calls \in Requests
      /\ stored \in Token \cup {NoToken}
      /\ \A s \in Slots : calls[s].token \in Token \cup {NoToken}
    BY TokenTypes DEF Sound
<1>1. UNCHANGED tableVars
  <2>1. CASE Operator
    BY <2>1 DEF Operator, Open, FollowLink, Back, Leave, Close, SubmitLogin,
                OtherTabSignsIn, ChangeAddress, ConfirmRevoke, RefreshUsers, SubmitUser,
                FillForm, SubmitDeploy, DeployAnother, apiVars
  <2>2. ASSUME NEW s \in Slots, Deliver(s) PROVE UNCHANGED tableVars
    BY <2>2 DEF Deliver, SignedIn, LoginRefused, PeersListed, PeersRefused, PeerFound,
                PeerNotFound, Revoked, Unheard, UsersListed, UsersRefused, UserCreated,
                UserRefused, OperatorsListed, Deployed, DeployRefused
  <2>3. QED
    BY <2>1, <2>2
<1>2. ASSUME Operator PROVE NoAnswer(calls', calls)
  <2>1. AuthGuard(LoginPage) \in Pages /\ \A page \in Pages : AuthGuard(page) \in Pages
    BY DEF AuthGuard, Pages
  <2>2. ASSUME NEW page \in Pages, Open(page) PROVE NoAnswer(calls', calls)
    BY <1>0, <2>1, <2>2, MountNoAnswer DEF Open
  <2>3. ASSUME NEW page \in Pages, Leave(page) PROVE NoAnswer(calls', calls)
    <3> DEFINE os == Orphans(calls, {"login", "revokePeer"})
    <3>1. os \in Requests /\ NoAnswer(os, calls)
      BY <1>0, OrphanCalls, OrphansNoAnswer
    <3>2. NoAnswer(calls', os)
      BY <1>0, <2>1, <2>3, <3>1, MountNoAnswer DEF Leave
    <3>3. QED
      BY <3>1, <3>2 DEF NoAnswer
  <2>4. ASSUME Close PROVE NoAnswer(calls', calls)
    BY <1>0, <2>4, OrphansNoAnswer DEF Close
  <2>5. ASSUME FillForm \/ DeployAnother \/ \E u \in Users : OtherTabSignsIn(u)
        PROVE  NoAnswer(calls', calls)
    BY <2>5 DEF FillForm, DeployAnother, OtherTabSignsIn, apiVars, NoAnswer
  <2>6. ASSUME NEW u \in Users, SubmitLogin(u) PROVE NoAnswer(calls', calls)
    <3> DEFINE c(i) == [i EXCEPT !.user = u]
    <3>1. \A i \in Call : c(i) \in Call /\ c(i).answer = i.answer
      BY DEF Call
    <3>2. c(Request("login", stored)) \in Call /\ c(Request("login", stored)).answer = "none"
      BY <3>1, StoredRequest
    <3>3. QED
      BY <1>0, <2>6, <3>2, SendNoAnswer DEF SubmitLogin
  <2>7. ASSUME NEW q \in 0 .. MaxPeers, NEW op \in {"getPeers", "revokePeer"},
               Send([Request(op, stored) EXCEPT !.peer = q])
        PROVE  NoAnswer(calls', calls)
    <3> DEFINE c(i) == [i EXCEPT !.peer = q]
    <3>1. \A i \in Call : c(i) \in Call /\ c(i).answer = i.answer
      BY DEF Call
    <3>2. c(Request(op, stored)) \in Call /\ c(Request(op, stored)).answer = "none"
      BY <3>1, StoredRequest
    <3>3. QED
      BY <1>0, <2>7, <3>2, SendNoAnswer
  <2>8. ASSUME NEW q \in PeerIds, ChangeAddress(q) PROVE NoAnswer(calls', calls)
    <3>1. q \in 0 .. MaxPeers
      BY ApiAssumption DEF PeerIds
    <3>2. QED
      BY <2>7, <2>8, <3>1 DEF ChangeAddress
  <2>9. ASSUME ConfirmRevoke PROVE NoAnswer(calls', calls)
    <3>1. screen \in PeerScreens
      BY <2>9, ScreenOfPage DEF ConfirmRevoke, TypeInv
    <3>2. screen.peer \in 0 .. MaxPeers
      BY <3>1 DEF PeerScreens
    <3>3. QED
      BY <2>7, <2>9, <3>2 DEF ConfirmRevoke
  <2>10. ASSUME RefreshUsers \/ SubmitDeploy PROVE NoAnswer(calls', calls)
    BY <1>0, <2>10, StoredRequest, SendNoAnswer DEF RefreshUsers, SubmitDeploy
  <2>11. ASSUME NEW u \in Users, NEW r \in Roles, SubmitUser(u, r)
         PROVE  NoAnswer(calls', calls)
    <3> DEFINE c(i) == [i EXCEPT !.user = u, !.role = r]
    <3>1. \A i \in Call : c(i) \in Call /\ c(i).answer = i.answer
      BY DEF Call
    <3>2. /\ c(Request("register", stored)) \in Call
          /\ c(Request("register", stored)).answer = "none"
      BY <3>1, StoredRequest
    <3>3. QED
      BY <1>0, <2>11, <3>2, SendNoAnswer DEF SubmitUser
  <2>12. QED
    BY <1>2, <2>2, <2>3, <2>4, <2>5, <2>6, <2>8, <2>9, <2>10, <2>11
    DEF Operator, FollowLink, Back
<1>3. ASSUME NEW s \in Slots, Deliver(s) PROVE NoAnswer(calls', calls)
  <2>1. \A used \in BOOLEAN : /\ Over(s, used) \in Requests
                              /\ NoAnswer(Over(s, used), calls)
    BY <1>0, OverCalls, OverNoAnswer
  <2>2. DashboardPage \in Pages
    BY DEF Pages
  <2>3. ASSUME NEW token \in Token \cup {NoToken},
               Push(DashboardPage, Over(s, FALSE), token)
        PROVE  NoAnswer(calls', calls)
    <3>1. NoAnswer(calls', Over(s, FALSE))
      BY <2>1, <2>2, <2>3, PushNoAnswer
    <3>2. QED
      BY <2>1, <3>1 DEF NoAnswer
  <2>4. ASSUME SignedIn(s) \/ Revoked(s) PROVE NoAnswer(calls', calls)
    BY <1>0, <2>3, <2>4 DEF SignedIn, Revoked
  <2>5. ASSUME UserCreated(s) PROVE NoAnswer(calls', calls)
    <3>1. NoAnswer(calls', Over(s, FALSE))
      BY <2>1, <2>5, StoredRequest, SentNoAnswer DEF UserCreated
    <3>2. QED
      BY <2>1, <3>1 DEF NoAnswer
  <2>6. ASSUME \E used \in BOOLEAN : calls' = Over(s, used) PROVE NoAnswer(calls', calls)
    BY <2>1, <2>6
  <2>7. QED
    BY <1>3, <2>4, <2>5, <2>6
    DEF Deliver, LoginRefused, PeersListed, PeersRefused, PeerFound, PeerNotFound, Unheard,
        UsersListed, UsersRefused, UserRefused, OperatorsListed, Deployed, DeployRefused
<1>4. QED
    BY <1>1, <1>2, <1>3

\* nor does the loss of a request or of its answer
LEMMA LossGrantsNothing ==
    ASSUME TypeInv, NEW s \in Slots, Lose(s) \/ LoseCut(s) \/ GiveUp(s)
    PROVE  UNCHANGED tableVars /\ NoAnswer(calls', calls)
<1> DEFINE k == [calls[s] EXCEPT !.page = "cut"]
<1>1. calls \in Requests /\ calls[s] \in Call
    BY TokenTypes
<1>2. Failed(s, "refused").answer = "refused" /\ Idle.answer = "none"
    BY AnswerIsCall DEF Idle
<1>3. calls[s].answer = "none" => k.answer = "none"
    BY <1>1 DEF Call
<1>4. CASE Lose(s)
    BY <1>1, <1>2, <1>4 DEF Lose, NoAnswer, Requests
<1>5. CASE LoseCut(s)
    BY <1>1, <1>2, <1>5 DEF LoseCut, NoAnswer, Requests
<1>6. CASE GiveUp(s)
  <2>1. PICK t \in Slots : calls' = [calls EXCEPT ![s] = Failed(s, "refused"), ![t] = k]
    BY <1>6 DEF GiveUp
  <2>2. UNCHANGED tableVars /\ k.answer = "none"
    BY <1>3, <1>6 DEF GiveUp
  <2>3. QED
    BY <1>1, <1>2, <2>1, <2>2 DEF NoAnswer, Requests
<1>7. QED
    BY <1>4, <1>5, <1>6

\* the server grants a request only with a token of an administrator
LEMMA ServeGrants ==
    ASSUME TypeInv, NEW s \in Slots, Respond(s)
    PROVE  AdminStep
<1>1. /\ calls \in Requests
      /\ calls[s] \in Call
      /\ Sound(calls[s], Tokens)
      /\ calls[s].op # "none"
      /\ calls[s].answer = "none"
    BY TokenTypes DEF Respond
<1>2. ASSUME NEW c, Reply(s, c), NEW t \in Slots \ {s} PROVE calls'[t] = calls[t]
    BY <1>1, <1>2 DEF Reply, Requests
<1>3. ASSUME NEW c, Reply(s, c) PROVE calls'[s] = Idle \/ calls'[s] = c
    BY <1>1, <1>3 DEF Reply, Requests
<1>4. Idle.answer = "none" /\ Idle.op = "none"
    BY DEF Idle
<1>5. \E c : Reply(s, c)
    BY DEF Respond, Handle, Login, GetAllUsers, GetAllPeers, CreateUser, CreatePeer,
           RevokePeer
<1>6. ASSUME NEW t \in Slots, calls[t].op \in AdminOnly, Granted(t)
      PROVE  \E u \in Users : u = calls[t].token.user /\ accounts[u] = "admin"
  <2>1. t = s
    BY <1>2, <1>5, <1>6 DEF Granted
  <2>2. ASSUME NEW answer \in {"forbidden", "refused"}, Reply(s, Failed(s, answer)),
               UNCHANGED tableVars
        PROVE  FALSE
    BY <1>3, <1>4, <1>6, <2>1, <2>2, AnswerIsCall DEF Granted
  <2>3. \A inside \in BOOLEAN : Turned(calls[s], inside) \in {"forbidden", "refused", "ok"}
    BY DEF Turned
  <2>4. Turned(calls[s], TRUE) = "ok"
    BY <2>2, <2>3 DEF Respond
  <2>5. calls[s].token.role = "admin"
    BY <1>6, <2>1, <2>4 DEF Turned, RequireRole
  <2>6. NoToken.role = "none"
    BY DEF NoToken
  <2>7. calls[s].token \in Token /\ accounts[calls[s].token.user] = "admin"
    BY <1>1, <2>5, <2>6 DEF Sound, Tokens
  <2>8. QED
    BY <2>1, <2>7 DEF Token
<1>7. ASSUME NEW u \in Users, accounts'[u] # accounts[u]
      PROVE  /\ accounts[u] = "none"
             /\ \E t \in Slots : calls[t].op = "register" /\ Granted(t)
  <2>1. calls[s].op = "register" /\ CreateUser(s)
    BY <1>7 DEF Respond, Handle, Login, GetAllUsers, GetAllPeers, CreatePeer, RevokePeer,
                tableVars
  <2>2. accounts[u] = "none"
    BY <1>7, <2>1 DEF CreateUser, TypeInv
  <2>3. calls'[s] # calls[s]
    BY <1>1, <1>3, <1>4, <2>1, AnswerIsCall DEF CreateUser
  <2>4. tableVars' # tableVars
    BY <1>7 DEF tableVars
  <2>5. QED
    BY <1>1, <2>1, <2>2, <2>3, <2>4 DEF Granted
<1>8. QED
    BY <1>6, <1>7 DEF AdminStep

\* a step that grants nothing and changes no account
LEMMA NothingGranted ==
    ASSUME UNCHANGED accounts,
           \A s \in Slots : ~Granted(s)
    PROVE  AdminStep
BY DEF AdminStep

LEMMA NextGrants ==
    ASSUME TypeInv, Next
    PROVE  AdminStep
<1>1. ASSUME Operator \/ \E s \in Slots : Deliver(s) PROVE AdminStep
  <2>1. UNCHANGED tableVars /\ NoAnswer(calls', calls)
    BY <1>1, TabAsksOnly
  <2>2. QED
    BY <2>1, NothingGranted DEF NoAnswer, Granted, tableVars
<1>2. ASSUME NEW s \in Slots, Serve(s) PROVE AdminStep
    BY <1>2, ServeGrants DEF Serve
<1>3. ASSUME (\E stats \in SUBSET PeerIds : LiveStats(stats)) \/ Expire PROVE AdminStep
  <2>1. UNCHANGED <<accounts, peers, calls>>
    BY <1>3 DEF LiveStats, LiveUpdate, LivePeerUpdate, Expire, apiVars, tableVars
  <2>2. QED
    BY <2>1, NothingGranted DEF Granted
<1>4. ASSUME NEW p \in PeerIds, RevokeElsewhere(p) PROVE AdminStep
    BY <1>4, NothingGranted DEF RevokeElsewhere, Granted
<1>5. ASSUME NEW u \in Users, ClaimElsewhere(u) PROVE AdminStep
    BY <1>5 DEF ClaimElsewhere, Granted, AdminStep, TypeInv
<1>6. ASSUME NEW s \in Slots, Lose(s) \/ LoseCut(s) \/ GiveUp(s) PROVE AdminStep
    BY <1>6, LossGrantsNothing, NothingGranted DEF NoAnswer, Granted, tableVars
<1>7. QED
    BY <1>1, <1>2, <1>3, <1>4, <1>5, <1>6 DEF Next, Elsewhere

\* What is for administrators is granted only to a user who is one in the table now, no
\* role ever changes, and an administrator comes into being only this way: because every
\* token in the tab claims what the table says.
THEOREM AdminRequestsOnly == Spec => AdminsOnly
<1>1. TypeInv /\ [Next]_vars => [AdminStep]_vars
    BY NextGrants
<1>2. QED
    BY <1>1, TypesAndTokens, PTL DEF Spec, AdminsOnly

-----------------------------------------------------------------------------
(* One row for one deployment. *)

\* the page on the screen waits for it
Creating(c) == c.op = "createPeer" /\ c.page = "mounted"

Deploying == screen.page = "deploy" /\ screen.isDeploying

\* The page awaits one creation at most, and only while its button is disabled; as long
\* as that is unanswered, nothing was made.
MadeInv ==
    /\ made \in 0 .. MaxPeers
    /\ made <= 1
    /\ ~Deploying => made = 0 /\ \A s \in Slots : ~Creating(calls[s])
    /\ \A s, t \in Slots : Creating(calls[s]) /\ Creating(calls[t]) => s = t
    /\ \A s \in Slots : Creating(calls[s]) /\ calls[s].answer = "none" => made = 0

\* in ds the page awaits no creation that it did not await in cs
Fewer(ds, cs) ==
    \A s \in Slots : Creating(ds[s]) =>
        Creating(cs[s]) /\ (ds[s].answer = "none" => cs[s].answer = "none")

LEMMA OverFewer ==
    ASSUME calls \in Requests, NEW s \in Slots, NEW used \in BOOLEAN
    PROVE  Fewer(Over(s, used), calls) /\ ~Creating(Over(s, used)[s])
<1>1. ~Creating(Idle)
    BY DEF Idle, Creating
<1>2. QED
    BY <1>1, OverCalls DEF Fewer, Like, Failures, Creating

LEMMA SentFewer ==
    ASSUME NEW cs \in Requests, NEW s \in Slots, NEW c \in Call, c.op # "createPeer"
    PROVE  Fewer(Sent(cs, s, c), cs)
BY SentCalls DEF Fewer, Like, Failures, Creating

LEMMA MountFewer ==
    ASSUME NEW page \in Pages, NEW cs \in Requests, NEW token \in Token \cup {NoToken},
           Mount(page, cs, token)
    PROVE  Fewer(calls', cs) /\ made' = 0
<1>1. CASE calls' = cs
    BY <1>1 DEF Fewer, Mount
<1>2. ASSUME NEW s \in Slots, calls' = Sent(cs, s, Fetch(page, token))
      PROVE  Fewer(calls', cs)
    BY <1>2, FetchIsCall, SentFewer DEF Reads
<1>3. QED
    BY <1>1, <1>2 DEF Mount

LEMMA NoneMade ==
    ASSUME made' = 0, \A s \in Slots : ~Creating(calls'[s])
    PROVE  MadeInv'
BY ApiAssumption DEF MadeInv

\* no creation is awaited on a page just opened
LEMMA LeftMade ==
    ASSUME NEW cs \in Requests, NEW heard, Fewer(calls', Orphans(cs, heard)), made' = 0
    PROVE  MadeInv'
<1>1. \A s \in Slots : ~Creating(calls'[s])
    BY OrphanCalls DEF Fewer, Creating
<1>2. QED
    BY <1>1, NoneMade

LEMMA KeptMade ==
    ASSUME MadeInv, Fewer(calls', calls), made' \in {0, made}, Deploying => Deploying'
    PROVE  MadeInv'
BY ApiAssumption DEF MadeInv, Fewer

LEMMA SendFewer ==
    ASSUME calls \in Requests, NEW c \in Call, c.op # "createPeer", Send(c)
    PROVE  Fewer(calls', calls)
BY SentFewer DEF Send

LEMMA OperatorMade ==
    ASSUME TypeInv, MadeInv, Operator
    PROVE  MadeInv'
<1>1. /\ calls \in Requests
      /\ stored \in Token \cup {NoToken}
      /\ screen \in Screens
    BY TokenTypes DEF TypeInv
<1>2. AuthGuard(LoginPage) \in Pages /\ \A page \in Pages : AuthGuard(page) \in Pages
    BY DEF AuthGuard, Pages
<1>3. ASSUME NEW page \in Pages, Open(page) PROVE MadeInv'
  <2>1. Fewer(calls', calls) /\ made' = 0
    BY <1>1, <1>2, <1>3, MountFewer DEF Open
  <2>2. ~Deploying
    BY <1>3 DEF Open, On, Deploying
  <2>3. QED
    BY <2>1, <2>2, KeptMade
<1>4. ASSUME NEW page \in Pages, Leave(page) PROVE MadeInv'
  <2> DEFINE os == Orphans(calls, {"login", "revokePeer"})
  <2>1. os \in Requests
    BY <1>1, OrphanCalls
  <2>2. Fewer(calls', os) /\ made' = 0
    BY <1>1, <1>2, <1>4, <2>1, MountFewer DEF Leave
  <2>3. QED
    BY <1>1, <2>2, LeftMade
<1>5. ASSUME Close PROVE MadeInv'
  <2>1. Fewer(calls', Orphans(calls, {})) /\ made' = 0
    BY <1>5 DEF Close, Fewer
  <2>2. QED
    BY <1>1, <2>1, LeftMade
<1>6. ASSUME NEW u \in Users, SubmitLogin(u) PROVE MadeInv'
  <2> DEFINE c(i) == [i EXCEPT !.user = u]
  <2>1. \A i \in Call : c(i) \in Call /\ c(i).op = i.op
    BY DEF Call
  <2>2. c(Request("login", stored)) \in Call /\ c(Request("login", stored)).op = "login"
    BY <2>1, StoredRequest
  <2>3. Fewer(calls', calls)
    BY <1>1, <1>6, <2>2, SendFewer DEF SubmitLogin
  <2>4. ~Deploying
    BY <1>6 DEF SubmitLogin, On, Deploying
  <2>5. QED
    BY <1>6, <2>3, <2>4, KeptMade DEF SubmitLogin
<1>7. ASSUME NEW u \in Users, OtherTabSignsIn(u) PROVE MadeInv'
    BY <1>7, KeptMade DEF OtherTabSignsIn, apiVars, Fewer, Deploying
<1>8. ASSUME NEW q \in 0 .. MaxPeers, NEW op \in {"getPeers", "revokePeer"},
             Send([Request(op, stored) EXCEPT !.peer = q])
      PROVE  Fewer(calls', calls)
  <2> DEFINE c(i) == [i EXCEPT !.peer = q]
  <2>1. \A i \in Call : c(i) \in Call /\ c(i).op = i.op
    BY DEF Call
  <2>2. c(Request(op, stored)) \in Call /\ c(Request(op, stored)).op = op
    BY <2>1, StoredRequest
  <2>3. QED
    BY <1>1, <1>8, <2>2, SendFewer
<1>9. ASSUME NEW q \in PeerIds, ChangeAddress(q) PROVE MadeInv'
  <2>1. q \in 0 .. MaxPeers
    BY ApiAssumption DEF PeerIds
  <2>2. ~Deploying
    BY <1>9 DEF ChangeAddress, On, Deploying
  <2>3. QED
    BY <1>8, <1>9, <2>1, <2>2, KeptMade DEF ChangeAddress
<1>10. ASSUME ConfirmRevoke PROVE MadeInv'
  <2>1. screen \in PeerScreens
    BY <1>1, <1>10, ScreenOfPage DEF ConfirmRevoke
  <2>2. screen.peer \in 0 .. MaxPeers
    BY <2>1 DEF PeerScreens
  <2>3. ~Deploying
    BY <1>10 DEF ConfirmRevoke, On, Deploying
  <2>4. QED
    BY <1>8, <1>10, <2>2, <2>3, KeptMade DEF ConfirmRevoke
<1>11. ASSUME RefreshUsers PROVE MadeInv'
  <2>1. Fewer(calls', calls)
    BY <1>1, <1>11, StoredRequest, SendFewer DEF RefreshUsers
  <2>2. ~Deploying
    BY <1>11 DEF RefreshUsers, On, Deploying
  <2>3. QED
    BY <1>11, <2>1, <2>2, KeptMade DEF RefreshUsers
<1>12. ASSUME NEW u \in Users, NEW r \in Roles, SubmitUser(u, r) PROVE MadeInv'
  <2> DEFINE c(i) == [i EXCEPT !.user = u, !.role = r]
  <2>1. \A i \in Call : c(i) \in Call /\ c(i).op = i.op
    BY DEF Call
  <2>2. /\ c(Request("register", stored)) \in Call
        /\ c(Request("register", stored)).op = "register"
    BY <2>1, StoredRequest
  <2>3. Fewer(calls', calls)
    BY <1>1, <1>12, <2>2, SendFewer DEF SubmitUser
  <2>4. ~Deploying
    BY <1>12 DEF SubmitUser, On, Deploying
  <2>5. QED
    BY <1>12, <2>3, <2>4, KeptMade DEF SubmitUser
<1>13. ASSUME FillForm \/ DeployAnother PROVE MadeInv'
  <2>1. screen \in DeployScreens
    BY <1>1, <1>13, ScreenOfPage DEF FillForm, DeployAnother
  <2>2. Deploying => Deploying'
    BY <1>13, <2>1 DEF FillForm, DeployAnother, Deploying, DeployScreens
  <2>3. Fewer(calls', calls) /\ made' \in {0, made}
    BY <1>13 DEF FillForm, DeployAnother, apiVars, Fewer
  <2>4. QED
    BY <2>2, <2>3, KeptMade
<1>14. ASSUME SubmitDeploy PROVE MadeInv'
  <2>1. screen \in DeployScreens
    BY <1>1, <1>14, ScreenOfPage DEF SubmitDeploy
  <2>2. ~Deploying
    BY <1>14, <2>1 DEF SubmitDeploy, FormView, CyberButton, Deploying
  <2>3. made = 0 /\ \A s \in Slots : ~Creating(calls[s])
    BY <2>2 DEF MadeInv
  <2>4. made' = 0 /\ Deploying'
    BY <1>14, <2>1, <2>3 DEF SubmitDeploy, Deploying, DeployScreens
  <2>5. PICK s \in Slots : calls' = Sent(calls, s, Request("createPeer", stored))
    BY <1>14 DEF SubmitDeploy, Send
  <2>6. Request("createPeer", stored) \in Call
    BY StoredRequest
  <2>7. \A t \in Slots \ {s} : Like(calls'[t], calls[t])
    BY <1>1, <2>5, <2>6, SentCalls
  <2>8. \A t \in Slots \ {s} : ~Creating(calls'[t])
    BY <2>3, <2>7 DEF Like, Creating
  <2>9. QED
    BY <2>4, <2>8, ApiAssumption DEF MadeInv
<1>15. QED
    BY <1>3, <1>4, <1>5, <1>6, <1>7, <1>9, <1>10, <1>11, <1>12, <1>13, <1>14
    DEF Operator, FollowLink, Back

LEMMA DeliverMade ==
    ASSUME TypeInv, MadeInv, NEW s \in Slots, Deliver(s)
    PROVE  MadeInv'
<1>1. /\ calls \in Requests
      /\ stored \in Token \cup {NoToken}
      /\ calls[s].token \in Token \cup {NoToken}
      /\ screen \in Screens
    BY TokenTypes DEF TypeInv, Sound
<1>2. \A used \in BOOLEAN : /\ Over(s, used) \in Requests
                            /\ Fewer(Over(s, used), calls)
                            /\ ~Creating(Over(s, used)[s])
    BY <1>1, OverCalls, OverFewer
<1>3. ASSUME NEW token \in Token \cup {NoToken}, Push(DashboardPage, Over(s, FALSE), token)
      PROVE  MadeInv'
  <2> DEFINE os == Orphans(Over(s, FALSE), {"login", "revokePeer"})
  <2>1. DashboardPage \in Pages
    BY DEF Pages
  <2>2. CASE Mount(DashboardPage, os, token)
    <3>1. os \in Requests
      BY <1>2, OrphanCalls
    <3>2. Fewer(calls', os) /\ made' = 0
      BY <2>1, <2>2, <3>1, MountFewer
    <3>3. QED
      BY <1>2, <3>2, LeftMade
  <2>3. CASE calls' = Over(s, FALSE) /\ UNCHANGED <<screen, made>>
    BY <1>2, <2>3, KeptMade DEF Deploying
  <2>4. QED
    BY <1>3, <2>2, <2>3 DEF Push
<1>4. ASSUME SignedIn(s) \/ Revoked(s) PROVE MadeInv'
    BY <1>1, <1>3, <1>4 DEF SignedIn, Revoked
<1>5. ASSUME ~Deploying, made' = made, Fewer(calls', calls) PROVE MadeInv'
    BY <1>5, KeptMade
<1>6. ASSUME \/ LoginRefused(s) \/ PeersListed(s) \/ PeersRefused(s) \/ PeerFound(s)
             \/ PeerNotFound(s) \/ UsersListed(s) \/ UsersRefused(s) \/ UserRefused(s)
      PROVE  MadeInv'
  <2>1. ~Deploying
    BY <1>6 DEF LoginRefused, PeersListed, PeersRefused, PeerFound, PeerNotFound,
                UsersListed, UsersRefused, UserRefused, On, Deploying
  <2>2. made' = made /\ \E used \in BOOLEAN : calls' = Over(s, used)
    BY <1>6 DEF LoginRefused, PeersListed, PeersRefused, PeerFound, PeerNotFound,
                UsersListed, UsersRefused, UserRefused
  <2>3. QED
    BY <1>2, <1>5, <2>1, <2>2
<1>7. ASSUME Unheard(s) PROVE MadeInv'
    BY <1>2, <1>7, KeptMade DEF Unheard, Deploying
<1>8. ASSUME UserCreated(s) PROVE MadeInv'
  <2>1. Fewer(calls', Over(s, FALSE))
    BY <1>2, <1>8, StoredRequest, SentFewer DEF UserCreated
  <2>2. Fewer(calls', calls)
    BY <1>2, <2>1 DEF Fewer
  <2>3. QED
    BY <1>5, <1>8, <2>2 DEF UserCreated, On, Deploying
<1>9. ASSUME OperatorsListed(s) \/ Deployed(s) PROVE MadeInv'
  <2>1. screen \in DeployScreens
    BY <1>1, <1>9, ScreenOfPage DEF OperatorsListed, Deployed
  <2>2. Deploying => Deploying'
    BY <1>9, <2>1 DEF OperatorsListed, Deployed, Deploying, DeployScreens
  <2>3. QED
    BY <1>2, <1>9, <2>2, KeptMade DEF OperatorsListed, Deployed
<1>10. ASSUME DeployRefused(s) PROVE MadeInv'
  <2>1. Creating(calls[s])
    BY <1>10 DEF DeployRefused, Answered, Creating
  <2>2. calls' = Over(s, FALSE) /\ made' = 0
    BY <1>10 DEF DeployRefused
  <2>3. \A t \in Slots : ~Creating(calls'[t])
    BY <1>2, <2>1, <2>2 DEF Fewer, MadeInv
  <2>4. QED
    BY <2>2, <2>3, NoneMade
<1>11. QED
    BY <1>4, <1>6, <1>7, <1>8, <1>9, <1>10 DEF Deliver

\* what the server answers to request s: a list is the table, and a user it registers
\* was not in it
LEMMA ServeReplies ==
    ASSUME TypeInv, NEW s \in Slots, Respond(s)
    PROVE  \E c : /\ Reply(s, c)
                  /\ c.answer # "none"
                  /\ c.op = calls[s].op
                  /\ c.page = calls[s].page
                  /\ c.newer = calls[s].newer
                  /\ c.stale = calls[s].stale
                  /\ c.op = "getPeers" =>
                        c.peer = calls[s].peer \/ c.answer \in Failures
                  /\ c.op = "getPeers" /\ c.answer = "ok" => c.peers = peers
                  /\ c.op = "getUsers" /\ c.answer = "ok" =>
                        c.users = {u \in Users : accounts[u] # "none"}
                  /\ c.op = "register" /\ c.answer = "ok" =>
                        CreateUser(s) /\ c.user = calls[s].user
<1> DEFINE Ok(c) == /\ c.answer # "none"
                    /\ c.op = calls[s].op
                    /\ c.page = calls[s].page
                    /\ c.newer = calls[s].newer
                    /\ c.stale = calls[s].stale
                    /\ c.op = "getPeers" =>
                          c.peer = calls[s].peer \/ c.answer \in Failures
                    /\ c.op = "getPeers" /\ c.answer = "ok" => c.peers = peers
                    /\ c.op = "getUsers" /\ c.answer = "ok" =>
                          c.users = {u \in Users : accounts[u] # "none"}
                    /\ c.op = "register" /\ c.answer = "ok" =>
                          CreateUser(s) /\ c.user = calls[s].user
<1>1. \A answer \in {"forbidden", "refused"} : Ok(Failed(s, answer))
    BY AnswerIsCall DEF Failures
<1>2. /\ Done(s) \in Call
      /\ Done(s).answer = "ok"
      /\ Done(s).op = calls[s].op
      /\ Done(s).page = calls[s].page
      /\ Done(s).user = calls[s].user
      /\ Done(s).peer = calls[s].peer
      /\ Done(s).newer = calls[s].newer
      /\ Done(s).stale = calls[s].stale
    BY AnswerIsCall
<1>3. CASE \E inside \in BOOLEAN : /\ Turned(calls[s], inside) # "ok"
                                  /\ Reply(s, Failed(s, Turned(calls[s], inside)))
  <2>1. PICK answer \in {"forbidden", "refused"} : Reply(s, Failed(s, answer))
    BY <1>3 DEF Turned
  <2>2. Ok(Failed(s, answer))
    BY <1>1
  <2>3. QED
    BY <2>1, <2>2
<1>4. CASE Reply(s, Failed(s, "refused"))
  <2>1. Ok(Failed(s, "refused"))
    BY <1>1
  <2>2. QED
    BY <1>4, <2>1
<1>5. CASE calls[s].op = "login" /\ Login(s)
  <2> DEFINE e == [Done(s) EXCEPT !.token = GenerateToken(calls[s].user)]
  <2>1. /\ e.answer = "ok" /\ e.op = calls[s].op /\ e.page = calls[s].page
        /\ e.newer = calls[s].newer /\ e.stale = calls[s].stale
    BY <1>2 DEF Call
  <2>2. Reply(s, e)
    BY <1>5 DEF Login
  <2>3. QED
    BY <1>5, <2>1, <2>2
<1>6. CASE calls[s].op = "getUsers" /\ GetAllUsers(s)
  <2> DEFINE e == [Done(s) EXCEPT !.users = {u \in Users : accounts[u] # "none"}]
  <2>1. /\ e.answer = "ok" /\ e.op = calls[s].op /\ e.page = calls[s].page
        /\ e.newer = calls[s].newer /\ e.stale = calls[s].stale
        /\ e.users = {u \in Users : accounts[u] # "none"}
    BY <1>2 DEF Call
  <2>2. Reply(s, e)
    BY <1>6 DEF GetAllUsers
  <2>3. QED
    BY <1>6, <2>1, <2>2
<1>7. CASE calls[s].op = "getPeers" /\ GetAllPeers(s)
  <2> DEFINE e == [Done(s) EXCEPT !.peers = peers]
  <2>1. /\ e.answer = "ok" /\ e.op = calls[s].op /\ e.page = calls[s].page
        /\ e.newer = calls[s].newer /\ e.stale = calls[s].stale
        /\ e.peers = peers /\ e.peer = calls[s].peer
    BY <1>2 DEF Call
  <2>2. Reply(s, e)
    BY <1>7 DEF GetAllPeers
  <2>3. QED
    BY <1>7, <2>1, <2>2
<1>8. CASE calls[s].op = "register" /\ CreateUser(s)
    BY <1>2, <1>8 DEF CreateUser
<1>9. CASE calls[s].op = "createPeer" /\ CreatePeer(s)
  <2>1. PICK p \in PeerIds : \/ Reply(s, [Done(s) EXCEPT !.peer = p])
                             \/ Reply(s, Failed(s, "refused"))
    BY <1>9 DEF CreatePeer
  <2> DEFINE e == [Done(s) EXCEPT !.peer = p]
  <2>2. /\ e.answer = "ok" /\ e.op = calls[s].op /\ e.page = calls[s].page
        /\ e.newer = calls[s].newer /\ e.stale = calls[s].stale
    BY <1>2 DEF Call
  <2>3. QED
    BY <1>1, <1>9, <2>1, <2>2
<1>10. CASE calls[s].op = "revokePeer" /\ RevokePeer(s)
    BY <1>2, <1>10 DEF RevokePeer
<1>11. QED
    BY <1>3, <1>4, <1>5, <1>6, <1>7, <1>8, <1>9, <1>10 DEF Respond, Handle

LEMMA ServeMade ==
    ASSUME TypeInv, MadeInv, NEW s \in Slots, Serve(s)
    PROVE  MadeInv'
<1>1. /\ calls \in Requests
      /\ calls[s].answer = "none"
      /\ screen' = screen
    BY TokenTypes DEF Serve, Respond
<1>2. ASSUME NEW c, Reply(s, c), c.answer # "none", c.op = calls[s].op,
             c.page = calls[s].page
      PROVE  /\ \A t \in Slots : Creating(calls'[t]) => Creating(calls[t])
             /\ \A t \in Slots \ {s} : calls'[t] = calls[t]
             /\ Creating(calls'[s]) => calls'[s].answer # "none"
  <2>1. calls' = [calls EXCEPT ![s] = IF calls[s].page = "cut" THEN Idle ELSE c]
    BY <1>2 DEF Reply
  <2>2. ~Creating(Idle)
    BY DEF Idle, Creating
  <2>3. Creating(c) => Creating(calls[s])
    BY <1>2 DEF Creating
  <2>4. QED
    BY <1>1, <1>2, <2>1, <2>2, <2>3 DEF Requests
<1>3. \E c : Reply(s, c) /\ c.answer # "none" /\ c.op = calls[s].op /\ c.page = calls[s].page
    BY ServeReplies DEF Serve
<1>4. /\ \A t \in Slots : Creating(calls'[t]) => Creating(calls[t])
      /\ \A t \in Slots \ {s} : calls'[t] = calls[t]
      /\ Creating(calls'[s]) => calls'[s].answer # "none"
    BY <1>2, <1>3
<1>5. Fewer(calls', calls)
    BY <1>4 DEF Fewer
<1>6. CASE made' = made
    BY <1>1, <1>5, <1>6, KeptMade DEF Deploying
<1>7. CASE made' # made
  <2>1. Creating(calls[s]) /\ peers' # peers /\ made' = made + 1
    BY <1>7 DEF Serve, Creating
  <2>2. made = 0 /\ Deploying /\ \A t \in Slots : Creating(calls[t]) => t = s
    BY <1>1, <2>1 DEF MadeInv
  <2>3. MaxPeers >= 1
    <3>1. \E p \in PeerIds : peers' = [peers EXCEPT ![p] = "active"]
      BY <2>1 DEF Serve, Respond, Handle, Creating, CreatePeer, tableVars
    <3>2. QED
      BY <3>1, ApiAssumption DEF PeerIds
  <2>4. Deploying'
    BY <1>1, <2>2 DEF Deploying
  <2>5. made' = 1 /\ made' \in 0 .. MaxPeers
    BY <2>1, <2>2, <2>3, ApiAssumption
  <2>6. QED
    BY <1>4, <2>2, <2>4, <2>5 DEF MadeInv
<1>8. QED
    BY <1>6, <1>7

LEMMA OtherMade ==
    ASSUME TypeInv, MadeInv
    PROVE  /\ \A stats \in SUBSET PeerIds : LiveStats(stats) => MadeInv'
           /\ Expire => MadeInv'
           /\ Elsewhere => MadeInv'
           /\ \A s \in Slots : Lose(s) \/ LoseCut(s) \/ GiveUp(s) => MadeInv'
<1>1. calls \in Requests /\ \A s \in Slots : calls[s] \in Call
    BY TokenTypes
<1>2. ASSUME NEW stats \in SUBSET PeerIds, LiveStats(stats) PROVE MadeInv'
    BY <1>2, KeptMade
    DEF LiveStats, LiveUpdate, LivePeerUpdate, On, Deploying, apiVars, Fewer
<1>3. ASSUME Expire \/ Elsewhere PROVE MadeInv'
    BY <1>3, KeptMade
    DEF Expire, Elsewhere, RevokeElsewhere, ClaimElsewhere, apiVars, Fewer, Deploying
<1>4. ASSUME NEW s \in Slots, Lose(s) \/ LoseCut(s) \/ GiveUp(s) PROVE MadeInv'
  <2> DEFINE k == [calls[s] EXCEPT !.page = "cut"]
  <2>1. k.page = "cut" /\ ~Creating(k)
    BY <1>1 DEF Call, Creating
  <2>2. ~Creating(Idle)
    BY DEF Idle, Creating
  <2>3. /\ Failed(s, "refused").answer = "refused"
        /\ Creating(Failed(s, "refused")) => Creating(calls[s])
    BY AnswerIsCall DEF Creating
  <2>4. Fewer(calls', calls)
    <3>1. CASE Lose(s)
      BY <1>1, <2>3, <3>1 DEF Lose, Fewer, Requests
    <3>2. CASE LoseCut(s)
      BY <1>1, <2>2, <3>2 DEF LoseCut, Fewer, Requests
    <3>3. CASE GiveUp(s)
      BY <1>1, <2>1, <2>3, <3>3 DEF GiveUp, Fewer, Requests
    <3>4. QED
      BY <1>4, <3>1, <3>2, <3>3
  <2>5. made' = made /\ screen' = screen
    BY <1>4 DEF Lose, LoseCut, GiveUp
  <2>6. QED
    BY <2>4, <2>5, KeptMade DEF Deploying
<1>5. QED
    BY <1>2, <1>3, <1>4

THEOREM OneCreationAwaited == Spec => []MadeInv
<1>1. ConsoleInit => MadeInv
    BY ApiAssumption DEF ConsoleInit, ApiInit, MadeInv, Deploying, Closed, Creating, Idle
<1>2. TypeInv /\ MadeInv /\ [Next]_vars => MadeInv'
  <2> SUFFICES ASSUME TypeInv, MadeInv, [Next]_vars PROVE MadeInv'
    OBVIOUS
  <2>1. CASE UNCHANGED vars
    BY <2>1, KeptMade DEF vars, apiVars, Fewer, Deploying
  <2>2. CASE Next
    BY <2>2, OperatorMade, DeliverMade, ServeMade, OtherMade DEF Next
  <2>3. QED
    BY <2>1, <2>2
<1>3. QED
    BY <1>1, <1>2, TypesAndTokens, PTL DEF Spec

\* Every variable of the tab and of the tables has its type.
THEOREM ConsoleTypes == Spec => []ConsoleTypeOK
<1>1. TypeInv /\ MadeInv => ConsoleTypeOK
    BY DEF TypeInv, MadeInv, ConsoleTypeOK, Tokens, Carrying, Requests
<1>2. QED
    BY <1>1, TypesAndTokens, OneCreationAwaited, PTL

\* However the requests of the tab end, a visit puts one row in the table at most before
\* the operator is told that a creation failed, or asks for another: because the page
\* awaits one creation at a time.
THEOREM OneRowPerDeployment == Spec => []NoDoubleDeployment
<1>1. MadeInv => NoDoubleDeployment
    BY DEF MadeInv, NoDoubleDeployment
<1>2. QED
    BY <1>1, OneCreationAwaited, PTL

-----------------------------------------------------------------------------
(* What was revoked before a page was opened. *)

\* an answer that the page on the screen is about to use
Listing(c) == c.op = "getPeers" /\ c.page = "mounted" /\ c.answer = "ok"

Lists == {"dashboard", "peer"}

\* No peer comes back, and every list fetched since shows those revoked before; with the
\* tab closed, nothing is awaited.
GoneInv ==
    /\ screen.page \in Lists =>
          /\ screen.gone \subseteq Gone
          /\ \A s \in Slots : Listing(calls[s]) =>
                \A p \in screen.gone : calls[s].peers[p] = "revoked"
    /\ On("closed") => \A s \in Slots : calls[s].page # "mounted"
    /\ RevokedUpOnlyIfHeard

\* ds has no list that cs has not
Older(ds, cs) ==
    \A s \in Slots : Listing(ds[s]) => Listing(cs[s]) /\ ds[s].peers = cs[s].peers

LEMMA OverOlder ==
    ASSUME calls \in Requests, NEW s \in Slots, NEW used \in BOOLEAN
    PROVE  Older(Over(s, used), calls)
<1>1. ~Listing(Idle)
    BY DEF Idle, Listing
<1>2. QED
    BY <1>1, OverCalls DEF Older, Like, Failures, Listing

LEMMA SentOlder ==
    ASSUME NEW cs \in Requests, NEW s \in Slots, NEW c \in Call, c.answer = "none"
    PROVE  Older(Sent(cs, s, c), cs)
BY SentCalls DEF Older, Like, Failures, Listing

LEMMA SendOlder ==
    ASSUME calls \in Requests, NEW c \in Call, c.answer = "none", Send(c)
    PROVE  Older(calls', calls)
BY SentOlder DEF Send

LEMMA MountOlder ==
    ASSUME NEW page \in Pages, NEW cs \in Requests, NEW token \in Token \cup {NoToken},
           Mount(page, cs, token)
    PROVE  Older(calls', cs)
<1>1. CASE calls' = cs
    BY <1>1 DEF Older
<1>2. ASSUME NEW s \in Slots, calls' = Sent(cs, s, Fetch(page, token))
      PROVE  Older(calls', cs)
    BY <1>2, FetchIsCall, SentOlder
<1>3. QED
    BY <1>1, <1>2 DEF Mount

LEMMA AwayGone ==
    ASSUME screen'.page \notin Lists \cup {"closed"}
    PROVE  GoneInv'
BY DEF GoneInv, RevokedUpOnlyIfHeard, On, Lists

LEMMA KeptGone ==
    ASSUME GoneInv, UNCHANGED screen, Gone \subseteq Gone', Older(calls', calls),
           \/ ~On("closed")
           \/ \A s \in Slots : calls'[s].page = "mounted" => calls[s].page = "mounted"
    PROVE  GoneInv'
BY DEF GoneInv, RevokedUpOnlyIfHeard, On, Older

\* a page that is opened knows what is revoked now, and shows nothing yet
LEMMA OpenedGone ==
    ASSUME NEW page \in Pages, NEW cs \in Requests, NEW token \in Token \cup {NoToken},
           \A s \in Slots : ~Listing(cs[s]), Mount(page, cs, token), UNCHANGED peers
    PROVE  GoneInv'
<1>1. \A s \in Slots : ~Listing(calls'[s])
    BY MountOlder DEF Older
<1>2. screen' = page /\ Gone' = Gone
    BY DEF Mount, Gone
<1>3. CASE page = DashboardPage
  <2>1. /\ screen'.gone = Gone
        /\ screen'.page = "dashboard"
        /\ \A p \in PeerIds : screen'.peers[p] = "unlisted"
    BY <1>2, <1>3 DEF DashboardPage
  <2>2. QED
    BY <1>1, <1>2, <2>1 DEF GoneInv, RevokedUpOnlyIfHeard, On, Gone
<1>4. ASSUME NEW p \in PeerIds, page = PeerDetailPage(p) PROVE GoneInv'
  <2>1. screen'.gone = Gone /\ screen'.page = "peer" /\ screen'.peer = 0
    BY <1>2, <1>4 DEF PeerDetailPage
  <2>2. 0 \notin Gone
    BY ApiAssumption DEF Gone, PeerIds
  <2>3. QED
    BY <1>1, <1>2, <2>1, <2>2 DEF GoneInv, RevokedUpOnlyIfHeard, On
<1>5. CASE page \in {LoginPage, UsersPage, DeployPage}
    BY <1>2, <1>5, AwayGone DEF LoginPage, UsersPage, DeployPage, Lists
<1>6. QED
    BY <1>3, <1>4, <1>5 DEF Pages

LEMMA OrphansListNothing ==
    ASSUME NEW cs \in Requests, NEW heard
    PROVE  /\ Orphans(cs, heard) \in Requests
           /\ \A s \in Slots : ~Listing(Orphans(cs, heard)[s])
BY OrphanCalls DEF Listing

LEMMA OperatorGone ==
    ASSUME TypeInv, GoneInv, Operator
    PROVE  GoneInv'
<1>1. /\ calls \in Requests
      /\ stored \in Token \cup {NoToken}
      /\ screen \in Screens
    BY TokenTypes DEF TypeInv
<1>2. AuthGuard(LoginPage) \in Pages /\ \A page \in Pages : AuthGuard(page) \in Pages
    BY DEF AuthGuard, Pages
<1>3. ASSUME NEW page \in Pages, Open(page) PROVE GoneInv'
  <2>1. \A s \in Slots : ~Listing(calls[s])
    BY <1>3 DEF Open, GoneInv, Listing
  <2>2. QED
    BY <1>1, <1>2, <1>3, <2>1, OpenedGone DEF Open, tableVars
<1>4. ASSUME NEW page \in Pages, Leave(page) PROVE GoneInv'
  <2> DEFINE os == Orphans(calls, {"login", "revokePeer"})
  <2>1. os \in Requests /\ \A s \in Slots : ~Listing(os[s])
    BY <1>1, OrphansListNothing
  <2>2. QED
    BY <1>1, <1>2, <1>4, <2>1, OpenedGone DEF Leave, tableVars
<1>5. ASSUME Close PROVE GoneInv'
  <2>1. screen'.page = "closed"
    BY <1>5 DEF Close, Closed
  <2>2. \A s \in Slots : calls'[s].page # "mounted"
    BY <1>1, <1>5, OrphanCalls DEF Close
  <2>3. QED
    BY <2>1, <2>2 DEF GoneInv, RevokedUpOnlyIfHeard, On, Lists
<1>6. ASSUME NEW u \in Users, SubmitLogin(u) PROVE GoneInv'
  <2>1. screen \in LoginScreens
    BY <1>1, <1>6, ScreenOfPage DEF SubmitLogin
  <2>2. screen'.page = "login"
    BY <1>6, <2>1 DEF SubmitLogin, LoginScreens
  <2>3. QED
    BY <2>2, AwayGone DEF Lists
<1>7. ASSUME RefreshUsers \/ \E u \in Users, r \in Roles : SubmitUser(u, r) PROVE GoneInv'
  <2>1. screen \in UsersScreens
    BY <1>1, <1>7, ScreenOfPage DEF RefreshUsers, SubmitUser
  <2>2. screen'.page = "users"
    BY <1>7, <2>1 DEF RefreshUsers, SubmitUser, UsersScreens
  <2>3. QED
    BY <2>2, AwayGone DEF Lists
<1>8. ASSUME FillForm \/ SubmitDeploy \/ DeployAnother PROVE GoneInv'
  <2>1. screen \in DeployScreens
    BY <1>1, <1>8, ScreenOfPage DEF FillForm, SubmitDeploy, DeployAnother
  <2>2. screen'.page = "deploy"
    BY <1>8, <2>1 DEF FillForm, SubmitDeploy, DeployAnother, DeployScreens
  <2>3. QED
    BY <2>2, AwayGone DEF Lists
<1>9. ASSUME NEW u \in Users, OtherTabSignsIn(u) PROVE GoneInv'
    BY <1>9, KeptGone DEF OtherTabSignsIn, apiVars, tableVars, Gone, Older
<1>10. ASSUME NEW q \in 0 .. MaxPeers, NEW op \in {"getPeers", "revokePeer"},
              Send([Request(op, stored) EXCEPT !.peer = q])
       PROVE  Older(calls', calls)
  <2> DEFINE c(i) == [i EXCEPT !.peer = q]
  <2>1. \A i \in Call : c(i) \in Call /\ c(i).answer = i.answer
    BY DEF Call
  <2>2. c(Request(op, stored)) \in Call /\ c(Request(op, stored)).answer = "none"
    BY <2>1, StoredRequest
  <2>3. QED
    BY <1>1, <1>10, <2>2, SendOlder
<1>11. ASSUME ConfirmRevoke PROVE GoneInv'
  <2>1. screen \in PeerScreens
    BY <1>1, <1>11, ScreenOfPage DEF ConfirmRevoke
  <2>2. screen.peer \in 0 .. MaxPeers
    BY <2>1 DEF PeerScreens
  <2>3. Older(calls', calls)
    BY <1>10, <1>11, <2>2 DEF ConfirmRevoke
  <2>4. ~On("closed") /\ UNCHANGED screen /\ Gone' = Gone
    BY <1>11 DEF ConfirmRevoke, On, Gone, tableVars
  <2>5. QED
    BY <2>3, <2>4, KeptGone
<1>12. ASSUME NEW q \in PeerIds, ChangeAddress(q) PROVE GoneInv'
  <2>1. screen \in PeerScreens
    BY <1>1, <1>12, ScreenOfPage DEF ChangeAddress
  <2>2. /\ screen'.page = "peer" /\ screen'.gone = screen.gone
        /\ screen'.peer = screen.peer /\ screen'.status = screen.status
        /\ screen'.heard = screen.heard
    BY <1>12, <2>1 DEF ChangeAddress, PeerScreens
  <2>3. q \in 0 .. MaxPeers
    BY ApiAssumption DEF PeerIds
  <2>4. Older(calls', calls)
    BY <1>10, <1>12, <2>3 DEF ChangeAddress
  <2>5. On("peer") /\ Gone' = Gone
    BY <1>12 DEF ChangeAddress, Gone, tableVars
  <2>6. QED
    BY <2>2, <2>4, <2>5 DEF GoneInv, RevokedUpOnlyIfHeard, On, Older, Lists
<1>13. QED
    BY <1>3, <1>4, <1>5, <1>6, <1>7, <1>8, <1>9, <1>11, <1>12 DEF Operator, FollowLink, Back

LEMMA DeliverGone ==
    ASSUME TypeInv, GoneInv, NEW s \in Slots, Deliver(s)
    PROVE  GoneInv'
<1>1. /\ calls \in Requests
      /\ calls[s] \in Call
      /\ stored \in Token \cup {NoToken}
      /\ calls[s].token \in Token \cup {NoToken}
      /\ screen \in Screens
    BY TokenTypes DEF TypeInv, Sound
<1>2. \A used \in BOOLEAN :
         /\ Over(s, used) \in Requests
         /\ Older(Over(s, used), calls)
         /\ \A t \in Slots : Over(s, used)[t].page = "mounted" => calls[t].page = "mounted"
  <2>1. Idle.page = "cut"
    BY DEF Idle
  <2>2. QED
    BY <1>1, <2>1, OverCalls, OverOlder DEF Like
<1>3. ASSUME NEW token \in Token \cup {NoToken}, Push(DashboardPage, Over(s, FALSE), token),
             UNCHANGED peers
      PROVE  GoneInv'
  <2> DEFINE os == Orphans(Over(s, FALSE), {"login", "revokePeer"})
  <2>1. DashboardPage \in Pages
    BY DEF Pages
  <2>2. CASE Mount(DashboardPage, os, token)
    <3>1. os \in Requests /\ \A t \in Slots : ~Listing(os[t])
      BY <1>2, OrphansListNothing
    <3>2. QED
      BY <1>3, <2>1, <2>2, <3>1, OpenedGone
  <2>3. CASE calls' = Over(s, FALSE) /\ UNCHANGED <<screen, made>>
    BY <1>2, <1>3, <2>3, KeptGone DEF Gone
  <2>4. QED
    BY <1>3, <2>2, <2>3 DEF Push
<1>4. ASSUME SignedIn(s) \/ Revoked(s) PROVE GoneInv'
    BY <1>1, <1>3, <1>4 DEF SignedIn, Revoked, tableVars
<1>5. ASSUME PeersRefused(s) \/ Unheard(s) PROVE GoneInv'
    BY <1>2, <1>5, KeptGone DEF PeersRefused, Unheard, Gone, tableVars
<1>6. ASSUME LoginRefused(s) PROVE GoneInv'
  <2>1. screen \in LoginScreens
    BY <1>1, <1>6, ScreenOfPage DEF LoginRefused
  <2>2. screen'.page = "login"
    BY <1>6, <2>1 DEF LoginRefused, LoginScreens
  <2>3. QED
    BY <2>2, AwayGone DEF Lists
<1>7. ASSUME UsersListed(s) \/ UsersRefused(s) \/ UserCreated(s) \/ UserRefused(s)
      PROVE  GoneInv'
  <2>1. screen \in UsersScreens
    BY <1>1, <1>7, ScreenOfPage DEF UsersListed, UsersRefused, UserCreated, UserRefused
  <2>2. screen'.page = "users"
    BY <1>7, <2>1 DEF UsersListed, UsersRefused, UserCreated, UserRefused, UsersScreens
  <2>3. QED
    BY <2>2, AwayGone DEF Lists
<1>8. ASSUME OperatorsListed(s) \/ Deployed(s) \/ DeployRefused(s) PROVE GoneInv'
  <2>1. screen \in DeployScreens
    BY <1>1, <1>8, ScreenOfPage DEF OperatorsListed, Deployed, DeployRefused
  <2>2. screen'.page = "deploy"
    BY <1>8, <2>1 DEF OperatorsListed, Deployed, DeployRefused, DeployScreens
  <2>3. QED
    BY <2>2, AwayGone DEF Lists
<1>9. ASSUME PeersListed(s) PROVE GoneInv'
  <2>1. screen \in DashboardScreens
    BY <1>1, <1>9, ScreenOfPage DEF PeersListed
  <2>2. /\ screen'.page = "dashboard" /\ screen'.gone = screen.gone
        /\ \A p \in PeerIds : screen'.peers[p] = MapStatus(calls[s].peers[p])
    BY <1>9, <2>1 DEF PeersListed, DashboardScreens
  <2>3. On("dashboard") /\ Listing(calls[s])
    BY <1>9 DEF PeersListed, Answered, Listing
  <2>4. screen.gone \subseteq Gone /\ \A p \in screen.gone : calls[s].peers[p] = "revoked"
    BY <2>3 DEF GoneInv, On, Lists
  <2>5. \A p \in screen.gone : screen'.peers[p] = "offline"
    BY <2>2, <2>4 DEF Gone, MapStatus
  <2>6. Older(calls', calls) /\ Gone' = Gone
    BY <1>2, <1>9 DEF PeersListed, Gone, tableVars
  <2>7. QED
    BY <2>2, <2>3, <2>5, <2>6 DEF GoneInv, RevokedUpOnlyIfHeard, On, Older, Lists
<1>10. ASSUME PeerFound(s) PROVE GoneInv'
  <2>1. screen \in PeerScreens
    BY <1>1, <1>10, ScreenOfPage DEF PeerFound
  <2>2. /\ screen'.page = "peer" /\ screen'.gone = screen.gone
        /\ screen'.peer = calls[s].peer
        /\ screen'.status = MapStatus(calls[s].peers[calls[s].peer])
    BY <1>10, <2>1 DEF PeerFound, PeerScreens
  <2>3. On("peer") /\ Listing(calls[s])
    BY <1>10 DEF PeerFound, Answered, Listing
  <2>4. \A p \in screen.gone : calls[s].peers[p] = "revoked"
    BY <2>3 DEF GoneInv, On, Lists
  <2>5. screen'.peer \in screen'.gone => screen'.status = "offline"
    BY <2>2, <2>4 DEF MapStatus
  <2>6. Older(calls', calls) /\ Gone' = Gone
    BY <1>2, <1>10 DEF PeerFound, Gone, tableVars
  <2>7. QED
    BY <2>2, <2>3, <2>5, <2>6 DEF GoneInv, RevokedUpOnlyIfHeard, On, Older, Lists
<1>11. ASSUME PeerNotFound(s) PROVE GoneInv'
  <2>1. screen \in PeerScreens
    BY <1>1, <1>11, ScreenOfPage DEF PeerNotFound
  <2>2. /\ screen'.page = "peer" /\ screen'.gone = screen.gone
        /\ screen'.peer = screen.peer /\ screen'.status = screen.status
        /\ screen'.heard = screen.heard
    BY <1>11, <2>1 DEF PeerNotFound, PeerScreens
  <2>3. On("peer") /\ Older(calls', calls) /\ Gone' = Gone
    BY <1>2, <1>11 DEF PeerNotFound, Gone, tableVars
  <2>4. QED
    BY <2>2, <2>3 DEF GoneInv, RevokedUpOnlyIfHeard, On, Older, Lists
<1>12. QED
    BY <1>4, <1>5, <1>6, <1>7, <1>8, <1>9, <1>10, <1>11 DEF Deliver

LEMMA ServeGone ==
    ASSUME TypeInv, GoneInv, NEW s \in Slots, Serve(s)
    PROVE  GoneInv'
<1>1. calls \in Requests /\ screen' = screen
    BY TokenTypes DEF Serve
<1>2. PICK c : /\ calls' = [calls EXCEPT ![s] = IF calls[s].page = "cut" THEN Idle ELSE c]
               /\ c.op = calls[s].op
               /\ c.page = calls[s].page
               /\ c.op = "getPeers" /\ c.answer = "ok" => c.peers = peers
    BY ServeReplies DEF Serve, Reply
<1>3. Idle.page = "cut"
    BY DEF Idle
<1>4. ASSUME NEW t \in Slots
      PROVE  /\ calls'[t].page = "mounted" => calls[t].page = "mounted"
             /\ Listing(calls'[t]) => \/ calls'[t].peers = peers
                                      \/ Listing(calls[t]) /\ calls'[t].peers = calls[t].peers
    BY <1>1, <1>2, <1>3 DEF Requests, Listing
<1>5. Gone \subseteq Gone'
  <2>1. CASE UNCHANGED peers
    BY <2>1 DEF Gone
  <2>2. ASSUME NEW p \in PeerIds,
               \/ peers[p] = "none" /\ peers' = [peers EXCEPT ![p] = "active"]
               \/ peers' = [peers EXCEPT ![p] = "revoked"]
        PROVE  Gone \subseteq Gone'
    BY <2>2 DEF Gone, TypeInv
  <2>3. QED
    BY <2>1, <2>2
    DEF Serve, Respond, Handle, Login, GetAllUsers, GetAllPeers, CreateUser, CreatePeer,
        RevokePeer, tableVars
<1>6. QED
    BY <1>1, <1>4, <1>5 DEF GoneInv, RevokedUpOnlyIfHeard, On, Gone

LEMMA OtherGone ==
    ASSUME TypeInv, GoneInv
    PROVE  /\ \A stats \in SUBSET PeerIds : LiveStats(stats) => GoneInv'
           /\ Expire => GoneInv'
           /\ Elsewhere => GoneInv'
           /\ \A s \in Slots : Lose(s) \/ LoseCut(s) \/ GiveUp(s) => GoneInv'
<1>1. /\ calls \in Requests
      /\ \A s \in Slots : calls[s] \in Call
      /\ screen \in Screens
      /\ peers \in [PeerIds -> {"none", "active", "revoked"}]
    BY TokenTypes DEF TypeInv
<1>2. ASSUME NEW stats \in SUBSET PeerIds, On("dashboard"), LiveUpdate(stats)
      PROVE  GoneInv'
  <2>1. screen \in DashboardScreens
    BY <1>1, <1>2, ScreenOfPage
  <2> DEFINE ps == [p \in PeerIds |->
                       IF p \in stats /\ screen.peers[p] # "unlisted" THEN "up"
                       ELSE screen.peers[p]]
  <2> DEFINE named == screen.heard \cup (stats \cap screen.gone \cap RoutingTable)
  <2>2. /\ screen'.page = "dashboard" /\ screen'.gone = screen.gone
        /\ screen'.peers = ps
        /\ screen'.heard = named
    <3>1. screen' = [screen EXCEPT !.peers = ps, !.heard = named]
      BY <1>2 DEF LiveUpdate
    <3> HIDE DEF ps, named
    <3>2. QED
      BY <1>2, <2>1, <3>1 DEF DashboardScreens, On
  <2>3. calls' = calls /\ Gone' = Gone
    BY <1>2 DEF LiveUpdate, apiVars, tableVars, Gone
  <2>4. ASSUME NEW p \in screen.gone, ps[p] = "up" PROVE p \in named
    <3>1. p \in PeerIds
      BY <2>1 DEF DashboardScreens
    <3>2. CASE screen.peers[p] = "up"
      BY <1>2, <3>2 DEF GoneInv, RevokedUpOnlyIfHeard, On
    <3>3. CASE p \in stats /\ screen.peers[p] # "unlisted"
      BY <3>1, <3>3 DEF RoutingTable
    <3>4. QED
      BY <2>4, <3>1, <3>2, <3>3
  <2>5. screen'.page # "closed" /\ screen'.page # "peer"
    BY <2>2
  <2>6. RevokedUpOnlyIfHeard'
    BY <2>2, <2>4, <2>5 DEF RevokedUpOnlyIfHeard, On
  <2>7. QED
    BY <1>2, <2>2, <2>3, <2>5, <2>6 DEF GoneInv, On, Lists
<1>3. ASSUME NEW stats \in SUBSET PeerIds, On("peer"), LivePeerUpdate(stats)
      PROVE  GoneInv'
  <2>1. screen \in PeerScreens
    BY <1>1, <1>3, ScreenOfPage
  <2>2. calls' = calls /\ Gone' = Gone
    BY <1>3 DEF LivePeerUpdate, apiVars, tableVars, Gone
  <2>3. CASE screen' = screen
    BY <2>2, <2>3, <1>3, KeptGone DEF On, Older
  <2>4. CASE screen' # screen
    <3> DEFINE named == screen.heard \cup ({screen.peer} \cap screen.gone)
    <3>1. screen' = [screen EXCEPT !.status = "up", !.heard = named]
      BY <1>3, <2>4 DEF LivePeerUpdate
    <3>2. /\ screen'.page = "peer" /\ screen'.gone = screen.gone
          /\ screen'.peer = screen.peer /\ screen'.heard = named
      <4> HIDE DEF named
      <4>1. QED
        BY <1>3, <2>1, <3>1 DEF PeerScreens, On
    <3>3. RevokedUpOnlyIfHeard'
      BY <3>2 DEF RevokedUpOnlyIfHeard, On
    <3>4. QED
      BY <1>3, <2>2, <3>2, <3>3 DEF GoneInv, On, Lists
  <2>5. QED
    BY <2>3, <2>4
<1>4. ASSUME Expire PROVE GoneInv'
    BY <1>4, KeptGone DEF Expire, apiVars, tableVars, Gone, Older
<1>5. ASSUME Elsewhere PROVE GoneInv'
  <2>1. calls' = calls /\ screen' = screen
    BY <1>5 DEF Elsewhere, RevokeElsewhere, ClaimElsewhere
  <2>2. Gone \subseteq Gone'
    BY <1>1, <1>5 DEF Elsewhere, RevokeElsewhere, ClaimElsewhere, Gone
  <2>3. QED
    BY <2>1, <2>2, KeptGone DEF Older
<1>6. ASSUME NEW s \in Slots, Lose(s) \/ LoseCut(s) \/ GiveUp(s) PROVE GoneInv'
  <2> DEFINE k == [calls[s] EXCEPT !.page = "cut"]
  <2>1. k.page = "cut" /\ ~Listing(k)
    BY <1>1 DEF Call, Listing
  <2>2. Idle.page = "cut" /\ ~Listing(Idle)
    BY DEF Idle, Listing
  <2>3. Failed(s, "refused").page = calls[s].page /\ ~Listing(Failed(s, "refused"))
    BY AnswerIsCall DEF Listing
  <2>4. ASSUME NEW t \in Slots
        PROVE  /\ Listing(calls'[t]) => Listing(calls[t]) /\ calls'[t].peers = calls[t].peers
               /\ calls'[t].page = "mounted" => calls[t].page = "mounted"
    <3>1. CASE Lose(s)
      BY <1>1, <2>3, <3>1 DEF Lose, Requests
    <3>2. CASE LoseCut(s)
      BY <1>1, <2>2, <3>2 DEF LoseCut, Requests
    <3>3. CASE GiveUp(s)
      BY <1>1, <2>1, <2>3, <3>3 DEF GiveUp, Requests
    <3>4. QED
      BY <1>6, <3>1, <3>2, <3>3
  <2>5. screen' = screen /\ Gone' = Gone
    BY <1>6 DEF Lose, LoseCut, GiveUp, Gone, tableVars
  <2>6. QED
    BY <2>4, <2>5, KeptGone DEF Older
<1>7. QED
    BY <1>2, <1>3, <1>4, <1>5, <1>6 DEF LiveStats

\* A peer revoked before a page was opened is shown there as idle or online only if the
\* stream has named it since the list was shown: every list the page uses was read since
\* the revocation, no revocation is undone, and a message moves none but those it names.
THEOREM RevokedPeersNotListedUp == Spec => []RevokedUpOnlyIfHeard
<1>1. ConsoleInit => GoneInv
    BY DEF ConsoleInit, ApiInit, GoneInv, RevokedUpOnlyIfHeard, On, Lists, Closed, Idle
<1>2. TypeInv /\ GoneInv /\ [Next]_vars => GoneInv'
  <2> SUFFICES ASSUME TypeInv, GoneInv, [Next]_vars PROVE GoneInv'
    OBVIOUS
  <2>1. CASE UNCHANGED vars
    BY <2>1, KeptGone DEF vars, apiVars, tableVars, Gone, Older
  <2>2. CASE Next
    BY <2>2, OperatorGone, DeliverGone, ServeGone, OtherGone DEF Next
  <2>3. QED
    BY <2>1, <2>2
<1>3. GoneInv => RevokedUpOnlyIfHeard
    BY DEF GoneInv
<1>4. QED
    BY <1>1, <1>2, <1>3, TypesAndTokens, PTL DEF Spec

-----------------------------------------------------------------------------
(* The reads of a peer's page. *)

\* a read that the page on the screen waits for
Reading(c) == c.op = "getPeers" /\ c.page = "mounted"

\* n is the latest of them, for the peer of the address
Newest(cs, n, id) ==
    /\ Reading(cs[n])
    /\ cs[n].newer = {}
    /\ ~cs[n].stale
    /\ cs[n].peer = id \/ cs[n].answer \in Failures
    /\ \A t \in Slots \ {n} : Reading(cs[t]) => n \in cs[t].newer

\* The latest read is in flight, or was answered: then every other one is stale.
ReadInv ==
    On("peer") /\ ~screen.error =>
        \/ \E n \in Slots : Newest(calls, n, screen.id)
        \/ /\ screen.late \/ screen.peer = screen.id
           /\ \A t \in Slots : Reading(calls[t]) => calls[t].stale

\* the same reads as before, of which some may have failed
ReadsKept(ds, cs) ==
    \A t \in Slots :
        /\ Reading(ds[t]) <=> Reading(cs[t])
        /\ Reading(ds[t]) =>
              /\ ds[t].newer \subseteq cs[t].newer
              /\ \A n \in cs[t].newer : Reading(cs[n]) => n \in ds[t].newer
              /\ ds[t].stale = cs[t].stale
              /\ ds[t].peer = cs[t].peer \/ ds[t].answer \in Failures
              /\ cs[t].answer \in Failures => ds[t].answer \in Failures

LEMMA KeptReads ==
    ASSUME ReadInv, calls \in Requests, ReadsKept(calls', calls),
           On("peer")' => /\ On("peer")
                          /\ screen'.error = screen.error
                          /\ screen'.id = screen.id
                          /\ screen'.peer = screen.peer
                          /\ screen'.late = screen.late
    PROVE  ReadInv'
<1> SUFFICES ASSUME On("peer")', ~screen'.error PROVE ReadInv'
    BY DEF ReadInv
<1>1. On("peer") /\ ~screen.error
    OBVIOUS
<1>2. ASSUME NEW n \in Slots, Newest(calls, n, screen.id)
      PROVE  Newest(calls', n, screen'.id)
    BY <1>2 DEF Newest, ReadsKept
<1>3. CASE /\ screen.late \/ screen.peer = screen.id
           /\ \A t \in Slots : Reading(calls[t]) => calls[t].stale
    BY <1>3 DEF ReadInv, ReadsKept
<1>4. QED
    BY <1>1, <1>2, <1>3 DEF ReadInv

LEMMA AwayReads ==
    ASSUME screen'.page # "peer"
    PROVE  ReadInv'
BY DEF ReadInv, On

LEMMA RequestIsNew ==
    ASSUME NEW op \in Reads \cup Writes \cup {"login"}, NEW token \in Token \cup {NoToken}
    PROVE  Request(op, token).newer = {} /\ ~Request(op, token).stale
<1>1. Idle \in Call /\ Idle.newer = {} /\ ~Idle.stale
    BY IdleIsCall DEF Idle
<1>2. \A i \in Call : LET r == [i EXCEPT !.op = op, !.token = token, !.page = "mounted"]
                       IN  r.newer = i.newer /\ r.stale = i.stale
    BY DEF Call
<1>3. QED
    BY <1>1, <1>2 DEF Request

\* the read of a page just opened, or of another address, is the latest
LEMMA NewRead ==
    ASSUME NEW cs \in Requests, NEW s \in Slots, NEW q \in PeerIds,
           NEW token \in Token \cup {NoToken},
           calls' = Sent(cs, s, [Request("getPeers", token) EXCEPT !.peer = q])
    PROVE  Newest(calls', s, q)
<1> DEFINE c == [Request("getPeers", token) EXCEPT !.peer = q]
<1>1. /\ Request("getPeers", token) \in Call
      /\ Request("getPeers", token).op = "getPeers"
      /\ Request("getPeers", token).page = "mounted"
    BY RequestIsCall DEF Reads
<1>2. Request("getPeers", token).newer = {} /\ ~Request("getPeers", token).stale
    BY RequestIsNew DEF Reads
<1>3. c.op = "getPeers" /\ c.page = "mounted" /\ c.peer = q /\ c.newer = {} /\ ~c.stale
    BY <1>1, <1>2 DEF Call
<1>4. calls'[s] = c
    BY DEF Sent
<1>5. ASSUME NEW t \in Slots \ {s}, Reading(calls'[t]) PROVE s \in calls'[t].newer
  <2> DEFINE d == [cs[t] EXCEPT !.newer = cs[t].newer \cup {s}]
  <2>1. cs[t] \in Call
    BY DEF Requests
  <2>2. calls'[t] = IF {c.op, cs[t].op} \subseteq Reads THEN d ELSE cs[t]
    BY DEF Sent
  <2>3. CASE cs[t].op \in Reads
    <3>1. calls'[t] = d
      BY <1>3, <2>2, <2>3 DEF Reads
    <3>2. QED
      BY <2>1, <3>1 DEF Call
  <2>4. CASE cs[t].op \notin Reads
    BY <1>5, <2>2, <2>4 DEF Reading, Reads
  <2>5. QED
    BY <2>3, <2>4
<1>6. QED
    BY <1>3, <1>4, <1>5 DEF Newest, Reading

LEMMA MountReads ==
    ASSUME NEW page \in Pages, NEW cs \in Requests, NEW token \in Token \cup {NoToken},
           Mount(page, cs, token)
    PROVE  ReadInv'
<1>1. CASE page.page # "peer"
    BY <1>1, AwayReads DEF Mount
<1>2. CASE page.page = "peer"
  <2>1. page.id \in PeerIds
    BY <1>2 DEF Pages, LoginPage, DashboardPage, UsersPage, DeployPage, PeerDetailPage
  <2>2. PICK s \in Slots :
            calls' = Sent(cs, s, [Request("getPeers", token) EXCEPT !.peer = page.id])
    BY <1>2 DEF Mount, Fetch
  <2>3. screen' = page
    BY DEF Mount
  <2>4. Newest(calls', s, screen'.id)
    BY <2>1, <2>2, <2>3, NewRead
  <2>5. QED
    BY <2>4 DEF ReadInv
<1>3. QED
    BY <1>1, <1>2

\* what is sent besides the reads
LEMMA SendKeepsReads ==
    ASSUME calls \in Requests, NEW c \in Call, c.op \notin Reads, Send(c)
    PROVE  ReadsKept(calls', calls)
<1>1. PICK s \in Slots : calls[s].op = "none" /\ calls' = Sent(calls, s, c)
    BY DEF Send, Free
<1>2. calls'[s] = c /\ \A t \in Slots \ {s} : calls'[t] = calls[t]
    BY <1>1 DEF Sent
<1>3. QED
    BY <1>1, <1>2 DEF ReadsKept, Reading, Reads

\* what ends besides the reads
LEMMA OverKeepsReads ==
    ASSUME calls \in Requests, NEW s \in Slots, ~Reading(calls[s])
    PROVE  ReadsKept(Over(s, FALSE), calls)
<1>1. ~Reading(Idle)
    BY DEF Reading, Idle
<1>2. Over(s, FALSE)[s] = Idle
    BY DEF Over
<1>3. ASSUME NEW t \in Slots \ {s}
      PROVE  SameCall(Over(s, FALSE)[t], calls[t], s, FALSE)
    BY <1>3, OverFields
<1>4. QED
    BY <1>1, <1>2, <1>3 DEF ReadsKept, Reading, SameCall

LEMMA OperatorReads ==
    ASSUME TypeInv, ReadInv, Operator
    PROVE  ReadInv'
<1>1. /\ calls \in Requests
      /\ stored \in Token \cup {NoToken}
      /\ screen \in Screens
    BY TokenTypes DEF TypeInv
<1>2. AuthGuard(LoginPage) \in Pages /\ \A page \in Pages : AuthGuard(page) \in Pages
    BY DEF AuthGuard, Pages
<1>3. ASSUME NEW page \in Pages, Open(page) \/ Leave(page) PROVE ReadInv'
  <2>1. Orphans(calls, {"login", "revokePeer"}) \in Requests
    BY <1>1, OrphanCalls
  <2>2. QED
    BY <1>1, <1>2, <1>3, <2>1, MountReads DEF Open, Leave
<1>4. ASSUME Close PROVE ReadInv'
    BY <1>4, AwayReads DEF Close, Closed
<1>5. ASSUME NEW u \in Users, SubmitLogin(u) PROVE ReadInv'
  <2>1. screen \in LoginScreens
    BY <1>1, <1>5, ScreenOfPage DEF SubmitLogin
  <2>2. screen'.page = "login"
    BY <1>5, <2>1 DEF SubmitLogin, LoginScreens
  <2>3. QED
    BY <2>2, AwayReads
<1>6. ASSUME RefreshUsers \/ \E u \in Users, r \in Roles : SubmitUser(u, r) PROVE ReadInv'
  <2>1. screen \in UsersScreens
    BY <1>1, <1>6, ScreenOfPage DEF RefreshUsers, SubmitUser
  <2>2. screen'.page = "users"
    BY <1>6, <2>1 DEF RefreshUsers, SubmitUser, UsersScreens
  <2>3. QED
    BY <2>2, AwayReads
<1>7. ASSUME FillForm \/ SubmitDeploy \/ DeployAnother PROVE ReadInv'
  <2>1. screen \in DeployScreens
    BY <1>1, <1>7, ScreenOfPage DEF FillForm, SubmitDeploy, DeployAnother
  <2>2. screen'.page = "deploy"
    BY <1>7, <2>1 DEF FillForm, SubmitDeploy, DeployAnother, DeployScreens
  <2>3. QED
    BY <2>2, AwayReads
<1>8. ASSUME NEW u \in Users, OtherTabSignsIn(u) PROVE ReadInv'
    BY <1>8 DEF OtherTabSignsIn, apiVars, ReadInv, On, Newest
<1>9. ASSUME ConfirmRevoke PROVE ReadInv'
  <2>1. screen \in PeerScreens
    BY <1>1, <1>9, ScreenOfPage DEF ConfirmRevoke
  <2>2. screen.peer \in 0 .. MaxPeers
    BY <2>1 DEF PeerScreens
  <2> DEFINE c(i) == [i EXCEPT !.peer = screen.peer]
  <2>3. \A i \in Call : c(i) \in Call /\ c(i).op = i.op
    BY <2>2 DEF Call
  <2>4. /\ c(Request("revokePeer", stored)) \in Call
        /\ c(Request("revokePeer", stored)).op = "revokePeer"
    BY <2>3, StoredRequest
  <2>5. ReadsKept(calls', calls)
    BY <1>1, <1>9, <2>4, SendKeepsReads DEF ConfirmRevoke, Reads
  <2>6. QED
    BY <1>1, <1>9, <2>5, KeptReads DEF ConfirmRevoke, On
<1>10. ASSUME NEW q \in PeerIds, ChangeAddress(q) PROVE ReadInv'
  <2>1. screen \in PeerScreens
    BY <1>1, <1>10, ScreenOfPage DEF ChangeAddress
  <2>2. screen'.id = q
    BY <1>10, <2>1 DEF ChangeAddress, PeerScreens
  <2>3. PICK s \in Slots :
            calls' = Sent(calls, s, [Request("getPeers", stored) EXCEPT !.peer = q])
    BY <1>10 DEF ChangeAddress, Send
  <2>4. Newest(calls', s, screen'.id)
    BY <1>1, <2>2, <2>3, NewRead
  <2>5. QED
    BY <2>4 DEF ReadInv
<1>11. QED
    BY <1>3, <1>4, <1>5, <1>6, <1>7, <1>8, <1>9, <1>10 DEF Operator, FollowLink, Back

LEMMA DeliverReads ==
    ASSUME TypeInv, ReadInv, NEW s \in Slots, Deliver(s)
    PROVE  ReadInv'
<1>1. /\ calls \in Requests
      /\ calls[s] \in Call
      /\ stored \in Token \cup {NoToken}
      /\ calls[s].token \in Token \cup {NoToken}
      /\ screen \in Screens
    BY TokenTypes DEF TypeInv, Sound
<1>2. \A used \in BOOLEAN : Over(s, used) \in Requests
    BY <1>1, OverCalls
<1>3. ASSUME NEW token \in Token \cup {NoToken}, Push(DashboardPage, Over(s, FALSE), token)
      PROVE  ReadInv'
  <2> DEFINE os == Orphans(Over(s, FALSE), {"login", "revokePeer"})
  <2>1. DashboardPage \in Pages /\ DashboardPage.page = "dashboard"
    BY DEF Pages, DashboardPage
  <2>2. CASE Mount(DashboardPage, os, token)
    BY <2>1, <2>2, AwayReads DEF Mount
  <2>3. CASE On("dashboard") /\ UNCHANGED screen
    BY <2>3, AwayReads DEF On
  <2>4. QED
    BY <1>3, <2>1, <2>2, <2>3 DEF Push
<1>4. ASSUME SignedIn(s) \/ Revoked(s) PROVE ReadInv'
    BY <1>1, <1>3, <1>4 DEF SignedIn, Revoked
<1>5. ASSUME Unheard(s) PROVE ReadInv'
  <2>1. ~Reading(calls[s]) /\ calls' = Over(s, FALSE) /\ screen' = screen
    BY <1>5 DEF Unheard, Reading
  <2>2. QED
    BY <1>1, <2>1, OverKeepsReads, KeptReads DEF On
<1>6. ASSUME LoginRefused(s) PROVE ReadInv'
  <2>1. screen \in LoginScreens
    BY <1>1, <1>6, ScreenOfPage DEF LoginRefused
  <2>2. screen'.page = "login"
    BY <1>6, <2>1 DEF LoginRefused, LoginScreens
  <2>3. QED
    BY <2>2, AwayReads
<1>7. ASSUME UsersListed(s) \/ UsersRefused(s) \/ UserCreated(s) \/ UserRefused(s)
      PROVE  ReadInv'
  <2>1. screen \in UsersScreens
    BY <1>1, <1>7, ScreenOfPage DEF UsersListed, UsersRefused, UserCreated, UserRefused
  <2>2. screen'.page = "users"
    BY <1>7, <2>1 DEF UsersListed, UsersRefused, UserCreated, UserRefused, UsersScreens
  <2>3. QED
    BY <2>2, AwayReads
<1>8. ASSUME OperatorsListed(s) \/ Deployed(s) \/ DeployRefused(s) PROVE ReadInv'
  <2>1. screen \in DeployScreens
    BY <1>1, <1>8, ScreenOfPage DEF OperatorsListed, Deployed, DeployRefused
  <2>2. screen'.page = "deploy"
    BY <1>8, <2>1 DEF OperatorsListed, Deployed, DeployRefused, DeployScreens
  <2>3. QED
    BY <2>2, AwayReads
<1>9. ASSUME PeersListed(s) \/ PeersRefused(s) PROVE ReadInv'
  <2>1. screen \in DashboardScreens
    BY <1>1, <1>9, ScreenOfPage DEF PeersListed, PeersRefused
  <2>2. screen'.page = "dashboard"
    BY <1>9, <2>1 DEF PeersListed, PeersRefused, DashboardScreens
  <2>3. QED
    BY <2>2, AwayReads
<1>10. ASSUME PeerNotFound(s) PROVE ReadInv'
  <2>1. screen \in PeerScreens
    BY <1>1, <1>10, ScreenOfPage DEF PeerNotFound
  <2>2. screen'.error
    BY <1>10, <2>1 DEF PeerNotFound, PeerScreens
  <2>3. QED
    BY <2>2 DEF ReadInv
<1>11. ASSUME PeerFound(s) PROVE ReadInv'
  <2>1. screen \in PeerScreens
    BY <1>1, <1>11, ScreenOfPage DEF PeerFound
  <2>2. /\ screen'.error = screen.error
        /\ screen'.id = screen.id
        /\ screen'.peer = calls[s].peer
        /\ screen'.late = calls[s].stale
    BY <1>1, <1>11, <2>1 DEF PeerFound, PeerScreens, Call
  <2>3. On("peer") /\ Reading(calls[s]) /\ calls[s].answer = "ok" /\ calls' = Over(s, TRUE)
    BY <1>11 DEF PeerFound, Answered, Reading
  <2>4. calls'[s] = Idle /\ ~Reading(Idle)
    BY <2>3 DEF Over, Reading, Idle
  <2>5. ASSUME NEW t \in Slots \ {s}
        PROVE  /\ calls'[t].newer = calls[t].newer \ {s}
               /\ calls'[t].stale = IF s \in calls[t].newer THEN TRUE ELSE calls[t].stale
               /\ calls'[t].peer = calls[t].peer
               /\ calls'[t].answer = calls[t].answer
               /\ Reading(calls'[t]) <=> Reading(calls[t])
    <3>1. SameCall(calls'[t], calls[t], s, TRUE)
      BY <1>1, <2>3, OverFields
    <3>2. QED
      BY <3>1 DEF SameCall, Reading
  <2>6. SUFFICES ASSUME ~screen.error
                 PROVE  \/ \E n \in Slots : Newest(calls', n, screen'.id)
                        \/ /\ screen'.late \/ screen'.peer = screen'.id
                           /\ \A t \in Slots : Reading(calls'[t]) => calls'[t].stale
    BY <2>2 DEF ReadInv
  <2>7. CASE Newest(calls, s, screen.id)
    <3>1. screen'.peer = screen'.id
      BY <2>2, <2>3, <2>7 DEF Newest, Failures
    <3>2. \A t \in Slots : Reading(calls'[t]) => calls'[t].stale
      BY <2>4, <2>5, <2>7 DEF Newest
    <3>3. QED
      BY <3>1, <3>2
  <2>8. ASSUME NEW n \in Slots \ {s}, Newest(calls, n, screen.id)
        PROVE  Newest(calls', n, screen'.id)
    BY <2>2, <2>4, <2>5, <2>8 DEF Newest
  <2>9. CASE \A t \in Slots : Reading(calls[t]) => calls[t].stale
    BY <2>2, <2>3, <2>4, <2>5, <2>9
  <2>10. QED
    BY <2>3, <2>6, <2>7, <2>8, <2>9 DEF ReadInv
<1>12. QED
    BY <1>4, <1>5, <1>6, <1>7, <1>8, <1>9, <1>10, <1>11 DEF Deliver

LEMMA ServeReads ==
    ASSUME TypeInv, ReadInv, NEW s \in Slots, Serve(s)
    PROVE  ReadInv'
<1>1. calls \in Requests /\ screen' = screen /\ calls[s].answer = "none"
    BY TokenTypes DEF Serve, Respond
<1>2. PICK c : /\ calls' = [calls EXCEPT ![s] = IF calls[s].page = "cut" THEN Idle ELSE c]
               /\ c.op = calls[s].op
               /\ c.page = calls[s].page
               /\ c.newer = calls[s].newer
               /\ c.stale = calls[s].stale
               /\ c.op = "getPeers" => c.peer = calls[s].peer \/ c.answer \in Failures
    BY ServeReplies DEF Serve, Reply
<1>3. ~Reading(Idle)
    BY DEF Reading, Idle
<1>4. ReadsKept(calls', calls)
    BY <1>1, <1>2, <1>3 DEF ReadsKept, Reading, Requests, Failures
<1>5. QED
    BY <1>1, <1>4, KeptReads DEF On

LEMMA OtherReads ==
    ASSUME TypeInv, ReadInv
    PROVE  /\ \A stats \in SUBSET PeerIds : LiveStats(stats) => ReadInv'
           /\ Expire => ReadInv'
           /\ Elsewhere => ReadInv'
           /\ \A s \in Slots : Lose(s) \/ LoseCut(s) \/ GiveUp(s) => ReadInv'
<1>1. /\ calls \in Requests
      /\ \A s \in Slots : calls[s] \in Call
      /\ screen \in Screens
    BY TokenTypes DEF TypeInv
<1>2. ASSUME calls' = calls PROVE ReadsKept(calls', calls)
    BY <1>2 DEF ReadsKept
<1>3. ASSUME NEW stats \in SUBSET PeerIds, LiveStats(stats) PROVE ReadInv'
  <2>1. CASE On("dashboard") /\ LiveUpdate(stats)
    <3>1. screen \in DashboardScreens
      BY <1>1, <2>1, ScreenOfPage
    <3>2. screen'.page = "dashboard"
      BY <2>1, <3>1 DEF LiveUpdate, DashboardScreens
    <3>3. QED
      BY <3>2, AwayReads
  <2>2. CASE On("peer") /\ LivePeerUpdate(stats)
    <3>1. screen \in PeerScreens
      BY <1>1, <2>2, ScreenOfPage
    <3>2. /\ screen'.error = screen.error
          /\ screen'.id = screen.id
          /\ screen'.peer = screen.peer
          /\ screen'.late = screen.late
      BY <2>2, <3>1 DEF LivePeerUpdate, PeerScreens
    <3>3. calls' = calls
      BY <2>2 DEF LivePeerUpdate, apiVars
    <3>4. QED
      BY <1>1, <1>2, <2>2, <3>2, <3>3, KeptReads
  <2>3. QED
    BY <1>3, <2>1, <2>2 DEF LiveStats
<1>4. ASSUME Expire \/ Elsewhere PROVE ReadInv'
  <2>1. calls' = calls /\ screen' = screen
    BY <1>4 DEF Expire, Elsewhere, RevokeElsewhere, ClaimElsewhere, apiVars
  <2>2. QED
    BY <1>1, <1>2, <2>1, KeptReads DEF On
<1>5. ASSUME NEW s \in Slots, Lose(s) \/ LoseCut(s) \/ GiveUp(s) PROVE ReadInv'
  <2> DEFINE k == [calls[s] EXCEPT !.page = "cut"]
  <2>1. ~Reading(k) /\ ~Reading(Idle)
    BY <1>1 DEF Call, Reading, Idle
  <2>2. /\ Failed(s, "refused").answer \in Failures
        /\ Failed(s, "refused").newer = calls[s].newer
        /\ Failed(s, "refused").stale = calls[s].stale
        /\ Reading(Failed(s, "refused")) <=> Reading(calls[s])
    BY AnswerIsCall DEF Reading, Failures
  <2>3. CASE Lose(s)
    <3>1. ReadsKept(calls', calls)
      BY <1>1, <2>2, <2>3 DEF Lose, ReadsKept, Requests
    <3>2. QED
      BY <1>1, <2>3, <3>1, KeptReads DEF Lose, On
  <2>4. CASE LoseCut(s)
    <3>1. calls' = [calls EXCEPT ![s] = Idle] /\ ~Reading(calls[s]) /\ screen' = screen
      BY <2>4 DEF LoseCut, Reading
    <3>2. ReadsKept(calls', calls)
      BY <1>1, <2>1, <3>1 DEF ReadsKept, Requests
    <3>3. QED
      BY <1>1, <3>1, <3>2, KeptReads DEF On
  <2>5. CASE GiveUp(s)
    <3>1. ~Reading(calls[s]) /\ screen' = screen
      BY <2>5 DEF GiveUp, Reading, Writes
    <3>2. PICK t \in Slots : /\ ~Reading(calls[t])
                            /\ calls' = [calls EXCEPT ![s] = Failed(s, "refused"), ![t] = k]
      BY <2>5 DEF GiveUp, Free, Reading
    <3>3. ReadsKept(calls', calls)
      BY <1>1, <2>1, <2>2, <3>1, <3>2 DEF ReadsKept, Requests
    <3>4. QED
      BY <1>1, <3>1, <3>3, KeptReads DEF On
  <2>6. QED
    BY <1>5, <2>3, <2>4, <2>5
<1>6. QED
    BY <1>3, <1>4, <1>5

\* When nothing is being fetched, the page of a peer shows the peer of its address, unless
\* an older answer came last: because the latest read of the page is never stale, and each
\* read that it overtakes is.
THEOREM AddressedPeerShown == Spec => []PeerPageCurrent
<1>1. ConsoleInit => ReadInv
    BY DEF ConsoleInit, ReadInv, On, Closed
<1>2. TypeInv /\ ReadInv /\ [Next]_vars => ReadInv'
  <2> SUFFICES ASSUME TypeInv, ReadInv, [Next]_vars PROVE ReadInv'
    OBVIOUS
  <2>1. CASE UNCHANGED vars
    BY <2>1 DEF vars, apiVars, ReadInv, On, Newest
  <2>2. CASE Next
    BY <2>2, OperatorReads, DeliverReads, ServeReads, OtherReads DEF Next
  <2>3. QED
    BY <2>1, <2>2
<1>3. ReadInv => PeerPageCurrent
    BY DEF ReadInv, PeerPageCurrent, PeerView, InFlight, Newest, Reading
<1>4. QED
    BY <1>1, <1>2, <1>3, TypesAndTokens, PTL DEF Spec

-----------------------------------------------------------------------------
(* The lists of the users page. *)

\* a list that the page on the screen waits for
Fetching(c) == c.op = "getUsers" /\ c.page = "mounted"

InTable(u) == u \in Users /\ accounts[u] # "none"

\* the list is yet to come, or u is in it
MayName(c, u) == c.answer = "ok" => u \in c.users

\* n is the latest of them, and the server reads the table when u is in it
NewestList(cs, n, u) ==
    /\ Fetching(cs[n])
    /\ cs[n].newer = {}
    /\ ~cs[n].stale
    /\ MayName(cs[n], u)
    /\ \A t \in Slots \ {n} : Fetching(cs[t]) => n \in cs[t].newer

\* the latest list was used, and what it lacked at most came after it
ListUsed ==
    /\ ~screen.loading
    /\ screen.success \in screen.users
    /\ \A t \in Slots : Fetching(calls[t]) => calls[t].stale

\* a user is in the table when the page hears of the registration
RegisteredInv == \A s \in Slots :
    calls[s].op = "register" /\ calls[s].answer = "ok" => InTable(calls[s].user)

\* The list requested then, or a later one, is in flight, or was used: then every other one
\* is stale.
AwaitedInv ==
    On("users") /\ screen.success # Nobody =>
        /\ InTable(screen.success)
        /\ \/ screen.missed
           \/ \E n \in Slots : NewestList(calls, n, screen.success)
           \/ ListUsed

\* the same lists as before, of which some may have been answered or have failed
ListsKept(ds, cs) ==
    \A t \in Slots :
        /\ Fetching(ds[t]) <=> Fetching(cs[t])
        /\ Fetching(ds[t]) =>
              /\ ds[t].newer \subseteq cs[t].newer
              /\ \A n \in cs[t].newer : Fetching(cs[n]) => n \in ds[t].newer
              /\ ds[t].stale = cs[t].stale
              /\ \A u \in Users : InTable(u) /\ MayName(cs[t], u) => MayName(ds[t], u)

LEMMA AccountsStay ==
    ASSUME AdminStep
    PROVE  \A u : InTable(u) => InTable(u)'
BY DEF AdminStep, InTable

LEMMA KeptLists ==
    ASSUME AwaitedInv, AdminStep, calls \in Requests, ListsKept(calls', calls),
           On("users")' => /\ On("users")
                           /\ screen'.success = screen.success
                           /\ screen'.loading = screen.loading
                           /\ screen'.users = screen.users
                           /\ screen'.missed = screen.missed
    PROVE  AwaitedInv'
<1> SUFFICES ASSUME On("users")', screen'.success # Nobody PROVE AwaitedInv'
    BY DEF AwaitedInv
<1>1. On("users") /\ screen.success # Nobody /\ InTable(screen.success)
    BY DEF AwaitedInv
<1>2. ASSUME NEW n \in Slots, NewestList(calls, n, screen.success)
      PROVE  NewestList(calls', n, screen'.success)
    BY <1>1, <1>2 DEF NewestList, ListsKept, InTable
<1>3. ListUsed => ListUsed'
    BY DEF ListUsed, ListsKept
<1>4. screen'.success \in Users /\ accounts'[screen'.success] # "none"
    BY <1>1, AccountsStay DEF InTable
<1>5. QED
    BY <1>1, <1>2, <1>3, <1>4 DEF AwaitedInv, InTable

LEMMA AwayLists ==
    ASSUME screen'.page # "users" \/ screen'.success = Nobody
    PROVE  AwaitedInv'
BY DEF AwaitedInv, On

\* the list that is requested now is the latest
LEMMA NewList ==
    ASSUME NEW cs \in Requests, NEW s \in Slots, NEW token \in Token \cup {NoToken},
           calls' = Sent(cs, s, Request("getUsers", token)), NEW u
    PROVE  NewestList(calls', s, u)
<1> DEFINE c == Request("getUsers", token)
<1>1. /\ c.op = "getUsers" /\ c.page = "mounted" /\ c.answer = "none"
      /\ c.newer = {} /\ ~c.stale
    BY RequestIsCall, RequestIsNew DEF Reads
<1>2. calls'[s] = c
    BY DEF Sent
<1>3. ASSUME NEW t \in Slots \ {s}, Fetching(calls'[t]) PROVE s \in calls'[t].newer
  <2> DEFINE d == [cs[t] EXCEPT !.newer = cs[t].newer \cup {s}]
  <2>1. cs[t] \in Call
    BY DEF Requests
  <2>2. calls'[t] = IF {c.op, cs[t].op} \subseteq Reads THEN d ELSE cs[t]
    BY DEF Sent
  <2>3. CASE cs[t].op \in Reads
    <3>1. calls'[t] = d
      BY <1>1, <2>2, <2>3 DEF Reads
    <3>2. QED
      BY <2>1, <3>1 DEF Call
  <2>4. CASE cs[t].op \notin Reads
    BY <1>3, <2>2, <2>4 DEF Fetching, Reads
  <2>5. QED
    BY <2>3, <2>4
<1>4. QED
    BY <1>1, <1>2, <1>3 DEF NewestList, Fetching, MayName

LEMMA MountLists ==
    ASSUME NEW page \in Pages, NEW cs, NEW token, Mount(page, cs, token)
    PROVE  AwaitedInv'
<1>1. page.page = "users" => page.success = Nobody
    BY DEF Pages, LoginPage, DashboardPage, UsersPage, DeployPage, PeerDetailPage
<1>2. QED
    BY <1>1, AwayLists DEF Mount

LEMMA OperatorLists ==
    ASSUME TypeInv, AwaitedInv, Operator
    PROVE  AwaitedInv'
<1>1. /\ calls \in Requests
      /\ stored \in Token \cup {NoToken}
      /\ screen \in Screens
    BY TokenTypes DEF TypeInv
<1>2. AuthGuard(LoginPage) \in Pages /\ \A page \in Pages : AuthGuard(page) \in Pages
    BY DEF AuthGuard, Pages
<1>3. ASSUME NEW page \in Pages, Open(page) \/ Leave(page) PROVE AwaitedInv'
    BY <1>2, <1>3, MountLists DEF Open, Leave
<1>4. ASSUME Close PROVE AwaitedInv'
    BY <1>4, AwayLists DEF Close, Closed
<1>5. ASSUME NEW u \in Users, SubmitLogin(u) PROVE AwaitedInv'
  <2>1. screen \in LoginScreens
    BY <1>1, <1>5, ScreenOfPage DEF SubmitLogin
  <2>2. screen'.page = "login"
    BY <1>5, <2>1 DEF SubmitLogin, LoginScreens
  <2>3. QED
    BY <2>2, AwayLists
<1>6. ASSUME ConfirmRevoke \/ \E q \in PeerIds : ChangeAddress(q) PROVE AwaitedInv'
  <2>1. screen \in PeerScreens
    BY <1>1, <1>6, ScreenOfPage DEF ConfirmRevoke, ChangeAddress
  <2>2. screen'.page = "peer"
    BY <1>6, <2>1 DEF ConfirmRevoke, ChangeAddress, PeerScreens
  <2>3. QED
    BY <2>2, AwayLists
<1>7. ASSUME FillForm \/ SubmitDeploy \/ DeployAnother PROVE AwaitedInv'
  <2>1. screen \in DeployScreens
    BY <1>1, <1>7, ScreenOfPage DEF FillForm, SubmitDeploy, DeployAnother
  <2>2. screen'.page = "deploy"
    BY <1>7, <2>1 DEF FillForm, SubmitDeploy, DeployAnother, DeployScreens
  <2>3. QED
    BY <2>2, AwayLists
<1>8. ASSUME NEW u \in Users, OtherTabSignsIn(u) PROVE AwaitedInv'
    BY <1>8 DEF OtherTabSignsIn, apiVars, tableVars, AwaitedInv, On, NewestList, ListUsed,
                InTable
<1>9. ASSUME NEW u \in Users, NEW r \in Roles, SubmitUser(u, r) PROVE AwaitedInv'
  <2>1. screen \in UsersScreens
    BY <1>1, <1>9, ScreenOfPage DEF SubmitUser
  <2>2. screen'.success = Nobody
    BY <1>9, <2>1 DEF SubmitUser, UsersScreens
  <2>3. QED
    BY <2>2, AwayLists
<1>10. ASSUME RefreshUsers PROVE AwaitedInv'
  <2>1. screen \in UsersScreens
    BY <1>1, <1>10, ScreenOfPage DEF RefreshUsers
  <2>2. screen'.success = screen.success /\ On("users") /\ On("users")'
    BY <1>10, <2>1 DEF RefreshUsers, UsersScreens, On
  <2>3. PICK s \in Slots : calls' = Sent(calls, s, Request("getUsers", stored))
    BY <1>10 DEF RefreshUsers, Send
  <2>4. NewestList(calls', s, screen'.success)
    BY <1>1, <2>3, NewList
  <2>5. accounts' = accounts
    BY <1>10 DEF RefreshUsers, tableVars
  <2>6. QED
    BY <2>2, <2>4, <2>5 DEF AwaitedInv, InTable
<1>11. QED
    BY <1>3, <1>4, <1>5, <1>6, <1>7, <1>8, <1>9, <1>10 DEF Operator, FollowLink, Back

LEMMA DeliverLists ==
    ASSUME TypeInv, RegisteredInv, AwaitedInv, NEW s \in Slots, Deliver(s)
    PROVE  AwaitedInv'
<1>1. /\ calls \in Requests
      /\ calls[s] \in Call
      /\ stored \in Token \cup {NoToken}
      /\ screen \in Screens
    BY TokenTypes DEF TypeInv
<1>2. \A used \in BOOLEAN : Over(s, used) \in Requests
    BY <1>1, OverCalls
<1>3. AdminStep /\ accounts' = accounts
    BY NextGrants, TabAsksOnly DEF Next, tableVars
<1>4. ~Fetching(Idle)
    BY DEF Fetching, Idle
<1>5. ASSUME SignedIn(s) \/ Revoked(s) PROVE AwaitedInv'
  <2>1. DashboardPage \in Pages /\ DashboardPage.page = "dashboard"
    BY DEF Pages, DashboardPage
  <2>2. ASSUME NEW token, Push(DashboardPage, Over(s, FALSE), token) PROVE AwaitedInv'
    BY <2>1, <2>2, MountLists, AwayLists DEF Push, On
  <2>3. QED
    BY <1>5, <2>2 DEF SignedIn, Revoked
<1>6. ASSUME LoginRefused(s) PROVE AwaitedInv'
  <2>1. screen \in LoginScreens
    BY <1>1, <1>6, ScreenOfPage DEF LoginRefused
  <2>2. screen'.page = "login"
    BY <1>6, <2>1 DEF LoginRefused, LoginScreens
  <2>3. QED
    BY <2>2, AwayLists
<1>7. ASSUME PeersListed(s) \/ PeersRefused(s) PROVE AwaitedInv'
  <2>1. screen \in DashboardScreens
    BY <1>1, <1>7, ScreenOfPage DEF PeersListed, PeersRefused
  <2>2. screen'.page = "dashboard"
    BY <1>7, <2>1 DEF PeersListed, PeersRefused, DashboardScreens
  <2>3. QED
    BY <2>2, AwayLists
<1>8. ASSUME PeerFound(s) \/ PeerNotFound(s) PROVE AwaitedInv'
  <2>1. screen \in PeerScreens
    BY <1>1, <1>8, ScreenOfPage DEF PeerFound, PeerNotFound
  <2>2. screen'.page = "peer"
    BY <1>8, <2>1 DEF PeerFound, PeerNotFound, PeerScreens
  <2>3. QED
    BY <2>2, AwayLists
<1>9. ASSUME OperatorsListed(s) \/ Deployed(s) \/ DeployRefused(s) PROVE AwaitedInv'
  <2>1. screen \in DeployScreens
    BY <1>1, <1>9, ScreenOfPage DEF OperatorsListed, Deployed, DeployRefused
  <2>2. screen'.page = "deploy"
    BY <1>9, <2>1 DEF OperatorsListed, Deployed, DeployRefused, DeployScreens
  <2>3. QED
    BY <2>2, AwayLists
<1>10. ASSUME ~Fetching(calls[s]), calls' = Over(s, FALSE) PROVE ListsKept(calls', calls)
  <2>1. Over(s, FALSE)[s] = Idle
    BY DEF Over
  <2>2. ASSUME NEW t \in Slots \ {s} PROVE SameCall(calls'[t], calls[t], s, FALSE)
    BY <1>1, <1>10, <2>2, OverFields
  <2>3. QED
    BY <1>4, <1>10, <2>1, <2>2 DEF ListsKept, Fetching, SameCall, MayName
<1>11. ASSUME Unheard(s) PROVE AwaitedInv'
  <2>1. ~Fetching(calls[s]) /\ calls' = Over(s, FALSE) /\ screen' = screen
    BY <1>11 DEF Unheard, Fetching
  <2>2. QED
    BY <1>1, <1>3, <1>10, <2>1, KeptLists DEF On
<1>12. ASSUME UserRefused(s) PROVE AwaitedInv'
  <2>1. screen \in UsersScreens
    BY <1>1, <1>12, ScreenOfPage DEF UserRefused
  <2>2. /\ On("users")
        /\ screen'.success = screen.success
        /\ screen'.loading = screen.loading
        /\ screen'.users = screen.users
        /\ screen'.missed = screen.missed
    BY <1>12, <2>1 DEF UserRefused, UsersScreens
  <2>3. ~Fetching(calls[s]) /\ calls' = Over(s, FALSE)
    BY <1>12 DEF UserRefused, Answered, Fetching
  <2>4. QED
    BY <1>1, <1>3, <1>10, <2>2, <2>3, KeptLists
<1>13. ASSUME UserCreated(s) PROVE AwaitedInv'
  <2>1. screen \in UsersScreens
    BY <1>1, <1>13, ScreenOfPage DEF UserCreated
  <2>2. screen'.success = calls[s].user
    BY <1>13, <2>1 DEF UserCreated, UsersScreens
  <2>3. InTable(screen'.success)
    BY <1>13, <2>2 DEF RegisteredInv, UserCreated, Answered
  <2>4. NewestList(calls', s, screen'.success)
    BY <1>1, <1>2, <1>13, NewList DEF UserCreated
  <2>5. QED
    BY <1>3, <2>3, <2>4 DEF AwaitedInv, InTable
<1>14. ASSUME UsersListed(s) \/ UsersRefused(s) PROVE AwaitedInv'
  <2>1. screen \in UsersScreens
    BY <1>1, <1>14, ScreenOfPage DEF UsersListed, UsersRefused
  <2>2. /\ On("users")
        /\ screen'.success = screen.success
        /\ screen'.loading = FALSE
    BY <1>14, <2>1 DEF UsersListed, UsersRefused, UsersScreens
  <2>3. SUFFICES ASSUME screen.success # Nobody
                 PROVE  \/ screen'.missed
                        \/ \E n \in Slots : NewestList(calls', n, screen.success)
                        \/ ListUsed'
    BY <1>3, <2>2 DEF AwaitedInv, InTable
  <2> DEFINE used == calls[s].answer = "ok"
  <2>4. Fetching(calls[s]) /\ calls' = Over(s, used)
    BY <1>14 DEF UsersListed, UsersRefused, Answered, Fetching, Failures
  <2>5. /\ used => /\ screen'.users = calls[s].users
                   /\ screen'.missed = (screen.missed \/ calls[s].stale)
        /\ ~used => /\ screen'.users = screen.users
                    /\ screen'.missed =
                          (screen.missed \/ (calls[s].newer = {} /\ ~calls[s].stale))
    BY <1>1, <1>14, <2>1 DEF UsersListed, UsersRefused, UsersScreens, Answered, Failures
  <2>6. calls'[s] = Idle
    BY <2>4 DEF Over
  <2>7. ASSUME NEW t \in Slots \ {s} PROVE SameCall(calls'[t], calls[t], s, used)
    BY <1>1, <2>4, <2>7, OverFields
  <2> HIDE DEF used
  <2>8. CASE screen.missed
    BY <2>5, <2>8
  <2>9. CASE NewestList(calls, s, screen.success)
    <3>1. CASE used
      <4>1. screen.success \in screen'.users
        BY <2>5, <2>9, <3>1 DEF NewestList, MayName, used
      <4>2. \A t \in Slots : Fetching(calls'[t]) => calls'[t].stale
        <5>1. ASSUME NEW t \in Slots \ {s}, Fetching(calls'[t]) PROVE calls'[t].stale
          <6>1. SameCall(calls'[t], calls[t], s, used)
            BY <2>7
          <6>2. Fetching(calls[t])
            BY <5>1, <6>1 DEF SameCall, Fetching
          <6>3. s \in calls[t].newer
            BY <2>9, <6>2 DEF NewestList
          <6>4. QED
            BY <3>1, <6>1, <6>3 DEF SameCall
        <5>2. ~Fetching(calls'[s])
          BY <1>4, <2>6 DEF Fetching
        <5>3. QED
          BY <5>1, <5>2
      <4>3. QED
        BY <2>2, <4>1, <4>2 DEF ListUsed
    <3>2. CASE ~used
      BY <2>5, <2>9, <3>2 DEF NewestList
    <3>3. QED
      BY <3>1, <3>2
  <2>10. ASSUME NEW n \in Slots \ {s}, NewestList(calls, n, screen.success)
         PROVE  NewestList(calls', n, screen.success)
    BY <1>4, <2>6, <2>7, <2>10 DEF NewestList, SameCall, Fetching, MayName
  <2>11. CASE ListUsed
    <3>1. CASE used
      BY <2>4, <2>5, <2>11, <3>1 DEF ListUsed
    <3>2. CASE ~used
      BY <1>4, <2>2, <2>5, <2>6, <2>7, <2>11, <3>2 DEF ListUsed, SameCall, Fetching
    <3>3. QED
      BY <3>1, <3>2
  <2>12. QED
    BY <2>2, <2>3, <2>8, <2>9, <2>10, <2>11 DEF AwaitedInv
<1>15. QED
    BY <1>5, <1>6, <1>7, <1>8, <1>9, <1>11, <1>12, <1>13, <1>14 DEF Deliver

LEMMA OtherLists ==
    ASSUME TypeInv, AwaitedInv,
           \/ \E stats \in SUBSET PeerIds : LiveStats(stats)
           \/ Expire
           \/ Elsewhere
           \/ \E s \in Slots : Serve(s) \/ Lose(s) \/ LoseCut(s) \/ GiveUp(s)
    PROVE  AwaitedInv'
<1>1. /\ calls \in Requests
      /\ \A s \in Slots : calls[s] \in Call
      /\ screen \in Screens
    BY TokenTypes DEF TypeInv
<1>2. ~Fetching(Idle)
    BY DEF Fetching, Idle
<1>3. ASSUME AdminStep, screen' = screen, ListsKept(calls', calls) PROVE AwaitedInv'
    BY <1>1, <1>3, KeptLists DEF On
<1>4. ASSUME NEW stats \in SUBSET PeerIds, LiveStats(stats) PROVE AwaitedInv'
  <2>1. \/ On("dashboard") /\ LiveUpdate(stats)
        \/ On("peer") /\ LivePeerUpdate(stats)
    BY <1>4 DEF LiveStats
  <2>2. CASE On("dashboard") /\ LiveUpdate(stats)
    <3>1. screen \in DashboardScreens
      BY <1>1, <2>2, ScreenOfPage
    <3>2. screen'.page = "dashboard"
      BY <2>2, <3>1 DEF LiveUpdate, DashboardScreens
    <3>3. QED
      BY <3>2, AwayLists
  <2>3. CASE On("peer") /\ LivePeerUpdate(stats)
    <3>1. screen \in PeerScreens
      BY <1>1, <2>3, ScreenOfPage
    <3>2. screen'.page = "peer"
      BY <2>3, <3>1 DEF LivePeerUpdate, PeerScreens
    <3>3. QED
      BY <3>2, AwayLists
  <2>4. QED
    BY <2>1, <2>2, <2>3
<1>5. ASSUME Expire \/ Elsewhere PROVE AwaitedInv'
  <2>1. calls' = calls /\ screen' = screen
    BY <1>5 DEF Expire, Elsewhere, RevokeElsewhere, ClaimElsewhere, apiVars
  <2>2. CASE UNCHANGED accounts
    BY <2>1, <2>2 DEF AwaitedInv, On, NewestList, ListUsed, InTable
  <2>3. CASE Elsewhere
    BY <1>3, <2>1, <2>3, NextGrants DEF Next, ListsKept
  <2>4. QED
    BY <1>5, <2>2, <2>3 DEF Expire, apiVars, tableVars
<1>6. ASSUME NEW s \in Slots, Serve(s) PROVE AwaitedInv'
  <2>1. PICK c : /\ calls' = [calls EXCEPT ![s] = IF calls[s].page = "cut" THEN Idle ELSE c]
                 /\ c.op = calls[s].op
                 /\ c.page = calls[s].page
                 /\ c.newer = calls[s].newer
                 /\ c.stale = calls[s].stale
                 /\ c.op = "getUsers" /\ c.answer = "ok" =>
                       c.users = {u \in Users : accounts[u] # "none"}
    BY <1>6, ServeReplies DEF Serve, Reply
  <2>2. Fetching(c) => \A u \in Users : InTable(u) => MayName(c, u)
    BY <2>1 DEF Fetching, MayName, InTable
  <2>3. ListsKept(calls', calls)
    BY <1>1, <1>2, <2>1, <2>2 DEF ListsKept, Fetching, Requests
  <2>4. QED
    BY <1>3, <1>6, <2>3, NextGrants DEF Next, Serve
<1>7. ASSUME NEW s \in Slots, Lose(s) \/ LoseCut(s) \/ GiveUp(s) PROVE AwaitedInv'
  <2> DEFINE k == [calls[s] EXCEPT !.page = "cut"]
  <2>1. ~Fetching(k)
    BY <1>1 DEF Call, Fetching
  <2>2. /\ Failed(s, "refused").answer = "refused"
        /\ Failed(s, "refused").newer = calls[s].newer
        /\ Failed(s, "refused").stale = calls[s].stale
        /\ Fetching(Failed(s, "refused")) <=> Fetching(calls[s])
    BY AnswerIsCall DEF Fetching
  <2>3. ASSUME Lose(s) PROVE ListsKept(calls', calls)
    BY <1>1, <2>2, <2>3 DEF Lose, ListsKept, Requests, MayName
  <2>4. ASSUME LoseCut(s) PROVE ListsKept(calls', calls)
    BY <1>1, <1>2, <2>4 DEF LoseCut, ListsKept, Requests, Fetching
  <2>5. ASSUME GiveUp(s) PROVE ListsKept(calls', calls)
    <3>1. ~Fetching(calls[s])
      BY <2>5 DEF GiveUp, Fetching, Writes
    <3>2. PICK t \in Slots : /\ ~Fetching(calls[t])
                            /\ calls' = [calls EXCEPT ![s] = Failed(s, "refused"), ![t] = k]
      BY <2>5 DEF GiveUp, Free, Fetching
    <3>3. QED
      BY <1>1, <2>1, <2>2, <3>1, <3>2 DEF ListsKept, Requests, MayName
  <2>6. AdminStep /\ screen' = screen
    BY <1>7, NextGrants DEF Next, Lose, LoseCut, GiveUp
  <2>7. QED
    BY <1>3, <1>7, <2>3, <2>4, <2>5, <2>6
<1>8. QED
    BY <1>4, <1>5, <1>6, <1>7

LEMMA RegisteredStep ==
    ASSUME TypeInv, RegisteredInv, Next
    PROVE  RegisteredInv'
<1>1. \A u : InTable(u) => InTable(u)'
    BY NextGrants, AccountsStay
<1>2. CASE NoAnswer(calls', calls)
    BY <1>1, <1>2 DEF RegisteredInv, NoAnswer, InTable
<1>3. ASSUME NEW s \in Slots, Serve(s) PROVE RegisteredInv'
  <2>1. /\ calls \in Requests
        /\ Sound(calls[s], Tokens)
        /\ calls[s].answer = "none"
        /\ accounts \in [Users -> Roles \cup {"none"}]
    BY <1>3, TokenTypes DEF TypeInv, Serve, Respond
  <2>2. PICK c : /\ calls' = [calls EXCEPT ![s] = IF calls[s].page = "cut" THEN Idle ELSE c]
                 /\ c.op = calls[s].op
                 /\ c.op = "register" /\ c.answer = "ok" =>
                       CreateUser(s) /\ c.user = calls[s].user
    BY <1>3, ServeReplies DEF Serve, Reply
  <2>3. Idle.op = "none"
    BY DEF Idle
  <2>4. CASE calls'[s].op = "register" /\ calls'[s].answer = "ok"
    <3>1. calls[s].op = "register" /\ calls'[s].user = calls[s].user /\ CreateUser(s)
      BY <2>1, <2>2, <2>3, <2>4 DEF Requests
    <3>2. calls[s].user \in Users /\ calls[s].role \in Roles
      BY <2>1, <3>1 DEF Sound
    <3>3. accounts'[calls'[s].user] # "none"
      BY <2>1, <3>1, <3>2 DEF CreateUser, Roles
    <3>4. \A t \in Slots \ {s} : calls'[t] = calls[t]
      BY <2>1, <2>2 DEF Requests
    <3>5. QED
      BY <1>1, <3>1, <3>2, <3>3, <3>4 DEF RegisteredInv, InTable
  <2>5. CASE ~(calls'[s].op = "register" /\ calls'[s].answer = "ok")
    BY <1>1, <2>1, <2>2, <2>5 DEF RegisteredInv, InTable, Requests
  <2>6. QED
    BY <2>4, <2>5
<1>4. (\E stats \in SUBSET PeerIds : LiveStats(stats)) \/ Expire \/ Elsewhere
         => calls' = calls
    BY DEF LiveStats, LiveUpdate, LivePeerUpdate, Expire, Elsewhere, RevokeElsewhere,
           ClaimElsewhere, apiVars
<1>5. calls' = calls => NoAnswer(calls', calls)
    BY DEF NoAnswer
<1>6. QED
    BY <1>2, <1>3, <1>4, <1>5, TabAsksOnly, LossGrantsNothing DEF Next

\* As long as the message of success is shown, and when nothing is being fetched, the user
\* it names is in the list, unless that fetch failed or an older one overtook it: because
\* the list was requested after the user came into the table, the latest request is never
\* stale, and each that it overtakes is.
THEOREM NewUserListed == Spec => []ProvisionedUserListed
<1>1. ConsoleInit => RegisteredInv /\ AwaitedInv
    BY DEF ConsoleInit, ApiInit, RegisteredInv, AwaitedInv, On, Closed, Idle
<1>2. TypeInv /\ RegisteredInv /\ AwaitedInv /\ [Next]_vars => RegisteredInv' /\ AwaitedInv'
  <2> SUFFICES ASSUME TypeInv, RegisteredInv, AwaitedInv, [Next]_vars
               PROVE  RegisteredInv' /\ AwaitedInv'
    OBVIOUS
  <2>1. CASE UNCHANGED vars
    BY <2>1 DEF vars, apiVars, tableVars, RegisteredInv, AwaitedInv, On, NewestList, ListUsed,
                InTable
  <2>2. CASE Next
    BY <2>2, RegisteredStep, OperatorLists, DeliverLists, OtherLists DEF Next
  <2>3. QED
    BY <2>1, <2>2
<1>3. TypeInv /\ AwaitedInv => ProvisionedUserListed
  <2> SUFFICES ASSUME AwaitedInv, On("users"), UsersView.success, InFlight("getUsers") = {},
                      ~screen.missed
               PROVE  UsersView.rows = "users" /\ screen.success \in screen.users
    BY DEF ProvisionedUserListed
  <2>1. screen.success # Nobody
    BY DEF UsersView
  <2>2. \A n \in Slots : ~Fetching(calls[n])
    BY DEF InFlight, Fetching
  <2>3. ListUsed
    BY <2>1, <2>2 DEF AwaitedInv, NewestList
  <2>4. QED
    BY <2>3 DEF ListUsed, UsersView
<1>4. QED
    BY <1>1, <1>2, <1>3, TypesAndTokens, PTL DEF Spec
=============================================================================
