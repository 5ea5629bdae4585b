--------------------------- MODULE LiveStatsProofs ---------------------------
(***************************************************************************)
(* The safety properties of the live statistics, for any number of hooks   *)
(* and tokens.  LiveInv relates the two sides: a token on its way to a     *)
(* hook is not in use anywhere, a stream's token is no longer in the map,  *)
(* and a token that is in the map no more has a reason.                    *)
(***************************************************************************)
EXTENDS LiveStats, TLAPS

Opened(t, i) == request[t][i] \in {"streaming", "ended"}

\* what a hook is doing, in each phase
HookInv ==
    \A h \in Hooks :
        /\ phase[h] = "out" => call[h] = "none"
        /\ ~Mounted(h) => ~timer[h] /\ src[h] = NoToken
        /\ reply[h] # NoToken <=> call[h] = "answered"

\* a token on its way to a hook has not been used, and is for that hook only
ReplyInv ==
    \A h \in Hooks : reply[h] # NoToken =>
        /\ \A i \in Tries : request[reply[h]][i] = "none"
        /\ \A g \in Hooks : g # h => reply[g] # reply[h]

RequestInv ==
    \A t \in Tokens :
        /\ link[t] # 0 => request[t][1] # "none"
        /\ link[t] = 1 => request[t][2] = "none"
        /\ \A i \in Tries : request[t][i] # "none" => t \in issued
        /\ \A i \in Tries : Opened(t, i) => t \notin known
        /\ ~(Opened(t, 1) /\ Opened(t, 2))

\* an issued token that is not in the map has expired, was forgotten, or opened a stream
GoneTokensInv ==
    \A t \in issued \ known : t \in stale \cup lost \/ \E i \in Tries : Opened(t, i)

LiveInv ==
    /\ TypeOK
    /\ HookInv
    /\ OneAttemptAtATime
    /\ ReplyInv
    /\ RequestInv
    /\ GoneTokensInv

-----------------------------------------------------------------------------
LEMMA InitHolds == Init => LiveInv
BY DEF Init, TokensInit, LiveInv, TypeOK, TokensTypeOK, HookInv, OneAttemptAtATime,
    ReplyInv, RequestInv, GoneTokensInv, Mounted, Opened, Tries

LEMMA MountKeeps ==
    ASSUME LiveInv, NEW h \in Hooks, Mount(h) PROVE LiveInv'
<1>1. TypeOK'
  BY DEF LiveInv, Mount, tokenVars, linkVars, TypeOK, TokensTypeOK
<1>2. HookInv'
  BY DEF LiveInv, Mount, TypeOK, HookInv, Mounted
<1>3. OneAttemptAtATime'
  BY DEF LiveInv, Mount, TypeOK, HookInv, OneAttemptAtATime, Mounted
<1>4. ReplyInv'
  BY DEF LiveInv, Mount, linkVars, ReplyInv
<1>5. RequestInv' /\ GoneTokensInv'
  BY DEF LiveInv, Mount, tokenVars, linkVars, RequestInv, GoneTokensInv, Opened
<1> QED BY <1>1, <1>2, <1>3, <1>4, <1>5 DEF LiveInv

LEMMA TokenFailsKeeps ==
    ASSUME LiveInv, NEW h \in Hooks, TokenFails(h) PROVE LiveInv'
<1>1. TypeOK'
  BY DEF LiveInv, TokenFails, Mounted, tokenVars, linkVars, TypeOK, TokensTypeOK
<1>2. HookInv'
  BY DEF LiveInv, TokenFails, TypeOK, HookInv, Mounted
<1>3. OneAttemptAtATime'
  BY DEF LiveInv, TokenFails, TypeOK, OneAttemptAtATime, Mounted
<1>4. ReplyInv'
  BY DEF LiveInv, TokenFails, linkVars, ReplyInv
<1>5. RequestInv' /\ GoneTokensInv'
  BY DEF LiveInv, TokenFails, tokenVars, linkVars, RequestInv, GoneTokensInv, Opened
<1> QED BY <1>1, <1>2, <1>3, <1>4, <1>5 DEF LiveInv

LEMMA TokenArrivesKeeps ==
    ASSUME LiveInv, NEW h \in Hooks, TokenArrives(h) PROVE LiveInv'
<1>1. TypeOK'
  BY SMTT(30) DEF LiveInv, TokenArrives, tokenVars, Becomes, TypeOK, TokensTypeOK, Tries
<1>2. HookInv'
  BY DEF LiveInv, TokenArrives, TypeOK, HookInv, Mounted
<1>3. OneAttemptAtATime'
  BY DEF LiveInv, TokenArrives, TypeOK, HookInv, OneAttemptAtATime, Mounted
<1>4. ReplyInv'
  BY DEF LiveInv, TokenArrives, Becomes, TypeOK, TokensTypeOK, ReplyInv
<1>5. RequestInv'
  BY LiveAssumption DEF LiveInv, TokenArrives, tokenVars, Becomes, TypeOK, ReplyInv,
      RequestInv, Opened, Tries
<1>6. GoneTokensInv'
  BY LiveAssumption DEF LiveInv, TokenArrives, tokenVars, Becomes, TypeOK, TokensTypeOK,
      ReplyInv, GoneTokensInv, Opened, Tries
<1> QED BY <1>1, <1>2, <1>3, <1>4, <1>5, <1>6 DEF LiveInv

LEMMA SourceFailsKeeps ==
    ASSUME LiveInv, NEW h \in Hooks, SourceFails(h) PROVE LiveInv'
<1>1. TypeOK'
  BY DEF LiveInv, SourceFails, CloseSource, tokenVars, TypeOK, TokensTypeOK
<1>2. HookInv'
  BY DEF LiveInv, SourceFails, CloseSource, HookInv, Mounted
<1>3. OneAttemptAtATime'
  BY DEF LiveInv, SourceFails, CloseSource, TypeOK, OneAttemptAtATime, Mounted
<1>4. ReplyInv'
  BY DEF LiveInv, SourceFails, ReplyInv
<1>5. RequestInv'
  BY DEF LiveInv, SourceFails, CloseSource, tokenVars, RequestInv, Opened
<1>6. GoneTokensInv'
  BY DEF LiveInv, SourceFails, tokenVars, GoneTokensInv, Opened
<1> QED BY <1>1, <1>2, <1>3, <1>4, <1>5, <1>6 DEF LiveInv

LEMMA RetryKeeps ==
    ASSUME LiveInv, NEW h \in Hooks, Retry(h) PROVE LiveInv'
<1>1. TypeOK'
  BY DEF LiveInv, Retry, tokenVars, linkVars, TypeOK, TokensTypeOK
<1>2. HookInv'
  BY DEF LiveInv, Retry, HookInv, OneAttemptAtATime, Mounted
<1>3. OneAttemptAtATime'
  BY DEF LiveInv, Retry, TypeOK, OneAttemptAtATime, Mounted
<1>4. ReplyInv' /\ RequestInv' /\ GoneTokensInv'
  BY DEF LiveInv, Retry, tokenVars, linkVars, ReplyInv, RequestInv, GoneTokensInv, Opened
<1> QED BY <1>1, <1>2, <1>3, <1>4 DEF LiveInv

LEMMA UnmountKeeps ==
    ASSUME LiveInv, NEW h \in Hooks, Unmount(h) PROVE LiveInv'
<1>1. TypeOK'
  BY DEF LiveInv, Unmount, CloseSource, tokenVars, TypeOK, TokensTypeOK
<1>2. HookInv'
  BY DEF LiveInv, Unmount, CloseSource, TypeOK, HookInv, Mounted
<1>3. OneAttemptAtATime'
  BY DEF LiveInv, Unmount, CloseSource, TypeOK, OneAttemptAtATime, Mounted
<1>4. ReplyInv'
  BY DEF LiveInv, Unmount, ReplyInv
<1>5. RequestInv'
  BY DEF LiveInv, Unmount, CloseSource, tokenVars, RequestInv, Opened
<1>6. GoneTokensInv'
  BY DEF LiveInv, Unmount, tokenVars, GoneTokensInv, Opened
<1> QED BY <1>1, <1>2, <1>3, <1>4, <1>5, <1>6 DEF LiveInv

LEMMA ResendKeeps ==
    ASSUME LiveInv, NEW h \in Hooks, Resend(h) PROVE LiveInv'
<1>1. TypeOK'
  BY DEF LiveInv, Resend, tokenVars, hookVars, Becomes, TypeOK, TokensTypeOK, Tries
<1>2. HookInv' /\ OneAttemptAtATime'
  BY DEF LiveInv, Resend, hookVars, HookInv, OneAttemptAtATime, Mounted
<1>3. ReplyInv'
  BY DEF LiveInv, Resend, hookVars, Becomes, TypeOK, ReplyInv, RequestInv
<1>4. RequestInv'
  BY DEF LiveInv, Resend, tokenVars, Becomes, TypeOK, RequestInv, Opened
<1>5. GoneTokensInv'
  BY DEF LiveInv, Resend, tokenVars, Becomes, TypeOK, RequestInv, GoneTokensInv, Opened
<1> QED BY <1>1, <1>2, <1>3, <1>4, <1>5 DEF LiveInv

LEMMA HearKeeps ==
    ASSUME LiveInv, NEW h \in Hooks, Hear(h) PROVE LiveInv'
<1>1. TypeOK'
  BY DEF LiveInv, Hear, tokenVars, hookVars, Heard, TypeOK, TokensTypeOK
<1>2. HookInv' /\ OneAttemptAtATime'
  BY DEF LiveInv, Hear, hookVars, HookInv, OneAttemptAtATime, Mounted
<1>3. ReplyInv' /\ RequestInv' /\ GoneTokensInv'
  BY DEF LiveInv, Hear, tokenVars, hookVars, ReplyInv, RequestInv, GoneTokensInv, Opened
<1> QED BY <1>1, <1>2, <1>3 DEF LiveInv

LEMMA ServeTokenKeeps ==
    ASSUME LiveInv, NEW h \in Hooks, ServeToken(h) PROVE LiveInv'
<1>1. TypeOK'
  BY DEF LiveInv, ServeToken, Issue, Evicted, linkVars, TypeOK, TokensTypeOK
<1>2. HookInv'
  BY LiveAssumption DEF LiveInv, ServeToken, TypeOK, HookInv, Mounted
<1>3. OneAttemptAtATime'
  BY DEF LiveInv, ServeToken, OneAttemptAtATime, Mounted
<1>4. ReplyInv'
  BY DEF LiveInv, ServeToken, Issue, linkVars, TypeOK, ReplyInv, RequestInv
<1>5. RequestInv'
  BY DEF LiveInv, ServeToken, Issue, Evicted, linkVars, RequestInv, Opened
<1>6. GoneTokensInv'
  BY DEF LiveInv, ServeToken, Issue, Evicted, linkVars, GoneTokensInv, Opened
<1> QED BY <1>1, <1>2, <1>3, <1>4, <1>5, <1>6 DEF LiveInv

LEMMA StartStreamKeeps ==
    ASSUME LiveInv, NEW t \in Tokens, NEW i \in Tries, StartStream(t, i) PROVE LiveInv'
<1>1. TypeOK'
  BY DEF LiveInv, StartStream, Admit, Evicted, hookVars, Becomes, TypeOK, TokensTypeOK
<1>2. HookInv' /\ OneAttemptAtATime'
  BY DEF LiveInv, StartStream, hookVars, HookInv, OneAttemptAtATime, Mounted
<1>3. ReplyInv'
  BY DEF LiveInv, StartStream, hookVars, Becomes, ReplyInv
<1>4. RequestInv'
  BY DEF LiveInv, StartStream, Admit, Evicted, Becomes, RequestInv, Opened, Tries
<1>5. GoneTokensInv'
  BY DEF LiveInv, StartStream, Admit, Evicted, Becomes, TypeOK, GoneTokensInv, Opened
<1> QED BY <1>1, <1>2, <1>3, <1>4, <1>5 DEF LiveInv

LEMMA UnauthorizedKeeps ==
    ASSUME LiveInv, NEW t \in Tokens, NEW i \in Tries, Unauthorized(t, i) PROVE LiveInv'
<1>1. TypeOK'
  BY DEF LiveInv, Unauthorized, Refuse, Evicted, hookVars, Becomes, TypeOK, TokensTypeOK
<1>2. HookInv' /\ OneAttemptAtATime'
  BY DEF LiveInv, Unauthorized, hookVars, HookInv, OneAttemptAtATime, Mounted
<1>3. ReplyInv'
  BY DEF LiveInv, Unauthorized, hookVars, Becomes, ReplyInv
<1>4. RequestInv'
  BY DEF LiveInv, Unauthorized, Refuse, Evicted, Becomes, RequestInv, Opened
<1>5. GoneTokensInv'
  BY DEF LiveInv, Unauthorized, Refuse, Evicted, Becomes, GoneTokensInv, Opened
<1> QED BY <1>1, <1>2, <1>3, <1>4, <1>5 DEF LiveInv

LEMMA ClientGoneKeeps ==
    ASSUME LiveInv, NEW t \in Tokens, NEW i \in Tries, ClientGone(t, i) PROVE LiveInv'
<1>1. TypeOK'
  BY DEF LiveInv, ClientGone, tokenVars, hookVars, Becomes, TypeOK, TokensTypeOK
<1>2. HookInv' /\ OneAttemptAtATime'
  BY DEF LiveInv, ClientGone, hookVars, HookInv, OneAttemptAtATime, Mounted
<1>3. ReplyInv'
  BY DEF LiveInv, ClientGone, hookVars, Becomes, ReplyInv
<1>4. RequestInv'
  BY DEF LiveInv, ClientGone, tokenVars, Becomes, RequestInv, Opened
<1>5. GoneTokensInv'
  BY DEF LiveInv, ClientGone, tokenVars, Becomes, GoneTokensInv, Opened
<1> QED BY <1>1, <1>2, <1>3, <1>4, <1>5 DEF LiveInv

LEMMA StatsFailKeeps ==
    ASSUME LiveInv, NEW t \in Tokens, NEW i \in Tries, StatsFail(t, i) PROVE LiveInv'
<1>1. TypeOK'
  BY DEF LiveInv, StatsFail, tokenVars, hookVars, Becomes, TypeOK, TokensTypeOK
<1>2. HookInv' /\ OneAttemptAtATime'
  BY DEF LiveInv, StatsFail, hookVars, HookInv, OneAttemptAtATime, Mounted
<1>3. ReplyInv'
  BY DEF LiveInv, StatsFail, hookVars, Becomes, ReplyInv
<1>4. RequestInv'
  BY DEF LiveInv, StatsFail, tokenVars, Becomes, RequestInv, Opened
<1>5. GoneTokensInv'
  BY DEF LiveInv, StatsFail, tokenVars, Becomes, GoneTokensInv, Opened
<1> QED BY <1>1, <1>2, <1>3, <1>4, <1>5 DEF LiveInv

LEMMA TimePassesKeeps ==
    ASSUME LiveInv, NEW t \in Tokens, TimePasses(t) PROVE LiveInv'
<1>1. TypeOK'
  BY DEF LiveInv, TimePasses, Expire, hookVars, linkVars, TypeOK, TokensTypeOK
<1>2. HookInv' /\ OneAttemptAtATime'
  BY DEF LiveInv, TimePasses, hookVars, HookInv, OneAttemptAtATime, Mounted
<1>3. ReplyInv'
  BY DEF LiveInv, TimePasses, hookVars, linkVars, ReplyInv
<1>4. RequestInv'
  BY DEF LiveInv, TimePasses, Expire, linkVars, RequestInv, Opened
<1>5. GoneTokensInv'
  BY DEF LiveInv, TimePasses, Expire, linkVars, GoneTokensInv, Opened
<1> QED BY <1>1, <1>2, <1>3, <1>4, <1>5 DEF LiveInv

LEMMA RestartKeeps ==
    ASSUME LiveInv, Restart PROVE LiveInv'
<1>1. TypeOK'
  BY DEF LiveInv, Restart, ForgetTokens, hookVars, TypeOK, TokensTypeOK
<1>2. HookInv' /\ OneAttemptAtATime'
  BY DEF LiveInv, Restart, hookVars, HookInv, OneAttemptAtATime, Mounted
<1>3. ReplyInv'
  BY DEF LiveInv, Restart, hookVars, TypeOK, TokensTypeOK, ReplyInv
<1>4. RequestInv'
  BY DEF LiveInv, Restart, ForgetTokens, RequestInv, Opened, Tries
<1>5. GoneTokensInv'
  BY DEF LiveInv, Restart, ForgetTokens, TypeOK, TokensTypeOK, GoneTokensInv, Opened
<1> QED BY <1>1, <1>2, <1>3, <1>4, <1>5 DEF LiveInv

LEMMA LiveInvariant == Spec => []LiveInv
<1>1. LiveInv /\ [Next]_vars => LiveInv'
  <2> SUFFICES ASSUME LiveInv, [Next]_vars PROVE LiveInv'
    OBVIOUS
  <2>1. ASSUME NEW h \in Hooks, Mount(h) PROVE LiveInv'
    BY <2>1, MountKeeps
  <2>2. ASSUME NEW h \in Hooks, TokenFails(h) PROVE LiveInv'
    BY <2>2, TokenFailsKeeps
  <2>3. ASSUME NEW h \in Hooks, TokenArrives(h) PROVE LiveInv'
    BY <2>3, TokenArrivesKeeps
  <2>4. ASSUME NEW h \in Hooks, SourceFails(h) PROVE LiveInv'
    BY <2>4, SourceFailsKeeps
  <2>5. ASSUME NEW h \in Hooks, Retry(h) PROVE LiveInv'
    BY <2>5, RetryKeeps
  <2>6. ASSUME NEW h \in Hooks, Unmount(h) PROVE LiveInv'
    BY <2>6, UnmountKeeps
  <2>7. ASSUME NEW h \in Hooks, Resend(h) PROVE LiveInv'
    BY <2>7, ResendKeeps
  <2>8. ASSUME NEW h \in Hooks, Hear(h) PROVE LiveInv'
    BY <2>8, HearKeeps
  <2>9. ASSUME NEW h \in Hooks, ServeToken(h) PROVE LiveInv'
    BY <2>9, ServeTokenKeeps
  <2>10. ASSUME NEW t \in Tokens, NEW i \in Tries, StartStream(t, i) PROVE LiveInv'
    BY <2>10, StartStreamKeeps
  <2>11. ASSUME NEW t \in Tokens, NEW i \in Tries, Unauthorized(t, i) PROVE LiveInv'
    BY <2>11, UnauthorizedKeeps
  <2>12. ASSUME NEW t \in Tokens, NEW i \in Tries, ClientGone(t, i) PROVE LiveInv'
    BY <2>12, ClientGoneKeeps
  <2>13. ASSUME NEW t \in Tokens, NEW i \in Tries, StatsFail(t, i) PROVE LiveInv'
    BY <2>13, StatsFailKeeps
  <2>14. ASSUME NEW t \in Tokens, TimePasses(t) PROVE LiveInv'
    BY <2>14, TimePassesKeeps
  <2>15. CASE Restart
    BY <2>15, RestartKeeps
  <2>16. CASE UNCHANGED vars
    BY <2>16 DEF vars, tokenVars, hookVars, linkVars, LiveInv, TypeOK, TokensTypeOK, HookInv,
        OneAttemptAtATime, ReplyInv, RequestInv, GoneTokensInv, Mounted, Opened
  <2> QED
    BY <2>1, <2>2, <2>3, <2>4, <2>5, <2>6, <2>7, <2>8, <2>9, <2>10, <2>11, <2>12, <2>13,
        <2>14, <2>15, <2>16 DEF Next
<1> QED BY InitHolds, <1>1, PTL DEF Spec

-----------------------------------------------------------------------------
\* The types of both sides, for any number of hooks and tokens.
THEOREM LiveTypeCorrect == Spec => []TypeOK
<1>1. LiveInv => TypeOK
  BY DEF LiveInv
<1> QED BY LiveInvariant, <1>1, PTL

\* A token opens at most one stream, although the browser may send its request twice and
\* other hooks issue tokens in between (RequireStreamToken, Consume).
THEOREM TokensOpenOneStream == Spec => []OneStreamPerToken
<1>1. LiveInv => OneStreamPerToken
  BY DEF LiveInv, RequestInv, Opened, OneStreamPerToken, Tries
<1> QED BY LiveInvariant, <1>1, PTL

\* A mounted hook makes one attempt at a time, and never none (connect, scheduleReconnect).
THEOREM HooksKeepTrying == Spec => []OneAttemptAtATime
<1>1. LiveInv => OneAttemptAtATime
  BY DEF LiveInv
<1> QED BY LiveInvariant, <1>1, PTL

\* A hook that is gone has left no timer and no EventSource (the cleanup of the effect).
THEOREM GoneHooksAreQuiet == Spec => []GoneIsQuiet
<1>1. LiveInv => GoneIsQuiet
  BY DEF LiveInv, HookInv, Mounted, GoneIsQuiet
<1> QED BY LiveInvariant, <1>1, PTL

\* A token is refused only if it has expired, has been used, or was forgotten in a
\* restart: Issue and Consume for other tokens never cost a hook its token.
THEOREM RefusalsHaveReasons == Spec => RefusedForAReason
<1> DEFINE Reason(t) == t \in stale' \/ t \in lost \/ \E j \in Tries : Opened(t, j)
           Refused(t, i) == request[t][i] = "sent" /\ request'[t][i] = "refused"
<1>1. ASSUME LiveInv, [Next]_vars, NEW t \in Tokens, NEW i \in Tries, Refused(t, i)
      PROVE  Reason(t)
  <2>1. ASSUME NEW h \in Hooks,
               Mount(h) \/ TokenFails(h) \/ SourceFails(h) \/ Retry(h) \/ Unmount(h)
                 \/ Hear(h) \/ ServeToken(h)
        PROVE  FALSE
    BY <1>1, <2>1 DEF Mount, TokenFails, SourceFails, Retry, Unmount, Hear, ServeToken, linkVars
  <2>0. ASSUME NEW u, NEW j, NEW s, s # "refused", Becomes(u, j, s) PROVE FALSE
    <3>1. request \in [Tokens -> [Tries -> {"none", "sent", "streaming", "refused", "ended"}]]
      BY <1>1 DEF LiveInv, TypeOK
    <3>2. request'[t] = IF t = u THEN [request[t] EXCEPT ![j] = s] ELSE request[t]
      BY <2>0, <3>1 DEF Becomes
    <3>3. request'[t][i] \in {s, request[t][i]}
      BY <3>1, <3>2
    <3> QED
      BY <1>1, <2>0, <3>3
  <2>2. ASSUME NEW h \in Hooks, TokenArrives(h) \/ Resend(h) PROVE FALSE
    <3>1. (\E u : Becomes(u, 1, "sent")) \/ (\E u : Becomes(u, 2, "sent"))
             \/ request' = request
      BY <2>2 DEF TokenArrives, Resend
    <3> QED
      BY <1>1, <2>0, <3>1
  <2>3. ASSUME NEW u \in Tokens, NEW j \in Tries,
               StartStream(u, j) \/ ClientGone(u, j) \/ StatsFail(u, j)
        PROVE  FALSE
    BY <2>0, <2>3 DEF StartStream, ClientGone, StatsFail
  <2>4. ASSUME NEW u \in Tokens, NEW j \in Tries, Unauthorized(u, j) PROVE Reason(t)
    <3>1. u = t
      BY <1>1, <2>4 DEF Unauthorized, Becomes, LiveInv, TypeOK, Tries
    <3>2. t \in issued
      BY <1>1 DEF LiveInv, RequestInv
    <3>3. t \in stale' \/ t \notin known \/ t \in stale
      BY <2>4, <3>1 DEF Unauthorized, Refuse, Evicted
    <3>4. stale \subseteq stale'
      BY <2>4 DEF Unauthorized, Refuse
    <3> QED BY <1>1, <3>2, <3>3, <3>4 DEF LiveInv, GoneTokensInv
  <2>5. ASSUME NEW u \in Tokens, TimePasses(u) PROVE FALSE
    BY <1>1, <2>5 DEF TimePasses, linkVars
  <2>6. CASE Restart
    BY <1>1, <2>6 DEF Restart
  <2>7. CASE UNCHANGED vars
    BY <1>1, <2>7 DEF vars, linkVars
  <2> QED BY <1>1, <2>1, <2>2, <2>3, <2>4, <2>5, <2>6, <2>7 DEF Next
<1>2. LiveInv /\ [Next]_vars =>
          [\A t \in Tokens, i \in Tries :
              request[t][i] = "sent" /\ request'[t][i] = "refused" =>
                  \/ t \in stale' \/ t \in lost
                  \/ \E j \in Tries : request[t][j] \in {"streaming", "ended"}]_vars
  BY <1>1 DEF Opened
<1> QED BY LiveInvariant, <1>2, PTL DEF Spec, RefusedForAReason
==============================================================================
