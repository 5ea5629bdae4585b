------------------------------ MODULE LiveStats ------------------------------
(***************************************************************************)
(* The live statistics: the hook of the dashboard (frontend/hooks/         *)
(* use-live-stats.ts), one instance for each time the effect of a page     *)
(* runs, and the server's side, the two routes that issue and consume      *)
(* stream tokens (StreamTokens) and StreamLiveStats (controllers/          *)
(* peers.controller.go).                                                   *)
(*                                                                         *)
(* An instance is out, mounted or gone (its cleanup has run, cancelled is  *)
(* true).  While it awaits api.getStreamToken() other callbacks may run,   *)
(* its cleanup too.  An EventSource is known by its token; the browser may *)
(* send its request again as long as no answer has arrived, so a token has *)
(* up to two requests, of which the EventSource hears the last.  Requests, *)
(* answers and streams may be lost at any moment, and the server may be    *)
(* restarted.  Lengths of the waits and the statistics are left out.       *)
(***************************************************************************)
EXTENDS StreamTokens

CONSTANTS Hooks, NoToken

ASSUME LiveAssumption == NoToken \notin Tokens

Tries == {1, 2}

VARIABLES
    phase,                  \* of the effect: "out", "mounted", "gone"
    timer,                  \* retryTimer is set
    call,                   \* POST /api/streamToken: "none", "sent", "answered"
    reply,                  \* the token of the answer on its way
    src,                    \* evtSource, as its token
    heard,                  \* tokens whose EventSource has had an answer
    request,                \* the request with a token, as the server sees it
    link,                   \* the request the token's EventSource listens to, or 0
    lost                    \* history: tokens forgotten in a restart

hookVars == <<phase, timer, call, reply, src>>
linkVars == <<heard, request, link>>
vars == <<tokenVars, hookVars, linkVars, lost>>

Init ==
    /\ TokensInit
    /\ phase = [h \in Hooks |-> "out"]
    /\ timer = [h \in Hooks |-> FALSE]
    /\ call = [h \in Hooks |-> "none"]
    /\ reply = [h \in Hooks |-> NoToken]
    /\ src = [h \in Hooks |-> NoToken]
    /\ heard = {}
    /\ request = [t \in Tokens |-> [i \in Tries |-> "none"]]
    /\ link = [t \in Tokens |-> 0]
    /\ lost = {}

Mounted(h) == phase[h] = "mounted"

\* the state of a request with t moves to s
Becomes(t, i, s) == request' = [request EXCEPT ![t][i] = s]

\* what the EventSource of h listens to
Heard(h) == IF src[h] = NoToken \/ link[src[h]] = 0 THEN "none"
            ELSE request[src[h]][link[src[h]]]

-----------------------------------------------------------------------------
(* The hook. *)

Mount(h) ==
    /\ phase[h] = "out"
    /\ phase' = [phase EXCEPT ![h] = "mounted"]
    /\ call' = [call EXCEPT ![h] = "sent"]
    /\ UNCHANGED <<tokenVars, timer, reply, src, linkVars, lost>>

\* the POST fails, or its answer is lost: catch, scheduleReconnect
TokenFails(h) ==
    /\ call[h] # "none"
    /\ call' = [call EXCEPT ![h] = "none"]
    /\ reply' = [reply EXCEPT ![h] = NoToken]
    /\ timer' = [timer EXCEPT ![h] = Mounted(h)]
    /\ UNCHANGED <<tokenVars, phase, src, linkVars, lost>>

\* Wrong: cancelled is not read again after the await.
OpenAnyway(h) ==
    /\ call[h] = "answered"
    /\ call' = [call EXCEPT ![h] = "none"]
    /\ reply' = [reply EXCEPT ![h] = NoToken]
    /\ src' = [src EXCEPT ![h] = reply[h]]
    /\ link' = [link EXCEPT ![reply[h]] = 1]
    /\ Becomes(reply[h], 1, "sent")
    /\ UNCHANGED <<tokenVars, phase, timer, heard, lost>>

\* the await returns: new EventSource, unless cancelled
TokenArrives(h) ==
    /\ call[h] = "answered"
    /\ call' = [call EXCEPT ![h] = "none"]
    /\ reply' = [reply EXCEPT ![h] = NoToken]
    /\ IF Mounted(h)
       THEN /\ src' = [src EXCEPT ![h] = reply[h]]
            /\ link' = [link EXCEPT ![reply[h]] = 1]
            /\ Becomes(reply[h], 1, "sent")
       ELSE UNCHANGED <<src, link, request>>
    /\ UNCHANGED <<tokenVars, phase, timer, heard, lost>>

\* closeSource
CloseSource(h) ==
    /\ src' = [src EXCEPT ![h] = NoToken]
    /\ link' = [t \in Tokens |-> IF t = src[h] THEN 0 ELSE link[t]]

\* Wrong: an answer that is not a stream ends the attempts.
SourceFailsForGood(h) ==
    /\ src[h] # NoToken
    /\ CloseSource(h)
    /\ timer' = [timer EXCEPT ![h] = Heard(h) # "refused"]
    /\ UNCHANGED <<tokenVars, phase, call, reply, heard, request, lost>>

\* onerror: the connection breaks or is refused, the stream ends, or an "error" event
\* arrives
SourceFails(h) ==
    /\ src[h] # NoToken
    /\ CloseSource(h)
    /\ timer' = [timer EXCEPT ![h] = TRUE]
    /\ UNCHANGED <<tokenVars, phase, call, reply, heard, request, lost>>

\* the retry timer: connect
Retry(h) ==
    /\ timer[h]
    /\ timer' = [timer EXCEPT ![h] = FALSE]
    /\ call' = [call EXCEPT ![h] = "sent"]
    /\ UNCHANGED <<tokenVars, phase, reply, src, linkVars, lost>>

\* the cleanup of the effect
Unmount(h) ==
    /\ Mounted(h)
    /\ phase' = [phase EXCEPT ![h] = "gone"]
    /\ timer' = [timer EXCEPT ![h] = FALSE]
    /\ CloseSource(h)
    /\ UNCHANGED <<tokenVars, call, reply, heard, request, lost>>

\* the browser sends the request of an EventSource again
Resend(h) ==
    /\ src[h] # NoToken
    /\ src[h] \notin heard
    /\ link[src[h]] = 1
    /\ link' = [link EXCEPT ![src[h]] = 2]
    /\ Becomes(src[h], 2, "sent")
    /\ UNCHANGED <<tokenVars, hookVars, heard, lost>>

\* onopen, onmessage
Hear(h) ==
    /\ Heard(h) = "streaming"
    /\ heard' = heard \cup {src[h]}
    /\ UNCHANGED <<tokenVars, hookVars, request, link, lost>>

-----------------------------------------------------------------------------
(* The server. *)

\* IssueStreamToken
ServeToken(h) ==
    /\ call[h] = "sent"
    /\ \E t \in Tokens :
          /\ Issue(t)
          /\ reply' = [reply EXCEPT ![h] = t]
    /\ call' = [call EXCEPT ![h] = "answered"]
    /\ UNCHANGED <<phase, timer, src, linkVars, lost>>

\* RequireStreamToken lets the request through to StreamLiveStats
StartStream(t, i) ==
    /\ request[t][i] = "sent"
    /\ Admit(t)
    /\ Becomes(t, i, "streaming")
    /\ UNCHANGED <<hookVars, heard, link, lost>>

\* RequireStreamToken answers 401
Unauthorized(t, i) ==
    /\ request[t][i] = "sent"
    /\ Refuse(t)
    /\ Becomes(t, i, "refused")
    /\ UNCHANGED <<hookVars, heard, link, lost>>

\* Wrong: the loop waits for the ticker only.
ClientGoneUnseen(t, i) ==
    /\ request[t][i] = "streaming"
    /\ link[t] # i
    /\ UNCHANGED vars

\* ctx.Done(): nobody listens to this request any more
ClientGone(t, i) ==
    /\ request[t][i] = "streaming"
    /\ link[t] # i
    /\ Becomes(t, i, "ended")
    /\ UNCHANGED <<tokenVars, hookVars, heard, link, lost>>

\* wgctrl fails: an "error" event, and the handler returns
StatsFail(t, i) ==
    /\ request[t][i] = "streaming"
    /\ Becomes(t, i, "ended")
    /\ UNCHANGED <<tokenVars, hookVars, heard, link, lost>>

TimePasses(t) == Expire(t) /\ UNCHANGED <<hookVars, linkVars, lost>>

\* the process is restarted: its streams end, its tokens are forgotten
Restart ==
    /\ ForgetTokens
    /\ lost' = lost \cup known
    /\ request' = [t \in Tokens |-> [i \in Tries |->
                      IF request[t][i] = "streaming" THEN "ended" ELSE request[t][i]]]
    /\ UNCHANGED <<hookVars, heard, link>>

-----------------------------------------------------------------------------
Next ==
    \/ \E h \in Hooks :
          \/ Mount(h) \/ TokenFails(h) \/ TokenArrives(h) \/ SourceFails(h)
          \/ Retry(h) \/ Unmount(h) \/ Resend(h) \/ Hear(h) \/ ServeToken(h)
    \/ \E t \in Tokens, i \in Tries :
          StartStream(t, i) \/ Unauthorized(t, i) \/ ClientGone(t, i) \/ StatsFail(t, i)
    \/ \E t \in Tokens : TimePasses(t)
    \/ Restart

Spec == Init /\ [][Next]_vars

\* The browser runs timers and reports a source that has failed; the server's select sees
\* a client that is gone.  Nothing is assumed about requests that are not answered.
FairSpec ==
    /\ Spec
    /\ \A h \in Hooks :
          /\ WF_vars(Retry(h))
          /\ WF_vars(Heard(h) \in {"refused", "ended"} /\ SourceFails(h))
    /\ \A t \in Tokens, i \in Tries : WF_vars(ClientGone(t, i))

-----------------------------------------------------------------------------
TypeOK ==
    /\ TokensTypeOK
    /\ phase \in [Hooks -> {"out", "mounted", "gone"}]
    /\ timer \in [Hooks -> BOOLEAN]
    /\ call \in [Hooks -> {"none", "sent", "answered"}]
    /\ reply \in [Hooks -> issued \cup {NoToken}]
    /\ src \in [Hooks -> issued \cup {NoToken}]
    /\ heard \in SUBSET issued
    /\ request \in [Tokens -> [Tries -> {"none", "sent", "streaming", "refused", "ended"}]]
    /\ link \in [Tokens -> Tries \cup {0}]
    /\ lost \in SUBSET issued

\* A token opens one stream, although the browser may have sent the request twice and
\* both may reach the server at once.
OneStreamPerToken ==
    \A t \in Tokens : \E i \in Tries : request[t][i] \notin {"streaming", "ended"}

\* A mounted hook is doing exactly one thing to get its statistics: it waits for a token,
\* for the timer, or has one EventSource of its own.  So it neither gives up nor opens a
\* second stream beside the first.
OneAttemptAtATime ==
    \A h \in Hooks : Mounted(h) =>
        /\ call[h] # "none" => ~timer[h] /\ src[h] = NoToken
        /\ timer[h] => src[h] = NoToken
        /\ call[h] # "none" \/ timer[h] \/ src[h] # NoToken

\* After its cleanup a hook has no timer and no EventSource, even if the token it awaited
\* arrives later.
GoneIsQuiet ==
    \A h \in Hooks : phase[h] = "gone" => ~timer[h] /\ src[h] = NoToken

\* Whatever the other hooks do to the store, a token admits its hook: it is refused only
\* if it has expired, has opened a stream already, or was forgotten in a restart.
RefusedForAReason ==
    [][\A t \in Tokens, i \in Tries :
          request[t][i] = "sent" /\ request'[t][i] = "refused" =>
              \/ t \in stale' \/ t \in lost
              \/ \E j \in Tries : request[t][j] \in {"streaming", "ended"}]_vars

\* A stream that goes on is one that a mounted hook listens to: handlers end after the
\* cleanup of their hook, after a reconnect, and when the browser sent the request again.
StreamsHaveListeners ==
    \A t \in Tokens, i \in Tries :
        request[t][i] = "streaming" ~>
            \/ request[t][i] # "streaming"
            \/ link[t] = i /\ \E h \in Hooks : Mounted(h) /\ src[h] = t

\* A hook whose stream was refused or has ended asks for a new token, unless it is
\* unmounted or the browser sends the request again before it has heard of it.
HookTriesAgain ==
    \A h \in Hooks :
        Heard(h) \in {"refused", "ended"} ~>
            (call[h] = "sent" \/ phase[h] = "gone" \/ Heard(h) = "sent")
=============================================================================
