---------------------------- MODULE StreamTokens -----------------------------
(***************************************************************************)
(* The one-time tokens that admit a browser's EventSource, which cannot    *)
(* send an Authorization header, to the live statistics                    *)
(* (middlewares/stream.middleware.go).  The map is used under its mutex    *)
(* only, so Issue and Consume are one step each, but Consume reads the     *)
(* clock twice.  Time is the moment at which each token has passed its     *)
(* expiry; tokens expire in any order here, in the code in the order of    *)
(* issue.  A token is 32 random bytes: no two are equal.                   *)
(***************************************************************************)
CONSTANT Tokens             \* tokens ever issued: a bound

VARIABLES
    known,                  \* tokens in the map
    stale,                  \* tokens past their expiry
    issued                  \* tokens issued so far

tokenVars == <<known, stale, issued>>

TokensInit == known = {} /\ stale = {} /\ issued = {}

\* evictLocked
Evicted == known \ stale

\* Wrong: a new token replaces the others.
IssueOnly(t) ==
    /\ t \notin issued
    /\ issued' = issued \cup {t}
    /\ known' = {t}
    /\ UNCHANGED stale

Issue(t) ==
    /\ t \notin issued
    /\ issued' = issued \cup {t}
    /\ known' = Evicted \cup {t}
    /\ UNCHANGED stale

\* Wrong: the token stays in the map until it expires.
AdmitAgain(t) ==
    /\ t \in Evicted
    /\ known' = Evicted
    /\ UNCHANGED <<stale, issued>>

\* Consume returns true
Admit(t) ==
    /\ t \in Evicted
    /\ known' = Evicted \ {t}
    /\ UNCHANGED <<stale, issued>>

\* Consume returns false: the token is not in the map, or expires after the eviction
Refuse(t) ==
    \/ /\ t \notin Evicted
       /\ known' = Evicted
       /\ UNCHANGED <<stale, issued>>
    \/ /\ t \in Evicted
       /\ known' = Evicted \ {t}
       /\ stale' = stale \cup {t}
       /\ UNCHANGED issued

\* Wrong: expires is not set, so a token has expired before it is issued.
ExpireAlways(t) ==
    /\ t \notin stale
    /\ stale' = stale \cup {t}
    /\ UNCHANGED <<known, issued>>

Expire(t) ==
    /\ t \in issued \ stale
    /\ stale' = stale \cup {t}
    /\ UNCHANGED <<known, issued>>

\* the map is in the memory of the process
ForgetTokens ==
    /\ known' = {}
    /\ UNCHANGED <<stale, issued>>

TokensTypeOK ==
    /\ issued \in SUBSET Tokens
    /\ known \in SUBSET issued
    /\ stale \in SUBSET issued
=============================================================================
