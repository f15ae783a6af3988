----------------------------- MODULE AuthSessions -----------------------------
(***************************************************************************)
(* core/auth as the server runs it: session rows with rotating refresh     *)
(* tokens, and the calls to /api/auth and to protected endpoints.          *)
(*                                                                         *)
(* A call is one exchange over HTTP.  A session carries the identifier of  *)
(* the call that created it, and stands for its refresh token, for the     *)
(* access token minted with it and for the cookies that hold both: they    *)
(* are always set and cleared together.  The CSRF check is not modelled    *)
(* (a client of ours sends the cookie it was given back in the header).    *)
(***************************************************************************)
EXTENDS Integers, FiniteSets

CONSTANTS
    Calls,          \* HTTP calls, each made once (a retry is the same call again)
    Old,            \* the session of an earlier sign-in
    Quota,          \* max_requests of each rate limit policy
    MaxAged,        \* bound on tokens growing old
    None

VARIABLES
    session,        \* row of table session: none, live, revoked
    heir,           \* replaced_by_session_id
    age,            \* of a session's tokens: fresh, stale (access expired), expired (both)
    aged,           \* how many times one has grown older
    recent,         \* requests in the current window, by policy
    kind,           \* of a call
    carried,        \* cookies the call was sent with: a session, or None
    phase,          \* of a call
    reply,          \* status of the response: ok (2xx, or a redirect to /auth/success), ...
    orphans         \* calls whose page has gone or that have timed out: nobody hears the answer

table == <<session, heir>>
clock == <<age, aged, recent>>
wire == <<kind, carried, phase, reply, orphans>>
serverVars == <<table, clock, wire>>

Sessions == Calls \cup {Old}
Policies == {"login", "callback", "refresh"}
Protected == {"me", "api", "stream"}
Kinds == Protected \cup {"login", "refresh", "logout"}

ASSUME SessionAssumption ==
    /\ Old \notin Calls /\ None \notin Sessions
    /\ Quota \in [Policies -> Nat \ {0}]
    /\ MaxAged \in Nat

ServerInit ==
    /\ session = [s \in Sessions |-> IF s = Old THEN "live" ELSE "none"]
    /\ heir = [s \in Sessions |-> None]
    /\ age = [s \in Sessions |-> "fresh"]
    /\ aged = 0
    /\ recent = [p \in Policies |-> 0]
    /\ kind = [c \in Calls |-> "none"]
    /\ carried = [c \in Calls |-> None]
    /\ phase = [c \in Calls |-> "unused"]
    /\ reply = [c \in Calls |-> "none"]
    /\ orphans = {}

-----------------------------------------------------------------------------
\* Mutant: the quota is compared with > instead of >=.
Limited_TooLate(policy) == recent[policy] > Quota[policy]

\* The limiter counts a request only when it lets it in; requests leave the window
\* as time passes.
Limited(policy) == recent[policy] >= Quota[policy]
Admit(policy) ==
    /\ ~Limited(policy)
    /\ recent' = [recent EXCEPT ![policy] = @ + 1]

LeaveWindow(policy) ==
    /\ recent[policy] > 0
    /\ recent' = [recent EXCEPT ![policy] = @ - 1]
    /\ UNCHANGED <<table, age, aged, wire>>

GrowOld(s) ==
    /\ session[s] # "none" /\ age[s] # "expired"
    /\ aged < MaxAged
    /\ aged' = aged + 1
    /\ age' = [age EXCEPT ![s] = IF @ = "fresh" THEN "stale" ELSE "expired"]
    /\ UNCHANGED <<table, recent, wire>>

\* A response is on its way, to nobody if the caller has gone.
Respond(c, status) ==
    /\ phase' = [phase EXCEPT ![c] = IF c \in orphans THEN "done" ELSE "answered"]
    /\ reply' = [reply EXCEPT ![c] = status]
    /\ UNCHANGED <<kind, carried, orphans>>

\* An access token is a signed claim: no row is looked up, a revoked session's is good
\* until it expires.
Authorised(s) == s # None /\ age[s] = "fresh"

ServeProtected(c) ==
    /\ phase[c] = "sent" /\ kind[c] \in Protected
    /\ Respond(c, IF Authorised(carried[c]) THEN "ok" ELSE "unauthorized")
    /\ UNCHANGED <<table, clock>>

Unrevoked(s) == s # None /\ session[s] = "live"

\* What refresh_session checks of the row it has loaded.
Acceptable(s) == Unrevoked(s) /\ age[s] # "expired"

\* POST /refresh: rate limit, cookie, row.
ReadForRefresh(c) ==
    /\ phase[c] = "sent" /\ kind[c] = "refresh"
    /\ \/ /\ Limited("refresh")
          /\ Respond(c, "limited")
          /\ UNCHANGED recent
       \/ /\ Admit("refresh") /\ ~Acceptable(carried[c])
          /\ Respond(c, "unauthorized")
       \/ /\ Admit("refresh") /\ Acceptable(carried[c])
          /\ phase' = [phase EXCEPT ![c] = "read"]
          /\ UNCHANGED <<kind, carried, reply, orphans>>
    /\ UNCHANGED <<table, age, aged>>

\* Mutant: the new session is added and the old one kept.
RotateSession_KeepOld(c) ==
    /\ phase[c] = "read" /\ kind[c] = "refresh"
    /\ session' = [session EXCEPT ![c] = "live"]
    /\ heir' = [heir EXCEPT ![carried[c]] = c]
    /\ Respond(c, "ok")
    /\ UNCHANGED clock

\* Mutant: a refresh renews the row it has read.
RotateSession_Renew(c) ==
    /\ phase[c] = "read" /\ kind[c] = "refresh"
    /\ session' = [session EXCEPT ![carried[c]] = "live"]
    /\ Respond(c, "ok")
    /\ UNCHANGED <<heir, clock>>

\* The new row and the revocation of the old one commit together.  The row read
\* before is not looked at again: another refresh or a logout may have revoked it.
RotateSession(c) ==
    /\ phase[c] = "read" /\ kind[c] = "refresh"
    /\ session' = [session EXCEPT ![carried[c]] = "revoked", ![c] = "live"]
    /\ heir' = [heir EXCEPT ![carried[c]] = c]
    /\ Respond(c, "ok")
    /\ UNCHANGED clock

\* POST /logout answers 204 whatever the cookie is worth; an expired session is
\* revoked like any other.
ReadForLogout(c) ==
    /\ phase[c] = "sent" /\ kind[c] = "logout"
    /\ \/ /\ ~Unrevoked(carried[c])
          /\ Respond(c, "ok")
       \/ /\ Unrevoked(carried[c])
          /\ phase' = [phase EXCEPT ![c] = "read"]
          /\ UNCHANGED <<kind, carried, reply, orphans>>
    /\ UNCHANGED <<table, clock>>

\* Mutant: the cookies are cleared, the row is left alone.
RevokeSession_CookiesOnly(c) ==
    /\ phase[c] = "read" /\ kind[c] = "logout"
    /\ Respond(c, "ok")
    /\ UNCHANGED <<table, clock>>

RevokeSession(c) ==
    /\ phase[c] = "read" /\ kind[c] = "logout"
    /\ session' = [session EXCEPT ![carried[c]] = "revoked"]
    /\ Respond(c, "ok")
    /\ UNCHANGED <<heir, clock>>

\* GET /login: on to Google, unless the limiter says 429.
RedirectToGoogle(c) ==
    /\ phase[c] = "sent" /\ kind[c] = "login"
    /\ \/ Limited("login") /\ Respond(c, "limited") /\ UNCHANGED recent
       \/ /\ Admit("login")
          /\ phase' = [phase EXCEPT ![c] = "read"]
          /\ UNCHANGED <<kind, carried, reply, orphans>>
    /\ UNCHANGED <<table, age, aged>>

\* GET /callback.  Any exception ends in a redirect to /auth/failure without cookies,
\* one of emit_event too, when the session is already committed.
Callback(c) ==
    /\ phase[c] = "read" /\ kind[c] = "login"
    /\ \/ /\ Limited("callback")
          /\ Respond(c, "limited")
          /\ UNCHANGED <<session, recent>>
       \/ /\ Admit("callback")
          /\ Respond(c, "failed")
          /\ session' \in {session, [session EXCEPT ![c] = "live"]}
       \/ /\ Admit("callback")
          /\ Respond(c, "ok")
          /\ session' = [session EXCEPT ![c] = "live"]
    /\ UNCHANGED <<heir, age, aged>>

\* A request whose sender has given up may never reach the server.
NeverArrives(c) ==
    /\ c \in orphans
    /\ phase[c] = "sent" \/ (phase[c] = "read" /\ kind[c] = "login")
    /\ phase' = [phase EXCEPT ![c] = "done"]
    /\ UNCHANGED <<table, clock, kind, carried, reply, orphans>>

ServerNext ==
    \/ \E c \in Calls :
        \/ ServeProtected(c) \/ ReadForRefresh(c) \/ RotateSession(c)
        \/ ReadForLogout(c) \/ RevokeSession(c)
        \/ RedirectToGoogle(c) \/ Callback(c) \/ NeverArrives(c)
    \/ \E s \in Sessions : GrowOld(s)
    \/ \E policy \in Policies : LeaveWindow(policy)

-----------------------------------------------------------------------------
\* Rotation and logout end a session for good, however they overlap: a row once
\* revoked is never live again, and no row disappears.
RevokedForGood ==
    [][\A s \in Sessions :
        /\ session[s] = "revoked" => session'[s] = "revoked"
        /\ session[s] = "live" => session'[s] # "none"]_serverVars

\* A session made by a refresh has a revoked parent, so no two sessions of one line of
\* rotations are live; a parent names an heir that exists.  Two refreshes that read
\* the same parent do leave two heirs, of which it names the last.
RotationRevokes ==
    /\ \A c \in Calls : kind[c] = "refresh" /\ session[c] # "none" =>
        session[carried[c]] = "revoked" /\ heir[carried[c]] # None
    /\ \A s \in Sessions : heir[s] # None =>
        /\ session[s] = "revoked" /\ session[heir[s]] # "none"
        /\ kind[heir[s]] = "refresh" /\ carried[heir[s]] = s

\* The sessions that refreshes with one token have made.
MadeFrom(s) == {r \in Calls : kind[r] = "refresh" /\ session[r] # "none" /\ carried[r] = s}
Forked == \E s \in Sessions : \E a, b \in MadeFrom(s) : a # b
SignedInSince == \E r \in Calls : kind[r] = "login" /\ session[r] # "none"

\* A logout that is answered has ended the session it was sent with, and with it the
\* whole sign-in, unless a refresh with the same cookies was under way, two refreshes
\* shared a token before, or someone has signed in again.
LogoutRevokes ==
    \A c \in Calls : kind[c] = "logout" /\ reply[c] = "ok" /\ carried[c] # None =>
        /\ session[carried[c]] = "revoked"
        /\ \/ \A s \in Sessions : session[s] # "live"
           \/ MadeFrom(carried[c]) # {} \/ Forked \/ SignedInSince
=============================================================================
