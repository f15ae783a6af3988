---------------------------- MODULE AuthClient_proofs ----------------------------
(***************************************************************************)
(* Proofs about the session rows and the browser, for every number of      *)
(* calls and tabs, every quota and every bound.  The inductive invariant   *)
(* says what a call has done by the time it reaches a label, that cookies  *)
(* name rows that exist, and that rotations form one line unless they      *)
(* fork.  The bounds on counters are not part of it: nothing proved here   *)
(* rests on them.                                                          *)
(***************************************************************************)
EXTENDS AuthClient, TLAPS

Types ==
    /\ session \in [Sessions -> {"none", "live", "revoked"}]
    /\ heir \in [Sessions -> Calls \cup {None}]
    /\ kind \in [Calls -> Kinds \cup {"none"}]
    /\ carried \in [Calls -> Sessions \cup {None}]
    /\ phase \in [Calls -> {"unused", "sent", "read", "answered", "refreshing", "done"}]
    /\ reply \in [Calls -> {"ok", "unauthorized", "limited", "failed", "none"}]
    /\ orphans \subseteq Calls
    /\ jar \in Sessions \cup {None}
    /\ promise \in [Tabs -> Calls \cup {None}]
    /\ tab \in [Calls -> Tabs \cup {None}]
    /\ sends \in [Calls -> Nat]

\* What a call is and has done when it reaches a label.
CallControl(c) ==
    /\ phase[c] = "unused" =>
         /\ kind[c] = "none" /\ tab[c] = None /\ reply[c] = "none" /\ carried[c] = None
         /\ sends[c] = 0 /\ c \notin orphans
    /\ phase[c] # "unused" => kind[c] \in Kinds /\ tab[c] \in Tabs
    /\ phase[c] \in {"unused", "sent", "read", "refreshing"} => session[c] = "none"
    /\ phase[c] = "read" => kind[c] \notin Protected
    /\ phase[c] = "read" /\ kind[c] # "login" => carried[c] # None
    /\ phase[c] = "refreshing" => kind[c] \in Protected /\ (kind[c] # "stream" => sends[c] = 1)

\* Cookies are those of a session that exists, made by a sign-in or a refresh.
Cookies ==
    /\ jar # None => session[jar] # "none"
    /\ \A c \in Calls :
         /\ session[c] # "none" => kind[c] \in {"login", "refresh"}
         /\ session[c] # "none" /\ kind[c] = "refresh" => carried[c] # None
         /\ kind[c] \in {"login", "refresh"} /\ reply[c] = "ok" => session[c] # "none"
         /\ carried[c] # None => session[carried[c]] # "none"
         /\ kind[c] = "logout" /\ reply[c] = "ok" /\ carried[c] # None =>
              session[carried[c]] = "revoked"

\* Rotations form one line, of which one session is the last.
Last(s) == session[s] # "none" /\ MadeFrom(s) = {}
OneLine == \/ Forked \/ SignedInSince
           \/ \A s, t \in Sessions : Last(s) /\ Last(t) => s = t

IInv ==
    /\ Types
    /\ \A c \in Calls : CallControl(c)
    /\ Cookies
    /\ RotationRevokes
    /\ OneLine
    /\ SharedRefresh
    /\ RetriedOnce
-----------------------------------------------------------------------------

\* A step that makes no session keeps the line, whatever is sent and with what.
LEMMA SameLine ==
  ASSUME session' = session,
         \A c \in Calls : session[c] # "none" => kind'[c] = kind[c] /\ carried'[c] = carried[c],
         OneLine
  PROVE  OneLine'
<1>1. \A s \in Sessions : MadeFrom(s)' = MadeFrom(s)
  BY DEF MadeFrom
<1>2. Forked => Forked'
  BY <1>1 DEF Forked
<1>3. SignedInSince => SignedInSince'
  BY DEF SignedInSince
<1>4. \A s \in Sessions : Last(s)' = Last(s)
  BY <1>1 DEF Last
<1>. QED BY <1>2, <1>3, <1>4 DEF OneLine

\* The server answers a protected call.
LEMMA ServeProtectedStep ==
  ASSUME IInv, NEW c \in Calls,
         ServeProtected(c), UNCHANGED clientVars
  PROVE  IInv'
<1>1. Types'
  BY DEF IInv, Types, ServeProtected, Respond, table, clock, clientVars
<1>2. \A d \in Calls : CallControl(d)'
  BY DEF IInv, CallControl, ServeProtected, Respond, table, clock, clientVars
<1>3. Cookies'
  BY DEF Kinds, Protected, IInv, Cookies, ServeProtected, Respond, table, clock, clientVars
<1>4. RotationRevokes'
  BY DEF IInv, RotationRevokes, ServeProtected, Respond, table, clock
<1>5. OneLine'
  BY DEF IInv, OneLine, Last, MadeFrom, Forked, SignedInSince, ServeProtected, Respond, table, clock
<1>6. SharedRefresh'
  BY DEF IInv, SharedRefresh, Waiters, Of, InFlight, ServeProtected, Respond, clock, clientVars
<1>7. RetriedOnce'
  BY DEF IInv, RetriedOnce, ServeProtected, Respond, clock, clientVars
<1>. QED BY <1>1, <1>2, <1>3, <1>4, <1>5, <1>6, <1>7 DEF IInv

\* It reads the row for a refresh.
LEMMA ReadForRefreshStep ==
  ASSUME IInv, NEW c \in Calls,
         ReadForRefresh(c), UNCHANGED clientVars
  PROVE  IInv'
<1>1. Types'
  BY DEF IInv, Types, ReadForRefresh, Acceptable, Unrevoked, Respond, table, clientVars
<1>2. \A d \in Calls : CallControl(d)'
  BY DEF Kinds, Protected, IInv, Types, CallControl, ReadForRefresh, Acceptable, Unrevoked, Respond,
     table, clientVars
<1>3. Cookies'
  BY DEF IInv, Types, Cookies, ReadForRefresh, Acceptable, Unrevoked, Respond, table, clientVars
<1>4. RotationRevokes'
  BY DEF IInv, RotationRevokes, ReadForRefresh, Acceptable, Unrevoked, Respond, table
<1>5. OneLine'
  BY DEF IInv, OneLine, Last, MadeFrom, Forked, SignedInSince, ReadForRefresh, Acceptable,
     Unrevoked, Respond, table
<1>6. SharedRefresh'
  BY DEF IInv, Types, SharedRefresh, Waiters, Of, InFlight, ReadForRefresh, Acceptable, Unrevoked,
     Respond, clientVars
<1>7. RetriedOnce'
  BY DEF IInv, RetriedOnce, ReadForRefresh, Acceptable, Unrevoked, Respond, clientVars
<1>. QED BY <1>1, <1>2, <1>3, <1>4, <1>5, <1>6, <1>7 DEF IInv

\* It rotates: the line grows at its end, or forks.
LEMMA RotateSessionStep ==
  ASSUME IInv, NEW c \in Calls,
         RotateSession(c), UNCHANGED clientVars
  PROVE  IInv'
<1>. DEFINE p == carried[c]
<1>0. /\ p \in Sessions /\ p # c /\ session[p] # "none" /\ session[c] = "none"
      /\ session' = [session EXCEPT ![p] = "revoked", ![c] = "live"]
      /\ heir' = [heir EXCEPT ![p] = c]
      /\ UNCHANGED <<kind, carried, orphans, jar, promise, tab, sends>>
  BY SessionAssumption
  DEF IInv, Types, CallControl, Cookies, RotateSession, Respond, clientVars, Sessions
<1>1. Types'
  BY <1>0 DEF IInv, Types, RotateSession, Respond, Sessions
<1>2. \A d \in Calls : CallControl(d)'
  BY <1>0 DEF IInv, Types, CallControl, RotateSession, Respond, Sessions, Protected
<1>8. /\ \A s \in Sessions \ {p, c} : session'[s] = session[s]
      /\ session'[p] = "revoked" /\ session'[c] = "live"
      /\ \A s \in Sessions : session[s] # "none" => session'[s] # "none"
  BY <1>0 DEF IInv, Types, Sessions
<1>3. Cookies'
  BY DEF Sessions, IInv, Types, CallControl, Cookies, RotateSession, Respond, clientVars
<1>4. RotationRevokes'
  <2>1. ASSUME NEW d \in Calls, kind'[d] = "refresh", session'[d] # "none"
        PROVE  session'[carried'[d]] = "revoked" /\ heir'[carried'[d]] # None
    BY <1>0, <1>8, <2>1, SessionAssumption DEF IInv, Types, RotationRevokes, Cookies, Sessions
  <2>2. ASSUME NEW s \in Sessions, heir'[s] # None
        PROVE  /\ session'[s] = "revoked" /\ session'[heir'[s]] # "none"
               /\ kind'[heir'[s]] = "refresh" /\ carried'[heir'[s]] = s
    BY <1>0, <1>8, <2>2, SessionAssumption DEF IInv, Types, RotationRevokes, RotateSession, Sessions
  <2>. QED BY <2>1, <2>2 DEF RotationRevokes
<1>5. OneLine'
  <2>1. kind[c] = "refresh"
    BY DEF RotateSession
  <2>2. /\ MadeFrom(p)' = MadeFrom(p) \cup {c}
        /\ \A s \in Sessions \ {p} : MadeFrom(s)' = MadeFrom(s)
    BY <1>0, <1>8, <2>1, SessionAssumption DEF MadeFrom, IInv, Types, Sessions
  <2>3. c \notin MadeFrom(p)
    BY <1>0 DEF MadeFrom
  <2>4. CASE MadeFrom(p) # {}
    <3>1. PICK a \in MadeFrom(p) : TRUE
      BY <2>4
    <3>2. a \in MadeFrom(p)' /\ c \in MadeFrom(p)' /\ a # c
      BY <2>2, <2>3, <3>1
    <3>. QED BY <1>0, <3>2 DEF Forked, OneLine, Sessions
  <2>5. CASE Forked
    BY <2>2, <2>5, <1>0 DEF Forked, OneLine, Sessions
  <2>6. CASE SignedInSince
    BY <1>0, <1>8, <2>6 DEF SignedInSince, OneLine, Sessions
  <2>7. CASE MadeFrom(p) = {} /\ \A s, t \in Sessions : Last(s) /\ Last(t) => s = t
    <3>1. \A s \in Sessions : Last(s)' => s = c
      <4>. SUFFICES ASSUME NEW s \in Sessions, Last(s)', s # c PROVE FALSE
        OBVIOUS
      <4>0. {r \in Calls : kind'[r] = "refresh" /\ session'[r] # "none" /\ carried'[r] = s} = {}
        BY DEF Last, MadeFrom
      <4>1. s # p
        BY <4>0, <1>0, <1>8, <2>1
      <4>2. Last(s) /\ Last(p)
        BY <4>1, <1>0, <1>8, <2>2, <2>7 DEF Last
      <4>. QED BY <4>1, <4>2, <2>7, <1>0
    <3>. QED BY <3>1 DEF OneLine
  <2>. QED BY <2>4, <2>5, <2>6, <2>7 DEF OneLine, IInv
<1>6. SharedRefresh'
  BY DEF IInv, SharedRefresh, Waiters, Of, InFlight, RotateSession, Respond, clientVars
<1>7. RetriedOnce'
  BY DEF IInv, RetriedOnce, RotateSession, Respond, clientVars
<1>. QED BY <1>1, <1>2, <1>3, <1>4, <1>5, <1>6, <1>7 DEF IInv

\* It reads the row for a logout.
LEMMA ReadForLogoutStep ==
  ASSUME IInv, NEW c \in Calls,
         ReadForLogout(c), UNCHANGED clientVars
  PROVE  IInv'
<1>1. Types'
  BY DEF IInv, Types, ReadForLogout, Unrevoked, Respond, table, clientVars
<1>2. \A d \in Calls : CallControl(d)'
  BY DEF Kinds, Protected, IInv, Types, CallControl, ReadForLogout, Unrevoked, Respond, table,
     clientVars
<1>3. Cookies'
  BY DEF IInv, Types, Cookies, ReadForLogout, Unrevoked, Respond, table, clientVars
<1>4. RotationRevokes'
  BY DEF IInv, RotationRevokes, ReadForLogout, Unrevoked, Respond, table
<1>5. OneLine'
  BY DEF IInv, OneLine, Last, MadeFrom, Forked, SignedInSince, ReadForLogout, Unrevoked, Respond,
     table
<1>6. SharedRefresh'
  BY DEF IInv, Types, SharedRefresh, Waiters, Of, InFlight, ReadForLogout, Unrevoked, Respond,
     clientVars
<1>7. RetriedOnce'
  BY DEF IInv, RetriedOnce, ReadForLogout, Unrevoked, Respond, clientVars
<1>. QED BY <1>1, <1>2, <1>3, <1>4, <1>5, <1>6, <1>7 DEF IInv

\* It revokes it.
LEMMA RevokeSessionStep ==
  ASSUME IInv, NEW c \in Calls,
         RevokeSession(c), UNCHANGED clientVars
  PROVE  IInv'
<1>0. carried[c] \in Sessions /\ session[carried[c]] # "none"
  BY DEF IInv, Types, CallControl, Cookies, RevokeSession
<1>1. Types'
  BY <1>0 DEF IInv, Types, RevokeSession, Respond, clientVars
<1>2. \A d \in Calls : CallControl(d)'
  BY <1>0 DEF IInv, Types, CallControl, RevokeSession, Respond, clientVars, Sessions, Kinds, Protected
<1>3. Cookies'
  BY DEF IInv, Types, CallControl, Cookies, RevokeSession, Respond, clientVars
<1>4. RotationRevokes'
  BY DEF IInv, CallControl, Cookies, RotationRevokes, RevokeSession, Respond
<1>5. OneLine'
  BY DEF IInv, CallControl, Cookies, OneLine, Last, MadeFrom, Forked, SignedInSince, RevokeSession,
     Respond
<1>6. SharedRefresh'
  BY DEF IInv, SharedRefresh, Waiters, Of, InFlight, RevokeSession, Respond, clientVars
<1>7. RetriedOnce'
  BY DEF IInv, RetriedOnce, RevokeSession, Respond, clientVars
<1>. QED BY <1>1, <1>2, <1>3, <1>4, <1>5, <1>6, <1>7 DEF IInv

\* A sign-in goes to Google.
LEMMA RedirectToGoogleStep ==
  ASSUME IInv, NEW c \in Calls,
         RedirectToGoogle(c), UNCHANGED clientVars
  PROVE  IInv'
<1>1. Types'
  BY DEF IInv, Types, RedirectToGoogle, Respond, table, clientVars
<1>2. \A d \in Calls : CallControl(d)'
  BY DEF Kinds, Protected, IInv, Types, CallControl, RedirectToGoogle, Respond, table, clientVars
<1>3. Cookies'
  BY DEF IInv, Types, Cookies, RedirectToGoogle, Respond, table, clientVars
<1>4. RotationRevokes'
  BY DEF IInv, RotationRevokes, RedirectToGoogle, Respond, table
<1>5. OneLine'
  BY DEF IInv, OneLine, Last, MadeFrom, Forked, SignedInSince, RedirectToGoogle, Respond, table
<1>6. SharedRefresh'
  BY DEF IInv, Types, SharedRefresh, Waiters, Of, InFlight, RedirectToGoogle, Respond, clientVars
<1>7. RetriedOnce'
  BY DEF IInv, RetriedOnce, RedirectToGoogle, Respond, clientVars
<1>. QED BY <1>1, <1>2, <1>3, <1>4, <1>5, <1>6, <1>7 DEF IInv

\* It comes back.
LEMMA CallbackStep ==
  ASSUME IInv, NEW c \in Calls,
         Callback(c), UNCHANGED clientVars
  PROVE  IInv'
<1>0. /\ session[c] = "none" /\ kind[c] = "login"
      /\ session' \in {session, [session EXCEPT ![c] = "live"]}
      /\ UNCHANGED <<kind, carried, heir>>
  BY DEF IInv, CallControl, Callback, Respond
<1>1. Types'
  BY DEF IInv, Types, Callback, Respond, clientVars
<1>2. \A d \in Calls : CallControl(d)'
  BY DEF Sessions, IInv, Types, CallControl, Callback, Respond, clientVars
<1>3. Cookies'
  BY DEF Sessions, IInv, Types, CallControl, Cookies, Callback, Respond, clientVars
<1>4. RotationRevokes'
  <2>. USE SessionAssumption DEF IInv, Types, RotationRevokes, Cookies, Sessions
  <2>0. \A s \in Sessions \ {c} : session'[s] = session[s]
    BY <1>0
  <2>1. ASSUME NEW d \in Calls, kind'[d] = "refresh", session'[d] # "none"
        PROVE  session'[carried'[d]] = "revoked" /\ heir'[carried'[d]] # None
    BY <1>0, <2>0, <2>1
  <2>2. ASSUME NEW s \in Sessions, heir'[s] # None
        PROVE  /\ session'[s] = "revoked" /\ session'[heir'[s]] # "none"
               /\ kind'[heir'[s]] = "refresh" /\ carried'[heir'[s]] = s
    BY <1>0, <2>0, <2>2
  <2>. QED BY <2>1, <2>2
<1>5. OneLine'
  BY DEF IInv, Types, OneLine, Last, MadeFrom, Forked, SignedInSince, Callback, Respond
<1>6. SharedRefresh'
  BY DEF IInv, Types, SharedRefresh, Waiters, Of, InFlight, Callback, Respond, clientVars
<1>7. RetriedOnce'
  BY DEF IInv, RetriedOnce, Callback, Respond, clientVars
<1>. QED BY <1>1, <1>2, <1>3, <1>4, <1>5, <1>6, <1>7 DEF IInv

\* A call is lost.
LEMMA NeverArrivesStep ==
  ASSUME IInv, NEW c \in Calls,
         NeverArrives(c), UNCHANGED clientVars
  PROVE  IInv'
<1>1. Types'
  BY DEF IInv, Types, NeverArrives, table, clientVars
<1>2. \A d \in Calls : CallControl(d)'
  BY DEF IInv, CallControl, NeverArrives, table, clientVars
<1>3. Cookies'
  BY DEF IInv, Cookies, NeverArrives, table, clientVars
<1>4. RotationRevokes'
  BY DEF IInv, RotationRevokes, NeverArrives, table
<1>5. OneLine'
  BY DEF IInv, OneLine, Last, MadeFrom, Forked, SignedInSince, NeverArrives, table
<1>6. SharedRefresh'
  BY DEF IInv, SharedRefresh, Waiters, Of, InFlight, NeverArrives, clientVars
<1>7. RetriedOnce'
  BY DEF IInv, RetriedOnce, NeverArrives, clientVars
<1>. QED BY <1>1, <1>2, <1>3, <1>4, <1>5, <1>6, <1>7 DEF IInv

\* A page is left for another.
LEMMA NavigateStep ==
  ASSUME IInv, NEW c \in Calls, NEW t \in Tabs, NEW k \in {"me", "login"},
         Navigate(t, c, k)
  PROVE  IInv'
<1>1. Types'
  BY DEF IInv, Types, Navigate, Unused, Of, Kinds, Protected, table
<1>2. \A d \in Calls : CallControl(d)'
  BY ClientAssumption DEF IInv, Types, CallControl, Navigate, Unused, Of, InFlight, Kinds,
     Protected, table
<1>3. Cookies'
  BY DEF IInv, CallControl, Cookies, Navigate, Unused, table
<1>4. RotationRevokes'
  BY DEF IInv, CallControl, RotationRevokes, Navigate, Unused, table
<1>5. OneLine'
  BY SessionAssumption DEF Kinds, Protected, IInv, CallControl, RotationRevokes, OneLine, Last,
     MadeFrom, Forked, SignedInSince, Navigate, Unused, table
<1>6. SharedRefresh'
  BY DEF IInv, Types, SharedRefresh, Waiters, Of, InFlight, Navigate, Unused
<1>7. RetriedOnce'
  BY DEF IInv, CallControl, RetriedOnce, Navigate, Unused
<1>. QED BY <1>1, <1>2, <1>3, <1>4, <1>5, <1>6, <1>7 DEF IInv

\* A page makes a call.
LEMMA StartStep ==
  ASSUME IInv, NEW c \in Calls, NEW t \in Tabs, NEW k \in {"api", "stream", "logout"},
         Start(t, c, k)
  PROVE  IInv'
<1>1. Types'
  BY DEF Kinds, Protected, IInv, Types, Start, table
<1>2. \A d \in Calls : CallControl(d)'
  BY DEF Kinds, Protected, IInv, Types, CallControl, Start, Unused, table
<1>3. Cookies'
  BY DEF IInv, CallControl, Cookies, Start, Unused, table
<1>4. RotationRevokes'
  BY DEF IInv, CallControl, RotationRevokes, Start, Unused, table
<1>5. OneLine'
  BY SameLine DEF IInv, Types, CallControl, Start, Unused, table
<1>6. SharedRefresh'
  BY DEF IInv, Types, SharedRefresh, Waiters, Of, InFlight, Start, Unused
<1>7. RetriedOnce'
  BY DEF IInv, CallControl, RetriedOnce, Start, Unused
<1>. QED BY <1>1, <1>2, <1>3, <1>4, <1>5, <1>6, <1>7 DEF IInv

\* A 401 starts a refresh or joins one.
LEMMA RefreshStep ==
  ASSUME IInv, NEW c \in Calls,
         Refresh(c)
  PROVE  IInv'
<1>1. Types'
  BY DEF Kinds, Protected, IInv, Types, Refresh, Unused, table
<1>2. \A d \in Calls : CallControl(d)'
  <2>. USE DEF IInv, Types, CallControl, Kinds, Protected, ShouldAttemptRefresh, Heard
  <2>1. /\ tab[c] \in Tabs /\ phase[c] = "answered" /\ kind[c] \in Protected
        /\ kind[c] # "stream" => sends[c] = 1
        /\ session[c] = "none"
        /\ UNCHANGED <<reply, orphans, session>>
    BY DEF Refresh, Cookies, table
  <2>2. CASE phase' = [phase EXCEPT ![c] = "refreshing"] /\ UNCHANGED <<promise, kind, tab, sends,
           carried>>
    <3>1. CallControl(c)
      OBVIOUS
    <3>. QED BY <2>1, <2>2
  <2>3. ASSUME NEW r \in Unused,
                 kind' = [kind EXCEPT ![r] = "refresh"],
                 tab' = [tab EXCEPT ![r] = tab[c]],
                 sends' = [sends EXCEPT ![r] = 1],
                 carried' = [carried EXCEPT ![r] = jar],
                 phase' = [phase EXCEPT ![c] = "refreshing", ![r] = "sent"]
        PROVE  \A d \in Calls : CallControl(d)'
    <3>1. r \in Calls /\ phase[r] = "unused" /\ r # c
      BY <2>1 DEF Unused
    <3>2. CallControl(c)'
      BY <2>1, <2>3, <3>1
    <3>3. CallControl(r)'
      BY <2>1, <2>3, <3>1
    <3>4. ASSUME NEW d \in Calls \ {c, r} PROVE CallControl(d)'
      BY <2>1, <2>3, <3>1
    <3>. QED BY <3>2, <3>3, <3>4
  <2>. QED BY <2>2, <2>3 DEF Refresh
<1>3. Cookies'
  BY DEF IInv, Types, CallControl, Cookies, Refresh, Unused, table
<1>4. RotationRevokes'
  BY DEF IInv, Types, CallControl, RotationRevokes, Refresh, Unused, table
<1>5. OneLine'
  BY SameLine, SMTT(30) DEF IInv, Types, CallControl, Refresh, Unused, table
<1>6. SharedRefresh'
  BY SessionAssumption DEF Sessions, Kinds, Protected, IInv, Types, CallControl, SharedRefresh,
     Waiters, Of, InFlight, Refresh, Heard, ShouldAttemptRefresh, Unused
<1>7. RetriedOnce'
  BY DEF IInv, Types, CallControl, RetriedOnce, Refresh, Unused
<1>. QED BY <1>1, <1>2, <1>3, <1>4, <1>5, <1>6, <1>7 DEF IInv

\* An answer settles a call.
LEMMA SettleStep ==
  ASSUME IInv, NEW c \in Calls,
         Settle(c)
  PROVE  IInv'
<1>1. Types'
  BY DEF IInv, Types, Settle, table
<1>2. \A d \in Calls : CallControl(d)'
  BY DEF IInv, CallControl, Settle, Heard, table
<1>3. Cookies'
  BY DEF IInv, Cookies, Settle, table
<1>4. RotationRevokes'
  BY DEF IInv, RotationRevokes, Settle, table
<1>5. OneLine'
  BY DEF IInv, OneLine, Last, MadeFrom, Forked, SignedInSince, Settle, table
<1>6. SharedRefresh'
  BY DEF Kinds, Protected, IInv, SharedRefresh, Waiters, Of, InFlight, Settle
<1>7. RetriedOnce'
  BY DEF IInv, RetriedOnce, Settle
<1>. QED BY <1>1, <1>2, <1>3, <1>4, <1>5, <1>6, <1>7 DEF IInv

\* A refresh is answered: its waiters are sent again or fail.
LEMMA HearRefreshStep ==
  ASSUME IInv, NEW c \in Calls,
         HearRefresh(c)
  PROVE  IInv'
<1>1. Types'
  BY DEF Sessions, IInv, Types, HearRefresh, FailRefresh, table
<1>2. \A d \in Calls : CallControl(d)'
  BY DEF IInv, CallControl, HearRefresh, FailRefresh, Waiters, Of, table
<1>3. Cookies'
  BY DEF Kinds, Protected, IInv, CallControl, Cookies, HearRefresh, FailRefresh, Waiters, Of, table
<1>4. RotationRevokes'
  BY DEF IInv, Types, CallControl, RotationRevokes, HearRefresh, FailRefresh, Waiters, Of, table
<1>5. OneLine'
  BY DEF IInv, CallControl, OneLine, Last, MadeFrom, Forked, SignedInSince, HearRefresh,
     FailRefresh, Waiters, Of, table
<1>6. SharedRefresh'
  BY DEF Kinds, Protected, IInv, Types, CallControl, SharedRefresh, Waiters, Of, InFlight,
     HearRefresh, FailRefresh, Heard
<1>7. RetriedOnce'
  BY DEF IInv, CallControl, RetriedOnce, Waiters, Of, InFlight, HearRefresh, FailRefresh
<1>. QED BY <1>1, <1>2, <1>3, <1>4, <1>5, <1>6, <1>7 DEF IInv

\* A logout is answered.
LEMMA HearLogoutStep ==
  ASSUME IInv, NEW c \in Calls,
         HearLogout(c)
  PROVE  IInv'
<1>1. Types'
  BY DEF IInv, Types, HearLogout, table
<1>2. \A d \in Calls : CallControl(d)'
  BY DEF IInv, CallControl, HearLogout, table
<1>3. Cookies'
  BY DEF IInv, Cookies, HearLogout, table
<1>4. RotationRevokes'
  BY DEF IInv, RotationRevokes, HearLogout, table
<1>5. OneLine'
  BY DEF IInv, OneLine, Last, MadeFrom, Forked, SignedInSince, HearLogout, table
<1>6. SharedRefresh'
  BY DEF IInv, SharedRefresh, Waiters, Of, InFlight, HearLogout
<1>7. RetriedOnce'
  BY DEF IInv, RetriedOnce, HearLogout
<1>. QED BY <1>1, <1>2, <1>3, <1>4, <1>5, <1>6, <1>7 DEF IInv

\* A sign-in is answered.
LEMMA HearLoginStep ==
  ASSUME IInv, NEW c \in Calls,
         HearLogin(c)
  PROVE  IInv'
<1>1. Types'
  BY DEF Sessions, IInv, Types, HearLogin, table
<1>2. \A d \in Calls : CallControl(d)'
  BY DEF IInv, CallControl, HearLogin, table
<1>3. Cookies'
  BY DEF IInv, Cookies, HearLogin, table
<1>4. RotationRevokes'
  BY DEF IInv, RotationRevokes, HearLogin, table
<1>5. OneLine'
  BY DEF IInv, OneLine, Last, MadeFrom, Forked, SignedInSince, HearLogin, table
<1>6. SharedRefresh'
  BY DEF IInv, SharedRefresh, Waiters, Of, InFlight, HearLogin
<1>7. RetriedOnce'
  BY DEF IInv, RetriedOnce, HearLogin
<1>. QED BY <1>1, <1>2, <1>3, <1>4, <1>5, <1>6, <1>7 DEF IInv

\* A caller gives up.
LEMMA TimeOutStep ==
  ASSUME IInv, NEW c \in Calls,
         TimeOut(c)
  PROVE  IInv'
<1>1. Types'
  BY DEF IInv, Types, TimeOut, FailRefresh, table
<1>2. \A d \in Calls : CallControl(d)'
  BY DEF IInv, CallControl, TimeOut, FailRefresh, Waiters, InFlight, Of, table
<1>3. Cookies'
  BY DEF IInv, Cookies, TimeOut, FailRefresh, table
<1>4. RotationRevokes'
  BY DEF IInv, RotationRevokes, TimeOut, FailRefresh, table
<1>5. OneLine'
  BY DEF IInv, OneLine, Last, MadeFrom, Forked, SignedInSince, TimeOut, FailRefresh, table
<1>6. SharedRefresh'
  BY DEF IInv, Types, SharedRefresh, Waiters, Of, InFlight, TimeOut, FailRefresh
<1>7. RetriedOnce'
  BY DEF IInv, RetriedOnce, TimeOut, FailRefresh
<1>. QED BY <1>1, <1>2, <1>3, <1>4, <1>5, <1>6, <1>7 DEF IInv

-----------------------------------------------------------------------------
\* Every state the browser starts in satisfies the invariant.
LEMMA InitIInv == Init => IInv
<1>. SUFFICES ASSUME Init PROVE IInv
  OBVIOUS
<1>1. Types
  BY SessionAssumption DEF Init, ServerInit, Types, Sessions
<1>2. \A c \in Calls : CallControl(c)
  BY SessionAssumption DEF Init, ServerInit, CallControl, Sessions
<1>3. Cookies /\ RotationRevokes
  BY SessionAssumption DEF Init, ServerInit, Cookies, RotationRevokes, Sessions
<1>4. OneLine
  BY DEF Init, ServerInit, OneLine, Last
<1>5. SharedRefresh
  BY DEF Init, ServerInit, SharedRefresh, Waiters, InFlight, Of
<1>6. RetriedOnce
  BY DEF Init, ServerInit, RetriedOnce
<1>. QED BY <1>1, <1>2, <1>3, <1>4, <1>5, <1>6 DEF IInv

\* Time keeps it: tokens grow old and requests leave the rate limiter's window.
LEMMA TimeStep ==
  ASSUME IInv, UNCHANGED <<table, wire, clientVars>>
  PROVE  IInv'
<1>. USE DEF table, wire, clientVars
<1>1. UNCHANGED <<session, heir, kind, carried, phase, reply, orphans, jar, promise, tab, sends>>
  OBVIOUS
<1>2. Types' /\ \A c \in Calls : CallControl(c)'
  BY <1>1 DEF IInv, Types, CallControl
<1>3. Cookies' /\ RotationRevokes'
  BY <1>1 DEF IInv, Cookies, RotationRevokes
<1>4. OneLine'
  BY <1>1, SameLine DEF IInv
<1>5. SharedRefresh' /\ RetriedOnce'
  BY <1>1 DEF IInv, SharedRefresh, RetriedOnce, Waiters, InFlight, Of
<1>. QED BY <1>2, <1>3, <1>4, <1>5 DEF IInv

\* Every step keeps it.
LEMMA StepIInv == IInv /\ [Next]_vars => IInv'
<1>. SUFFICES ASSUME IInv, [Next]_vars PROVE IInv'
  OBVIOUS
<1>1. ASSUME NEW c \in Calls, UNCHANGED clientVars,
             \/ ServeProtected(c) \/ ReadForRefresh(c) \/ RotateSession(c) \/ ReadForLogout(c)
             \/ RevokeSession(c) \/ RedirectToGoogle(c) \/ Callback(c) \/ NeverArrives(c)
      PROVE  IInv'
  BY <1>1, ServeProtectedStep, ReadForRefreshStep, RotateSessionStep, ReadForLogoutStep,
     RevokeSessionStep, RedirectToGoogleStep, CallbackStep, NeverArrivesStep
<1>2. ASSUME UNCHANGED clientVars, (\E s \in Sessions : GrowOld(s)) \/ \E q \in Policies :
             LeaveWindow(q)
      PROVE  IInv'
  BY <1>2, TimeStep DEF GrowOld, LeaveWindow
<1>3. ASSUME NEW t \in Tabs, NEW c \in Calls, Load(t, c) \/ SignIn(t, c)
      PROVE  IInv'
  BY <1>3, NavigateStep DEF Load, SignIn
<1>4. ASSUME NEW t \in Tabs, NEW c \in Calls, NEW k \in {"api", "stream", "logout"}, Start(t, c, k)
      PROVE  IInv'
  BY <1>4, StartStep
<1>5. ASSUME NEW c \in Calls,
             \/ Refresh(c) \/ Settle(c) \/ HearRefresh(c) \/ HearLogout(c) \/ HearLogin(c) \/
                      TimeOut(c)
      PROVE  IInv'
  BY <1>5, RefreshStep, SettleStep, HearRefreshStep, HearLogoutStep, HearLoginStep, TimeOutStep
<1>6. CASE UNCHANGED vars
  BY <1>6, TimeStep DEF vars, serverVars
<1>. QED BY <1>1, <1>2, <1>3, <1>4, <1>5, <1>6 DEF Next, ServerNext, ClientNext, Quiescent

\* The invariant holds in every state of the browser and the server.
THEOREM Invariance == Spec => []IInv
<1>. QED BY InitIInv, StepIInv, PTL DEF Spec

\* A refresh leaves its parent revoked and named: however two of them overlap, no two
\* sessions of one line are live.
THEOREM RotationEndsParent == Spec => []RotationRevokes
<1>1. IInv => RotationRevokes
  BY DEF IInv
<1>. QED BY <1>1, Invariance, PTL

\* A logout that was answered ended the one live session there was, but for the races and
\* sign-ins its statement names: the session it revoked was the last of the only line.
THEOREM LogoutEndsSession == Spec => []LogoutRevokes
<1>1. ASSUME IInv, NEW c \in Calls, kind[c] = "logout", reply[c] = "ok", carried[c] # None,
             MadeFrom(carried[c]) = {}, ~Forked, ~SignedInSince, NEW s \in Sessions
      PROVE  session[s] # "live"
  <2>1. carried[c] \in Sessions /\ session[carried[c]] = "revoked"
    BY <1>1 DEF IInv, Types, Cookies
  <2>2. Last(carried[c])
    BY <1>1, <2>1 DEF Last
  <2>3. session[s] = "live" => Last(s)
    BY <1>1 DEF Last, MadeFrom, IInv, RotationRevokes
  <2>. QED BY <1>1, <2>1, <2>2, <2>3 DEF IInv, OneLine
<1>2. IInv => LogoutRevokes
  BY <1>1 DEF IInv, Cookies, LogoutRevokes
<1>. QED BY <1>2, Invariance, PTL

\* A tab has one refresh in flight at most, and it is the one its requests wait for.
THEOREM OneRefreshPerTab == Spec => []SharedRefresh
<1>1. IInv => SharedRefresh
  BY DEF IInv
<1>. QED BY <1>1, Invariance, PTL

\* No request of axios is sent a third time, and none again with cookies of another tab's
\* refresh.
THEOREM NoThirdSend == Spec => []RetriedOnce
<1>1. IInv => RetriedOnce
  BY DEF IInv
<1>. QED BY <1>1, Invariance, PTL

\* No step of the server or the browser brings back a revoked session or loses a row.
THEOREM RevokedStaysRevoked == Spec => RevokedForGood
<1>. DEFINE Kept == \A s \in Sessions :
                      /\ session[s] = "revoked" => session'[s] = "revoked"
                      /\ session[s] = "live" => session'[s] # "none"
<1>1. ASSUME IInv, NEW c \in Calls, RotateSession(c) \/ RevokeSession(c) \/ Callback(c)
      PROVE  Kept
  <2>1. session[c] = "none" \/ RevokeSession(c)
    BY <1>1 DEF IInv, CallControl, RotateSession, Callback
  <2>. QED BY <1>1, <2>1 DEF IInv, Types, RotateSession, RevokeSession, Callback
<1>2. ASSUME IInv, [Next]_vars
      PROVE  Kept
  <2>1. CASE session' = session
    BY <2>1
  <2>2. CASE \E c \in Calls : RotateSession(c) \/ RevokeSession(c) \/ Callback(c)
    BY <1>1, <1>2, <2>2
  <2>3. CASE ServerNext
    BY <2>1, <2>2, <2>3
    DEF ServerNext, ServeProtected, ReadForRefresh, ReadForLogout, RedirectToGoogle, NeverArrives,
        GrowOld, LeaveWindow, table
  <2>4. CASE ClientNext
    BY <2>1, <2>4
    DEF ClientNext, Load, SignIn, Navigate, Start, Refresh, Settle, HearRefresh, HearLogout,
        HearLogin, TimeOut, table
  <2>5. CASE UNCHANGED vars
    BY <2>1, <2>5 DEF vars, serverVars, table
  <2>. QED BY <1>2, <2>3, <2>4, <2>5 DEF Next, Quiescent
<1>. QED BY <1>2, Invariance, PTL DEF Spec, RevokedForGood
=============================================================================
