------------------------------ MODULE AuthClient ------------------------------
(***************************************************************************)
(* The browser: the tabs of the frontend, each with an httpClient (one     *)
(* shared refresh, one replay) and an AuthProvider (checking,              *)
(* authenticated, unauthenticated), and the cookie jar they share, against *)
(* the server of AuthSessions.  Responses may overtake one another, and    *)
(* pages may be left or reloaded at any point.                             *)
(***************************************************************************)
EXTENDS AuthSessions

CONSTANTS
    Tabs,
    Opened,         \* tabs with a page since the earlier sign-in
    MaxTimeouts,    \* bound on calls that time out
    MaxOrphans      \* bound on calls in flight whose caller has gone, those included

VARIABLES
    jar,            \* the cookies: a session, or None
    status,         \* AuthState of a tab; "closed" without a page of ours
    promise,        \* refreshPromise of a tab: the refresh in flight, or None
    tab,            \* of a call
    sends,          \* of a call: times it has been sent
    timeouts

clientVars == <<jar, status, promise, tab, sends, timeouts>>
vars == <<serverVars, clientVars>>

ASSUME ClientAssumption == MaxTimeouts \in Nat /\ MaxOrphans \in Nat /\ None \notin Tabs /\ Opened \subseteq Tabs

Statuses == {"closed", "checking", "authenticated", "unauthenticated"}

Init ==
    /\ ServerInit
    /\ jar = Old
    /\ status = [t \in Tabs |-> IF t \in Opened THEN "authenticated" ELSE "closed"]
    /\ promise = [t \in Tabs |-> None]
    /\ tab = [c \in Calls |-> None]
    /\ sends = [c \in Calls |-> 0]
    /\ timeouts = 0

Unused == {c \in Calls : phase[c] = "unused"}
InFlight == {c \in Calls : phase[c] \in {"sent", "read", "answered"}}
Of(t) == {c \in Calls : tab[c] = t /\ c \notin orphans}
Waiters(t) == {c \in Of(t) : phase[c] = "refreshing"}

-----------------------------------------------------------------------------
(***************************************************************************)
(* Pages.                                                                  *)
(***************************************************************************)
\* A call c of kind k leaves tab t with the cookies of the moment; the page before it
\* is gone, and with it everything that was waiting there.
Navigate(t, c, k) ==
    /\ c \in Unused
    /\ kind' = [kind EXCEPT ![c] = k]
    /\ tab' = [tab EXCEPT ![c] = t]
    /\ sends' = [sends EXCEPT ![c] = 1]
    /\ carried' = [carried EXCEPT ![c] = jar]
    /\ phase' = [x \in Calls |-> IF x = c THEN "sent"
                                 ELSE IF x \in Of(t) /\ phase[x] \in {"refreshing", "answered"} THEN "done"
                                 ELSE phase[x]]
    /\ orphans' = orphans \cup (Of(t) \cap InFlight)
    /\ Cardinality(orphans') <= MaxOrphans
    /\ promise' = [promise EXCEPT ![t] = None]
    /\ UNCHANGED <<reply, table, clock, jar, timeouts>>

\* A page is opened or reloaded: AuthProvider asks /me who is there.
Load(t, c) ==
    /\ Navigate(t, c, "me")
    /\ status' = [status EXCEPT ![t] = "checking"]

\* login: the browser goes to /api/auth/login.
SignIn(t, c) ==
    /\ status[t] = "unauthenticated"
    /\ Navigate(t, c, "login")
    /\ status' = [status EXCEPT ![t] = "closed"]

\* A page behind RequireAuth makes a request, or opens a stream.
Start(t, c, k) ==
    /\ status[t] = "authenticated"
    /\ c \in Unused
    /\ k \in {"api", "stream", "logout"}
    /\ kind' = [kind EXCEPT ![c] = k]
    /\ tab' = [tab EXCEPT ![c] = t]
    /\ sends' = [sends EXCEPT ![c] = 1]
    /\ carried' = [carried EXCEPT ![c] = jar]
    /\ phase' = [phase EXCEPT ![c] = "sent"]
    /\ UNCHANGED <<reply, orphans, table, clock, jar, status, promise, timeouts>>

-----------------------------------------------------------------------------
(***************************************************************************)
(* Answers.                                                                *)
(***************************************************************************)
Heard(c) == phase[c] = "answered" /\ c \notin orphans

\* Mutant: the replayed request is not marked.
ShouldAttemptRefresh_Again(c) == kind[c] \in Protected /\ reply[c] = "unauthorized"

\* Mutant: every request to /api/auth is left alone, /me included.
ShouldAttemptRefresh_NotMe(c) ==
    /\ kind[c] \in {"api", "stream"} /\ reply[c] = "unauthorized"
    /\ kind[c] = "stream" \/ sends[c] = 1

\* Axios replays a request once; streamPost calls itself.
ShouldAttemptRefresh(c) ==
    /\ kind[c] \in Protected /\ reply[c] = "unauthorized"
    /\ kind[c] = "stream" \/ sends[c] = 1

\* resolveSession: what /me has come to.
Resolved(W, outcome) ==
    status' = [t \in Tabs |-> IF \E c \in W : kind[c] = "me" /\ tab[c] = t
                              THEN outcome ELSE status[t]]

\* Mutant: every 401 starts a refresh of its own.
Refresh_NoPromise(c) ==
    /\ Heard(c) /\ ShouldAttemptRefresh(c)
    /\ \E r \in Unused :
        /\ promise' = [promise EXCEPT ![tab[c]] = r]
        /\ kind' = [kind EXCEPT ![r] = "refresh"]
        /\ tab' = [tab EXCEPT ![r] = tab[c]]
        /\ sends' = [sends EXCEPT ![r] = 1]
        /\ carried' = [carried EXCEPT ![r] = jar]
        /\ phase' = [phase EXCEPT ![c] = "refreshing", ![r] = "sent"]
    /\ UNCHANGED <<reply, orphans, table, clock, jar, status, timeouts>>

\* A 401 awaits the tab's refresh, which is sent if there is none.
Refresh(c) ==
    LET t == tab[c]
    IN /\ Heard(c) /\ ShouldAttemptRefresh(c)
       /\ \/ /\ promise[t] # None
             /\ phase' = [phase EXCEPT ![c] = "refreshing"]
             /\ UNCHANGED <<promise, kind, tab, sends, carried>>
          \/ /\ promise[t] = None
             /\ \E r \in Unused :
                 /\ promise' = [promise EXCEPT ![t] = r]
                 /\ kind' = [kind EXCEPT ![r] = "refresh"]
                 /\ tab' = [tab EXCEPT ![r] = t]
                 /\ sends' = [sends EXCEPT ![r] = 1]
                 /\ carried' = [carried EXCEPT ![r] = jar]
                 /\ phase' = [phase EXCEPT ![c] = "refreshing", ![r] = "sent"]
       /\ UNCHANGED <<reply, orphans, table, clock, jar, status, timeouts>>

\* Any other answer settles the call.
Settle(c) ==
    /\ Heard(c) /\ kind[c] \in Protected /\ ~ShouldAttemptRefresh(c)
    /\ phase' = [phase EXCEPT ![c] = "done"]
    /\ Resolved({c}, IF reply[c] = "ok" THEN "authenticated" ELSE "unauthenticated")
    /\ UNCHANGED <<table, clock, kind, carried, reply, orphans, jar, promise, tab, sends,
                   timeouts>>

\* The refresh has failed: all who await it fail with the 401 they had.
FailRefresh(r) ==
    /\ promise' = [promise EXCEPT ![tab[r]] = None]
    /\ Resolved(Waiters(tab[r]), "unauthenticated")

\* Its response sets the cookies, and every request that awaited it is sent again.
HearRefresh(r) ==
    LET W == Waiters(tab[r])
    IN /\ Heard(r) /\ kind[r] = "refresh"
       /\ \/ /\ reply[r] = "ok"
             /\ jar' = r
             /\ promise' = [promise EXCEPT ![tab[r]] = None]
             /\ phase' = [x \in Calls |-> IF x = r THEN "done" ELSE IF x \in W THEN "sent" ELSE phase[x]]
             /\ carried' = [x \in Calls |-> IF x \in W THEN r ELSE carried[x]]
             /\ sends' = [x \in Calls |-> IF x \in W THEN sends[x] + 1 ELSE sends[x]]
             /\ UNCHANGED status
          \/ /\ reply[r] # "ok"
             /\ FailRefresh(r)
             /\ phase' = [x \in Calls |-> IF x \in W \cup {r} THEN "done" ELSE phase[x]]
             /\ UNCHANGED <<jar, carried, sends>>
       /\ UNCHANGED <<table, clock, kind, reply, orphans, tab, timeouts>>

\* logout settles, however: the tab is unauthenticated (no /me is pending in a tab that
\* is authenticated, so the removal of its queries drops none).
SignedOut(c) == status' = [status EXCEPT ![tab[c]] = "unauthenticated"]

HearLogout(c) ==
    /\ Heard(c) /\ kind[c] = "logout"
    /\ jar' = None
    /\ SignedOut(c)
    /\ phase' = [phase EXCEPT ![c] = "done"]
    /\ UNCHANGED <<table, clock, kind, carried, reply, orphans, promise, tab, sends, timeouts>>

\* The browser follows the redirect of the callback to a page of ours, loaded next.
HearLogin(c) ==
    /\ Heard(c) /\ kind[c] = "login"
    /\ jar' = IF reply[c] = "ok" THEN c ELSE jar
    /\ phase' = [phase EXCEPT ![c] = "done"]
    /\ UNCHANGED <<table, clock, kind, carried, reply, orphans, status, promise, tab, sends,
                   timeouts>>

\* 30 seconds are over, or the network fails: the caller goes on with an error that is
\* no 401, while the server may still do what it was asked for.
TimeOut(c) ==
    /\ c \in InFlight \ orphans /\ kind[c] # "login"
    /\ timeouts < MaxTimeouts /\ Cardinality(orphans) < MaxOrphans
    /\ timeouts' = timeouts + 1
    /\ orphans' = orphans \cup {c}
    /\ LET ends == {c} \cap {x \in Calls : phase[x] = "answered"}
           W == IF kind[c] = "refresh" THEN Waiters(tab[c]) ELSE {}
       IN phase' = [x \in Calls |-> IF x \in ends \cup W THEN "done" ELSE phase[x]]
    /\ CASE kind[c] = "refresh" -> FailRefresh(c)
         [] kind[c] = "logout" -> SignedOut(c) /\ UNCHANGED promise
         [] OTHER -> Resolved({c}, "unauthenticated") /\ UNCHANGED promise
    /\ UNCHANGED <<table, clock, kind, carried, reply, jar, tab, sends>>

ClientNext ==
    \/ \E t \in Tabs, c \in Calls :
        \/ Load(t, c) \/ SignIn(t, c)
        \/ \E k \in {"api", "stream", "logout"} : Start(t, c, k)
    \/ \E c \in Calls :
        \/ Refresh(c) \/ Settle(c) \/ HearRefresh(c) \/ HearLogout(c) \/ HearLogin(c) \/ TimeOut(c)

\* All is answered, but for a 401 that has no call left to refresh with.
Quiescent ==
    /\ \A c \in Calls : phase[c] \in {"unused", "done"} \/ (Unused = {} /\ Heard(c))
    /\ UNCHANGED vars

Next ==
    \/ ServerNext /\ UNCHANGED clientVars
    \/ ClientNext
    \/ Quiescent

Spec == Init /\ [][Next]_vars

-----------------------------------------------------------------------------
TypeOK ==
    /\ session \in [Sessions -> {"none", "live", "revoked"}]
    /\ heir \in [Sessions -> Calls \cup {None}]
    /\ age \in [Sessions -> {"fresh", "stale", "expired"}]
    /\ aged \in 0 .. MaxAged
    /\ \A p \in Policies : recent[p] \in 0 .. Quota[p]
    /\ kind \in [Calls -> Kinds \cup {"none"}]
    /\ carried \in [Calls -> Sessions \cup {None}]
    /\ phase \in [Calls -> {"unused", "sent", "read", "answered", "refreshing", "done"}]
    /\ reply \in [Calls -> {"ok", "unauthorized", "limited", "failed", "none"}]
    /\ orphans \subseteq Calls
    /\ jar \in Sessions \cup {None}
    /\ status \in [Tabs -> Statuses]
    /\ promise \in [Tabs -> Calls \cup {None}]
    /\ tab \in [Calls -> Tabs \cup {None}]
    /\ sends \in [Calls -> Nat]
    /\ timeouts \in 0 .. MaxTimeouts

\* "they all await the same refresh instead of stampeding the backend" (httpClient.ts):
\* a page has one refresh in flight at most, the one its waiters wait for; nobody
\* waits for a refresh that is over.
SharedRefresh ==
    \A t \in Tabs :
        /\ {r \in Of(t) \cap InFlight : kind[r] = "refresh"} = {promise[t]} \ {None}
        /\ Waiters(t) # {} => promise[t] # None

\* "the original request is retried once": a request of axios is sent twice at most,
\* and again only with the cookies of a refresh made for its tab.
RetriedOnce ==
    \A c \in Calls :
        /\ kind[c] \in {"me", "api"} => sends[c] <= 2
        /\ sends[c] > 1 => /\ carried[c] \in Calls
                           /\ kind[carried[c]] = "refresh" /\ tab[carried[c]] = tab[c]

\* A tab is signed out against a session that could still be refreshed only for a
\* reason: a logout or a login somewhere, a timeout, the rate limiter, another refresh
\* that used the same token, or a page load refused again with its new token.
SignedOutForCause ==
    (\E t \in Tabs : status[t] = "unauthenticated") /\ Acceptable(jar) =>
        \/ timeouts > 0
        \/ \E c \in Calls :
            \/ kind[c] \in {"login", "logout"} \/ reply[c] = "limited"
            \/ kind[c] = "me" /\ sends[c] = 2 /\ phase[c] = "done" /\ reply[c] = "unauthorized"
            \/ kind[c] = "refresh" /\ \E r \in Calls \ {c} : kind[r] = "refresh" /\ carried[r] = carried[c]

\* "`unauthenticated` means bootstrap or refresh settled with no valid session"
\* (auth.context.tsx:32), stated where nobody logs in or out, nothing times out and
\* the rate limiter stays out of the way.
UnauthenticatedMeansNoSession ==
    \/ \A t \in Tabs : status[t] # "unauthenticated"
    \/ \E c \in Calls : kind[c] \in {"login", "logout"} \/ reply[c] = "limited"
    \/ timeouts > 0
    \/ ~Acceptable(jar)
=============================================================================
