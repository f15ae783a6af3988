------------------------------- MODULE AuthCause_proofs -------------------------------
(***************************************************************************)
(* Proofs about the browser that rest on the invariant of                  *)
(* AuthClient_proofs: every variable keeps within its bounds, and a tab is *)
(* signed out for a cause.  The second invariant follows the token: while  *)
(* nothing else interferes, a refresh whose answer has not been heard      *)
(* carries the session in the jar, so a refusal is a refusal of that       *)
(* session, and a session once refused stays refused.                      *)
(***************************************************************************)
EXTENDS AuthClient_proofs

\* The counters and what is on show.
Clocks ==
    /\ age \in [Sessions -> {"fresh", "stale", "expired"}]
    /\ aged \in 0 .. MaxAged
    /\ recent \in [Policies -> Nat]
    /\ \A p \in Policies : recent[p] <= Quota[p]
    /\ status \in [Tabs -> Statuses]
    /\ timeouts \in 0 .. MaxTimeouts

\* The answers a call can have, and when.
ReplyControl(c) ==
    /\ phase[c] # "unused" => sends[c] >= 1
    /\ phase[c] = "answered" => reply[c] # "none"
    /\ phase[c] \in {"sent", "read"} /\ kind[c] \notin Protected => reply[c] = "none"
    /\ kind[c] \in Protected => reply[c] \in {"none", "ok", "unauthorized"}
    /\ kind[c] = "refresh" => reply[c] \in {"none", "ok", "unauthorized", "limited"}

\* A token that was refused is never good again.
RefusedForGood ==
    \A r \in Calls : kind[r] = "refresh" /\ reply[r] = "unauthorized" => ~Acceptable(carried[r])

\* The answer of a refresh has reached its page.
HeardOk(r) == phase[r] = "done" /\ reply[r] = "ok" /\ r \notin orphans

\* Nothing but refreshes touches the cookies, each with a token of its own.
Undisturbed ==
    /\ timeouts = 0
    /\ \A c \in Calls : kind[c] \notin {"login", "logout"} /\ reply[c] # "limited"
    /\ \A a, b \in Calls : kind[a] = "refresh" /\ kind[b] = "refresh" /\ carried[a] = carried[b] => a = b

\* Then a refresh that was not heard to succeed holds the token of the jar.
TokenFollowed ==
    Undisturbed => \A r \in Calls : kind[r] = "refresh" => carried[r] = jar \/ HeardOk(r)

\* The /me of a page load was refused, refreshed and refused again.
RefusedTwice(c) ==
    kind[c] = "me" /\ sends[c] = 2 /\ phase[c] = "done" /\ reply[c] = "unauthorized"

\* What has happened wherever a tab is signed out.
Cause ==
    \/ timeouts > 0
    \/ \E c \in Calls :
        \/ kind[c] \in {"login", "logout"} \/ reply[c] = "limited"
        \/ RefusedTwice(c)
        \/ kind[c] = "refresh" /\ reply[c] = "unauthorized"
SignOutsExplained == (\E t \in Tabs : status[t] = "unauthenticated") => Cause

CauseInv ==
    /\ Clocks
    /\ \A c \in Calls : ReplyControl(c)
    /\ RefusedForGood
    /\ TokenFollowed
    /\ SignOutsExplained

-----------------------------------------------------------------------------
(***************************************************************************)
(* What no step undoes.                                                    *)
(***************************************************************************)
CallsGoOn ==
    /\ timeouts' \in Nat /\ timeouts' >= timeouts
    /\ \A c \in Calls :
        /\ phase[c] # "unused" => kind'[c] = kind[c]
        /\ kind[c] = "refresh" => carried'[c] = carried[c]
        /\ kind[c] = "refresh" /\ reply[c] = "unauthorized" => reply'[c] = "unauthorized"
        /\ reply[c] = "limited" => reply'[c] = "limited"
        /\ phase[c] = "done" => /\ phase'[c] = "done" /\ reply'[c] = reply[c] /\ sends'[c] = sends[c]
                                /\ c \notin orphans => c \notin orphans'

SessionsGoOn == \A s \in Sessions : session[s] # "none" /\ Acceptable(s)' => Acceptable(s)

GoesOn == CallsGoOn /\ SessionsGoOn

\* A disturbance is one for good, and so is what a page has heard.
LEMMA DisturbedForGood ==
  ASSUME IInv, CauseInv, CallsGoOn
  PROVE  /\ Undisturbed' => Undisturbed
         /\ \A r \in Calls : HeardOk(r) => HeardOk(r)'
         /\ Cause => Cause'
<1>1. /\ timeouts \in Nat /\ \A c \in Calls : phase[c] = "unused" => kind[c] = "none" /\ reply[c] = "none"
      /\ timeouts' \in Nat /\ timeouts' >= timeouts
  BY ClientAssumption DEF IInv, CallControl, CauseInv, Clocks, CallsGoOn
<1>2. \A c \in Calls : kind[c] \in {"me", "login", "logout", "refresh"} => kind'[c] = kind[c]
  BY <1>1 DEF CallsGoOn
<1>3. ASSUME Undisturbed' PROVE Undisturbed
  <2>1. timeouts = 0
    BY <1>1, <1>3 DEF Undisturbed
  <2>2. \A c \in Calls : kind[c] \notin {"login", "logout"} /\ reply[c] # "limited"
    BY <1>2, <1>3 DEF Undisturbed, CallsGoOn
  <2>3. \A a, b \in Calls : kind[a] = "refresh" /\ kind[b] = "refresh" /\ carried[a] = carried[b] => a = b
    BY <1>2, <1>3 DEF Undisturbed, CallsGoOn
  <2>. QED BY <2>1, <2>2, <2>3 DEF Undisturbed
<1>4. \A r \in Calls : HeardOk(r) => HeardOk(r)'
  BY DEF HeardOk, CallsGoOn
<1>5. ASSUME Cause PROVE Cause'
  <2>1. CASE timeouts > 0
    BY <1>1, <2>1 DEF Cause
  <2>2. ASSUME NEW c \in Calls,
               \/ kind[c] \in {"login", "logout"} \/ reply[c] = "limited"
               \/ RefusedTwice(c)
               \/ kind[c] = "refresh" /\ reply[c] = "unauthorized"
        PROVE  Cause'
    <3>1. CASE kind[c] \in {"login", "logout"} \/ reply[c] = "limited"
      BY <1>2, <3>1 DEF Cause, CallsGoOn
    <3>2. CASE RefusedTwice(c)
      <4>1. RefusedTwice(c)'
        BY <1>2, <3>2 DEF RefusedTwice, CallsGoOn
      <4>. QED BY <4>1 DEF Cause
    <3>3. CASE kind[c] = "refresh" /\ reply[c] = "unauthorized"
      BY <1>2, <3>3 DEF Cause, CallsGoOn
    <3>. QED BY <2>2, <3>1, <3>2, <3>3
  <2>. QED BY <1>5, <2>1, <2>2 DEF Cause
<1>. QED BY <1>3, <1>4, <1>5

\* A refusal stays right if every new one is.
LEMMA RefusalStays ==
  ASSUME IInv, CauseInv, GoesOn,
         \A r \in Calls : kind'[r] = "refresh" /\ reply'[r] = "unauthorized" /\ reply[r] # "unauthorized"
                             => kind[r] = "refresh" /\ ~Acceptable(carried[r])
  PROVE  RefusedForGood'
<1>. SUFFICES ASSUME NEW r \in Calls, kind'[r] = "refresh", reply'[r] = "unauthorized"
              PROVE  ~Acceptable(carried[r])'
  BY DEF RefusedForGood
<1>1. kind[r] = "refresh" /\ ~Acceptable(carried[r])
  BY DEF IInv, CallControl, CauseInv, RefusedForGood, GoesOn, CallsGoOn
<1>2. carried'[r] = carried[r]
  BY <1>1 DEF GoesOn, CallsGoOn
<1>3. CASE carried[r] = None
  BY <1>2, <1>3 DEF Acceptable, Unrevoked
<1>4. CASE carried[r] # None
  <2>1. carried[r] \in Sessions /\ session[carried[r]] # "none"
    BY <1>4 DEF IInv, Types, Cookies
  <2>. QED BY <1>1, <1>2, <2>1 DEF GoesOn, SessionsGoOn
<1>. QED BY <1>3, <1>4

\* The token is followed while the jar stands and what is sent takes it along.
LEMMA TokenStays ==
  ASSUME IInv, CauseInv, CallsGoOn, jar' = jar,
         \A r \in Calls : kind'[r] = "refresh" /\ kind[r] # "refresh" => carried'[r] = jar
  PROVE  TokenFollowed'
<1>. SUFFICES ASSUME Undisturbed', NEW r \in Calls, kind'[r] = "refresh"
              PROVE  carried'[r] = jar' \/ HeardOk(r)'
  BY DEF TokenFollowed
<1>1. CASE kind[r] # "refresh"
  BY <1>1
<1>2. CASE kind[r] = "refresh"
  BY <1>2, DisturbedForGood DEF CauseInv, TokenFollowed, CallsGoOn
<1>. QED BY <1>1, <1>2

\* No tab is signed out by the step.
LEMMA NobodySignedOut ==
  ASSUME IInv, CauseInv, CallsGoOn,
         \A t \in Tabs : status'[t] = "unauthenticated" => status[t] = "unauthenticated"
  PROVE  SignOutsExplained'
<1>. QED BY DisturbedForGood DEF CauseInv, SignOutsExplained

-----------------------------------------------------------------------------
(***************************************************************************)
(* The server.                                                             *)
(***************************************************************************)

\* An answer, or a label, of one call c, as every request to the server leaves them.
ServerTouches(c) ==
    /\ phase[c] \in {"sent", "read"}
    /\ \/ /\ phase' \in {[phase EXCEPT ![c] = "read"], [phase EXCEPT ![c] = "done"]}
          /\ reply' = reply
       \/ /\ phase' = [phase EXCEPT ![c] = IF c \in orphans THEN "done" ELSE "answered"]
          /\ \E a \in {"ok", "unauthorized", "limited", "failed"} : reply' = [reply EXCEPT ![c] = a]
    /\ UNCHANGED <<kind, carried, orphans, age, aged, clientVars>>

\* What a call of each kind can be answered.
RightAnswer(c) ==
    /\ phase[c] = "read" => kind[c] \notin Protected
    /\ phase'[c] = "read" => kind[c] \notin Protected
    /\ reply'[c] # reply[c] /\ kind[c] \in Protected => reply'[c] \in {"ok", "unauthorized"}
    /\ reply'[c] # reply[c] /\ kind[c] = "refresh" => reply'[c] \in {"ok", "unauthorized", "limited"}
    /\ reply'[c] = "unauthorized" /\ kind[c] = "refresh" => ~Acceptable(carried[c])

LEMMA ServerStep ==
  ASSUME IInv, CauseInv, NEW c \in Calls, ServerTouches(c), RightAnswer(c), SessionsGoOn,
         recent' \in [Policies -> Nat], \A p \in Policies : recent'[p] <= Quota[p]
  PROVE  CauseInv'
<1>0. /\ \A d \in Calls \ {c} : phase'[d] = phase[d] /\ reply'[d] = reply[d]
      /\ UNCHANGED <<kind, carried, orphans, age, aged, jar, status, promise, tab, sends, timeouts>>
      /\ phase[c] \in {"sent", "read"} /\ phase'[c] \in {"read", "done", "answered"}
      /\ reply'[c] = reply[c] \/ reply'[c] \in {"ok", "unauthorized", "limited", "failed"}
      /\ phase'[c] = "read" => reply'[c] = reply[c]
      /\ phase'[c] = "answered" => reply'[c] # "none"
  BY DEF IInv, Types, ServerTouches, clientVars
<1>1. CallsGoOn
  <2>1. timeouts' \in Nat /\ timeouts' >= timeouts
    BY <1>0, ClientAssumption DEF CauseInv, Clocks
  <2>2. kind[c] = "refresh" => reply[c] = "none"
    BY <1>0 DEF CauseInv, ReplyControl, Protected
  <2>3. reply[c] # "limited"
    BY <1>0 DEF CauseInv, ReplyControl
  <2>. QED BY <1>0, <2>1, <2>2, <2>3 DEF CallsGoOn
<1>2. Clocks'
  BY <1>0 DEF CauseInv, Clocks
<1>3. \A d \in Calls : ReplyControl(d)'
  BY <1>0 DEF CauseInv, ReplyControl, RightAnswer
<1>4. RefusedForGood'
  <2>1. \A r \in Calls : kind'[r] = "refresh" /\ reply'[r] = "unauthorized" /\ reply[r] # "unauthorized"
                             => kind[r] = "refresh" /\ ~Acceptable(carried[r])
    BY <1>0 DEF RightAnswer
  <2>. QED BY <1>1, <2>1, RefusalStays DEF GoesOn
<1>5. TokenFollowed'
  BY <1>0, <1>1, TokenStays
<1>6. SignOutsExplained'
  BY <1>0, <1>1, NobodySignedOut
<1>. QED BY <1>2, <1>3, <1>4, <1>5, <1>6 DEF CauseInv

\* The rate limiter counts up to its quota.
LEMMA AdmitBound ==
  ASSUME CauseInv, NEW p \in Policies, Admit(p)
  PROVE  recent' \in [Policies -> Nat] /\ \A q \in Policies : recent'[q] <= Quota[q]
<1>1. recent \in [Policies -> Nat] /\ Quota \in [Policies -> Nat \ {0}]
  BY SessionAssumption DEF CauseInv, Clocks
<1>2. recent[p] < Quota[p]
  BY <1>1 DEF Admit, Limited
<1>. QED BY <1>1, <1>2 DEF CauseInv, Clocks, Admit

\* Each request to the server is such a step, and revives no session.
LEMMA ServeProtectedCause ==
  ASSUME IInv, CauseInv, NEW c \in Calls, ServeProtected(c), UNCHANGED clientVars
  PROVE  CauseInv'
<1>1. ServerTouches(c)
  BY DEF ServeProtected, Respond, ServerTouches, table, clock
<1>2. RightAnswer(c)
  BY DEF IInv, Types, ServeProtected, Respond, RightAnswer, Protected
<1>3. SessionsGoOn
  BY DEF ServeProtected, SessionsGoOn, Acceptable, Unrevoked, table, clock
<1>4. recent' = recent
  BY DEF ServeProtected, clock
<1>. QED BY <1>1, <1>2, <1>3, <1>4, ServerStep DEF CauseInv, Clocks

LEMMA ReadForRefreshCause ==
  ASSUME IInv, CauseInv, NEW c \in Calls, ReadForRefresh(c), UNCHANGED clientVars
  PROVE  CauseInv'
<1>1. ServerTouches(c)
  BY DEF ReadForRefresh, Respond, ServerTouches
<1>2. RightAnswer(c)
  BY DEF IInv, Types, ReadForRefresh, Respond, RightAnswer, Protected, CauseInv, ReplyControl
<1>3. SessionsGoOn
  BY DEF ReadForRefresh, SessionsGoOn, Acceptable, Unrevoked, table
<1>4. recent' \in [Policies -> Nat] /\ \A q \in Policies : recent'[q] <= Quota[q]
  BY AdmitBound DEF ReadForRefresh, CauseInv, Clocks, Policies
<1>. QED BY <1>1, <1>2, <1>3, <1>4, ServerStep

LEMMA RotateSessionCause ==
  ASSUME IInv, CauseInv, NEW c \in Calls, RotateSession(c), UNCHANGED clientVars
  PROVE  CauseInv'
<1>1. ServerTouches(c)
  BY DEF RotateSession, Respond, ServerTouches, clock
<1>2. RightAnswer(c)
  BY DEF IInv, Types, RotateSession, Respond, RightAnswer, Protected
<1>3. SessionsGoOn
  <2>1. session[c] = "none" /\ session \in [Sessions -> {"none", "live", "revoked"}]
    BY DEF IInv, Types, CallControl, RotateSession
  <2>2. session' = [session EXCEPT ![carried[c]] = "revoked", ![c] = "live"] /\ age' = age
    BY DEF RotateSession, clock
  <2>. QED BY <2>1, <2>2 DEF SessionsGoOn, Acceptable, Unrevoked
<1>4. recent' = recent
  BY DEF RotateSession, clock
<1>. QED BY <1>1, <1>2, <1>3, <1>4, ServerStep DEF CauseInv, Clocks

LEMMA ReadForLogoutCause ==
  ASSUME IInv, CauseInv, NEW c \in Calls, ReadForLogout(c), UNCHANGED clientVars
  PROVE  CauseInv'
<1>1. ServerTouches(c)
  BY DEF ReadForLogout, Respond, ServerTouches, table, clock
<1>2. RightAnswer(c)
  BY DEF IInv, Types, ReadForLogout, Respond, RightAnswer, Protected, CauseInv, ReplyControl
<1>3. SessionsGoOn
  BY DEF ReadForLogout, SessionsGoOn, Acceptable, Unrevoked, table, clock
<1>4. recent' = recent
  BY DEF ReadForLogout, clock
<1>. QED BY <1>1, <1>2, <1>3, <1>4, ServerStep DEF CauseInv, Clocks

LEMMA RevokeSessionCause ==
  ASSUME IInv, CauseInv, NEW c \in Calls, RevokeSession(c), UNCHANGED clientVars
  PROVE  CauseInv'
<1>1. ServerTouches(c)
  BY DEF RevokeSession, Respond, ServerTouches, clock
<1>2. RightAnswer(c)
  BY DEF IInv, Types, RevokeSession, Respond, RightAnswer, Protected
<1>3. SessionsGoOn
  BY DEF IInv, Types, RevokeSession, SessionsGoOn, Acceptable, Unrevoked, clock
<1>4. recent' = recent
  BY DEF RevokeSession, clock
<1>. QED BY <1>1, <1>2, <1>3, <1>4, ServerStep DEF CauseInv, Clocks

LEMMA RedirectToGoogleCause ==
  ASSUME IInv, CauseInv, NEW c \in Calls, RedirectToGoogle(c), UNCHANGED clientVars
  PROVE  CauseInv'
<1>1. ServerTouches(c)
  BY DEF RedirectToGoogle, Respond, ServerTouches
<1>2. RightAnswer(c)
  BY DEF IInv, Types, RedirectToGoogle, Respond, RightAnswer, Protected
<1>3. SessionsGoOn
  BY DEF RedirectToGoogle, SessionsGoOn, Acceptable, Unrevoked, table
<1>4. recent' \in [Policies -> Nat] /\ \A q \in Policies : recent'[q] <= Quota[q]
  BY AdmitBound DEF RedirectToGoogle, CauseInv, Clocks, Policies
<1>. QED BY <1>1, <1>2, <1>3, <1>4, ServerStep

LEMMA CallbackCause ==
  ASSUME IInv, CauseInv, NEW c \in Calls, Callback(c), UNCHANGED clientVars
  PROVE  CauseInv'
<1>1. ServerTouches(c)
  BY DEF Callback, Respond, ServerTouches
<1>2. RightAnswer(c)
  BY DEF IInv, Types, Callback, Respond, RightAnswer, Protected
<1>3. SessionsGoOn
  <2>1. session[c] = "none" /\ session \in [Sessions -> {"none", "live", "revoked"}]
    BY DEF IInv, Types, CallControl, Callback
  <2>2. session' \in {session, [session EXCEPT ![c] = "live"]} /\ age' = age
    BY DEF Callback
  <2>. QED BY <2>1, <2>2 DEF SessionsGoOn, Acceptable, Unrevoked
<1>4. recent' \in [Policies -> Nat] /\ \A q \in Policies : recent'[q] <= Quota[q]
  BY AdmitBound DEF Callback, CauseInv, Clocks, Policies
<1>. QED BY <1>1, <1>2, <1>3, <1>4, ServerStep

LEMMA NeverArrivesCause ==
  ASSUME IInv, CauseInv, NEW c \in Calls, NeverArrives(c), UNCHANGED clientVars
  PROVE  CauseInv'
<1>1. ServerTouches(c)
  BY DEF NeverArrives, ServerTouches, table, clock
<1>2. RightAnswer(c)
  BY DEF IInv, Types, NeverArrives, RightAnswer, CauseInv, ReplyControl, Protected
<1>3. SessionsGoOn
  BY DEF NeverArrives, SessionsGoOn, Acceptable, Unrevoked, table, clock
<1>4. recent' = recent
  BY DEF NeverArrives, clock
<1>. QED BY <1>1, <1>2, <1>3, <1>4, ServerStep DEF CauseInv, Clocks

\* Time: tokens grow older, never younger, and requests leave the window.
LEMMA TimeCause ==
  ASSUME IInv, CauseInv, UNCHANGED <<table, wire, clientVars>>,
         \/ UNCHANGED clock
         \/ \E s \in Sessions : GrowOld(s)
         \/ \E p \in Policies : LeaveWindow(p)
  PROVE  CauseInv'
<1>0. UNCHANGED <<session, kind, carried, phase, reply, orphans, jar, status, promise, tab, sends, timeouts>>
  BY DEF table, wire, clientVars
<1>1. Clocks'
  <2>1. CASE UNCHANGED clock
    BY <1>0, <2>1 DEF CauseInv, Clocks, clock
  <2>2. ASSUME NEW s \in Sessions, GrowOld(s) PROVE Clocks'
    BY <1>0, <2>2, SessionAssumption DEF CauseInv, Clocks, GrowOld
  <2>3. ASSUME NEW p \in Policies, LeaveWindow(p) PROVE Clocks'
    <3>1. recent' \in [Policies -> Nat] /\ \A q \in Policies : recent'[q] <= recent[q]
      BY <2>3 DEF CauseInv, Clocks, LeaveWindow
    <3>2. \A q \in Policies : recent'[q] <= Quota[q]
      BY <3>1, SessionAssumption DEF CauseInv, Clocks
    <3>. QED BY <1>0, <2>3, <3>1, <3>2 DEF CauseInv, Clocks, LeaveWindow
  <2>. QED BY <2>1, <2>2, <2>3
<1>2. GoesOn
  <2>1. CallsGoOn
    BY <1>0, ClientAssumption DEF CallsGoOn, CauseInv, Clocks
  <2>2. \A s \in Sessions : age'[s] # "expired" => age[s] # "expired"
    BY DEF CauseInv, Clocks, GrowOld, LeaveWindow, clock
  <2>. QED BY <1>0, <2>1, <2>2 DEF GoesOn, SessionsGoOn, Acceptable, Unrevoked
<1>3. \A d \in Calls : ReplyControl(d)'
  BY <1>0 DEF CauseInv, ReplyControl
<1>4. RefusedForGood'
  BY <1>0, <1>2, RefusalStays
<1>5. TokenFollowed'
  BY <1>0, <1>2, TokenStays DEF GoesOn
<1>6. SignOutsExplained'
  BY <1>0, <1>2, NobodySignedOut DEF GoesOn
<1>. QED BY <1>1, <1>3, <1>4, <1>5, <1>6 DEF CauseInv

-----------------------------------------------------------------------------
(***************************************************************************)
(* The browser.                                                            *)
(***************************************************************************)

\* A page is left, opened or reloaded.
LEMMA NavigateCause ==
  ASSUME IInv, CauseInv, NEW t \in Tabs, NEW c \in Calls, NEW k \in {"me", "login"},
         Navigate(t, c, k), status' \in [Tabs -> Statuses],
         \A u \in Tabs : status'[u] = "unauthenticated" => status[u] = "unauthenticated"
  PROVE  CauseInv'
<1>0. /\ UNCHANGED <<reply, session, heir, age, aged, recent, jar, timeouts>>
      /\ phase[c] = "unused" /\ kind[c] = "none" /\ reply[c] = "none"
      /\ kind'[c] = k /\ sends'[c] = 1 /\ phase'[c] = "sent" /\ carried'[c] = jar
      /\ \A d \in Calls \ {c} :
           /\ kind'[d] = kind[d] /\ sends'[d] = sends[d] /\ carried'[d] = carried[d]
           /\ phase'[d] = phase[d] \/ (phase[d] \in {"refreshing", "answered"} /\ phase'[d] = "done")
      /\ \A d \in Calls : phase[d] = "done" /\ d \notin orphans => d \notin orphans'
  BY DEF IInv, Types, CallControl, Navigate, Unused, InFlight, table, clock
<1>1. Clocks'
  BY <1>0 DEF CauseInv, Clocks
<1>2. GoesOn
  <2>1. CallsGoOn
    BY <1>0, ClientAssumption DEF CallsGoOn, CauseInv, Clocks
  <2>. QED BY <1>0, <2>1 DEF GoesOn, SessionsGoOn, Acceptable, Unrevoked
<1>3. \A d \in Calls : ReplyControl(d)'
  BY <1>0 DEF CauseInv, ReplyControl
<1>4. RefusedForGood'
  BY <1>0, <1>2, RefusalStays
<1>5. TokenFollowed'
  BY <1>0, <1>2, TokenStays DEF GoesOn
<1>6. SignOutsExplained'
  BY <1>2, NobodySignedOut DEF GoesOn
<1>. QED BY <1>1, <1>3, <1>4, <1>5, <1>6 DEF CauseInv

\* A page makes a request.
LEMMA StartCause ==
  ASSUME IInv, CauseInv, NEW t \in Tabs, NEW c \in Calls, NEW k \in {"api", "stream", "logout"},
         Start(t, c, k)
  PROVE  CauseInv'
<1>0. /\ UNCHANGED <<reply, orphans, session, heir, age, aged, recent, jar, status, timeouts>>
      /\ phase[c] = "unused" /\ kind[c] = "none" /\ reply[c] = "none"
      /\ kind'[c] = k /\ sends'[c] = 1 /\ phase'[c] = "sent"
      /\ \A d \in Calls \ {c} : /\ kind'[d] = kind[d] /\ sends'[d] = sends[d]
                                /\ carried'[d] = carried[d] /\ phase'[d] = phase[d]
  BY DEF IInv, Types, CallControl, Start, Unused, table, clock
<1>1. Clocks'
  BY <1>0 DEF CauseInv, Clocks
<1>2. GoesOn
  <2>1. CallsGoOn
    BY <1>0, ClientAssumption DEF CallsGoOn, CauseInv, Clocks
  <2>. QED BY <1>0, <2>1 DEF GoesOn, SessionsGoOn, Acceptable, Unrevoked
<1>3. \A d \in Calls : ReplyControl(d)'
  BY <1>0 DEF CauseInv, ReplyControl
<1>4. RefusedForGood'
  BY <1>0, <1>2, RefusalStays
<1>5. TokenFollowed'
  BY <1>0, <1>2, TokenStays DEF GoesOn
<1>6. SignOutsExplained'
  BY <1>0, <1>2, NobodySignedOut DEF GoesOn
<1>. QED BY <1>1, <1>3, <1>4, <1>5, <1>6 DEF CauseInv

\* A 401 waits for the refresh of its tab, or sends it with the cookies of the jar.
LEMMA RefreshCause ==
  ASSUME IInv, CauseInv, NEW c \in Calls, Refresh(c)
  PROVE  CauseInv'
<1>0. /\ UNCHANGED <<reply, orphans, session, heir, age, aged, recent, jar, status, timeouts>>
      /\ phase[c] = "answered" /\ phase'[c] = "refreshing" /\ kind[c] \in Protected
      /\ kind'[c] = kind[c] /\ sends'[c] = sends[c] /\ carried'[c] = carried[c]
      /\ \A d \in Calls \ {c} :
           \/ /\ kind'[d] = kind[d] /\ sends'[d] = sends[d]
              /\ carried'[d] = carried[d] /\ phase'[d] = phase[d]
           \/ /\ phase[d] = "unused" /\ reply[d] = "none"
              /\ phase'[d] = "sent" /\ kind'[d] = "refresh" /\ sends'[d] = 1 /\ carried'[d] = jar
  BY DEF IInv, Types, CallControl, Refresh, Heard, ShouldAttemptRefresh, Unused, table, clock
<1>1. Clocks'
  BY <1>0 DEF CauseInv, Clocks
<1>2. GoesOn
  <2>1. CallsGoOn
    BY <1>0, ClientAssumption DEF CallsGoOn, CauseInv, Clocks, IInv, CallControl, Protected
  <2>. QED BY <1>0, <2>1 DEF GoesOn, SessionsGoOn, Acceptable, Unrevoked
<1>3. \A d \in Calls : ReplyControl(d)'
  BY <1>0 DEF CauseInv, ReplyControl, Protected
<1>4. RefusedForGood'
  BY <1>0, <1>2, RefusalStays
<1>5. TokenFollowed'
  BY <1>0, <1>2, TokenStays DEF GoesOn
<1>6. SignOutsExplained'
  BY <1>0, <1>2, NobodySignedOut DEF GoesOn
<1>. QED BY <1>1, <1>3, <1>4, <1>5, <1>6 DEF CauseInv

\* An answer settles a call: a /me that is refused and not tried again was tried twice.
LEMMA SettleCause ==
  ASSUME IInv, CauseInv, NEW c \in Calls, Settle(c)
  PROVE  CauseInv'
<1>0. /\ UNCHANGED <<reply, orphans, session, heir, age, aged, recent, jar, timeouts, kind, sends, carried>>
      /\ phase[c] = "answered" /\ phase'[c] = "done" /\ kind[c] \in Protected
      /\ c \notin orphans /\ reply[c] \in {"ok", "unauthorized"} /\ sends[c] >= 1 /\ sends[c] \in Nat
      /\ \A d \in Calls \ {c} : phase'[d] = phase[d]
  BY DEF IInv, Types, CallControl, CauseInv, ReplyControl, Settle, Heard, table, clock
<1>1. Clocks'
  BY <1>0 DEF CauseInv, Clocks, Settle, Resolved, Statuses
<1>2. GoesOn
  <2>1. CallsGoOn
    BY <1>0, ClientAssumption DEF CallsGoOn, CauseInv, Clocks
  <2>. QED BY <1>0, <2>1 DEF GoesOn, SessionsGoOn, Acceptable, Unrevoked
<1>3. \A d \in Calls : ReplyControl(d)'
  BY <1>0 DEF CauseInv, ReplyControl
<1>4. RefusedForGood'
  BY <1>0, <1>2, RefusalStays
<1>5. TokenFollowed'
  BY <1>0, <1>2, TokenStays DEF GoesOn
<1>6. SignOutsExplained'
  <2>1. CASE kind[c] = "me" /\ reply[c] = "unauthorized"
    <3>1. sends[c] = 2
      BY <1>0, <2>1 DEF Settle, ShouldAttemptRefresh, IInv, RetriedOnce
    <3>2. RefusedTwice(c)'
      BY <1>0, <2>1, <3>1 DEF RefusedTwice
    <3>. QED BY <3>2 DEF SignOutsExplained, Cause
  <2>2. CASE ~(kind[c] = "me" /\ reply[c] = "unauthorized")
    <3>1. \A t \in Tabs : status'[t] = "unauthenticated" => status[t] = "unauthenticated"
      BY <1>0, <2>2 DEF Settle, Resolved
    <3>. QED BY <1>2, <3>1, NobodySignedOut DEF GoesOn
  <2>. QED BY <2>1, <2>2
<1>. QED BY <1>1, <1>3, <1>4, <1>5, <1>6 DEF CauseInv

\* A refresh is heard.  With a new token the jar changes hands, and no other refresh
\* held the old one; without one, its refusal is the cause.
LEMMA HearRefreshCause ==
  ASSUME IInv, CauseInv, NEW r \in Calls, HearRefresh(r)
  PROVE  CauseInv'
<1>0. /\ UNCHANGED <<reply, orphans, session, heir, age, aged, recent, timeouts, kind>>
      /\ phase[r] = "answered" /\ phase'[r] = "done" /\ kind[r] = "refresh" /\ r \notin orphans
      /\ carried'[r] = carried[r] /\ sends'[r] = sends[r]
      /\ reply[r] \in {"ok", "unauthorized", "limited"}
      /\ \A d \in Calls \ {r} :
           \/ phase'[d] = phase[d] /\ carried'[d] = carried[d] /\ sends'[d] = sends[d]
           \/ /\ phase[d] = "refreshing" /\ kind[d] \in Protected /\ phase'[d] \in {"sent", "done"}
              /\ sends'[d] \in {sends[d], sends[d] + 1} /\ sends[d] \in Nat
  BY DEF IInv, Types, CallControl, CauseInv, ReplyControl, HearRefresh, FailRefresh, Heard, Waiters, Of,
         Protected, table, clock
<1>1. Clocks'
  BY <1>0 DEF CauseInv, Clocks, HearRefresh, FailRefresh, Resolved, Statuses
<1>2. GoesOn
  <2>1. CallsGoOn
    BY <1>0, ClientAssumption DEF CallsGoOn, CauseInv, Clocks, Protected
  <2>. QED BY <1>0, <2>1 DEF GoesOn, SessionsGoOn, Acceptable, Unrevoked
<1>3. \A d \in Calls : ReplyControl(d)'
  BY <1>0 DEF CauseInv, ReplyControl, Protected
<1>4. RefusedForGood'
  BY <1>0, <1>2, RefusalStays
<1>5. TokenFollowed'
  <2>1. CASE reply[r] = "ok"
    <3>. SUFFICES ASSUME Undisturbed', NEW d \in Calls, kind[d] = "refresh"
                  PROVE  carried'[d] = jar' \/ HeardOk(d)'
      BY <1>0 DEF TokenFollowed
    <3>1. Undisturbed /\ (HeardOk(d) => HeardOk(d)')
      BY <1>2, DisturbedForGood DEF GoesOn
    <3>2. carried[r] = jar
      BY <1>0, <3>1 DEF CauseInv, TokenFollowed, HeardOk
    <3>3. CASE d = r
      BY <1>0, <2>1, <3>3 DEF HeardOk
    <3>4. CASE d # r
      BY <1>0, <3>1, <3>2, <3>4 DEF CauseInv, TokenFollowed, Undisturbed
    <3>. QED BY <3>3, <3>4
  <2>2. CASE reply[r] # "ok"
    BY <1>0, <1>2, <2>2, TokenStays DEF HearRefresh, GoesOn
  <2>. QED BY <2>1, <2>2
<1>6. SignOutsExplained'
  <2>1. CASE reply[r] = "ok"
    BY <1>2, <2>1, NobodySignedOut DEF HearRefresh, GoesOn
  <2>2. CASE reply[r] # "ok"
    BY <1>0, <2>2 DEF SignOutsExplained, Cause
  <2>. QED BY <2>1, <2>2
<1>. QED BY <1>1, <1>3, <1>4, <1>5, <1>6 DEF CauseInv

\* A logout or a login is heard: a disturbance, and a cause.
LEMMA HearSignCause ==
  ASSUME IInv, CauseInv, NEW c \in Calls, HearLogout(c) \/ HearLogin(c)
  PROVE  CauseInv'
<1>0. /\ UNCHANGED <<reply, orphans, session, heir, age, aged, recent, timeouts, kind, sends, carried>>
      /\ phase[c] = "answered" /\ phase'[c] = "done" /\ kind[c] \in {"login", "logout"}
      /\ \A d \in Calls \ {c} : phase'[d] = phase[d]
  BY DEF IInv, Types, HearLogout, HearLogin, Heard, table, clock
<1>1. Clocks'
  BY <1>0 DEF CauseInv, Clocks, HearLogout, HearLogin, SignedOut, Statuses
<1>2. GoesOn
  <2>1. CallsGoOn
    BY <1>0, ClientAssumption DEF CallsGoOn, CauseInv, Clocks
  <2>. QED BY <1>0, <2>1 DEF GoesOn, SessionsGoOn, Acceptable, Unrevoked
<1>3. \A d \in Calls : ReplyControl(d)'
  BY <1>0 DEF CauseInv, ReplyControl
<1>4. RefusedForGood'
  BY <1>0, <1>2, RefusalStays
<1>5. TokenFollowed'
  BY <1>0 DEF TokenFollowed, Undisturbed
<1>6. SignOutsExplained'
  BY <1>0 DEF SignOutsExplained, Cause
<1>. QED BY <1>1, <1>3, <1>4, <1>5, <1>6 DEF CauseInv

\* A call times out: another.
LEMMA TimeOutCause ==
  ASSUME IInv, CauseInv, NEW c \in Calls, TimeOut(c)
  PROVE  CauseInv'
<1>0. /\ UNCHANGED <<reply, session, heir, age, aged, recent, jar, kind, sends, carried>>
      /\ timeouts' = timeouts + 1 /\ timeouts \in Nat /\ timeouts < MaxTimeouts
      /\ \A d \in Calls : /\ phase'[d] = phase[d] \/ (phase[d] \in {"refreshing", "answered"} /\ phase'[d] = "done")
                          /\ phase[d] = "done" /\ d \notin orphans => d \notin orphans'
  BY ClientAssumption
  DEF IInv, Types, CauseInv, Clocks, TimeOut, InFlight, Waiters, Of, table, clock
<1>1. Clocks'
  <2>1. status' \in [Tabs -> Statuses]
    BY DEF CauseInv, Clocks, TimeOut, FailRefresh, SignedOut, Resolved, Statuses
  <2>. QED BY <1>0, <2>1, ClientAssumption DEF CauseInv, Clocks
<1>2. GoesOn
  <2>1. CallsGoOn
    BY <1>0 DEF CallsGoOn
  <2>. QED BY <1>0, <2>1 DEF GoesOn, SessionsGoOn, Acceptable, Unrevoked
<1>3. \A d \in Calls : ReplyControl(d)'
  BY <1>0 DEF CauseInv, ReplyControl
<1>4. RefusedForGood'
  BY <1>0, <1>2, RefusalStays
<1>5. TokenFollowed'
  BY <1>0 DEF TokenFollowed, Undisturbed
<1>6. SignOutsExplained'
  BY <1>0 DEF SignOutsExplained, Cause
<1>. QED BY <1>1, <1>3, <1>4, <1>5, <1>6 DEF CauseInv

-----------------------------------------------------------------------------
LEMMA InitCause == Init => CauseInv
<1>. SUFFICES ASSUME Init PROVE CauseInv
  OBVIOUS
<1>. USE DEF Init, ServerInit
<1>1. Clocks
  BY SessionAssumption, ClientAssumption DEF Clocks, Statuses, Policies
<1>2. \A c \in Calls : ReplyControl(c)
  BY DEF ReplyControl
<1>3. RefusedForGood /\ TokenFollowed
  BY DEF RefusedForGood, TokenFollowed
<1>4. SignOutsExplained
  BY DEF SignOutsExplained
<1>. QED BY <1>1, <1>2, <1>3, <1>4 DEF CauseInv

LEMMA StepCause == IInv /\ CauseInv /\ [Next]_vars => CauseInv'
<1>. SUFFICES ASSUME IInv, CauseInv, [Next]_vars PROVE CauseInv'
  OBVIOUS
<1>1. ASSUME NEW c \in Calls, UNCHANGED clientVars,
             \/ ServeProtected(c) \/ ReadForRefresh(c) \/ RotateSession(c)
             \/ ReadForLogout(c) \/ RevokeSession(c)
             \/ RedirectToGoogle(c) \/ Callback(c) \/ NeverArrives(c)
      PROVE  CauseInv'
  BY <1>1, ServeProtectedCause, ReadForRefreshCause, RotateSessionCause, ReadForLogoutCause,
     RevokeSessionCause, RedirectToGoogleCause, CallbackCause, NeverArrivesCause
<1>2. ASSUME UNCHANGED clientVars,
             (\E s \in Sessions : GrowOld(s)) \/ (\E p \in Policies : LeaveWindow(p))
      PROVE  CauseInv'
  BY <1>2, TimeCause DEF GrowOld, LeaveWindow
<1>3. ASSUME NEW t \in Tabs, NEW c \in Calls, Load(t, c) \/ SignIn(t, c)
      PROVE  CauseInv'
  <2>1. \A o \in {"checking", "closed"} : status' = [status EXCEPT ![t] = o] =>
          /\ status' \in [Tabs -> Statuses]
          /\ \A u \in Tabs : status'[u] = "unauthenticated" => status[u] = "unauthenticated"
    BY DEF CauseInv, Clocks, Statuses
  <2>. QED BY <1>3, <2>1, NavigateCause DEF Load, SignIn
<1>4. ASSUME NEW t \in Tabs, NEW c \in Calls, NEW k \in {"api", "stream", "logout"}, Start(t, c, k)
      PROVE  CauseInv'
  BY <1>4, StartCause
<1>5. ASSUME NEW c \in Calls,
             \/ Refresh(c) \/ Settle(c) \/ HearRefresh(c) \/ HearLogout(c) \/ HearLogin(c) \/ TimeOut(c)
      PROVE  CauseInv'
  BY <1>5, RefreshCause, SettleCause, HearRefreshCause, HearSignCause, TimeOutCause
<1>6. CASE UNCHANGED vars
  BY <1>6, TimeCause DEF vars, serverVars
<1>. QED BY <1>1, <1>2, <1>3, <1>4, <1>5, <1>6 DEF Next, ServerNext, ClientNext, Quiescent

LEMMA CauseInvariance == Spec => []CauseInv
<1>. QED BY InitCause, StepCause, Invariance, PTL DEF Spec

\* Every variable keeps its type and every counter its bound, the limiter's quotas
\* included.
THEOREM TypesAndBounds == Spec => []TypeOK
<1>1. IInv /\ CauseInv => TypeOK
  BY SessionAssumption, ClientAssumption DEF IInv, Types, CauseInv, Clocks, TypeOK
<1>. QED BY <1>1, Invariance, CauseInvariance, PTL

\* Whenever a tab is signed out while the session in the jar could still be refreshed,
\* one of the causes its statement lists has occurred: a refusal alone never does it,
\* because the token that was refused is the one in the jar.
THEOREM SignOutsHaveCauses == Spec => []SignedOutForCause
<1>1. ASSUME IInv, CauseInv, \E t \in Tabs : status[t] = "unauthenticated", Acceptable(jar),
             Undisturbed, \A c \in Calls : ~RefusedTwice(c)
      PROVE  FALSE
  <2>1. PICK r \in Calls : kind[r] = "refresh" /\ reply[r] = "unauthorized"
    BY <1>1 DEF CauseInv, SignOutsExplained, Cause, Undisturbed
  <2>2. carried[r] = jar
    BY <1>1, <2>1 DEF CauseInv, TokenFollowed, HeardOk
  <2>. QED BY <1>1, <2>1, <2>2 DEF CauseInv, RefusedForGood
<1>2. ASSUME IInv, CauseInv PROVE SignedOutForCause
  <2>1. timeouts = 0 \/ timeouts > 0
    BY <1>2, ClientAssumption DEF CauseInv, Clocks
  <2>. QED BY <1>1, <1>2, <2>1 DEF SignedOutForCause, Undisturbed, RefusedTwice
<1>. QED BY <1>2, Invariance, CauseInvariance, PTL
=============================================================================
