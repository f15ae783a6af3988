----------------------------- MODULE GoogleSignIn -----------------------------
(***************************************************************************)
(* /api/auth/callback: a Google identity becomes a user row.  A sign-in    *)
(* first looks for the identity, then for its address, and writes what it  *)
(* decided in one transaction; two sign-ins may interleave.                *)
(*                                                                         *)
(* A user row is named for the sign-in that created it.  Names, pictures   *)
(* and the encrypted Google tokens are left out.                           *)
(***************************************************************************)
EXTENDS Naturals, FiniteSets

CONSTANTS
    SignIns,    \* callbacks from Google
    Subs,       \* stable identifiers of Google accounts
    Emails,
    Profiles,   \* what Google may say: records with a sub and an email
    None

ASSUME SignInAssumption ==
    /\ Profiles \subseteq [sub : Subs, email : Emails]
    /\ None \notin SignIns \cup Subs \cup Emails \cup Profiles

VARIABLES
    email,      \* email[u]: column of table user, None while there is no row
    account,    \* account[g]: user_id of the google_oauth_account row of sub g
    sign,       \* sign[s]: how far a callback is
    profile,    \* what Google said to it
    user,       \* the user it is for
    linked,     \* whether it found the row of the identity
    loaded      \* the address it loaded with the user

Users == SignIns

signVars == <<email, account, sign, profile, user, linked, loaded>>

SignInInit ==
    /\ email = [u \in Users |-> None]
    /\ account = [g \in Subs |-> None]
    /\ sign = [s \in SignIns |-> "unused"]
    /\ profile = [s \in SignIns |-> None]
    /\ user = [s \in SignIns |-> None]
    /\ linked = [s \in SignIns |-> FALSE]
    /\ loaded = [s \in SignIns |-> None]

\* The callback s is for user u, whose row it has read.
Resolve(s, u) ==
    /\ sign' = [sign EXCEPT ![s] = "resolved"]
    /\ user' = [user EXCEPT ![s] = u]
    /\ loaded' = [loaded EXCEPT ![s] = email[u]]

\* get_google_oauth_account_by_sub, which loads the user too.
FindAccount(s) ==
    /\ sign[s] = "unused"
    /\ \E p \in Profiles :
         /\ profile' = [profile EXCEPT ![s] = p]
         /\ \/ /\ account[p.sub] # None
               /\ Resolve(s, account[p.sub])
               /\ linked' = [linked EXCEPT ![s] = TRUE]
            \/ /\ account[p.sub] = None
               /\ sign' = [sign EXCEPT ![s] = "unlinked"]
               /\ UNCHANGED <<user, linked, loaded>>
    /\ UNCHANGED <<email, account>>

\* get_user_by_email: the identity joins the user with its address, or a new one.
FindUser(s) ==
    /\ sign[s] = "unlinked"
    /\ LET owners == {u \in Users : email[u] = profile[s].email} IN
         \E u \in IF owners = {} THEN {s} ELSE owners : Resolve(s, u)
    /\ UNCHANGED <<email, account, profile, linked>>

\* An address that did not change is not written.
WritesEmail(s) == loaded[s] # profile[s].email
EmailTaken(s) == \E u \in Users \ {user[s]} : email[u] = profile[s].email

\* Mutant: google_sub has no unique index.
SubTaken_Never(s) == FALSE
SubTaken(s) == ~linked[s] /\ account[profile[s].sub] # None

\* What the request knew goes with it.
Forget(s) ==
    /\ linked' = [linked EXCEPT ![s] = FALSE]
    /\ loaded' = [loaded EXCEPT ![s] = None]

\* The unique indexes on user.email and google_sub; a second writer waits for the first
\* to commit, so checking at the commit sees what the database sees.
SaveSignIn(s) ==
    /\ sign[s] = "resolved"
    /\ IF (WritesEmail(s) /\ EmailTaken(s)) \/ SubTaken(s)
       THEN /\ sign' = [sign EXCEPT ![s] = "failed"]
            /\ UNCHANGED <<email, account>>
       ELSE /\ sign' = [sign EXCEPT ![s] = "saved"]
            /\ email' = IF WritesEmail(s) THEN [email EXCEPT ![user[s]] = profile[s].email] ELSE email
            /\ account' = IF linked[s] THEN account
                          ELSE [account EXCEPT ![profile[s].sub] = user[s]]
    /\ Forget(s)
    /\ UNCHANGED <<profile, user>>

SignInTypeOK ==
    /\ email \in [Users -> Emails \cup {None}]
    /\ account \in [Subs -> Users \cup {None}]
    /\ sign \in [SignIns -> {"unused", "unlinked", "resolved", "saved", "done", "failed"}]
    /\ profile \in [SignIns -> Profiles \cup {None}]
    /\ user \in [SignIns -> Users \cup {None}]
    /\ linked \in [SignIns -> BOOLEAN]
    /\ loaded \in [SignIns -> Emails \cup {None}]

\* Whoever signs in twice with one Google account is one user, even when both callbacks
\* looked for it before either had written it, and whatever became of the address.
SameIdentitySameUser ==
    \A s, t \in SignIns :
        /\ {sign[s], sign[t]} \subseteq {"saved", "done"}
        /\ profile[s].sub = profile[t].sub
        => user[s] = user[t]
=============================================================================
