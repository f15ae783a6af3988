------------------------------- MODULE Checkout -------------------------------
(***************************************************************************)
(* PaymentsService.create_checkout_session beside sign-ins, the dispatch   *)
(* of their events, Stripe and the mirror its webhooks fill.  A checkout   *)
(* asks the mirror and Stripe for a blocking subscription, finds or makes  *)
(* the customer, and opens a session at Stripe inside the transaction that *)
(* records it.                                                             *)
(*                                                                         *)
(* A session at Stripe and the subscription it may become carry the name   *)
(* of their checkout.                                                      *)
(***************************************************************************)
EXTENDS Provisioning, Billing

CONSTANTS
    Moves           \* <<from, to>>: how Stripe changes a subscription's status

ASSUME CheckoutAssumption ==
    /\ Moves \subseteq Statuses \X Statuses
    /\ \A m \in Moves : m[1] \in Ended => m[2] \in Ended
    /\ \A m \in Moves : m[2] = "incomplete" => m[1] = "incomplete"

VARIABLES
    session,        \* session[c]: customer of the session open at Stripe
    recorded,       \* checkouts whose row is committed
    reply,          \* answer to a checkout: url, blocked (409), refused (400, 404), error (500)
    subscription,   \* status at Stripe, "none" until the session is paid
    mirror,         \* status in stripe.subscription, "none" while there is no row
    before          \* subscriptions that blocked at Stripe when a checkout began

vars == <<signVars, provisionVars, session, recorded, reply, subscription, mirror, before>>
stripeVars == <<subscription, mirror>>
outcome == <<session, recorded, reply>>

Init ==
    /\ SignInInit
    /\ ProvisioningInit
    /\ session = [c \in Checkouts |-> None]
    /\ recorded = {}
    /\ reply = [c \in Checkouts |-> "none"]
    /\ subscription = [c \in Checkouts |-> "none"]
    /\ mirror = [c \in Checkouts |-> "none"]
    /\ before = [c \in Checkouts |-> {}]

Mirrored(u) == {d \in Checkouts : for[d] = u /\ mirror[d] \in Blocking}

Answer(c, status) ==
    /\ reply' = [reply EXCEPT ![c] = status]
    /\ Over(c)

\* The local check: two rows are more than scalar_one_or_none takes.  With no customer
\* there is nothing to ask Stripe about.
CheckMirror(c) == LET u == for[c] IN
    /\ job[c] = "checking"
    /\ \/ /\ Cardinality(Mirrored(u)) > 1
          /\ Answer(c, "error")
       \/ /\ Cardinality(Mirrored(u)) = 1
          /\ Answer(c, "blocked")
       \/ /\ Mirrored(u) = {}
          /\ At(c, IF customer[u] = None THEN "allowed" ELSE "asking")
          /\ UNCHANGED reply
    /\ UNCHANGED <<signVars, event, atStripe, key, customer, faults, forgotten>>
    /\ UNCHANGED <<session, recorded, stripeVars, before>>

StartCheckout(c) ==
    /\ job[c] = "unused"
    /\ \E s \in SignIns :
         /\ sign[s] = "done"
         /\ Begin(c, "checking", user[s])
         /\ before' = [before EXCEPT ![c] =
              {d \in Checkouts : for[d] = user[s] /\ subscription[d] \in Blocking}]
    /\ UNCHANGED <<signVars, event, atStripe, key, customer, faults, forgotten>>
    /\ UNCHANGED <<outcome, stripeVars>>

\* Mutant: the subscriptions at Stripe are listed without the customer.
BlockedAtStripe_AnyCustomer(stripeCustomer) ==
    \E d \in Checkouts : subscription[d] \in Blocking

\* Mutant: only the mirror is asked.
BlockedAtStripe_MirrorOnly(stripeCustomer) == FALSE
BlockedAtStripe(stripeCustomer) ==
    \E d \in Checkouts : session[d] = stripeCustomer /\ subscription[d] \in Blocking

AskStripe(c) ==
    /\ job[c] = "asking"
    /\ IF BlockedAtStripe(customer[for[c]].customer)
       THEN Answer(c, "blocked")
       ELSE At(c, "allowed") /\ UNCHANGED reply
    /\ UNCHANGED <<signVars, event, atStripe, key, customer, faults, forgotten>>
    /\ UNCHANGED <<session, recorded, stripeVars, before>>

\* The plan, then the customer: provision_customer looks for it once more.
FindPlanAndCustomer(c) ==
    /\ job[c] = "allowed"
    /\ \/ Answer(c, "refused")
       \/ /\ At(c, IF customer[for[c]] = None THEN "queued" ELSE "ready")
          /\ UNCHANGED reply
    /\ UNCHANGED <<signVars, event, atStripe, key, customer, faults, forgotten>>
    /\ UNCHANGED <<session, recorded, stripeVars, before>>

\* Mutant: a duplicate row is taken for success and the checkout goes on.
CommitCustomer_IgnoreDuplicate(c) ==
    /\ c \in Checkouts /\ job[c] \in {"created", "provisioned"}
    /\ IF RowTaken(c) THEN UNCHANGED customer ELSE InsertRow(c)
    /\ At(c, "ready")
    /\ UNCHANGED <<signVars, event, atStripe, key, faults, forgotten>>
    /\ UNCHANGED <<outcome, stripeVars, before>>

\* _internal_create_stripe_customer commits what provision_customer flushed.
CommitCustomer(c) ==
    /\ c \in Checkouts /\ job[c] \in {"created", "provisioned"}
    /\ \/ /\ ~RowTaken(c)
          /\ InsertRow(c)
          /\ job' = [job EXCEPT ![c] = "ready"]
          /\ holds' = [holds EXCEPT ![c] = customer'[for[c]].customer]
          /\ UNCHANGED for
          /\ UNCHANGED faults
       \/ /\ RowTaken(c) /\ At(c, "failing")
          /\ UNCHANGED <<customer, faults>>
       \/ /\ Fault /\ At(c, "failing")
          /\ UNCHANGED customer
    /\ UNCHANGED <<signVars, event, atStripe, key, forgotten>>
    /\ UNCHANGED <<outcome, stripeVars, before>>

\* An exception outside the endpoint's except clauses; the transaction is rolled back.
AnswerError(c) ==
    /\ c \in Checkouts /\ job[c] = "failing"
    /\ Answer(c, "error")
    /\ UNCHANGED <<signVars, event, atStripe, key, customer, faults, forgotten>>
    /\ UNCHANGED <<session, recorded, stripeVars, before>>

\* The checkout row is flushed, not committed, while Stripe is called; a return path that
\* is not app-relative is a ValueError before the call.
OpenSession(c) ==
    /\ job[c] = "ready"
    /\ \/ /\ session' = [session EXCEPT ![c] =
               IF holds[c] = None THEN customer[for[c]].customer ELSE holds[c]]
          /\ \/ At(c, "opened") /\ UNCHANGED faults
             \/ Fault /\ At(c, "failing")
          /\ UNCHANGED reply
       \/ Fault /\ At(c, "failing") /\ UNCHANGED <<session, reply>>
       \/ Answer(c, "refused") /\ UNCHANGED <<session, faults>>
    /\ UNCHANGED <<signVars, event, atStripe, key, customer, forgotten>>
    /\ UNCHANGED <<recorded, stripeVars, before>>

CommitCheckout(c) ==
    /\ job[c] = "opened"
    /\ \/ /\ recorded' = recorded \cup {c}
          /\ Answer(c, "url")
          /\ UNCHANGED faults
       \/ Fault /\ At(c, "failing") /\ UNCHANGED <<recorded, reply>>
    /\ UNCHANGED <<signVars, event, atStripe, key, customer, forgotten>>
    /\ UNCHANGED <<session, stripeVars, before>>

\* Only a user sent to Stripe can pay.
Pay(c) ==
    /\ reply[c] = "url" /\ subscription[c] = "none"
    /\ \E st \in {"incomplete", "trialing", "active"} \cap {m[1] : m \in Moves} :
         subscription' = [subscription EXCEPT ![c] = st]
    /\ UNCHANGED <<signVars, provisionVars, outcome, mirror, before>>

Change(c) ==
    /\ \E m \in Moves :
         /\ m[1] = subscription[c] /\ m[2] # m[1]
         /\ subscription' = [subscription EXCEPT ![c] = m[2]]
    /\ UNCHANGED <<signVars, provisionVars, outcome, mirror, before>>

\* What StripeWebhooks does in detail: the customer must have a row, and a new running
\* subscription beside another is refused.
Mirror(c) ==
    /\ mirror[c] # subscription[c]
    /\ customer[for[c]] # None /\ customer[for[c]].customer = session[c]
    /\ mirror[c] = "none" /\ subscription[c] \in Running =>
         \A d \in Mirrored(for[c]) : mirror[d] \notin Running
    /\ mirror' = [mirror EXCEPT ![c] = subscription[c]]
    /\ UNCHANGED <<signVars, provisionVars, outcome, subscription, before>>

\* The process restarts: requests and dispatches in flight are gone, and no later start
\* looks for events that are still pending.
Crash ==
    /\ Fault
    /\ sign' = [s \in SignIns |-> IF sign[s] \in {"unused", "done"} THEN sign[s] ELSE "failed"]
    /\ linked' = [s \in SignIns |-> FALSE]
    /\ loaded' = [s \in SignIns |-> None]
    /\ job' = [j \in Jobs |-> IF job[j] \in {"unused", "over"} THEN job[j] ELSE "dead"]
    /\ holds' = [j \in Jobs |-> None]
    /\ UNCHANGED <<email, account, profile, user, for, event, atStripe, key, customer, forgotten>>
    /\ UNCHANGED <<outcome, stripeVars, before>>

\* What the modules below know nothing about.
Unrelated == UNCHANGED <<outcome, stripeVars, before>>

Next ==
    \/ \E s \in SignIns :
         \/ (FindAccount(s) \/ FindUser(s) \/ SaveSignIn(s)) /\ UNCHANGED provisionVars /\ Unrelated
         \/ (EmitEvent(s) \/ CommitEvent(s) \/ MarkFailed(s)) /\ Unrelated
    \/ \E j \in Jobs : (LookupCustomer(j) \/ CreateCustomer(j)) /\ Unrelated
    \/ \E u \in Users : KeyForgotten(u) /\ Unrelated
    \/ \E c \in Checkouts :
         \/ StartCheckout(c) \/ CheckMirror(c) \/ AskStripe(c) \/ FindPlanAndCustomer(c)
         \/ CommitCustomer(c) \/ AnswerError(c) \/ OpenSession(c) \/ CommitCheckout(c)
         \/ Pay(c) \/ Change(c) \/ Mirror(c)
    \/ Crash

Spec == Init /\ [][Next]_vars

-----------------------------------------------------------------------------
TypeOK ==
    /\ SignInTypeOK
    /\ ProvisioningTypeOK
    /\ session \in [Checkouts -> Jobs \cup {None}]
    /\ recorded \subseteq Checkouts
    /\ reply \in [Checkouts -> {"none", "url", "blocked", "refused", "error"}]
    /\ {subscription, mirror} \subseteq [Checkouts -> Statuses \cup {"none"}]
    /\ before \in [Checkouts -> SUBSET Checkouts]

\* Whatever is paid for at Stripe can be booked: its session is recorded, and belongs to
\* the one customer its user has a row for, so the webhook will find the user.
PaidCanBeBooked ==
    \A c \in Checkouts : subscription[c] # "none" =>
        /\ c \in recorded
        /\ customer[for[c]] # None
        /\ customer[for[c]].customer = session[c]

\* A checkout that began when its user had a subscription at Stripe that still blocks
\* leads to no other, even if no webhook has told the mirror of the first.
NoSecondSubscription ==
    \A c \in Checkouts : reply[c] = "url" =>
        \A d \in before[c] : subscription[d] \notin Blocking

TurnedAway(c) == reply[c] # "blocked" /\ reply'[c] = "blocked"

\* A 409 has its cause: the user has a subscription that blocks, at Stripe or in a mirror
\* that has not been told of its end.  Nobody is turned away for a customer who is not
\* his, however many jobs made customers at once.
TurnedAwayForCause ==
    [][\A c \in Checkouts : TurnedAway(c) =>
         \E d \in Checkouts : /\ for[d] = for[c]
                              /\ {subscription[d], mirror[d]} \cap Blocking # {}]_vars

\* What the account section (not the payments page, not the upgrade modal) may offer user
\* u, with or without an entitlement and whichever of several subscriptions it shows.
AccountMayOffer(u) ==
    LET mine == [d \in {c \in Checkouts : for[c] = u} |-> mirror[d]] IN
    \E entitled \in BOOLEAN : \E r \in Recommendations(mine, entitled) : AccountOffersPlans(r)

\* A user whom the account section, read at that moment, could offer the plans gets a 409
\* only over a subscription of his that blocks at Stripe and that the mirror does not
\* show as blocking: the section and the local check never disagree by themselves.
AccountOfferIsKept ==
    [][\A c \in Checkouts : TurnedAway(c) /\ AccountMayOffer(for[c]) =>
         \E d \in Checkouts : /\ for[d] = for[c]
                              /\ subscription[d] \in Blocking
                              /\ mirror[d] \notin Blocking]_vars
=============================================================================
