-------------------------------- MODULE Billing --------------------------------
(***************************************************************************)
(* What the mirror of a user's subscriptions means: which one is shown,    *)
(* what GET /payments/me recommends, and which ones stop a second          *)
(* checkout.  A mirror is a function from subscriptions to their status,   *)
(* "none" for one that has no row.                                         *)
(***************************************************************************)
EXTENDS Naturals

Statuses ==
    {"incomplete", "incomplete_expired", "trialing", "active", "past_due", "unpaid", "paused", "canceled"}
Running == {"trialing", "active"}
Recovering == {"past_due", "unpaid", "paused"}
Ended == {"canceled", "incomplete_expired"}

\* get_blocking_checkout_subscription_by_user_id and _get_blocking_stripe_subscription
\* list the same statuses.
Blocking == Running \cup Recovering

Rank(status) ==
    CASE status \in Running      -> 0
      [] status \in Recovering   -> 1
      [] status = "incomplete"   -> 2
      [] status \in Ended        -> 3

\* Statuses of the subscription shown; which of two equals is the newer is left open.
MostRelevant(mirror) ==
    LET present == {mirror[x] : x \in DOMAIN mirror} \ {"none"} IN
    {st \in present : \A other \in present : Rank(st) <= Rank(other)}

\* Mutant: a subscription without an entitlement is taken for a lapsed one, whatever its
\* status.
Recommendation_Unentitled(status, entitled) ==
    CASE status = "none"                       -> IF entitled THEN "none" ELSE "subscribe"
      [] OTHER                                 -> IF entitled THEN "none" ELSE "resubscribe"
Recommendation(status, entitled) ==
    CASE status = "none"                       -> IF entitled THEN "none" ELSE "subscribe"
      [] status \in Recovering                 -> "payment_failed"
      [] status = "trialing" /\ entitled       -> "trial_active"
      [] status \in Running                    -> "manage_subscription"
      [] status \in Ended /\ ~entitled         -> "resubscribe"
      [] OTHER                                 -> IF entitled THEN "none" ELSE "subscribe"

\* The recommendations GET /payments/me may make.
Recommendations(mirror, entitled) ==
    LET shown == MostRelevant(mirror) IN
    {Recommendation(st, entitled) : st \in IF shown = {} THEN {"none"} ELSE shown}

\* The billing section of the account page has a button to the plans for these, and
\* can_start_checkout enables it.  The payments page and the upgrade modal ask for no
\* recommendation and offer the plans to everybody.
AccountOffersPlans(recommendation) == recommendation \in {"subscribe", "resubscribe"}
=============================================================================
