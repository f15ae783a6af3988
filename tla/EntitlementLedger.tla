--------------------------- MODULE EntitlementLedger ---------------------------
(***************************************************************************)
(* What the webhook pipeline promises about access, with every event       *)
(* handled in one atomic step and no tasks, locks, retries or crashes:     *)
(* subscriptions and invoices are mirrored, never forgotten, and a billed  *)
(* period is opened in the same step that mirrors a paid invoice of it.    *)
(***************************************************************************)
CONSTANTS Subs, Invoices,
          SubOf,        \* SubOf[i]: the subscription an invoice bills
          PeriodOf      \* PeriodOf[i]: the period it bills

VARIABLES mirrored,     \* subscriptions with a local row
          billed,       \* invoices with a local row
          access        \* <<subscription, period>> pairs with an entitlement

ledgerVars == <<mirrored, billed, access>>

Window(i) == <<SubOf[i], PeriodOf[i]>>

Init == mirrored = {} /\ billed = {} /\ access = {}

MirrorSubscription(s) ==
    /\ s \notin mirrored
    /\ mirrored' = mirrored \cup {s}
    /\ UNCHANGED <<billed, access>>

\* A payment failed: a billing record only.
RecordInvoice(i) ==
    /\ SubOf[i] \in mirrored
    /\ billed' = billed \cup {i}
    /\ UNCHANGED <<mirrored, access>>

\* A payment succeeded: the record and the access it pays for.
GrantPeriod(i) ==
    /\ SubOf[i] \in mirrored
    /\ billed' = billed \cup {i}
    /\ access' = access \cup {Window(i)}
    /\ UNCHANGED mirrored

Next ==
    \/ \E s \in Subs : MirrorSubscription(s)
    \/ \E i \in Invoices : RecordInvoice(i) \/ GrantPeriod(i)

Spec == Init /\ [][Next]_ledgerVars

=============================================================================
