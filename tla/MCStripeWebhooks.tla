--------------------------- MODULE MCStripeWebhooks ---------------------------
(* One customer, two subscriptions s1 and s2 that Stripe reports active, and  *)
(* invoices i1, i2, i3 of s1 for the same billed period.  Each run takes     *)
(* the events it needs.                                                       *)
EXTENDS StripeWebhooks, TLC

CONSTANTS c1, s1, s2, i1, i2, i3, i4, p1,
          began1, created1, created2, updated1, deleted1, failed1, failed3, paid1, paid2, orphan, other

MCKind ==
    created1 :> "subscription.created" @@ created2 :> "subscription.created" @@
    began1 :> "subscription.created" @@ updated1 :> "subscription.updated" @@
    deleted1 :> "subscription.deleted" @@
    failed1 :> "invoice.payment_failed" @@ failed3 :> "invoice.payment_failed" @@
    paid1 :> "invoice.paid" @@ paid2 :> "invoice.paid" @@ orphan :> "invoice.paid" @@
    other :> "unsupported"
MCSubject ==
    began1 :> s1 @@ updated1 :> s1 @@
    created1 :> s1 @@ created2 :> s2 @@ deleted1 :> s1 @@
    failed1 :> i1 @@ failed3 :> i3 @@ paid1 :> i1 @@ paid2 :> i2 @@
    orphan :> i4 @@ other :> None
MCCarried ==
    began1 :> "incomplete" @@ updated1 :> "active" @@
    created1 :> "active" @@ created2 :> "active" @@ deleted1 :> "canceled" @@
    failed1 :> "open" @@ failed3 :> "open" @@ paid1 :> "paid" @@ paid2 :> "paid" @@
    orphan :> "paid" @@ other :> None
MCCustomerOf == [e \in DOMAIN MCKind |-> IF e = other THEN None ELSE c1]

\* i4 is a one-off invoice: it names no subscription.
MCSubOf == i1 :> s1 @@ i2 :> s1 @@ i3 :> s1 @@ i4 :> None
MCPeriodOf == i1 :> p1 @@ i2 :> p1 @@ i3 :> p1 @@ i4 :> p1

\* The payload functions restricted to the events and invoices of the run.
EventsKind == [e \in Events |-> MCKind[e]]
EventsSubject == [e \in Events |-> MCSubject[e]]
EventsCarried == [e \in Events |-> MCCarried[e]]
EventsCustomerOf == [e \in Events |-> MCCustomerOf[e]]
SubsOwner == [s \in Subs |-> c1]
InvoicesSubOf == [i \in Invoices |-> MCSubOf[i]]
InvoicesPeriodOf == [i \in Invoices |-> MCPeriodOf[i]]

\* The customer has signed up: created1 has been applied and acknowledged.
InitSubscribed ==
    /\ customers = {c1}
    /\ event = [e \in Events |-> IF e = created1 THEN "processed" ELSE Absent]
    /\ subscription = [s \in Subs |-> IF s = s1 THEN "active" ELSE Absent]
    /\ acked = Events \cap {created1} /\ applied = acked /\ rejected = {}
    /\ invoice = [i \in Invoices |-> Absent]
    /\ grants = [i \in Invoices |-> 0]
    /\ InitTasks
SpecSubscribed == InitSubscribed /\ [][Next]_vars

Symmetry == Permutations(Requests)
=============================================================================
