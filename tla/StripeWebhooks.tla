---------------------------- MODULE StripeWebhooks ----------------------------
(***************************************************************************)
(* The Stripe webhook pipeline of core/payments: webhook requests and the  *)
(* drain script process persisted Stripe events against the local mirror   *)
(* (subscription, invoice) and grant entitlements.                         *)
(*                                                                         *)
(* Every task is one asyncio task with a database session of its own.  The *)
(* database is PostgreSQL at READ COMMITTED: a statement sees what other   *)
(* tasks have committed, a row that a task has flushed is locked until the *)
(* task commits or rolls back, and a unique index makes the second insert  *)
(* of a key fail.  One action is one run of a task between two points      *)
(* where another task's commit could change what it does.                  *)
(***************************************************************************)
EXTENDS Integers, FiniteSets

CONSTANTS
    Events,         \* Stripe event ids (evt_...), in flight or not yet delivered
    Customers,      \* Stripe customers, one per user
    Subs,           \* Stripe subscriptions
    Invoices,       \* Stripe invoices
    Periods,        \* billed periods <<period_start, period_end>>
    Kind,           \* Kind[e]: the event's type
    Subject,        \* Subject[e]: the subscription or invoice in event.data.object
    Carried,        \* Carried[e]: the status that object has in the payload
    CustomerOf,     \* CustomerOf[e]: the customer id extracted from the payload
    Owner,          \* Owner[s]: the customer of a subscription
    SubOf,          \* SubOf[i]: the subscription an invoice bills, or None
    PeriodOf,       \* PeriodOf[i]: the period an invoice bills
    Requests,       \* webhook request tasks
    Scripts,        \* runs of scripts/drain_stripe_events.py
    DrainLimit,     \* batch limit of a drain (50 in the code)
    MaxCrashes,     \* bound on tasks killed before they finish
    None, Absent

VARIABLES
    customers,      \* rows of stripe.customer
    event,          \* stripe.event: processing_status, Absent when no row
    subscription,   \* stripe.subscription: status, Absent when no row
    invoice,        \* stripe.invoice: status, Absent when no row
    grants,         \* number of entitlement rows written for each invoice
    acked,          \* events Stripe got a 2xx for (Stripe's side)
    applied,        \* history: events whose handler has committed
    rejected,       \* history: events recorded as terminal_failed
    pc, req, cur,   \* task: control, the event of its request, event in hand
    read,           \* task: status it last read from the row it will write
    grant,          \* task: an entitlement row is staged
    verdict,        \* task: the failure status it has still to record
    todo, draining, \* task: events left to drain; process() runs in a drain
    crashes

db == <<customers, event, subscription, invoice, grants>>
history == <<acked, applied, rejected>>
task == <<pc, req, cur, read, grant, verdict, todo, draining>>
vars == <<db, history, task, crashes>>

SubscriptionKinds == {"subscription.created", "subscription.updated", "subscription.deleted"}
InvoiceKinds == {"invoice.paid", "invoice.payment_failed"}
Kinds == SubscriptionKinds \cup InvoiceKinds \cup {"unsupported"}

ActiveStatus == {"active", "trialing"}
SubscriptionStatus == ActiveStatus \cup
    {"incomplete", "incomplete_expired", "past_due", "unpaid", "paused", "canceled"}
InvoiceStatus == {"draft", "open", "paid", "uncollectible", "void"}

Failures == {"retryable_failed", "terminal_failed"}
EventStatus == {"pending", "processed"} \cup Failures

\* What Stripe guarantees of its payloads; the handlers read nothing else.
ASSUME PayloadAssumption ==
    /\ Kind \in [Events -> Kinds]
    /\ Owner \in [Subs -> Customers]
    /\ SubOf \in [Invoices -> Subs \cup {None}]
    /\ PeriodOf \in [Invoices -> Periods]
    /\ CustomerOf \in [Events -> Customers \cup {None}]
    /\ \A e \in Events : Kind[e] \in SubscriptionKinds =>
        /\ Subject[e] \in Subs
        /\ Carried[e] \in SubscriptionStatus
        /\ CustomerOf[e] = Owner[Subject[e]]
    /\ \A e \in Events : Kind[e] \in InvoiceKinds =>
        /\ Subject[e] \in Invoices
        /\ Carried[e] \in InvoiceStatus

ASSUME TaskAssumption ==
    /\ Requests \cap Scripts = {}
    /\ Subs \cap Invoices = {}
    /\ None \notin Events \cup Subs \cup Customers
    /\ Absent \notin SubscriptionStatus \cup InvoiceStatus \cup EventStatus
    /\ DrainLimit \in Nat \ {0}
    /\ MaxCrashes \in Nat

\* Stripe has sent finitely many events, as a table holds finitely many rows.
ASSUME EventsAssumption == IsFiniteSet(Events)

Tasks == Requests \cup Scripts
PC == {"idle", "insert", "start", "checked", "staged", "ready", "list", "drain",
       "failed", "mark"}

InitTasks ==
    /\ pc = [t \in Tasks |-> "idle"]
    /\ req = [t \in Tasks |-> None]
    /\ cur = [t \in Tasks |-> None]
    /\ read = [t \in Tasks |-> Absent]
    /\ grant = [t \in Tasks |-> FALSE]
    /\ verdict = [t \in Tasks |-> "retryable_failed"]
    /\ todo = [t \in Tasks |-> {}]
    /\ draining = [t \in Tasks |-> FALSE]
    /\ crashes = 0

Init ==
    /\ customers = {}
    /\ event = [e \in Events |-> Absent]
    /\ subscription = [s \in Subs |-> Absent]
    /\ invoice = [i \in Invoices |-> Absent]
    /\ grants = [i \in Invoices |-> 0]
    /\ acked = {} /\ applied = {} /\ rejected = {}
    /\ InitTasks

-----------------------------------------------------------------------------
(***************************************************************************)
(* Locks, indexes and control.                                             *)
(***************************************************************************)
\* mark_processing_attempt dirties the event row, so the handler's first query
\* autoflushes it: the row is locked until the task commits or rolls back.
HoldsEvent(t) == pc[t] \in {"checked", "staged", "ready"}
EventLocked(t) == \E u \in Tasks \ {t} : HoldsEvent(u) /\ cur[u] = cur[t]

\* A flushed subscription or invoice row is locked until commit or rollback (the
\* raw payload differs from event to event, so a flush always writes the row).
HoldsRow_FromRead(t) == pc[t] \in {"staged", "ready"}
HoldsRow(t) == pc[t] = "ready"
RowLocked(t) ==
    \E u \in Tasks \ {t} : HoldsRow(u) /\ Subject[cur[u]] = Subject[cur[t]]

Goto(t, label) == pc' = [pc EXCEPT ![t] = label]

\* The task ends: its request is answered or its connection is lost.
Leave(t) ==
    /\ Goto(t, "idle")
    /\ req' = [req EXCEPT ![t] = None]
    /\ cur' = [cur EXCEPT ![t] = None]
    /\ read' = [read EXCEPT ![t] = Absent]
    /\ grant' = [grant EXCEPT ![t] = FALSE]
    /\ verdict' = [verdict EXCEPT ![t] = "retryable_failed"]
    /\ todo' = [todo EXCEPT ![t] = {}]
    /\ draining' = [draining EXCEPT ![t] = FALSE]

\* process() is over: a drain goes on to its next event.
NextInDrain(t) ==
    /\ Goto(t, "drain")
    /\ cur' = [cur EXCEPT ![t] = None]
    /\ read' = [read EXCEPT ![t] = Absent]
    /\ grant' = [grant EXCEPT ![t] = FALSE]
    /\ verdict' = [verdict EXCEPT ![t] = "retryable_failed"]
    /\ UNCHANGED <<req, todo, draining>>

\* process() returned: a request goes on to drain its customer's events.
Returned(t) ==
    IF draining[t]
    THEN NextInDrain(t)
    ELSE /\ Goto(t, "list")
         /\ cur' = [cur EXCEPT ![t] = None]
         /\ read' = [read EXCEPT ![t] = Absent]
         /\ grant' = [grant EXCEPT ![t] = FALSE]
         /\ UNCHANGED <<req, verdict, todo, draining>>

\* An exception in process(): roll back, and remember what to record.
Fail(t, failure) ==
    /\ Goto(t, "failed")
    /\ read' = [read EXCEPT ![t] = Absent]
    /\ grant' = [grant EXCEPT ![t] = FALSE]
    /\ verdict' = [verdict EXCEPT ![t] = failure]
    /\ UNCHANGED <<req, cur, todo, draining, db, history, crashes>>

\* The handler read `status` from the row it will write, and staged its write.
Stage(t, status) ==
    /\ Goto(t, "staged")
    /\ read' = [read EXCEPT ![t] = status]
    /\ UNCHANGED <<req, cur, grant, verdict, todo, draining, db, history, crashes>>

\* The handler's first checks passed; another query follows.
Proceed(t) ==
    /\ Goto(t, "checked")
    /\ UNCHANGED <<req, cur, read, grant, verdict, todo, draining, db, history, crashes>>

\* The handler's write is in the database, uncommitted.
Flushed(t, grants_access) ==
    /\ Goto(t, "ready")
    /\ grant' = [grant EXCEPT ![t] = grants_access]
    /\ UNCHANGED <<req, cur, read, verdict, todo, draining, db, history, crashes>>

-----------------------------------------------------------------------------
(***************************************************************************)
(* A webhook request: PaymentsService.handle_stripe_webhook_event.         *)
(***************************************************************************)
\* The event was already processed: answer 200 and do nothing.
ReceiveProcessed(t, e) ==
    /\ pc[t] = "idle"
    /\ event[e] = "processed"
    /\ acked' = acked \cup {e}
    /\ UNCHANGED <<db, applied, rejected, task, crashes>>

Receive(t, e) ==
    /\ pc[t] = "idle"
    /\ event[e] # "processed"
    /\ Goto(t, IF event[e] = Absent THEN "insert" ELSE "start")
    /\ req' = [req EXCEPT ![t] = e]
    /\ cur' = [cur EXCEPT ![t] = e]
    /\ UNCHANGED <<read, grant, verdict, todo, draining, db, history, crashes>>

InsertEvent(t) ==
    /\ pc[t] = "insert"
    /\ event[cur[t]] = Absent
    /\ event' = [event EXCEPT ![cur[t]] = "pending"]
    /\ Goto(t, "start")
    /\ UNCHANGED <<customers, subscription, invoice, grants, history, crashes,
                   req, cur, read, grant, verdict, todo, draining>>

\* Another delivery inserted the row first: IntegrityError, answered 500.
InsertEventConflict(t) ==
    /\ pc[t] = "insert"
    /\ event[cur[t]] # Absent
    /\ Leave(t)
    /\ UNCHANGED <<db, history, crashes>>

-----------------------------------------------------------------------------
(***************************************************************************)
(* StripeEventProcessor.process and the handlers.  The caller has checked  *)
(* that its copy of the row is not processed; the copy may be stale.       *)
(***************************************************************************)
\* Guard of a handler's first query, which flushes the event row.
Begins(t, kinds) == pc[t] = "start" /\ Kind[cur[t]] \in kinds /\ ~EventLocked(t)

\* Active or trialing subscriptions of the payer other than the event's own.
ConflictingActive(t) ==
    {s \in Subs \ {Subject[cur[t]]} :
        Owner[s] = CustomerOf[cur[t]] /\ subscription[s] \in ActiveStatus}

\* handle_created: _require_local_customer, then the row of the subscription
SubscriptionCreated(t) ==
    LET s == Subject[cur[t]] IN
    /\ Begins(t, {"subscription.created"})
    /\ \/ CustomerOf[cur[t]] \notin customers /\ Fail(t, "retryable_failed")
       \/ /\ CustomerOf[cur[t]] \in customers /\ subscription[s] # Absent
          /\ Stage(t, subscription[s])
       \/ CustomerOf[cur[t]] \in customers /\ subscription[s] = Absent /\ Proceed(t)

\* _ensure_no_conflicting_active_subscription
CheckActiveConflicts(t) ==
    /\ pc[t] = "checked" /\ Kind[cur[t]] = "subscription.created"
    /\ \/ ConflictingActive(t) # {} /\ Fail(t, "terminal_failed")
       \/ ConflictingActive(t) = {} /\ Stage(t, Absent)

\* handle_updated and handle_deleted
SubscriptionChanged(t) ==
    LET s == Subject[cur[t]] IN
    /\ Begins(t, {"subscription.updated", "subscription.deleted"})
    /\ \/ subscription[s] = Absent /\ Fail(t, "retryable_failed")
       \/ subscription[s] # Absent /\ Stage(t, subscription[s])

\* The unique index on the key refuses a second insert.
DuplicateKey(t, row) == read[t] = Absent /\ row[Subject[cur[t]]] # Absent

\* (a repository that commits where it should flush)
FlushSubscription_Commits(t) ==
    /\ pc[t] = "staged" /\ Kind[cur[t]] \in SubscriptionKinds
    /\ ~RowLocked(t) /\ ~DuplicateKey(t, subscription)
    /\ subscription' = [subscription EXCEPT ![Subject[cur[t]]] = Carried[cur[t]]]
    /\ Goto(t, "ready")
    /\ UNCHANGED <<customers, event, invoice, grants, history, crashes,
                   req, cur, read, grant, verdict, todo, draining>>

FlushSubscription(t) ==
    /\ pc[t] = "staged" /\ Kind[cur[t]] \in SubscriptionKinds
    /\ ~RowLocked(t)
    /\ \/ DuplicateKey(t, subscription) /\ Fail(t, "retryable_failed")
       \/ ~DuplicateKey(t, subscription) /\ Flushed(t, FALSE)

\* Invoices for one subscription period are told apart by their id only.
SameWindow(i) == {j \in Invoices : SubOf[j] = SubOf[i] /\ PeriodOf[j] = PeriodOf[i]}
ConflictingInvoices_OwnToo(i) == {j \in SameWindow(i) : invoice[j] # Absent}
ConflictingInvoices(i) == {j \in SameWindow(i) \ {i} : invoice[j] # Absent}
SeveralOf(S) == \E x, y \in S : x # y

\* _require_local_subscription
KnownSubscription_AnyId(i) == SubOf[i] \in Subs
KnownSubscription(i) == SubOf[i] \in Subs /\ subscription[SubOf[i]] # Absent

\* _require_local_subscription, then the period-conflict query, which fails
\* with MultipleResultsFound when it meets two rows.
InvoiceArrives(t) ==
    LET i == Subject[cur[t]]
        known == KnownSubscription(i)
        several == SeveralOf(ConflictingInvoices(i))
        conflict == ConflictingInvoices(i) # {} /\ Kind[cur[t]] = "invoice.paid"
    IN
    /\ Begins(t, InvoiceKinds)
    /\ \/ ~known /\ Fail(t, "retryable_failed")
       \/ known /\ several /\ Fail(t, "retryable_failed")
       \/ known /\ ~several /\ conflict /\ Fail(t, "terminal_failed")
       \/ known /\ ~several /\ ~conflict /\ Proceed(t)

\* get_invoice_by_stripe_invoice_id
LookupInvoice(t) ==
    /\ pc[t] = "checked" /\ Kind[cur[t]] \in InvoiceKinds
    /\ Stage(t, invoice[Subject[cur[t]]])

\* Entitlement rows are matched by subscription and period, not by invoice.
Entitled_NoLookup(i) == FALSE
Entitled_ByInvoice(i) == \E j \in SameWindow(i) : invoice[j] # Absent
Entitled(i) == \E j \in SameWindow(i) : grants[j] > 0
SeveralEntitlements(i) ==
    \/ \E j \in SameWindow(i) : grants[j] > 1
    \/ SeveralOf({j \in SameWindow(i) : grants[j] > 0})

\* get_matching_entitlement autoflushes the invoice row before it reads.
FlushInvoice(t) ==
    LET i == Subject[cur[t]]
        paid == Kind[cur[t]] = "invoice.paid"
    IN
    /\ pc[t] = "staged" /\ Kind[cur[t]] \in InvoiceKinds
    /\ ~RowLocked(t)
    /\ \/ DuplicateKey(t, invoice) /\ Fail(t, "retryable_failed")
       \/ /\ ~DuplicateKey(t, invoice) /\ paid /\ SeveralEntitlements(i)
          /\ Fail(t, "retryable_failed")
       \/ /\ ~DuplicateKey(t, invoice)
          /\ ~(paid /\ SeveralEntitlements(i))
          /\ Flushed(t, paid /\ ~Entitled(i))

\* mark_processed and commit.  An update writes only the columns that differ
\* from what the task read, so an unchanged status does not undo another's.
Committed(t, row) ==
    IF Carried[cur[t]] = read[t] THEN row
    ELSE [row EXCEPT ![Subject[cur[t]]] = Carried[cur[t]]]

MarkProcessed_Completed(t) ==
    /\ event' = [event EXCEPT ![cur[t]] = "completed"]
    /\ applied' = applied \cup {cur[t]}
    /\ Returned(t)
    /\ UNCHANGED <<customers, acked, rejected, crashes>>

MarkProcessed(t) ==
    /\ event' = [event EXCEPT ![cur[t]] = "processed"]
    /\ applied' = applied \cup {cur[t]}
    /\ Returned(t)
    /\ UNCHANGED <<customers, acked, rejected, crashes>>

CommitSubscription(t) ==
    /\ pc[t] = "ready" /\ Kind[cur[t]] \in SubscriptionKinds
    /\ subscription' = Committed(t, subscription)
    /\ MarkProcessed(t)
    /\ UNCHANGED <<invoice, grants>>

CommitInvoice(t) ==
    LET i == Subject[cur[t]] IN
    /\ pc[t] = "ready" /\ Kind[cur[t]] \in InvoiceKinds
    /\ invoice' = Committed(t, invoice)
    /\ grants' = IF grant[t] THEN [grants EXCEPT ![i] = grants[i] + 1] ELSE grants
    /\ MarkProcessed(t)
    /\ UNCHANGED subscription

\* dispatch returns False: no handler runs and the event is marked processed.
IgnoreUnsupported(t) ==
    /\ Begins(t, {"unsupported"})
    /\ MarkProcessed(t)
    /\ UNCHANGED <<subscription, invoice, grants>>

\* _mark_retryable_failed and _mark_terminal_failed: after the rollback the
\* row is read again, and written once no other transaction holds it.
RereadEvent(t) ==
    /\ pc[t] = "failed"
    /\ Goto(t, "mark")
    /\ read' = [read EXCEPT ![t] = event[cur[t]]]
    /\ UNCHANGED <<req, cur, grant, verdict, todo, draining, db, history, crashes>>

\* A request answers 500 to a retryable failure and 200 to a terminal one.
Answers200_Always(t) == pc[t] = "mark"
Answers200(t) == verdict[t] = "terminal_failed"

MarkFailed(t) ==
    /\ pc[t] = "mark" /\ ~EventLocked(t)
    /\ event' = IF read[t] = verdict[t] THEN event
                ELSE [event EXCEPT ![cur[t]] = verdict[t]]
    /\ rejected' = IF verdict[t] = "terminal_failed" THEN rejected \cup {cur[t]} ELSE rejected
    /\ IF draining[t]
       THEN NextInDrain(t) /\ UNCHANGED acked
       ELSE /\ acked' = IF Answers200(t) THEN acked \cup {req[t]} ELSE acked
            /\ Leave(t)
    /\ UNCHANGED <<customers, subscription, invoice, grants, applied, crashes>>

-----------------------------------------------------------------------------
(***************************************************************************)
(* StripeEventDrainer.                                                     *)
(***************************************************************************)
\* The customer id, of the customer itself or of its subscription or invoice, is taken
\* from the payload when the row is created.
EventsOf(c) == {e \in Events : CustomerOf[e] = c}
RetryableOf(c) == {e \in EventsOf(c) : event[e] = "retryable_failed"}
Drainable == {e \in Events : event[e] \in {"pending", "retryable_failed"}}

\* A batch: all candidates, or as many as the limit allows.
IsBatch(S, candidates) ==
    /\ S \subseteq candidates
    /\ Cardinality(S) <= DrainLimit
    /\ S = candidates \/ Cardinality(S) = DrainLimit

\* drain_retryable_for_customer, after a request's event was processed
ListCustomerEvents(t) ==
    /\ pc[t] = "list" /\ CustomerOf[req[t]] # None
    /\ \E S \in SUBSET RetryableOf(CustomerOf[req[t]]) :
        /\ IsBatch(S, RetryableOf(CustomerOf[req[t]]))
        /\ todo' = [todo EXCEPT ![t] = S]
    /\ draining' = [draining EXCEPT ![t] = TRUE]
    /\ Goto(t, "drain")
    /\ UNCHANGED <<req, cur, read, grant, verdict, db, history, crashes>>

NoCustomerToDrain(t) ==
    /\ pc[t] = "list" /\ CustomerOf[req[t]] = None
    /\ acked' = acked \cup {req[t]}
    /\ Leave(t)
    /\ UNCHANGED <<db, applied, rejected, crashes>>

\* drain(limit), one batch of the script
StartDrain(t) ==
    /\ pc[t] = "idle" /\ Drainable # {}
    /\ \E S \in SUBSET Drainable : IsBatch(S, Drainable) /\ todo' = [todo EXCEPT ![t] = S]
    /\ draining' = [draining EXCEPT ![t] = TRUE]
    /\ Goto(t, "drain")
    /\ UNCHANGED <<req, cur, read, grant, verdict, db, history, crashes>>

\* _drain_one reads the row in a new session; received_at order is abstracted.
DrainOne_UntilProcessed(t) ==
    /\ pc[t] = "drain"
    /\ \E e \in todo[t] :
        IF event[e] = "processed"
        THEN todo' = [todo EXCEPT ![t] = @ \ {e}] /\ UNCHANGED <<pc, cur>>
        ELSE Goto(t, "start") /\ cur' = [cur EXCEPT ![t] = e] /\ UNCHANGED todo
    /\ UNCHANGED <<req, read, grant, verdict, draining, db, history, crashes>>

DrainOne(t) ==
    /\ pc[t] = "drain"
    /\ \E e \in todo[t] :
        /\ todo' = [todo EXCEPT ![t] = @ \ {e}]
        /\ IF event[e] = "processed"
           THEN UNCHANGED <<pc, cur>>
           ELSE Goto(t, "start") /\ cur' = [cur EXCEPT ![t] = e]
    /\ UNCHANGED <<req, read, grant, verdict, draining, db, history, crashes>>

DrainDone(t) ==
    /\ pc[t] = "drain" /\ todo[t] = {}
    /\ acked' = IF req[t] = None THEN acked ELSE acked \cup {req[t]}
    /\ Leave(t)
    /\ UNCHANGED <<db, applied, rejected, crashes>>

-----------------------------------------------------------------------------
(***************************************************************************)
(* The surroundings, the next-state relation and fairness.                 *)
(***************************************************************************)
\* The process or the connection dies: PostgreSQL rolls the transaction back.
Crash(t) ==
    /\ pc[t] # "idle" /\ crashes < MaxCrashes
    /\ crashes' = crashes + 1
    /\ Leave(t)
    /\ UNCHANGED <<db, history>>

\* provision_customer commits a stripe.customer row.
ProvisionCustomer(c) ==
    /\ c \notin customers
    /\ customers' = customers \cup {c}
    /\ UNCHANGED <<event, subscription, invoice, grants, history, task, crashes>>

Step(t) ==
    \/ InsertEvent(t) \/ InsertEventConflict(t)
    \/ SubscriptionCreated(t) \/ CheckActiveConflicts(t) \/ SubscriptionChanged(t)
    \/ FlushSubscription(t) \/ CommitSubscription(t)
    \/ InvoiceArrives(t) \/ LookupInvoice(t) \/ FlushInvoice(t) \/ CommitInvoice(t)
    \/ IgnoreUnsupported(t) \/ RereadEvent(t) \/ MarkFailed(t)
    \/ ListCustomerEvents(t) \/ NoCustomerToDrain(t) \/ DrainOne(t) \/ DrainDone(t)

Next ==
    \/ \E t \in Requests, e \in Events : Receive(t, e) \/ ReceiveProcessed(t, e)
    \/ \E t \in Scripts : StartDrain(t)
    \/ \E t \in Tasks : Step(t) \/ Crash(t)
    \/ \E c \in Customers : ProvisionCustomer(c)

Spec == Init /\ [][Next]_vars

-----------------------------------------------------------------------------
(***************************************************************************)
(* Fairness: a task that can run does (waiters of a PostgreSQL row lock    *)
(* are served in order, hence strong), Stripe redelivers until it gets a   *)
(* 2xx, and a customer row is eventually committed.                        *)
(***************************************************************************)
Redeliver(e) ==
    /\ e \notin acked
    /\ \E t \in Requests : Receive(t, e) \/ ReceiveProcessed(t, e)

FairSpec ==
    /\ Spec
    /\ \A t \in Tasks : SF_vars(Step(t))
    /\ \A e \in Events : SF_vars(Redeliver(e))
    /\ \A c \in Customers : WF_vars(ProvisionCustomer(c))

-----------------------------------------------------------------------------
(***************************************************************************)
(* Properties.                                                             *)
(***************************************************************************)
\* Every variable keeps its type; a task out of idle has an event in hand
\* whenever it is inside process().
TypeOK ==
    /\ customers \subseteq Customers
    /\ event \in [Events -> EventStatus \cup {Absent}]
    /\ subscription \in [Subs -> SubscriptionStatus \cup {Absent}]
    /\ invoice \in [Invoices -> InvoiceStatus \cup {Absent}]
    /\ grants \in [Invoices -> Nat]
    /\ acked \subseteq Events /\ applied \subseteq Events /\ rejected \subseteq Events
    /\ pc \in [Tasks -> PC]
    /\ req \in [Tasks -> Events \cup {None}]
    /\ cur \in [Tasks -> Events \cup {None}]
    /\ read \in [Tasks -> EventStatus \cup SubscriptionStatus \cup InvoiceStatus \cup {Absent}]
    /\ grant \in [Tasks -> BOOLEAN]
    /\ verdict \in [Tasks -> Failures]
    /\ todo \in [Tasks -> SUBSET Events]
    /\ draining \in [Tasks -> BOOLEAN]
    /\ crashes \in 0..MaxCrashes

\* An entitlement exists only for an invoice that is mirrored, of a mirrored
\* subscription whose customer is known, and for which an invoice.paid event
\* was applied: no interleaving or rollback leaves access without its cause
\* (InvoiceWebhookHandler.handle_paid).
GrantIsBacked ==
    \A i \in Invoices : grants[i] > 0 =>
        /\ invoice[i] # Absent
        /\ SubOf[i] \in Subs /\ subscription[SubOf[i]] # Absent
        /\ Owner[SubOf[i]] \in customers
        /\ \E e \in applied : Kind[e] = "invoice.paid" /\ Subject[e] = i

\* However often the events of an invoice are delivered, retried, drained or
\* processed by two tasks at once, the invoice is granted one entitlement row
\* at most (the idempotency handle_paid claims).
OneGrantPerInvoice == \A i \in Invoices : grants[i] <= 1

\* A payment recorded as processed has its effect: the invoice is mirrored and
\* an entitlement row covers the subscription's billed period.
PaidIsEntitled ==
    \A e \in Events : event[e] = "processed" /\ Kind[e] = "invoice.paid" =>
        /\ invoice[Subject[e]] # Absent
        /\ \E j \in SameWindow(Subject[e]) : grants[j] > 0

\* Stripe stops redelivering an event only when its effects are committed or it
\* was recorded as terminal_failed: a 2xx never loses an event, whatever
\* crashes, races or drains happen (handle_stripe_webhook_event).
AcknowledgedIsSettled == acked \subseteq applied \cup rejected

\* Only anomalies are rejected for good: a second subscription of a customer
\* that has one, or a second invoice for a billed period (the two
\* NonRetryableStripeWebhookErrors of the handlers).
Anomaly(e) ==
    \/ /\ Kind[e] = "subscription.created"
       /\ \E s \in Subs \ {Subject[e]} :
            Owner[s] = CustomerOf[e] /\ subscription[s] # Absent
    \/ /\ Kind[e] = "invoice.paid"
       /\ \E j \in SameWindow(Subject[e]) \ {Subject[e]} : invoice[j] # Absent
RejectedIsAnomaly == \A e \in rejected : Anomaly(e)

\* A row is in the mirror exactly when an event of it has been applied, and its
\* status is one that such an event carried: neither a write on a stale read, nor
\* one left out because nothing seemed to change, nor a failure or crash after the
\* flush, leaves a row that no applied event accounts for (handle_created,
\* handle_updated, handle_deleted, _create_or_update_invoice).
Sent(kinds, row) ==
    {Carried[e] : e \in {x \in applied : Kind[x] \in kinds /\ Subject[x] = row}}
Follows(status, sent) == IF sent = {} THEN status = Absent ELSE status \in sent
MirrorFollowsEvents ==
    /\ \A s \in Subs : Follows(subscription[s], Sent(SubscriptionKinds, s))
    /\ \A i \in Invoices : Follows(invoice[i], Sent(InvoiceKinds, i))

\* Tasks never wait for each other in a cycle: while any task is at work, some
\* task waits for no row, whatever rows the others hold (each transaction locks
\* its event row first and one mirror row last).
WaitsForEvent(t) == pc[t] \in {"start", "mark"} /\ EventLocked(t)
WaitsForRow(t) == pc[t] = "staged" /\ RowLocked(t)
GoesOn(t) == pc[t] # "idle" /\ ~WaitsForEvent(t) /\ ~WaitsForRow(t)
NoLockCycle == (\E t \in Tasks : pc[t] # "idle") => \E t \in Tasks : GoesOn(t)

\* An activation of a task ends after a bounded number of its own steps, eight for
\* the event of its request and eight for each event of its batch at most, whatever
\* fails and whatever others do meanwhile: no failure sends a handler or a drain
\* back to an event it has left (StripeEventProcessor.process, StripeEventDrainer).
StepsInHand ==
    [insert |-> 8, start |-> 7, checked |-> 6, staged |-> 5, ready |-> 4, failed |-> 3,
     mark |-> 2, list |-> 1, drain |-> 1, idle |-> 0]
StepsLeft(t) ==
    IF pc[t] = "idle" THEN 0
    ELSE StepsInHand[pc[t]] + 8 * Cardinality(todo[t])
         + (IF draining[t] THEN 0 ELSE 8 * DrainLimit + 1)
StepsLimit == 8 * DrainLimit + 9
TasksAdvance ==
    [][\A t \in Tasks : Step(t) =>
        StepsLeft(t) <= StepsLimit /\ StepsLeft(t)' \in 0 .. StepsLeft(t) - 1]_vars

\* Once the subscription of an event is mirrored, the event is settled: applied,
\* or rejected as an anomaly, in spite of crashes, lost answers and races of its
\* redeliveries.  Not so for an invoice that shares its billed period: once two
\* such invoices are mirrored, the queries of a third fail on every retry.
SubscriptionOf(e) == IF Kind[e] \in InvoiceKinds THEN SubOf[Subject[e]] ELSE Subject[e]
Uncontested(e) == Kind[e] \in InvoiceKinds => SameWindow(Subject[e]) = {Subject[e]}
EventuallySettled ==
    \A e \in Events : Kind[e] \in SubscriptionKinds \cup InvoiceKinds /\ Uncontested(e) =>
        (subscription[SubscriptionOf(e)] # Absent) ~> (e \in applied \cup rejected)

\* An attempt at such an event fails only by losing a race: it found no row of its
\* own, another task has inserted it since, and so the retry will find it.
MirrorRow(e) == IF Kind[e] \in InvoiceKinds THEN invoice[Subject[e]] ELSE subscription[Subject[e]]
Settleable(e) ==
    /\ Kind[e] \in SubscriptionKinds \cup InvoiceKinds /\ Uncontested(e)
    /\ SubscriptionOf(e) \in Subs /\ subscription[SubscriptionOf(e)] # Absent
FailsOnlyInARace ==
    [][\A t \in Tasks :
        pc[t] # "failed" /\ pc'[t] = "failed" /\ Settleable(cur[t]) =>
            pc[t] # "start" /\ read[t] = Absent /\ MirrorRow(cur[t]) # Absent]_vars

\* The pipeline implements the ledger: whatever the interleaving, each commit is
\* one atomic ledger step, and everything else leaves the ledger alone.
Ledger == INSTANCE EntitlementLedger WITH
    mirrored <- {s \in Subs : subscription[s] # Absent},
    billed <- {i \in Invoices : invoice[i] # Absent},
    access <- {<<SubOf[i], PeriodOf[i]>> : i \in {j \in Invoices : grants[j] > 0}}
ImplementsLedger == Ledger!Spec

\* "Reject anomalies like a second different active subscription for one user"
\* (handlers/subscription.py:20).
OneActiveSubscription ==
    \A s1, s2 \in Subs :
        /\ Owner[s1] = Owner[s2]
        /\ subscription[s1] \in ActiveStatus /\ subscription[s2] \in ActiveStatus
        => s1 = s2

\* "Process one persisted Stripe event and persist its terminal state"
\* (webhooks/processor.py:16): a processed event stays processed.
ProcessedIsFinal == [][\A e \in Events : event[e] = "processed" => event'[e] = "processed"]_event

\* "Reject anomalies like two different invoice ids for the same period"
\* (handlers/invoice.py:17): one entitlement row per subscription and period.
OneGrantPerPeriod == \A i \in Invoices : ~SeveralEntitlements(i)

=============================================================================
