------------------------ MODULE StripeWebhooks_proofs ------------------------
(***************************************************************************)
(* Proofs about the webhook pipeline, for every finite set of events and   *)
(* every set of customers, subscriptions, invoices and tasks, and every    *)
(* bound on batches and crashes.  Four invariants are proved one after     *)
(* the other: the types and the control state of each task (TypeInv), what *)
(* a task has validated and read (WorkInv), that rows are held and granted *)
(* once (GrantInv), and what the database and the history record of each   *)
(* event (RecordInv).  The safety properties, the refinement and the facts *)
(* behind progress follow, and how far the violated properties can fail.   *)
(***************************************************************************)
EXTENDS StripeWebhooks, FiniteSetTheorems, TLAPS

(***************************************************************************)
(* Types and control.                                                      *)
(***************************************************************************)
InProcess == {"insert", "start", "checked", "staged", "ready", "failed", "mark"}

\* Where the event of a request and the event in hand stand at each label.
Control(t) ==
    /\ pc[t] = "idle" => req[t] = None /\ ~draining[t]
    /\ pc[t] \in InProcess => cur[t] \in Events
    /\ pc[t] \in InProcess /\ ~draining[t] => req[t] = cur[t]
    /\ pc[t] = "list" => req[t] \in applied /\ ~draining[t]
    /\ pc[t] = "drain" => draining[t]
    /\ draining[t] /\ req[t] # None => req[t] \in applied
    /\ pc[t] = "checked" => Kind[cur[t]] \in InvoiceKinds \cup {"subscription.created"}
    /\ pc[t] \in {"staged", "ready"} => Kind[cur[t]] \in InvoiceKinds \cup SubscriptionKinds

TypeInv == TypeOK /\ \A t \in Tasks : Control(t)

\* The moves that process() and the handlers are built from.
LEMMA FailType ==
    ASSUME TypeInv, NEW t \in Tasks, pc[t] \in InProcess,
           NEW failure \in Failures, Fail(t, failure)
    PROVE  TypeInv'
  BY DEF TypeInv, TypeOK, Control, InProcess, Fail, Goto, PC, db, history

LEMMA StageType ==
    ASSUME TypeInv, NEW t \in Tasks, pc[t] \in InProcess,
           NEW status \in SubscriptionStatus \cup InvoiceStatus \cup {Absent}, Stage(t, status),
           Kind[cur[t]] \in InvoiceKinds \cup SubscriptionKinds
    PROVE  TypeInv'
  BY DEF TypeInv, TypeOK, Control, InProcess, Stage, Goto, PC, db, history

LEMMA ProceedType ==
    ASSUME TypeInv, NEW t \in Tasks, pc[t] \in InProcess, Proceed(t),
           Kind[cur[t]] \in InvoiceKinds \cup {"subscription.created"}
    PROVE  TypeInv'
  BY DEF TypeInv, TypeOK, Control, InProcess, Proceed, Goto, PC, db, history

LEMMA FlushedType ==
    ASSUME TypeInv, NEW t \in Tasks, pc[t] \in InProcess, NEW g \in BOOLEAN, Flushed(t, g),
           Kind[cur[t]] \in InvoiceKinds \cup SubscriptionKinds
    PROVE  TypeInv'
  BY DEF TypeInv, TypeOK, Control, InProcess, Flushed, Goto, PC, db, history

\* The event in hand of a task that runs a handler, and its payload.
LEMMA InHand ==
    ASSUME TypeInv, NEW t \in Tasks, pc[t] \in InProcess
    PROVE  /\ cur[t] \in Events
           /\ Kind[cur[t]] \in SubscriptionKinds => /\ Subject[cur[t]] \in Subs
                                                   /\ Carried[cur[t]] \in SubscriptionStatus
                                                   /\ CustomerOf[cur[t]] = Owner[Subject[cur[t]]]
           /\ Kind[cur[t]] \in InvoiceKinds => /\ Subject[cur[t]] \in Invoices
                                              /\ Carried[cur[t]] \in InvoiceStatus
  BY PayloadAssumption DEF TypeInv, Control

LEMMA RequestType ==
    ASSUME TypeInv, NEW t \in Tasks, NEW e \in Events,
           \/ t \in Requests /\ (Receive(t, e) \/ ReceiveProcessed(t, e))
           \/ InsertEvent(t) \/ InsertEventConflict(t)
    PROVE  TypeInv'
<1>1. CASE Receive(t, e) \/ ReceiveProcessed(t, e)
  BY <1>1 DEF TypeInv, TypeOK, Control, InProcess, Receive, ReceiveProcessed, Goto,
     PC, db, history, task, EventStatus
<1>2. CASE InsertEvent(t)
  BY <1>2 DEF TypeInv, TypeOK, Control, InProcess, InsertEvent, Goto, PC, history, EventStatus
<1>3. CASE InsertEventConflict(t)
  BY <1>3 DEF TypeInv, TypeOK, Control, InProcess, InsertEventConflict, Leave, Goto, PC,
     db, history, Failures
<1>. QED BY <1>1, <1>2, <1>3

LEMMA SubscriptionType ==
    ASSUME TypeInv, NEW t \in Tasks,
           SubscriptionCreated(t) \/ CheckActiveConflicts(t) \/ SubscriptionChanged(t)
              \/ FlushSubscription(t)
    PROVE  TypeInv'
<1>. USE DEF InProcess, Failures
<1>1. CASE SubscriptionCreated(t)
  <2>1. /\ pc[t] \in InProcess /\ Kind[cur[t]] = "subscription.created"
        /\ subscription[Subject[cur[t]]] \in SubscriptionStatus \cup {Absent}
    BY <1>1, InHand DEF SubscriptionCreated, Begins, SubscriptionKinds, TypeInv, TypeOK
  <2>. QED BY <1>1, <2>1, FailType, StageType, ProceedType DEF SubscriptionCreated, SubscriptionKinds
<1>2. CASE CheckActiveConflicts(t)
  BY <1>2, FailType, StageType DEF CheckActiveConflicts, SubscriptionKinds
<1>3. CASE SubscriptionChanged(t)
  <2>1. /\ pc[t] \in InProcess /\ Kind[cur[t]] \in SubscriptionKinds
        /\ subscription[Subject[cur[t]]] \in SubscriptionStatus \cup {Absent}
    BY <1>3, InHand DEF SubscriptionChanged, Begins, SubscriptionKinds, TypeInv, TypeOK
  <2>. QED BY <1>3, <2>1, FailType, StageType DEF SubscriptionChanged
<1>4. CASE FlushSubscription(t)
  BY <1>4, FailType, FlushedType DEF FlushSubscription
<1>. QED BY <1>1, <1>2, <1>3, <1>4

LEMMA InvoiceType ==
    ASSUME TypeInv, NEW t \in Tasks,
           InvoiceArrives(t) \/ LookupInvoice(t) \/ FlushInvoice(t)
    PROVE  TypeInv'
<1>. USE DEF InProcess, Failures
<1>1. CASE InvoiceArrives(t)
  BY <1>1, FailType, ProceedType DEF InvoiceArrives, Begins
<1>2. CASE LookupInvoice(t)
  <2>1. invoice[Subject[cur[t]]] \in InvoiceStatus \cup {Absent}
    BY <1>2, InHand DEF LookupInvoice, TypeInv, TypeOK
  <2>. QED BY <1>2, <2>1, StageType DEF LookupInvoice
<1>3. CASE FlushInvoice(t)
  BY <1>3, FailType, FlushedType DEF FlushInvoice
<1>. QED BY <1>1, <1>2, <1>3

\* MarkProcessed moves on to the drain of the request, or to the next event of one.
LEMMA MarkProcessedType ==
    ASSUME TypeInv, NEW t \in Tasks, pc[t] \in InProcess, MarkProcessed(t),
           subscription' \in [Subs -> SubscriptionStatus \cup {Absent}],
           invoice' \in [Invoices -> InvoiceStatus \cup {Absent}],
           grants' \in [Invoices -> Nat]
    PROVE  TypeInv'
<1>. USE DEF MarkProcessed, Returned, NextInDrain, Goto
<1>1. cur[t] \in Events /\ (~draining[t] => req[t] = cur[t])
  BY DEF TypeInv, Control
<1>2. TypeOK'
  <2>. USE DEF TypeInv, TypeOK
  <2>1. /\ event' \in [Events -> EventStatus \cup {Absent}]
        /\ UNCHANGED <<customers, acked, rejected, crashes, req, todo, draining>>
        /\ applied' \subseteq Events
    BY <1>1 DEF EventStatus
  <2>2. pc' \in [Tasks -> PC] /\ verdict' \in [Tasks -> Failures]
    BY DEF PC, Failures
  <2>3. /\ cur' \in [Tasks -> Events \cup {None}]
        /\ read' \in [Tasks -> EventStatus \cup SubscriptionStatus \cup InvoiceStatus \cup {Absent}]
        /\ grant' \in [Tasks -> BOOLEAN]
    OBVIOUS
  <2>. HIDE DEF MarkProcessed
  <2>. QED BY <2>1, <2>2, <2>3
<1>3. ASSUME NEW u \in Tasks PROVE Control(u)'
  <2>1. CASE u = t
    BY <1>1, <2>1 DEF TypeInv, TypeOK, Control, InProcess
  <2>2. CASE u # t
    BY <1>1, <2>2 DEF TypeInv, TypeOK, Control, InProcess
  <2>. QED BY <2>1, <2>2
<1>. QED BY <1>2, <1>3 DEF TypeInv

LEMMA CommitType ==
    ASSUME TypeInv, NEW t \in Tasks,
           CommitSubscription(t) \/ CommitInvoice(t) \/ IgnoreUnsupported(t)
    PROVE  TypeInv'
<1>1. pc[t] \in InProcess
  BY DEF CommitSubscription, CommitInvoice, IgnoreUnsupported, Begins, InProcess
<1>2. CASE CommitSubscription(t)
  BY <1>1, <1>2, InHand, MarkProcessedType DEF CommitSubscription, Committed, TypeInv, TypeOK
<1>3. CASE CommitInvoice(t)
  BY <1>1, <1>3, InHand, MarkProcessedType DEF CommitInvoice, Committed, TypeInv, TypeOK
<1>4. CASE IgnoreUnsupported(t)
  BY <1>1, <1>4, MarkProcessedType DEF IgnoreUnsupported, TypeInv, TypeOK
<1>. QED BY <1>2, <1>3, <1>4

\* The task variables after a task is released.
Released ==
    /\ pc' \in [Tasks -> PC]
    /\ req' \in [Tasks -> Events \cup {None}]
    /\ cur' \in [Tasks -> Events \cup {None}]
    /\ read' \in [Tasks -> EventStatus \cup SubscriptionStatus \cup InvoiceStatus \cup {Absent}]
    /\ grant' \in [Tasks -> BOOLEAN]
    /\ verdict' \in [Tasks -> Failures]
    /\ todo' \in [Tasks -> SUBSET Events]
    /\ draining' \in [Tasks -> BOOLEAN]

LEMMA TaskTypes ==
    ASSUME TypeOK, NEW t \in Tasks, Leave(t) \/ NextInDrain(t)
    PROVE  Released
  BY DEF TypeOK, Released, Leave, NextInDrain, Goto, PC, Failures

LEMMA FailureType ==
    ASSUME TypeInv, NEW t \in Tasks, RereadEvent(t) \/ MarkFailed(t)
    PROVE  TypeInv'
<1>1. CASE RereadEvent(t)
  <2>1. pc[t] \in InProcess /\ cur[t] \in Events
    BY <1>1, InHand DEF RereadEvent, InProcess
  <2>2. event[cur[t]] \in EventStatus \cup {Absent}
    BY <2>1 DEF TypeInv, TypeOK
  <2>. QED BY <1>1, <2>1, <2>2 DEF RereadEvent, TypeInv, TypeOK, Control, InProcess, Goto, PC, db, history
<1>2. CASE MarkFailed(t)
  <2>1. cur[t] \in Events /\ (~draining[t] => req[t] = cur[t]) /\ verdict[t] \in EventStatus
    BY <1>2 DEF MarkFailed, TypeInv, TypeOK, Control, InProcess, EventStatus
  <2>2. /\ event' \in [Events -> EventStatus \cup {Absent}]
        /\ acked' \subseteq Events /\ rejected' \subseteq Events
    BY <1>2, <2>1 DEF MarkFailed, TypeInv, TypeOK
  <2>3. Leave(t) \/ NextInDrain(t)
    BY <1>2 DEF MarkFailed
  <2>4. TypeOK'
    BY <1>2, <2>2, <2>3, TaskTypes DEF MarkFailed, TypeInv, TypeOK, Released
  <2>5. ASSUME NEW u \in Tasks PROVE Control(u)'
    <3>1. CASE draining[t]
      BY <1>2, <2>1, <3>1 DEF MarkFailed, NextInDrain, TypeInv, TypeOK, Control, InProcess, Goto
    <3>2. CASE ~draining[t]
      BY <1>2, <2>1, <3>2 DEF MarkFailed, Leave, TypeInv, TypeOK, Control, InProcess, Goto
    <3>. QED BY <3>1, <3>2
  <2>. QED BY <2>4, <2>5 DEF TypeInv
<1>. QED BY <1>1, <1>2

LEMMA DrainType ==
    ASSUME TypeInv, NEW t \in Tasks,
           \/ ListCustomerEvents(t) \/ NoCustomerToDrain(t) \/ StartDrain(t)
           \/ DrainOne(t) \/ DrainDone(t)
    PROVE  TypeInv'
<1>. USE DEF TypeInv, TypeOK, Control, InProcess, Goto, PC, db, history
<1>1. CASE ListCustomerEvents(t)
  BY <1>1 DEF ListCustomerEvents, RetryableOf, EventsOf
<1>2. CASE NoCustomerToDrain(t)
  BY <1>2 DEF NoCustomerToDrain, Leave, Failures
<1>3. CASE StartDrain(t)
  BY <1>3 DEF StartDrain, Drainable
<1>4. CASE DrainOne(t)
  BY <1>4 DEF DrainOne
<1>5. CASE DrainDone(t)
  BY <1>5 DEF DrainDone, Leave, Failures
<1>. QED BY <1>1, <1>2, <1>3, <1>4, <1>5

LEMMA CrashType ==
    ASSUME TypeInv, NEW t \in Tasks, Crash(t)
    PROVE  TypeInv'
  BY TaskAssumption DEF TypeInv, TypeOK, Control, InProcess, Crash, Leave, Goto, PC, Failures, db, history

LEMMA TypeInit == Init => TypeInv
  BY TaskAssumption DEF Init, InitTasks, TypeInv, TypeOK, Control, InProcess, PC, Failures

\* Every step of the pipeline is one of these.
Did(t) ==
    \/ t \in Requests /\ \E e \in Events : Receive(t, e) \/ ReceiveProcessed(t, e)
    \/ StartDrain(t) \/ Step(t) \/ Crash(t)

LEMMA NextCases ==
    ASSUME Next
    PROVE  (\E t \in Tasks : Did(t)) \/ (\E c \in Customers : ProvisionCustomer(c))
  BY DEF Next, Did, Tasks

LEMMA TypeStep ==
    ASSUME TypeInv, [Next]_vars
    PROVE  TypeInv'
<1>1. ASSUME NEW t \in Tasks, Did(t) PROVE TypeInv'
  <2>1. CASE \E e \in Events : t \in Requests /\ (Receive(t, e) \/ ReceiveProcessed(t, e))
    BY <2>1, RequestType
  <2>2. CASE InsertEvent(t) \/ InsertEventConflict(t)
    BY <2>2, RequestType DEF InsertEvent, InsertEventConflict, TypeInv, Control, InProcess
  <2>. QED
    BY <1>1, <2>1, <2>2, SubscriptionType, InvoiceType, CommitType, FailureType, DrainType,
       CrashType DEF Did, Step
<1>2. ASSUME NEW c \in Customers, ProvisionCustomer(c) PROVE TypeInv'
  BY <1>2 DEF ProvisionCustomer, TypeInv, TypeOK, Control, task, history
<1>3. CASE UNCHANGED vars
  BY <1>3 DEF vars, db, history, task, TypeInv, TypeOK, Control
<1>. QED BY <1>1, <1>2, <1>3, NextCases

LEMMA TypeInvariant == Spec => []TypeInv
  BY TypeInit, TypeStep, PTL DEF Spec

\* Every variable keeps its type, and so do the statuses written by handlers
\* that run on a stale copy of their event.
THEOREM TypeCorrect == Spec => []TypeOK
<1>1. TypeInv => TypeOK
  BY DEF TypeInv
<1>. QED BY <1>1, TypeInvariant, PTL

-----------------------------------------------------------------------------
(***************************************************************************)
(* What steps never undo, and whom they touch.                             *)
(***************************************************************************)
Grows ==
    /\ customers \subseteq customers'
    /\ applied \subseteq applied' /\ rejected \subseteq rejected'
    /\ \A s \in Subs : subscription[s] # Absent => subscription'[s] # Absent
    /\ \A i \in Invoices : invoice[i] # Absent => invoice'[i] # Absent
    /\ \A i \in Invoices : grants[i] <= grants'[i]

\* A step of one task leaves the control state of the others alone.
OthersKeep(t) ==
    \A u \in Tasks \ {t} :
        /\ pc'[u] = pc[u] /\ cur'[u] = cur[u] /\ read'[u] = read[u]
        /\ grant'[u] = grant[u] /\ verdict'[u] = verdict[u]
        /\ todo'[u] = todo[u] /\ draining'[u] = draining[u]

Committing(t) == CommitSubscription(t) \/ CommitInvoice(t)

\* Only commits write the mirror and the entitlements.
LEMMA MirrorKept ==
    ASSUME NEW t \in Tasks, Did(t), ~Committing(t)
    PROVE  UNCHANGED <<customers, subscription, invoice, grants>>
<1>. USE DEF Did, Step, Committing, db, history
<1>1. CASE \E e \in Events : Receive(t, e) \/ ReceiveProcessed(t, e)
  BY <1>1 DEF Receive, ReceiveProcessed
<1>2. CASE StartDrain(t) \/ ListCustomerEvents(t) \/ NoCustomerToDrain(t) \/ DrainOne(t) \/ DrainDone(t)
  BY <1>2 DEF StartDrain, ListCustomerEvents, NoCustomerToDrain, DrainOne, DrainDone
<1>3. CASE InsertEvent(t) \/ InsertEventConflict(t) \/ Crash(t)
  BY <1>3 DEF InsertEvent, InsertEventConflict, Crash
<1>4. CASE SubscriptionCreated(t) \/ CheckActiveConflicts(t) \/ SubscriptionChanged(t) \/ FlushSubscription(t)
  BY <1>4 DEF SubscriptionCreated, CheckActiveConflicts, SubscriptionChanged, FlushSubscription,
     Fail, Stage, Proceed, Flushed
<1>5. CASE InvoiceArrives(t) \/ LookupInvoice(t) \/ FlushInvoice(t)
  BY <1>5 DEF InvoiceArrives, LookupInvoice, FlushInvoice, Fail, Stage, Proceed, Flushed
<1>6. CASE IgnoreUnsupported(t) \/ RereadEvent(t) \/ MarkFailed(t)
  BY <1>6 DEF IgnoreUnsupported, MarkProcessed, RereadEvent, MarkFailed
<1>. QED BY <1>1, <1>2, <1>3, <1>4, <1>5, <1>6

LEMMA HistoryGrows ==
    ASSUME NEW t \in Tasks, Did(t)
    PROVE  applied \subseteq applied' /\ rejected \subseteq rejected'
<1>. USE DEF Did, Step, db, history
<1>1. CASE \E e \in Events : Receive(t, e) \/ ReceiveProcessed(t, e)
  BY <1>1 DEF Receive, ReceiveProcessed
<1>2. CASE StartDrain(t) \/ ListCustomerEvents(t) \/ NoCustomerToDrain(t) \/ DrainOne(t) \/ DrainDone(t)
  BY <1>2 DEF StartDrain, ListCustomerEvents, NoCustomerToDrain, DrainOne, DrainDone
<1>3. CASE InsertEvent(t) \/ InsertEventConflict(t) \/ Crash(t)
  BY <1>3 DEF InsertEvent, InsertEventConflict, Crash
<1>4. CASE SubscriptionCreated(t) \/ CheckActiveConflicts(t) \/ SubscriptionChanged(t) \/ FlushSubscription(t)
  BY <1>4 DEF SubscriptionCreated, CheckActiveConflicts, SubscriptionChanged, FlushSubscription,
     Fail, Stage, Proceed, Flushed
<1>5. CASE InvoiceArrives(t) \/ LookupInvoice(t) \/ FlushInvoice(t)
  BY <1>5 DEF InvoiceArrives, LookupInvoice, FlushInvoice, Fail, Stage, Proceed, Flushed
<1>6. CASE CommitSubscription(t) \/ CommitInvoice(t) \/ IgnoreUnsupported(t)
  BY <1>6 DEF CommitSubscription, CommitInvoice, IgnoreUnsupported, MarkProcessed
<1>7. CASE RereadEvent(t) \/ MarkFailed(t)
  BY <1>7 DEF RereadEvent, MarkFailed
<1>. QED BY <1>1, <1>2, <1>3, <1>4, <1>5, <1>6, <1>7

LEMMA CommitGrows ==
    ASSUME TypeInv, NEW t \in Tasks, Committing(t)
    PROVE  /\ \A s \in Subs : subscription[s] # Absent => subscription'[s] # Absent
           /\ \A i \in Invoices : invoice[i] # Absent => invoice'[i] # Absent
           /\ \A i \in Invoices : grants[i] <= grants'[i]
           /\ customers' = customers
<1>1. CASE CommitSubscription(t)
  <2>1. Carried[cur[t]] # Absent
    BY <1>1, InHand, TaskAssumption DEF CommitSubscription, InProcess
  <2>. QED BY <1>1, <2>1 DEF CommitSubscription, Committed, MarkProcessed, TypeInv, TypeOK
<1>2. CASE CommitInvoice(t)
  <2>1. Carried[cur[t]] # Absent
    BY <1>2, InHand, TaskAssumption DEF CommitInvoice, InProcess
  <2>. QED BY <1>2, <2>1 DEF CommitInvoice, Committed, MarkProcessed, TypeInv, TypeOK
<1>. QED BY <1>1, <1>2 DEF Committing

LEMMA TaskGrows ==
    ASSUME TypeInv, NEW t \in Tasks, Did(t)
    PROVE  Grows
<1>1. CASE Committing(t)
  BY <1>1, CommitGrows, HistoryGrows DEF Grows
<1>2. CASE ~Committing(t)
  BY <1>2, MirrorKept, HistoryGrows DEF Grows, TypeInv, TypeOK
<1>. QED BY <1>1, <1>2

LEMMA OneTaskMoves ==
    ASSUME TypeInv, NEW t \in Tasks, Did(t)
    PROVE  OthersKeep(t)
<1>. USE DEF Did, Step, OthersKeep, Goto, task, TypeInv, TypeOK
<1>1. CASE \E e \in Events : Receive(t, e) \/ ReceiveProcessed(t, e)
  BY <1>1 DEF Receive, ReceiveProcessed
<1>2. CASE StartDrain(t) \/ ListCustomerEvents(t) \/ NoCustomerToDrain(t) \/ DrainOne(t) \/ DrainDone(t)
  BY <1>2 DEF StartDrain, ListCustomerEvents, NoCustomerToDrain, DrainOne, DrainDone, Leave
<1>3. CASE InsertEvent(t) \/ InsertEventConflict(t) \/ Crash(t)
  BY <1>3 DEF InsertEvent, InsertEventConflict, Crash, Leave
<1>4. CASE SubscriptionCreated(t) \/ CheckActiveConflicts(t) \/ SubscriptionChanged(t) \/ FlushSubscription(t)
  BY <1>4 DEF SubscriptionCreated, CheckActiveConflicts, SubscriptionChanged, FlushSubscription,
     Fail, Stage, Proceed, Flushed
<1>5. CASE InvoiceArrives(t) \/ LookupInvoice(t) \/ FlushInvoice(t)
  BY <1>5 DEF InvoiceArrives, LookupInvoice, FlushInvoice, Fail, Stage, Proceed, Flushed
<1>6. CASE CommitSubscription(t) \/ CommitInvoice(t) \/ IgnoreUnsupported(t)
  BY <1>6 DEF CommitSubscription, CommitInvoice, IgnoreUnsupported, MarkProcessed, Returned, NextInDrain
<1>7. CASE RereadEvent(t) \/ MarkFailed(t)
  BY <1>7 DEF RereadEvent, MarkFailed, Leave, NextInDrain
<1>. QED BY <1>1, <1>2, <1>3, <1>4, <1>5, <1>6, <1>7

-----------------------------------------------------------------------------
(***************************************************************************)
(* What a task knows of the database while its transaction is open, in     *)
(* spite of what the others commit meanwhile.                              *)
(***************************************************************************)
Validated(t) ==
    /\ Kind[cur[t]] \in SubscriptionKinds => CustomerOf[cur[t]] \in customers
    /\ Kind[cur[t]] \in InvoiceKinds => KnownSubscription(Subject[cur[t]])

\* A row that was there when it was read still is.
ReadIsThere(t) ==
    read[t] # Absent =>
        /\ Kind[cur[t]] \in SubscriptionKinds => subscription[Subject[cur[t]]] # Absent
        /\ Kind[cur[t]] \in InvoiceKinds => invoice[Subject[cur[t]]] # Absent

Work(t) ==
    /\ pc[t] \in {"checked", "staged", "ready"} => Validated(t)
    /\ pc[t] \in {"staged", "ready"} => ReadIsThere(t)
    /\ pc[t] = "ready" /\ Kind[cur[t]] = "invoice.paid" /\ ~grant[t] => Entitled(Subject[cur[t]])
    /\ pc[t] = "ready" /\ grant[t] => Kind[cur[t]] = "invoice.paid"
    /\ pc[t] \in {"failed", "mark"} /\ verdict[t] = "terminal_failed" => Anomaly(cur[t])

OwnersKnown == \A s \in Subs : subscription[s] # Absent => Owner[s] \in customers

WorkInv == OwnersKnown /\ \A t \in Tasks : Work(t)

\* What a task knows is not taken from it when others step.
LEMMA KnowledgeStays ==
    ASSUME TypeInv, TypeInv', NEW u \in Tasks, Work(u), Grows,
           pc'[u] = pc[u], cur'[u] = cur[u], read'[u] = read[u],
           grant'[u] = grant[u], verdict'[u] = verdict[u]
    PROVE  Work(u)'
<1>. USE DEF Grows, InProcess
<1>1. (pc[u] \in {"checked", "staged", "ready"} => Validated(u))'
  BY InHand DEF Work, Validated, KnownSubscription
<1>2. (pc[u] \in {"staged", "ready"} => ReadIsThere(u))'
  BY InHand DEF Work, ReadIsThere
<1>3. (pc[u] = "ready" /\ Kind[cur[u]] = "invoice.paid" /\ ~grant[u] => Entitled(Subject[cur[u]]))'
  <2>1. Entitled(Subject[cur[u]]) => Entitled(Subject[cur[u]])'
    BY DEF Entitled, SameWindow, TypeInv, TypeOK
  <2>. QED BY <2>1 DEF Work, Entitled
<1>4. (pc[u] = "ready" /\ grant[u] => Kind[cur[u]] = "invoice.paid")'
  BY DEF Work
<1>5. (pc[u] \in {"failed", "mark"} /\ verdict[u] = "terminal_failed" => Anomaly(cur[u]))'
  BY DEF Work, Anomaly, SameWindow
<1>. QED BY <1>1, <1>2, <1>3, <1>4, <1>5 DEF Work

LEMMA FailWork ==
    ASSUME TypeInv, NEW t \in Tasks, NEW failure \in Failures, Fail(t, failure),
           failure = "terminal_failed" => Anomaly(cur[t])
    PROVE  Work(t)'
  BY DEF Fail, Goto, Work, Anomaly, SameWindow, TypeInv, TypeOK, db

LEMMA ProceedWork ==
    ASSUME TypeInv, NEW t \in Tasks, Proceed(t), Validated(t)
    PROVE  Work(t)'
  BY DEF Proceed, Goto, Work, Validated, KnownSubscription, TypeInv, TypeOK, db

LEMMA StageWork ==
    ASSUME TypeInv, NEW t \in Tasks, NEW status, Stage(t, status), Validated(t),
           status # Absent =>
              /\ Kind[cur[t]] \in SubscriptionKinds => subscription[Subject[cur[t]]] # Absent
              /\ Kind[cur[t]] \in InvoiceKinds => invoice[Subject[cur[t]]] # Absent
    PROVE  Work(t)'
  BY DEF Stage, Goto, Work, Validated, ReadIsThere, KnownSubscription, TypeInv, TypeOK, db

LEMMA FlushedWork ==
    ASSUME TypeInv, NEW t \in Tasks, NEW g \in BOOLEAN, Flushed(t, g), Validated(t), ReadIsThere(t),
           Kind[cur[t]] = "invoice.paid" /\ ~g => Entitled(Subject[cur[t]]),
           g => Kind[cur[t]] = "invoice.paid"
    PROVE  Work(t)'
  BY DEF Flushed, Goto, Work, Validated, ReadIsThere, KnownSubscription, Entitled, SameWindow,
     TypeInv, TypeOK, db

LEMMA SubscriptionWork ==
    ASSUME TypeInv, WorkInv, NEW t \in Tasks,
           SubscriptionCreated(t) \/ CheckActiveConflicts(t) \/ SubscriptionChanged(t)
              \/ FlushSubscription(t)
    PROVE  Work(t)'
<1>. USE DEF SubscriptionKinds, InvoiceKinds, Failures
<1>1. CASE SubscriptionCreated(t)
  BY <1>1, FailWork, StageWork, ProceedWork DEF SubscriptionCreated, Begins, Validated
<1>2. CASE CheckActiveConflicts(t)
  <2>1. Validated(t)
    BY <1>2 DEF CheckActiveConflicts, WorkInv, Work
  <2>2. ConflictingActive(t) # {} => Anomaly(cur[t])
    BY <1>2, TaskAssumption DEF CheckActiveConflicts, ConflictingActive, Anomaly, ActiveStatus, SubscriptionStatus
  <2>. QED BY <1>2, <2>1, <2>2, FailWork, StageWork DEF CheckActiveConflicts
<1>3. CASE SubscriptionChanged(t)
  <2>1. subscription[Subject[cur[t]]] # Absent => Validated(t)
    BY <1>3, InHand DEF SubscriptionChanged, Begins, Validated, WorkInv, OwnersKnown, InProcess
  <2>. QED BY <1>3, <2>1, FailWork, StageWork DEF SubscriptionChanged, Begins
<1>4. CASE FlushSubscription(t)
  <2>1. Validated(t) /\ ReadIsThere(t)
    BY <1>4 DEF FlushSubscription, WorkInv, Work
  <2>. QED BY <1>4, <2>1, FailWork, FlushedWork DEF FlushSubscription
<1>. QED BY <1>1, <1>2, <1>3, <1>4

LEMMA InvoiceWork ==
    ASSUME TypeInv, WorkInv, NEW t \in Tasks,
           InvoiceArrives(t) \/ LookupInvoice(t) \/ FlushInvoice(t)
    PROVE  Work(t)'
<1>. USE DEF SubscriptionKinds, InvoiceKinds, Failures
<1>1. CASE InvoiceArrives(t)
  <2>1. KnownSubscription(Subject[cur[t]]) => Validated(t)
    BY <1>1 DEF InvoiceArrives, Begins, Validated
  <2>2. ConflictingInvoices(Subject[cur[t]]) # {} /\ Kind[cur[t]] = "invoice.paid" => Anomaly(cur[t])
    BY DEF ConflictingInvoices, Anomaly
  <2>3. CASE ~KnownSubscription(Subject[cur[t]]) /\ Fail(t, "retryable_failed")
    BY <2>3, FailWork
  <2>4. CASE KnownSubscription(Subject[cur[t]]) /\ Proceed(t)
    BY <2>1, <2>4, ProceedWork
  <2>5. CASE Fail(t, "retryable_failed")
    BY <2>5, FailWork
  <2>6. CASE /\ Fail(t, "terminal_failed") /\ Kind[cur[t]] = "invoice.paid"
             /\ ConflictingInvoices(Subject[cur[t]]) # {}
    BY <2>2, <2>6, FailWork
  <2>. QED BY <1>1, <2>3, <2>4, <2>5, <2>6 DEF InvoiceArrives
<1>2. CASE LookupInvoice(t)
  <2>1. Validated(t)
    BY <1>2 DEF LookupInvoice, WorkInv, Work
  <2>. QED BY <1>2, <2>1, StageWork DEF LookupInvoice
<1>3. CASE FlushInvoice(t)
  <2>1. Validated(t) /\ ReadIsThere(t)
    BY <1>3 DEF FlushInvoice, WorkInv, Work
  <2>. QED BY <1>3, <2>1, FailWork, FlushedWork DEF FlushInvoice
<1>. QED BY <1>1, <1>2, <1>3

\* The steps that take a task out of the handlers leave it nothing to know.
LEMMA OtherWork ==
    ASSUME TypeInv, WorkInv, NEW t \in Tasks, Did(t),
           ~(SubscriptionCreated(t) \/ CheckActiveConflicts(t) \/ SubscriptionChanged(t)
              \/ FlushSubscription(t)),
           ~(InvoiceArrives(t) \/ LookupInvoice(t) \/ FlushInvoice(t))
    PROVE  Work(t)'
<1>. USE DEF Did, Step, Goto, TypeInv, TypeOK, Work
<1>1. CASE \E e \in Events : Receive(t, e)
  BY <1>1 DEF Receive
<1>2. CASE \E e \in Events : ReceiveProcessed(t, e)
  BY <1>2 DEF ReceiveProcessed, task
<1>3. CASE StartDrain(t) \/ ListCustomerEvents(t) \/ NoCustomerToDrain(t) \/ DrainOne(t) \/ DrainDone(t)
  BY <1>3 DEF StartDrain, ListCustomerEvents, NoCustomerToDrain, DrainOne, DrainDone, Leave
<1>4. CASE InsertEvent(t) \/ InsertEventConflict(t) \/ Crash(t)
  BY <1>4 DEF InsertEvent, InsertEventConflict, Crash, Leave
<1>5. CASE CommitSubscription(t) \/ CommitInvoice(t) \/ IgnoreUnsupported(t)
  BY <1>5 DEF CommitSubscription, CommitInvoice, IgnoreUnsupported, MarkProcessed, Returned, NextInDrain
<1>6. CASE RereadEvent(t)
  <2>1. pc'[t] = "mark" /\ UNCHANGED <<subscription, invoice, cur, verdict>>
    BY <1>6 DEF RereadEvent, db
  <2>2. verdict[t] = "terminal_failed" => Anomaly(cur[t])
    BY <1>6 DEF RereadEvent, WorkInv
  <2>3. Anomaly(cur[t]) => Anomaly(cur[t])'
    BY <2>1 DEF Anomaly, SameWindow
  <2>. QED BY <2>1, <2>2, <2>3
<1>7. CASE MarkFailed(t)
  BY <1>7 DEF MarkFailed, Leave, NextInDrain
<1>. QED BY <1>1, <1>2, <1>3, <1>4, <1>5, <1>6, <1>7

\* A subscription row appears only for a customer that is known.
LEMMA OwnersStep ==
    ASSUME TypeInv, WorkInv, NEW t \in Tasks, Did(t), Grows
    PROVE  OwnersKnown'
<1>1. CASE CommitSubscription(t)
  <2>1. Owner[Subject[cur[t]]] \in customers /\ Subject[cur[t]] \in Subs
    BY <1>1, InHand DEF CommitSubscription, WorkInv, Work, Validated, InProcess
  <2>2. \A s \in Subs : s # Subject[cur[t]] => subscription'[s] = subscription[s]
    BY <1>1, <2>1 DEF CommitSubscription, Committed, TypeInv, TypeOK
  <2>. QED BY <2>1, <2>2 DEF OwnersKnown, WorkInv, Grows
<1>2. CASE CommitInvoice(t)
  BY <1>2 DEF CommitInvoice, MarkProcessed, OwnersKnown, WorkInv
<1>3. CASE ~Committing(t)
  BY <1>3, MirrorKept DEF OwnersKnown, WorkInv
<1>. QED BY <1>1, <1>2, <1>3 DEF Committing

LEMMA WorkStep ==
    ASSUME TypeInv, WorkInv, [Next]_vars
    PROVE  WorkInv'
<1>1. ASSUME NEW t \in Tasks, Did(t) PROVE WorkInv'
  <2>1. Grows /\ OthersKeep(t)
    BY <1>1, TaskGrows, OneTaskMoves
  <2>2. Work(t)'
    BY <1>1, SubscriptionWork, InvoiceWork, OtherWork
  <2>3. \A u \in Tasks \ {t} : Work(u)'
    BY <1>1, <2>1, TypeStep, KnowledgeStays DEF OthersKeep, WorkInv
  <2>. QED BY <1>1, <2>1, <2>2, <2>3, OwnersStep DEF WorkInv
<1>2. ASSUME NEW c \in Customers, ProvisionCustomer(c) PROVE WorkInv'
  <2>1. Grows
    BY <1>2 DEF ProvisionCustomer, Grows, history, TypeInv, TypeOK
  <2>2. ASSUME NEW u \in Tasks PROVE Work(u)'
    BY <1>2, <2>1, TypeStep, KnowledgeStays DEF ProvisionCustomer, task, WorkInv
  <2>. QED BY <1>2, <2>2 DEF ProvisionCustomer, WorkInv, OwnersKnown
<1>3. CASE UNCHANGED vars
  <2>1. Grows
    BY <1>3 DEF vars, db, history, Grows, TypeInv, TypeOK
  <2>2. ASSUME NEW u \in Tasks PROVE Work(u)'
    BY <1>3, <2>1, TypeStep, KnowledgeStays DEF vars, task, WorkInv
  <2>. QED BY <1>3, <2>2 DEF vars, db, WorkInv, OwnersKnown
<1>. QED BY <1>1, <1>2, <1>3, NextCases

LEMMA WorkInit == Init => WorkInv
  BY TaskAssumption DEF Init, InitTasks, WorkInv, OwnersKnown, Work

LEMMA WorkInvariant == Spec => []WorkInv
  BY WorkInit, WorkStep, TypeInvariant, PTL DEF Spec

-----------------------------------------------------------------------------
(***************************************************************************)
(* One entitlement row per invoice: two tasks never have the same row      *)
(* flushed, and a task that has staged an entitlement holds the row of an  *)
(* invoice that has none.                                                  *)
(***************************************************************************)
RowsHeldOnce ==
    \A t, u \in Tasks : t # u /\ HoldsRow(t) /\ HoldsRow(u) => Subject[cur[t]] # Subject[cur[u]]

GrantIsFirst ==
    \A t \in Tasks : pc[t] = "ready" /\ grant[t] =>
        Subject[cur[t]] \in Invoices /\ grants[Subject[cur[t]]] = 0

GrantInv == RowsHeldOnce /\ GrantIsFirst /\ OneGrantPerInvoice

\* A task comes to hold a mirror row by a flush only.
LEMMA HoldsByFlush ==
    ASSUME TypeInv, NEW t \in Tasks, Did(t), pc'[t] = "ready"
    PROVE  /\ FlushSubscription(t) \/ FlushInvoice(t)
           /\ ~RowLocked(t) /\ cur'[t] = cur[t] /\ UNCHANGED grants
           /\ grant'[t] => /\ pc[t] = "staged" /\ Kind[cur[t]] \in InvoiceKinds
                          /\ ~Entitled(Subject[cur[t]])
<1>. USE DEF Did, Step, Goto, TypeInv, TypeOK
<1>1. CASE \E e \in Events : Receive(t, e) \/ ReceiveProcessed(t, e)
  BY <1>1 DEF Receive, ReceiveProcessed, task
<1>2. CASE StartDrain(t) \/ ListCustomerEvents(t) \/ NoCustomerToDrain(t) \/ DrainOne(t) \/ DrainDone(t)
  BY <1>2 DEF StartDrain, ListCustomerEvents, NoCustomerToDrain, DrainOne, DrainDone, Leave
<1>3. CASE InsertEvent(t) \/ InsertEventConflict(t) \/ Crash(t)
  BY <1>3 DEF InsertEvent, InsertEventConflict, Crash, Leave
<1>4. CASE SubscriptionCreated(t) \/ CheckActiveConflicts(t) \/ SubscriptionChanged(t)
  BY <1>4 DEF SubscriptionCreated, CheckActiveConflicts, SubscriptionChanged, Fail, Stage, Proceed
<1>5. CASE InvoiceArrives(t) \/ LookupInvoice(t)
  BY <1>5 DEF InvoiceArrives, LookupInvoice, Fail, Stage, Proceed
<1>6. CASE CommitSubscription(t) \/ CommitInvoice(t) \/ IgnoreUnsupported(t)
  BY <1>6 DEF CommitSubscription, CommitInvoice, IgnoreUnsupported, MarkProcessed, Returned, NextInDrain
<1>7. CASE RereadEvent(t) \/ MarkFailed(t)
  BY <1>7 DEF RereadEvent, MarkFailed, Leave, NextInDrain
<1>8. CASE FlushSubscription(t)
  BY <1>8 DEF FlushSubscription, Flushed, Fail, db
<1>9. CASE FlushInvoice(t)
  BY <1>9 DEF FlushInvoice, Flushed, Fail, db
<1>. QED BY <1>1, <1>2, <1>3, <1>4, <1>5, <1>6, <1>7, <1>8, <1>9

LEMMA LocksStep ==
    ASSUME TypeInv, GrantInv, NEW t \in Tasks, Did(t), OthersKeep(t)
    PROVE  RowsHeldOnce'
<1>1. ASSUME NEW u \in Tasks \ {t}, HoldsRow(t)', HoldsRow(u)'
      PROVE  (Subject[cur[t]] # Subject[cur[u]])'
  <2>1. ~RowLocked(t) /\ cur'[t] = cur[t]
    BY <1>1, HoldsByFlush DEF HoldsRow
  <2>2. HoldsRow(u) /\ cur'[u] = cur[u]
    BY <1>1 DEF HoldsRow, OthersKeep
  <2>. QED BY <2>1, <2>2 DEF RowLocked
<1>2. ASSUME NEW u \in Tasks \ {t}, NEW v \in Tasks \ {t}, u # v, HoldsRow(u)', HoldsRow(v)'
      PROVE  (Subject[cur[u]] # Subject[cur[v]])'
  BY <1>2 DEF HoldsRow, OthersKeep, GrantInv, RowsHeldOnce
<1>. QED BY <1>1, <1>2 DEF RowsHeldOnce

\* A commit writes the entitlements of its own invoice only.
LEMMA GrantsWritten ==
    ASSUME TypeInv, NEW t \in Tasks, Did(t)
    PROVE  \/ UNCHANGED grants
           \/ /\ CommitInvoice(t) /\ pc[t] = "ready" /\ grant[t]
              /\ Subject[cur[t]] \in Invoices
              /\ grants' = [grants EXCEPT ![Subject[cur[t]]] = grants[Subject[cur[t]]] + 1]
<1>1. CASE CommitSubscription(t)
  BY <1>1 DEF CommitSubscription
<1>2. CASE CommitInvoice(t)
  BY <1>2, InHand DEF CommitInvoice, InProcess
<1>3. CASE ~Committing(t)
  BY <1>3, MirrorKept
<1>. QED BY <1>1, <1>2, <1>3 DEF Committing

LEMMA GrantStep ==
    ASSUME TypeInv, GrantInv, [Next]_vars
    PROVE  GrantInv'
<1>1. ASSUME NEW t \in Tasks, Did(t) PROVE GrantInv'
  <2>1. OthersKeep(t)
    BY <1>1, OneTaskMoves
  <2>2. OneGrantPerInvoice'
    BY <1>1, GrantsWritten DEF GrantInv, GrantIsFirst, OneGrantPerInvoice, TypeInv, TypeOK
  <2>3. ASSUME NEW u \in Tasks, (pc[u] = "ready" /\ grant[u])'
        PROVE  (Subject[cur[u]] \in Invoices /\ grants[Subject[cur[u]]] = 0)'
    <3>1. CASE u = t
      <4>1. /\ UNCHANGED grants /\ cur'[t] = cur[t] /\ Subject[cur[t]] \in Invoices
            /\ ~Entitled(Subject[cur[t]])
        BY <1>1, <2>3, <3>1, HoldsByFlush, InHand DEF InProcess
      <4>. QED BY <3>1, <4>1 DEF Entitled, SameWindow, TypeInv, TypeOK
    <3>2. CASE u # t
      <4>1. /\ pc[u] = "ready" /\ grant[u] /\ cur'[u] = cur[u]
            /\ Subject[cur[u]] \in Invoices /\ grants[Subject[cur[u]]] = 0
        BY <2>1, <2>3, <3>2 DEF OthersKeep, GrantInv, GrantIsFirst
      <4>2. pc[t] = "ready" => Subject[cur[u]] # Subject[cur[t]]
        BY <3>2, <4>1 DEF GrantInv, RowsHeldOnce, HoldsRow
      <4>. QED BY <1>1, <4>1, <4>2, GrantsWritten DEF TypeInv, TypeOK
    <3>. QED BY <3>1, <3>2
  <2>. QED BY <1>1, <2>1, <2>2, <2>3, LocksStep DEF GrantInv, GrantIsFirst
<1>2. ASSUME NEW c \in Customers, ProvisionCustomer(c) PROVE GrantInv'
  BY <1>2 DEF ProvisionCustomer, task, GrantInv, RowsHeldOnce, HoldsRow, GrantIsFirst, OneGrantPerInvoice
<1>3. CASE UNCHANGED vars
  BY <1>3 DEF vars, db, task, GrantInv, RowsHeldOnce, HoldsRow, GrantIsFirst, OneGrantPerInvoice
<1>. QED BY <1>1, <1>2, <1>3, NextCases

LEMMA GrantInit == Init => GrantInv
  BY DEF Init, InitTasks, GrantInv, RowsHeldOnce, HoldsRow, GrantIsFirst, OneGrantPerInvoice

\* However often an invoice's events are delivered, retried, drained or processed
\* by several tasks at once, it is granted at most one entitlement row.
THEOREM AtMostOneGrant == Spec => []OneGrantPerInvoice
<1>1. GrantInv => OneGrantPerInvoice
  BY DEF GrantInv
<1>. QED BY <1>1, GrantInit, GrantStep, TypeInvariant, PTL DEF Spec

-----------------------------------------------------------------------------
(***************************************************************************)
(* One entitlement row per period.  It is not an invariant (the lookup     *)
(* takes no lock on the period), and this is all it lacks: between the     *)
(* lookup of a paid invoice and its commit no other task may have an       *)
(* entitlement of the period staged.                                       *)
(***************************************************************************)
StagesGrant(t) == pc[t] = "ready" /\ grant[t]
OneStagedPerPeriod ==
    \A t, u \in Tasks :
        StagesGrant(t) /\ StagesGrant(u) /\ Subject[cur[u]] \in SameWindow(Subject[cur[t]]) => t = u

PeriodInv ==
    /\ OneGrantPerPeriod
    /\ \A t \in Tasks : StagesGrant(t) =>
          Subject[cur[t]] \in Invoices /\ ~Entitled(Subject[cur[t]])

LEMMA PeriodStep ==
    ASSUME TypeInv, PeriodInv, OneStagedPerPeriod, [Next]_vars
    PROVE  PeriodInv'
<1>. USE DEF StagesGrant, Entitled, SameWindow, SeveralEntitlements, SeveralOf
<1>1. ASSUME NEW t \in Tasks, Did(t) PROVE PeriodInv'
  <2>1. OthersKeep(t)
    BY <1>1, OneTaskMoves
  <2>2. OneGrantPerPeriod'
    BY <1>1, GrantsWritten DEF PeriodInv, OneGrantPerPeriod, TypeInv, TypeOK
  <2>3. ASSUME NEW u \in Tasks, StagesGrant(u)'
        PROVE  (Subject[cur[u]] \in Invoices /\ ~Entitled(Subject[cur[u]]))'
    <3>1. CASE u = t
      BY <1>1, <2>3, <3>1, HoldsByFlush, InHand DEF InProcess
    <3>2. CASE u # t
      <4>1. StagesGrant(u) /\ cur'[u] = cur[u]
            /\ Subject[cur[u]] \in Invoices /\ ~Entitled(Subject[cur[u]])
        BY <2>1, <2>3, <3>2 DEF OthersKeep, PeriodInv
      <4>2. StagesGrant(t) => Subject[cur[t]] \notin SameWindow(Subject[cur[u]])
        BY <3>2, <4>1 DEF OneStagedPerPeriod
      <4>. QED BY <1>1, <4>1, <4>2, GrantsWritten DEF TypeInv, TypeOK
    <3>. QED BY <3>1, <3>2
  <2>. QED BY <2>2, <2>3 DEF PeriodInv
<1>2. ASSUME NEW c \in Customers, ProvisionCustomer(c) PROVE PeriodInv'
  BY <1>2 DEF ProvisionCustomer, task, PeriodInv, OneGrantPerPeriod
<1>3. CASE UNCHANGED vars
  BY <1>3 DEF vars, db, task, PeriodInv, OneGrantPerPeriod
<1>. QED BY <1>1, <1>2, <1>3, NextCases

\* A period is granted twice only in a behaviour in which two tasks have an
\* entitlement of it staged at once: a lock on the period would be enough.
THEOREM SerialPeriodsGrantOnce == Spec /\ []OneStagedPerPeriod => []OneGrantPerPeriod
<1>1. Init => PeriodInv
  BY DEF Init, InitTasks, PeriodInv, OneGrantPerPeriod, StagesGrant, SeveralEntitlements, SeveralOf,
     SameWindow
<1>2. PeriodInv => OneGrantPerPeriod
  BY DEF PeriodInv
<1>. QED BY <1>1, <1>2, PeriodStep, TypeInvariant, PTL DEF Spec

\* When requests and drains never overlap, the handler keeps what its contract says of
\* periods, through every redelivery, retry, failure and crash.
OneAtWork == \A t, u \in Tasks : pc[t] # "idle" /\ pc[u] # "idle" => t = u

THEOREM OneTaskGrantsOnce == Spec /\ []OneAtWork => []OneGrantPerPeriod
<1>1. OneAtWork => OneStagedPerPeriod
  BY DEF OneAtWork, OneStagedPerPeriod, StagesGrant
<1>. QED BY <1>1, SerialPeriodsGrantOnce, PTL

-----------------------------------------------------------------------------
(***************************************************************************)
(* One active subscription per customer.  Rows that are there are          *)
(* activated unchecked, so even serial handling does not keep it; what it  *)
(* keeps is that a new row is the only active one, which is what           *)
(* handle_created asks before it inserts.                                  *)
(***************************************************************************)
WritesSubscription(t) == pc[t] \in {"staged", "ready"} /\ Kind[cur[t]] \in SubscriptionKinds
OneWriterPerCustomer ==
    \A t, u \in Tasks :
        /\ WritesSubscription(t) /\ WritesSubscription(u)
        /\ CustomerOf[cur[t]] = CustomerOf[cur[u]]
        => t = u

CheckedInv ==
    \A t \in Tasks : WritesSubscription(t) /\ read[t] = Absent => ConflictingActive(t) = {}

NewIsOnlyActive ==
    \A s \in Subs : subscription[s] = Absent /\ subscription'[s] \in ActiveStatus =>
        \A other \in Subs \ {s} : Owner[other] = Owner[s] => subscription'[other] \notin ActiveStatus

\* The task that steps: it stages an insert behind the check only.
LEMMA InsertIsChecked ==
    ASSUME TypeInv, CheckedInv, NEW t \in Tasks, Did(t),
           WritesSubscription(t)', (read[t] = Absent)'
    PROVE  (ConflictingActive(t) = {})'
<1>. USE DEF WritesSubscription, Did, Step, Goto, TypeInv, TypeOK
<1>1. CASE \E e \in Events : Receive(t, e) \/ ReceiveProcessed(t, e)
  BY <1>1 DEF Receive, ReceiveProcessed, task, db, ConflictingActive, CheckedInv
<1>2. CASE StartDrain(t) \/ ListCustomerEvents(t) \/ NoCustomerToDrain(t) \/ DrainOne(t) \/ DrainDone(t)
  BY <1>2 DEF StartDrain, ListCustomerEvents, NoCustomerToDrain, DrainOne, DrainDone, Leave
<1>3. CASE InsertEvent(t) \/ InsertEventConflict(t) \/ Crash(t)
  BY <1>3 DEF InsertEvent, InsertEventConflict, Crash, Leave
<1>4. CASE SubscriptionCreated(t) \/ SubscriptionChanged(t)
  BY <1>4 DEF SubscriptionCreated, SubscriptionChanged, Fail, Stage, Proceed
<1>5. CASE CheckActiveConflicts(t)
  BY <1>5 DEF CheckActiveConflicts, ConflictingActive, Fail, Stage, db
<1>6. CASE FlushSubscription(t)
  <2>1. ConflictingActive(t) = {} /\ UNCHANGED <<cur, subscription>>
    BY <1>6 DEF FlushSubscription, Fail, Flushed, CheckedInv, db
  <2>. QED BY <2>1 DEF ConflictingActive
<1>7. CASE InvoiceArrives(t) \/ LookupInvoice(t) \/ FlushInvoice(t)
  BY <1>7 DEF InvoiceArrives, LookupInvoice, FlushInvoice, Begins, Fail, Stage, Proceed, Flushed,
     InvoiceKinds, SubscriptionKinds
<1>8. CASE CommitSubscription(t) \/ CommitInvoice(t) \/ IgnoreUnsupported(t)
  BY <1>8 DEF CommitSubscription, CommitInvoice, IgnoreUnsupported, MarkProcessed, Returned, NextInDrain
<1>9. CASE RereadEvent(t) \/ MarkFailed(t)
  BY <1>9 DEF RereadEvent, MarkFailed, Leave, NextInDrain
<1>. QED BY <1>1, <1>2, <1>3, <1>4, <1>5, <1>6, <1>7, <1>8, <1>9

\* A commit writes the status of its own subscription only.
LEMMA SubscriptionWritten ==
    ASSUME TypeInv, NEW t \in Tasks, Did(t)
    PROVE  \/ UNCHANGED subscription
           \/ /\ CommitSubscription(t) /\ WritesSubscription(t)
              /\ Subject[cur[t]] \in Subs /\ CustomerOf[cur[t]] = Owner[Subject[cur[t]]]
              /\ \A s \in Subs \ {Subject[cur[t]]} : subscription'[s] = subscription[s]
<1>1. CASE CommitSubscription(t)
  <2>1. Subject[cur[t]] \in Subs /\ CustomerOf[cur[t]] = Owner[Subject[cur[t]]]
    BY <1>1, InHand DEF CommitSubscription, InProcess
  <2>. QED BY <1>1, <2>1 DEF CommitSubscription, Committed, WritesSubscription, TypeInv, TypeOK
<1>2. CASE CommitInvoice(t)
  BY <1>2 DEF CommitInvoice
<1>3. CASE ~Committing(t)
  BY <1>3, MirrorKept
<1>. QED BY <1>1, <1>2, <1>3 DEF Committing

LEMMA CheckedStep ==
    ASSUME TypeInv, CheckedInv, OneWriterPerCustomer, [Next]_vars
    PROVE  CheckedInv'
<1>1. ASSUME NEW t \in Tasks, Did(t) PROVE CheckedInv'
  <2>1. ASSUME NEW u \in Tasks, u # t, WritesSubscription(u)', (read[u] = Absent)'
        PROVE  (ConflictingActive(u) = {})'
    <3>1. WritesSubscription(u) /\ cur'[u] = cur[u] /\ ConflictingActive(u) = {}
      BY <1>1, <2>1, OneTaskMoves DEF OthersKeep, WritesSubscription, CheckedInv
    <3>2. CASE UNCHANGED subscription
      BY <3>1, <3>2 DEF ConflictingActive
    <3>3. CASE CommitSubscription(t) /\ ~UNCHANGED subscription
      <4>1. /\ CustomerOf[cur[u]] # Owner[Subject[cur[t]]]
            /\ \A s \in Subs \ {Subject[cur[t]]} : subscription'[s] = subscription[s]
        BY <1>1, <2>1, <3>1, <3>3, SubscriptionWritten DEF OneWriterPerCustomer
      <4>. QED BY <3>1, <4>1 DEF ConflictingActive
    <3>. QED BY <1>1, <3>2, <3>3, SubscriptionWritten
  <2>. QED BY <1>1, <2>1, InsertIsChecked DEF CheckedInv
<1>2. ASSUME NEW c \in Customers, ProvisionCustomer(c) PROVE CheckedInv'
  BY <1>2 DEF ProvisionCustomer, task, CheckedInv, WritesSubscription, ConflictingActive
<1>3. CASE UNCHANGED vars
  BY <1>3 DEF vars, db, task, CheckedInv, WritesSubscription, ConflictingActive
<1>. QED BY <1>1, <1>2, <1>3, NextCases

LEMMA InsertStep ==
    ASSUME TypeInv, WorkInv, CheckedInv, Next
    PROVE  NewIsOnlyActive
<1>. SUFFICES ASSUME NEW s \in Subs, subscription[s] = Absent, subscription'[s] \in ActiveStatus,
                     NEW other \in Subs \ {s}, Owner[other] = Owner[s]
              PROVE  subscription'[other] \notin ActiveStatus
  BY DEF NewIsOnlyActive
<1>1. subscription'[s] # subscription[s]
  BY TaskAssumption DEF SubscriptionStatus
<1>2. CASE \E c \in Customers : ProvisionCustomer(c)
  BY <1>1, <1>2 DEF ProvisionCustomer
<1>3. ASSUME NEW t \in Tasks, Did(t) PROVE subscription'[other] \notin ActiveStatus
  <2>1. /\ WritesSubscription(t) /\ s = Subject[cur[t]] /\ CustomerOf[cur[t]] = Owner[s]
        /\ subscription'[other] = subscription[other] /\ CommitSubscription(t)
    BY <1>1, <1>3, SubscriptionWritten
  <2>2. read[t] = Absent
    BY <2>1 DEF WritesSubscription, WorkInv, Work, ReadIsThere
  <2>. QED BY <2>1, <2>2 DEF CheckedInv, ConflictingActive
<1>. QED BY <1>2, <1>3, NextCases

\* A subscription inserted as active has no other active one of its customer beside it
\* in any behaviour in which no two tasks write subscriptions of one customer at once:
\* of the two ways to a second active subscription, one is the race of two such tasks
\* between check and commit, the other a write to a row that was there already, which
\* nothing checks.
THEOREM SerialInsertsAreChecked == Spec /\ []OneWriterPerCustomer => [][NewIsOnlyActive]_vars
<1>1. Init => CheckedInv
  BY DEF Init, InitTasks, CheckedInv, WritesSubscription
<1>2. TypeInv /\ WorkInv /\ CheckedInv /\ [Next]_vars => [NewIsOnlyActive]_vars
  BY InsertStep
<1>. QED BY <1>1, <1>2, CheckedStep, TypeInvariant, WorkInvariant, PTL DEF Spec

-----------------------------------------------------------------------------
(***************************************************************************)
(* What is recorded is so: the effects of an applied payment, the causes   *)
(* of an entitlement, the outcome behind an acknowledgement.               *)
(***************************************************************************)
PaymentEffect(e) ==
    Kind[e] = "invoice.paid" =>
        /\ invoice[Subject[e]] # Absent
        /\ \E j \in SameWindow(Subject[e]) : grants[j] > 0

RecordInv ==
    /\ \A e \in applied : PaymentEffect(e)
    /\ \A e \in Events : event[e] = "processed" => e \in applied
    /\ GrantIsBacked /\ AcknowledgedIsSettled /\ RejectedIsAnomaly

\* The histories grow by the event in hand of the task that steps.
LEMMA AppliedBy ==
    ASSUME TypeInv, NEW t \in Tasks, Did(t)
    PROVE  \/ UNCHANGED applied
           \/ /\ Committing(t) \/ IgnoreUnsupported(t)
              /\ applied' = applied \cup {cur[t]}
<1>. USE DEF Did, Step, db, history
<1>1. CASE \E e \in Events : Receive(t, e) \/ ReceiveProcessed(t, e)
  BY <1>1 DEF Receive, ReceiveProcessed
<1>2. CASE StartDrain(t) \/ ListCustomerEvents(t) \/ NoCustomerToDrain(t) \/ DrainOne(t) \/ DrainDone(t)
  BY <1>2 DEF StartDrain, ListCustomerEvents, NoCustomerToDrain, DrainOne, DrainDone
<1>3. CASE InsertEvent(t) \/ InsertEventConflict(t) \/ Crash(t)
  BY <1>3 DEF InsertEvent, InsertEventConflict, Crash
<1>4. CASE SubscriptionCreated(t) \/ CheckActiveConflicts(t) \/ SubscriptionChanged(t) \/ FlushSubscription(t)
  BY <1>4 DEF SubscriptionCreated, CheckActiveConflicts, SubscriptionChanged, FlushSubscription,
     Fail, Stage, Proceed, Flushed
<1>5. CASE InvoiceArrives(t) \/ LookupInvoice(t) \/ FlushInvoice(t)
  BY <1>5 DEF InvoiceArrives, LookupInvoice, FlushInvoice, Fail, Stage, Proceed, Flushed
<1>6. CASE CommitSubscription(t) \/ CommitInvoice(t) \/ IgnoreUnsupported(t)
  BY <1>6 DEF Committing, CommitSubscription, CommitInvoice, IgnoreUnsupported, MarkProcessed
<1>7. CASE RereadEvent(t) \/ MarkFailed(t)
  BY <1>7 DEF RereadEvent, MarkFailed
<1>. QED BY <1>1, <1>2, <1>3, <1>4, <1>5, <1>6, <1>7

\* Only MarkFailed rejects, and only a processed, rejected or drained request is
\* acknowledged.
LEMMA AnsweredBy ==
    ASSUME TypeInv, NEW t \in Tasks, Did(t)
    PROVE  /\ UNCHANGED rejected \/ (/\ pc[t] = "mark" /\ verdict[t] = "terminal_failed"
                                   /\ rejected' = rejected \cup {cur[t]})
           /\ \A e \in acked' \ acked : event[e] = "processed" \/ e \in applied \/ e \in rejected'
<1>. USE DEF Did, Step, db, history
<1>1. CASE \E e \in Events : Receive(t, e) \/ ReceiveProcessed(t, e)
  BY <1>1 DEF Receive, ReceiveProcessed
<1>2. CASE StartDrain(t) \/ ListCustomerEvents(t) \/ DrainOne(t)
  BY <1>2 DEF StartDrain, ListCustomerEvents, DrainOne
<1>3. CASE NoCustomerToDrain(t) \/ DrainDone(t)
  BY <1>3 DEF NoCustomerToDrain, DrainDone, TypeInv, Control
<1>4. CASE InsertEvent(t) \/ InsertEventConflict(t) \/ Crash(t)
  BY <1>4 DEF InsertEvent, InsertEventConflict, Crash
<1>5. CASE SubscriptionCreated(t) \/ CheckActiveConflicts(t) \/ SubscriptionChanged(t) \/ FlushSubscription(t)
  BY <1>5 DEF SubscriptionCreated, CheckActiveConflicts, SubscriptionChanged, FlushSubscription,
     Fail, Stage, Proceed, Flushed
<1>6. CASE InvoiceArrives(t) \/ LookupInvoice(t) \/ FlushInvoice(t)
  BY <1>6 DEF InvoiceArrives, LookupInvoice, FlushInvoice, Fail, Stage, Proceed, Flushed
<1>7. CASE CommitSubscription(t) \/ CommitInvoice(t) \/ IgnoreUnsupported(t)
  BY <1>7 DEF CommitSubscription, CommitInvoice, IgnoreUnsupported, MarkProcessed
<1>8. CASE RereadEvent(t)
  BY <1>8 DEF RereadEvent
<1>9. CASE MarkFailed(t)
  BY <1>9 DEF MarkFailed, Answers200, TypeInv, Control, InProcess
<1>. QED BY <1>1, <1>2, <1>3, <1>4, <1>5, <1>6, <1>7, <1>8, <1>9

LEMMA ProcessedBy ==
    ASSUME TypeInv, NEW t \in Tasks, Did(t), NEW e \in Events, event'[e] = "processed"
    PROVE  event[e] = "processed" \/ e \in applied'
<1>. USE DEF Did, Step, db, history, TypeInv, TypeOK
<1>1. CASE \E x \in Events : Receive(t, x) \/ ReceiveProcessed(t, x)
  BY <1>1 DEF Receive, ReceiveProcessed
<1>2. CASE StartDrain(t) \/ ListCustomerEvents(t) \/ NoCustomerToDrain(t) \/ DrainOne(t) \/ DrainDone(t)
  BY <1>2 DEF StartDrain, ListCustomerEvents, NoCustomerToDrain, DrainOne, DrainDone
<1>3. CASE InsertEvent(t) \/ InsertEventConflict(t) \/ Crash(t)
  BY <1>3 DEF InsertEvent, InsertEventConflict, Crash
<1>4. CASE SubscriptionCreated(t) \/ CheckActiveConflicts(t) \/ SubscriptionChanged(t) \/ FlushSubscription(t)
  BY <1>4 DEF SubscriptionCreated, CheckActiveConflicts, SubscriptionChanged, FlushSubscription,
     Fail, Stage, Proceed, Flushed
<1>5. CASE InvoiceArrives(t) \/ LookupInvoice(t) \/ FlushInvoice(t)
  BY <1>5 DEF InvoiceArrives, LookupInvoice, FlushInvoice, Fail, Stage, Proceed, Flushed
<1>6. CASE CommitSubscription(t) \/ CommitInvoice(t) \/ IgnoreUnsupported(t)
  BY <1>6 DEF CommitSubscription, CommitInvoice, IgnoreUnsupported, MarkProcessed
<1>7. CASE RereadEvent(t)
  BY <1>7 DEF RereadEvent
<1>8. CASE MarkFailed(t)
  BY <1>8 DEF MarkFailed, Failures
<1>. QED BY <1>1, <1>2, <1>3, <1>4, <1>5, <1>6, <1>7, <1>8

\* The effect of a commit of an invoice event, read off the row and the staged
\* entitlement.
LEMMA InvoiceCommitted ==
    ASSUME TypeInv, TypeInv', WorkInv, NEW t \in Tasks, CommitInvoice(t)
    PROVE  LET i == Subject[cur[t]] IN
           /\ i \in Invoices /\ KnownSubscription(i) /\ i \in SameWindow(i)
           /\ invoice'[i] # Absent
           /\ \A j \in Invoices \ {i} : invoice'[j] = invoice[j] /\ grants'[j] = grants[j]
           /\ Kind[cur[t]] = "invoice.paid" => \E j \in SameWindow(i) : grants'[j] > 0
           /\ grants'[i] > 0 => grants[i] > 0 \/ Kind[cur[t]] = "invoice.paid"
           /\ UNCHANGED <<subscription, customers>>
<1>. DEFINE i == Subject[cur[t]]
<1>1. /\ pc[t] = "ready" /\ Kind[cur[t]] \in InvoiceKinds /\ i \in Invoices
      /\ Carried[cur[t]] # Absent
  BY InHand, TaskAssumption DEF CommitInvoice, InProcess
<1>2. KnownSubscription(i) /\ ReadIsThere(t) /\ i \in SameWindow(i)
  BY <1>1 DEF WorkInv, Work, Validated, SameWindow
<1>3. invoice'[i] # Absent /\ \A j \in Invoices \ {i} : invoice'[j] = invoice[j]
  BY <1>1, <1>2 DEF CommitInvoice, Committed, ReadIsThere, TypeInv, TypeOK
<1>4. \A j \in Invoices \ {i} : grants'[j] = grants[j]
  BY <1>1 DEF CommitInvoice, TypeInv, TypeOK
<1>5. CASE grant[t]
  <2>1. grants'[i] > 0 /\ Kind[cur[t]] = "invoice.paid"
    BY <1>1, <1>5 DEF CommitInvoice, WorkInv, Work, TypeInv, TypeOK
  <2>. QED BY <1>1, <1>2, <1>3, <1>4, <2>1 DEF CommitInvoice, MarkProcessed
<1>6. CASE ~grant[t]
  <2>1. UNCHANGED grants /\ (Kind[cur[t]] = "invoice.paid" => Entitled(i))
    BY <1>1, <1>6 DEF CommitInvoice, WorkInv, Work
  <2>. QED BY <1>1, <1>2, <1>3, <2>1 DEF Entitled, CommitInvoice, MarkProcessed
<1>. QED BY <1>5, <1>6

LEMMA PaymentStep ==
    ASSUME TypeInv, TypeInv', WorkInv, RecordInv, NEW t \in Tasks, Did(t), Grows
    PROVE  (\A e \in applied : PaymentEffect(e))'
<1>1. ASSUME NEW e \in applied PROVE PaymentEffect(e)'
  BY PayloadAssumption DEF RecordInv, PaymentEffect, Grows, SameWindow, TypeInv, TypeOK, InvoiceKinds
<1>2. ASSUME Committing(t) \/ IgnoreUnsupported(t), NEW e \in Events, e = cur[t]
      PROVE  PaymentEffect(e)'
  <2>1. CASE CommitInvoice(t)
    BY <1>2, <2>1, InvoiceCommitted DEF PaymentEffect, SameWindow
  <2>2. CASE CommitSubscription(t) \/ IgnoreUnsupported(t)
    BY <1>2, <2>2 DEF PaymentEffect, CommitSubscription, IgnoreUnsupported, Begins, SubscriptionKinds
  <2>. QED BY <1>2, <2>1, <2>2 DEF Committing
<1>3. Committing(t) \/ IgnoreUnsupported(t) => cur[t] \in Events
  BY InHand DEF Committing, CommitSubscription, CommitInvoice, IgnoreUnsupported, Begins, InProcess
<1>. QED BY <1>1, <1>2, <1>3, AppliedBy

LEMMA BackedStep ==
    ASSUME TypeInv, TypeInv', WorkInv, RecordInv, NEW t \in Tasks, Did(t), Grows
    PROVE  GrantIsBacked'
<1>1. ASSUME NEW i \in Invoices, grants[i] > 0
      PROVE  (/\ invoice[i] # Absent
              /\ SubOf[i] \in Subs /\ subscription[SubOf[i]] # Absent
              /\ Owner[SubOf[i]] \in customers
              /\ \E e \in applied : Kind[e] = "invoice.paid" /\ Subject[e] = i)'
  BY <1>1 DEF RecordInv, GrantIsBacked, Grows
<1>2. CASE CommitInvoice(t)
  <2>1. cur[t] \in applied'
    BY <1>2 DEF CommitInvoice, MarkProcessed
  <2>. DEFINE own == Subject[cur[t]]
  <2>2. /\ own \in Invoices /\ KnownSubscription(own) /\ invoice'[own] # Absent
        /\ \A j \in Invoices \ {own} : grants'[j] = grants[j]
        /\ grants'[own] > 0 => grants[own] > 0 \/ Kind[cur[t]] = "invoice.paid"
        /\ UNCHANGED <<subscription, customers>>
    BY <1>2, InvoiceCommitted
  <2>3. SubOf[own] \in Subs /\ subscription[SubOf[own]] # Absent /\ Owner[SubOf[own]] \in customers
    BY <2>2 DEF KnownSubscription, WorkInv, OwnersKnown
  <2>4. ASSUME NEW i \in Invoices, grants'[i] > 0, ~(grants[i] > 0)
        PROVE  i = own /\ Kind[cur[t]] = "invoice.paid"
    BY <2>2, <2>4
  <2>5. ASSUME NEW i \in Invoices, grants'[i] > 0, ~(grants[i] > 0)
        PROVE  /\ invoice'[i] # Absent
               /\ SubOf[i] \in Subs /\ subscription'[SubOf[i]] # Absent
               /\ Owner[SubOf[i]] \in customers'
               /\ \E e \in applied' : Kind[e] = "invoice.paid" /\ Subject[e] = i
    BY <2>1, <2>2, <2>3, <2>4, <2>5
  <2>. QED BY <1>1, <2>5 DEF GrantIsBacked
<1>3. CASE ~CommitInvoice(t)
  <2>1. UNCHANGED grants
    BY <1>3, GrantsWritten
  <2>. QED BY <1>1, <2>1 DEF GrantIsBacked
<1>. QED BY <1>2, <1>3

LEMMA AnomalyStays ==
    ASSUME Grows, NEW e \in Events, Anomaly(e)
    PROVE  Anomaly(e)'
  BY DEF Grows, Anomaly, SameWindow

LEMMA RecordStep ==
    ASSUME TypeInv, TypeInv', WorkInv, RecordInv, [Next]_vars
    PROVE  RecordInv'
<1>1. ASSUME NEW t \in Tasks, Did(t) PROVE RecordInv'
  <2>1. Grows
    BY <1>1, TaskGrows
  <2>2. (\A e \in applied : PaymentEffect(e))' /\ GrantIsBacked'
    BY <1>1, <2>1, PaymentStep, BackedStep DEF RecordInv
  <2>3. (\A e \in Events : event[e] = "processed" => e \in applied)'
    BY <1>1, <2>1, ProcessedBy DEF RecordInv, Grows
  <2>4. AcknowledgedIsSettled'
    BY <1>1, <2>1, AnsweredBy DEF RecordInv, AcknowledgedIsSettled, Grows, TypeInv, TypeOK
  <2>5. RejectedIsAnomaly'
    <3>1. ASSUME NEW e \in rejected PROVE Anomaly(e)'
      BY <2>1, AnomalyStays DEF RecordInv, RejectedIsAnomaly, TypeInv, TypeOK
    <3>2. ASSUME pc[t] = "mark", verdict[t] = "terminal_failed", NEW e \in Events, e = cur[t]
          PROVE  Anomaly(e)'
      BY <2>1, <3>2, AnomalyStays DEF WorkInv, Work
    <3>3. pc[t] = "mark" => cur[t] \in Events
      BY InHand DEF InProcess
    <3>. QED BY <1>1, <3>1, <3>2, <3>3, AnsweredBy DEF RejectedIsAnomaly
  <2>. QED BY <2>2, <2>3, <2>4, <2>5 DEF RecordInv
<1>2. ASSUME NEW c \in Customers, ProvisionCustomer(c) PROVE RecordInv'
  BY <1>2 DEF ProvisionCustomer, history, RecordInv, PaymentEffect, SameWindow, GrantIsBacked,
     AcknowledgedIsSettled, RejectedIsAnomaly, Anomaly
<1>3. CASE UNCHANGED vars
  BY <1>3 DEF vars, db, history, RecordInv, PaymentEffect, SameWindow, GrantIsBacked,
     AcknowledgedIsSettled, RejectedIsAnomaly, Anomaly
<1>. QED BY <1>1, <1>2, <1>3, NextCases

LEMMA RecordInit == Init => RecordInv
  BY TaskAssumption DEF Init, RecordInv, GrantIsBacked, AcknowledgedIsSettled, RejectedIsAnomaly,
     EventStatus

LEMMA RecordInvariant == Spec => []RecordInv
  BY RecordInit, RecordStep, TypeInvariant, WorkInvariant, PTL DEF Spec

\* No entitlement without its cause: a mirrored invoice of a mirrored subscription
\* of a known customer, and an applied payment for it.
THEOREM EntitlementsAreBacked == Spec => []GrantIsBacked
<1>1. RecordInv => GrantIsBacked
  BY DEF RecordInv
<1>. QED BY <1>1, RecordInvariant, PTL

\* A payment recorded as processed has mirrored its invoice and opened its period.
THEOREM ProcessedPaymentsEntitle == Spec => []PaidIsEntitled
<1>1. RecordInv => PaidIsEntitled
  BY DEF RecordInv, PaidIsEntitled, PaymentEffect
<1>. QED BY <1>1, RecordInvariant, PTL

\* Stripe is told 2xx only for events that are applied or rejected for good.
THEOREM NoAcknowledgedEventIsLost == Spec => []AcknowledgedIsSettled
<1>1. RecordInv => AcknowledgedIsSettled
  BY DEF RecordInv
<1>. QED BY <1>1, RecordInvariant, PTL

\* Only anomalies are rejected for good.
THEOREM OnlyAnomaliesAreRejected == Spec => []RejectedIsAnomaly
<1>1. RecordInv => RejectedIsAnomaly
  BY DEF RecordInv
<1>. QED BY <1>1, RecordInvariant, PTL

\* A processed event loses its status only to a recorded failure of the same event.
LEMMA WrittenBy ==
    ASSUME TypeInv, NEW t \in Tasks, Did(t), NEW e \in Events,
           event[e] = "processed", event'[e] # "processed"
    PROVE  MarkFailed(t) /\ cur[t] = e /\ event'[e] = verdict[t]
<1>. USE DEF Did, Step, db, TypeInv, TypeOK
<1>1. CASE \E d \in Events : Receive(t, d) \/ ReceiveProcessed(t, d)
  BY <1>1 DEF Receive, ReceiveProcessed
<1>2. CASE StartDrain(t) \/ ListCustomerEvents(t) \/ NoCustomerToDrain(t) \/ DrainOne(t) \/ DrainDone(t)
  BY <1>2 DEF StartDrain, ListCustomerEvents, NoCustomerToDrain, DrainOne, DrainDone
<1>3. CASE InsertEventConflict(t) \/ Crash(t)
  BY <1>3 DEF InsertEventConflict, Crash
<1>4. CASE InsertEvent(t)
  BY <1>4, TaskAssumption DEF InsertEvent, EventStatus
<1>5. CASE SubscriptionCreated(t) \/ CheckActiveConflicts(t) \/ SubscriptionChanged(t) \/ FlushSubscription(t)
  BY <1>5 DEF SubscriptionCreated, CheckActiveConflicts, SubscriptionChanged, FlushSubscription,
     Fail, Stage, Proceed, Flushed
<1>6. CASE InvoiceArrives(t) \/ LookupInvoice(t) \/ FlushInvoice(t)
  BY <1>6 DEF InvoiceArrives, LookupInvoice, FlushInvoice, Fail, Stage, Proceed, Flushed
<1>7. CASE CommitSubscription(t) \/ CommitInvoice(t) \/ IgnoreUnsupported(t)
  BY <1>7 DEF CommitSubscription, CommitInvoice, IgnoreUnsupported, MarkProcessed
<1>8. CASE RereadEvent(t)
  BY <1>8 DEF RereadEvent
<1>9. CASE MarkFailed(t)
  BY <1>9 DEF MarkFailed
<1>. QED BY <1>1, <1>2, <1>3, <1>4, <1>5, <1>6, <1>7, <1>8, <1>9

\* A processed event is not always final, but what it did is: its status is lost only
\* to the verdict of an attempt at the same event that failed on a stale copy, and it
\* stays applied, with the effect of its payment in the database.
Overwritten(e) == event[e] = "processed" /\ event'[e] # "processed"
EffectKept(e) ==
    /\ \E t \in Tasks : pc[t] = "mark" /\ cur[t] = e /\ event'[e] = verdict[t]
    /\ e \in applied' /\ PaymentEffect(e)'

THEOREM OverwrittenKeepsItsEffect ==
    Spec => [][\A e \in Events : Overwritten(e) => EffectKept(e)]_vars
<1>1. ASSUME TypeInv, RecordInv, RecordInv', Next, NEW e \in Events, Overwritten(e)
      PROVE  EffectKept(e)
  <2>1. CASE \E c \in Customers : ProvisionCustomer(c)
    BY <1>1, <2>1 DEF ProvisionCustomer, Overwritten
  <2>2. ASSUME NEW t \in Tasks, Did(t) PROVE EffectKept(e)
    <3>1. MarkFailed(t) /\ cur[t] = e /\ event'[e] = verdict[t]
      BY <1>1, <2>2, WrittenBy DEF Overwritten
    <3>2. e \in applied /\ applied' = applied
      BY <1>1, <3>1 DEF RecordInv, Overwritten, MarkFailed
    <3>. QED BY <1>1, <3>1, <3>2 DEF EffectKept, MarkFailed, RecordInv
  <2>. QED BY <1>1, <2>1, <2>2, NextCases
<1>2. TypeInv /\ RecordInv /\ RecordInv' /\ [Next]_vars =>
        [\A e \in Events : Overwritten(e) => EffectKept(e)]_vars
  BY <1>1
<1>. QED BY <1>2, TypeInvariant, RecordInvariant, PTL DEF Spec

-----------------------------------------------------------------------------
(***************************************************************************)
(* The pipeline implements the ledger: a commit is one ledger step, every  *)
(* other step leaves the ledger alone.                                     *)
(***************************************************************************)
\* The refinement mapping, by name.
Mirrored == {s \in Subs : subscription[s] # Absent}
Billed == {i \in Invoices : invoice[i] # Absent}
Access == {<<SubOf[i], PeriodOf[i]>> : i \in {j \in Invoices : grants[j] > 0}}

LEMMA SubscriptionRefines ==
    ASSUME TypeInv, TypeInv', NEW t \in Tasks, CommitSubscription(t),
           NEW s \in Subs, s = Subject[cur[t]]
    PROVE  Ledger!MirrorSubscription(s) \/ UNCHANGED <<Mirrored, Billed, Access>>
<1>1. Carried[cur[t]] # Absent
  BY InHand, TaskAssumption DEF CommitSubscription, InProcess
<1>2. UNCHANGED <<Billed, Access>>
  BY DEF CommitSubscription, Billed, Access
<1>3. CASE UNCHANGED subscription
  BY <1>2, <1>3 DEF Mirrored
<1>4. CASE subscription' = [subscription EXCEPT ![s] = Carried[cur[t]]]
  <2>1. Mirrored' = Mirrored \cup {s}
    BY <1>1, <1>4 DEF Mirrored, TypeInv, TypeOK
  <2>2. CASE s \in Mirrored
    BY <1>2, <2>1, <2>2
  <2>3. CASE s \notin Mirrored
    BY <1>2, <2>1, <2>3 DEF Ledger!MirrorSubscription, Mirrored, Billed, Access
  <2>. QED BY <2>2, <2>3
<1>. QED BY <1>3, <1>4 DEF CommitSubscription, Committed

LEMMA InvoiceRefines ==
    ASSUME TypeInv, TypeInv', WorkInv, NEW t \in Tasks, CommitInvoice(t),
           NEW i \in Invoices, i = Subject[cur[t]]
    PROVE  Ledger!RecordInvoice(i) \/ Ledger!GrantPeriod(i)
<1>1. /\ KnownSubscription(i) /\ invoice'[i] # Absent
      /\ \A j \in Invoices \ {i} : invoice'[j] = invoice[j] /\ grants'[j] = grants[j]
      /\ UNCHANGED subscription
  BY InvoiceCommitted
<1>2. /\ SubOf[i] \in Mirrored /\ UNCHANGED Mirrored
      /\ Billed' = Billed \cup {i}
  BY <1>1 DEF KnownSubscription, Mirrored, Billed
<1>3. CASE Kind[cur[t]] = "invoice.paid"
  <2>1. \E j \in SameWindow(i) : grants'[j] > 0
    BY <1>3, InvoiceCommitted
  <2>2. \A j \in Invoices : grants[j] > 0 => grants'[j] > 0
    BY CommitGrows DEF Committing, TypeInv, TypeOK
  <2>3. <<SubOf[i], PeriodOf[i]>> \in Access'
    BY <2>1 DEF SameWindow, Access
  <2>4. Access' = Access \cup {<<SubOf[i], PeriodOf[i]>>}
    BY <1>1, <2>2, <2>3 DEF Access
  <2>. QED BY <1>1, <1>2, <2>4 DEF Ledger!GrantPeriod, Ledger!Window, Mirrored, Billed, Access
<1>4. CASE Kind[cur[t]] # "invoice.paid"
  <2>1. UNCHANGED Access
    BY <1>4 DEF CommitInvoice, WorkInv, Work, Access
  <2>. QED BY <1>1, <1>2, <2>1 DEF Ledger!RecordInvoice, Mirrored, Billed, Access
<1>. QED BY <1>1, <1>3, <1>4

LEMMA LedgerStep ==
    ASSUME TypeInv, TypeInv', WorkInv, [Next]_vars
    PROVE  [Ledger!Next]_(Ledger!ledgerVars)
<1>. USE DEF Ledger!ledgerVars
<1>1. ASSUME NEW t \in Tasks, Did(t) PROVE [Ledger!Next]_(Ledger!ledgerVars)
  <2>1. CASE CommitSubscription(t)
    <3>1. PICK s \in Subs : s = Subject[cur[t]]
      BY <2>1, InHand DEF CommitSubscription, InProcess
    <3>2. CASE UNCHANGED <<Mirrored, Billed, Access>>
      BY <3>2 DEF Mirrored, Billed, Access
    <3>3. CASE Ledger!MirrorSubscription(s)
      BY <3>3 DEF Ledger!Next
    <3>. QED BY <2>1, <3>1, <3>2, <3>3, SubscriptionRefines
  <2>2. CASE CommitInvoice(t)
    <3>1. PICK i \in Invoices : i = Subject[cur[t]]
      BY <2>2, InHand DEF CommitInvoice, InProcess
    <3>2. Ledger!RecordInvoice(i) \/ Ledger!GrantPeriod(i)
      BY <2>2, <3>1, InvoiceRefines
    <3>. QED BY <3>2 DEF Ledger!Next
  <2>3. CASE ~Committing(t)
    BY <1>1, <2>3, MirrorKept
  <2>. QED BY <2>1, <2>2, <2>3 DEF Committing
<1>2. ASSUME NEW c \in Customers, ProvisionCustomer(c) PROVE [Ledger!Next]_(Ledger!ledgerVars)
  BY <1>2 DEF ProvisionCustomer
<1>3. CASE UNCHANGED vars
  BY <1>3 DEF vars, db
<1>. QED BY <1>1, <1>2, <1>3, NextCases

LEMMA LedgerInit == Init => Ledger!Init
  BY DEF Init, Ledger!Init

\* Whatever tasks, retries, drains and crashes do, access is opened only in the
\* step that mirrors a paid invoice of a mirrored subscription, and is never lost.
THEOREM PipelineImplementsLedger == Spec => ImplementsLedger
  BY LedgerInit, LedgerStep, TypeInvariant, WorkInvariant, PTL DEF Spec, ImplementsLedger, Ledger!Spec

\* What follows from the ledger alone: a period that is open stays open, whatever
\* retries, failures, deletions and crashes come after, and one is opened only
\* together with the record of an invoice of it whose subscription is mirrored.
AccessKept == Mirrored \subseteq Mirrored' /\ Billed \subseteq Billed' /\ Access \subseteq Access'
OpenedByInvoice ==
    \A w \in Access' \ Access :
        \E i \in Billed' : w = <<SubOf[i], PeriodOf[i]>> /\ SubOf[i] \in Mirrored

LEMMA LedgerKeepsAccess ==
    ASSUME [Ledger!Next]_(Ledger!ledgerVars)
    PROVE  AccessKept /\ OpenedByInvoice
<1>1. ASSUME NEW s \in Subs, Ledger!MirrorSubscription(s) PROVE AccessKept /\ OpenedByInvoice
  BY <1>1 DEF Ledger!MirrorSubscription, AccessKept, OpenedByInvoice, Mirrored, Billed, Access
<1>2. ASSUME NEW i \in Invoices, Ledger!RecordInvoice(i) PROVE AccessKept /\ OpenedByInvoice
  BY <1>2 DEF Ledger!RecordInvoice, AccessKept, OpenedByInvoice, Mirrored, Billed, Access
<1>3. ASSUME NEW i \in Invoices, Ledger!GrantPeriod(i) PROVE AccessKept /\ OpenedByInvoice
  <2>1. SubOf[i] \in Mirrored /\ Mirrored' = Mirrored /\ Billed' = Billed \cup {i}
        /\ Access' = Access \cup {<<SubOf[i], PeriodOf[i]>>}
    BY <1>3 DEF Ledger!GrantPeriod, Ledger!Window, Mirrored, Billed, Access
  <2>. QED BY <2>1 DEF AccessKept, OpenedByInvoice
<1>4. CASE UNCHANGED Ledger!ledgerVars
  BY <1>4 DEF Ledger!ledgerVars, AccessKept, OpenedByInvoice, Mirrored, Billed, Access
<1>. QED BY <1>1, <1>2, <1>3, <1>4 DEF Ledger!Next

THEOREM AccessIsNeverTakenBack == Spec => [][AccessKept /\ OpenedByInvoice]_vars
<1>1. TypeInv /\ TypeInv' /\ WorkInv /\ [Next]_vars => [AccessKept /\ OpenedByInvoice]_vars
  BY LedgerStep, LedgerKeepsAccess
<1>. QED BY <1>1, TypeInvariant, WorkInvariant, PTL DEF Spec

-----------------------------------------------------------------------------
(***************************************************************************)
(* The mirror.  A commit that leaves the status of its row alone has read  *)
(* that row, so an event of it was applied before (ReadIsThere).           *)
(***************************************************************************)
\* What the application of an event adds to the statuses sent for a row.
LEMMA SentBy ==
    ASSUME NEW c, applied' = applied \cup {c}, NEW kinds, NEW row
    PROVE  /\ Kind[c] \in kinds /\ Subject[c] = row =>
                  Sent(kinds, row)' = Sent(kinds, row) \cup {Carried[c]}
           /\ ~(Kind[c] \in kinds /\ Subject[c] = row) => Sent(kinds, row)' = Sent(kinds, row)
  BY DEF Sent

\* A commit of the event in hand keeps the rows of its kinds in step.
LEMMA CommitFollows ==
    ASSUME NEW t \in Tasks, NEW kinds, NEW R, NEW row, NEW row2, NEW k \in R,
           DOMAIN row = R, row2 = Committed(t, row), applied' = applied \cup {cur[t]},
           Kind[cur[t]] \in kinds, Carried[cur[t]] # Absent,
           read[t] # Absent => row[Subject[cur[t]]] # Absent,
           Follows(row[k], Sent(kinds, k))
    PROVE  Follows(row2[k], Sent(kinds, k)')
<1>1. CASE k = Subject[cur[t]]
  <2>1. Sent(kinds, k)' = Sent(kinds, k) \cup {Carried[cur[t]]}
    BY <1>1, SentBy
  <2>2. row2[k] = Carried[cur[t]] \/ (row2[k] = row[k] /\ row[k] # Absent)
    BY <1>1 DEF Committed
  <2>. QED BY <2>1, <2>2 DEF Follows
<1>2. CASE k # Subject[cur[t]]
  <2>1. Sent(kinds, k)' = Sent(kinds, k)
    BY <1>2, SentBy
  <2>. QED BY <1>2, <2>1 DEF Committed
<1>. QED BY <1>1, <1>2

LEMMA MirrorStep ==
    ASSUME TypeInv, WorkInv, MirrorFollowsEvents, [Next]_vars
    PROVE  MirrorFollowsEvents'
<1>. USE DEF MirrorFollowsEvents
<1>1. ASSUME NEW t \in Tasks, CommitSubscription(t) PROVE MirrorFollowsEvents'
  <2>1. /\ Kind[cur[t]] \in SubscriptionKinds /\ Kind[cur[t]] \notin InvoiceKinds
        /\ Carried[cur[t]] # Absent
        /\ read[t] # Absent => subscription[Subject[cur[t]]] # Absent
    BY <1>1, InHand, TaskAssumption
    DEF CommitSubscription, InProcess, WorkInv, Work, ReadIsThere, SubscriptionKinds, InvoiceKinds
  <2>2. /\ subscription' = Committed(t, subscription) /\ invoice' = invoice
        /\ applied' = applied \cup {cur[t]}
    BY <1>1 DEF CommitSubscription, MarkProcessed
  <2>3. DOMAIN subscription = Subs
    BY DEF TypeInv, TypeOK
  <2>4. \A s \in Subs : Follows(subscription[s], Sent(SubscriptionKinds, s))'
    BY <2>1, <2>2, <2>3, CommitFollows
  <2>5. \A i \in Invoices : Sent(InvoiceKinds, i)' = Sent(InvoiceKinds, i)
    BY <2>1, <2>2, SentBy
  <2>. QED BY <2>2, <2>4, <2>5
<1>2. ASSUME NEW t \in Tasks, CommitInvoice(t) PROVE MirrorFollowsEvents'
  <2>1. /\ Kind[cur[t]] \in InvoiceKinds /\ Kind[cur[t]] \notin SubscriptionKinds
        /\ Carried[cur[t]] # Absent
        /\ read[t] # Absent => invoice[Subject[cur[t]]] # Absent
    BY <1>2, InHand, TaskAssumption
    DEF CommitInvoice, InProcess, WorkInv, Work, ReadIsThere, SubscriptionKinds, InvoiceKinds
  <2>2. /\ invoice' = Committed(t, invoice) /\ subscription' = subscription
        /\ applied' = applied \cup {cur[t]}
    BY <1>2 DEF CommitInvoice, MarkProcessed
  <2>3. DOMAIN invoice = Invoices
    BY DEF TypeInv, TypeOK
  <2>4. \A i \in Invoices : Follows(invoice[i], Sent(InvoiceKinds, i))'
    BY <2>1, <2>2, <2>3, CommitFollows
  <2>5. \A s \in Subs : Sent(SubscriptionKinds, s)' = Sent(SubscriptionKinds, s)
    BY <2>1, <2>2, SentBy
  <2>. QED BY <2>2, <2>4, <2>5
<1>3. ASSUME NEW t \in Tasks, Did(t), ~Committing(t), applied' # applied
      PROVE  MirrorFollowsEvents'
  <2>1. /\ IgnoreUnsupported(t) /\ applied' = applied \cup {cur[t]}
        /\ UNCHANGED <<subscription, invoice>>
    BY <1>3, AppliedBy, MirrorKept
  <2>2. Kind[cur[t]] \notin SubscriptionKinds \cup InvoiceKinds
    BY <2>1 DEF IgnoreUnsupported, Begins, SubscriptionKinds, InvoiceKinds
  <2>3. /\ \A s \in Subs : Sent(SubscriptionKinds, s)' = Sent(SubscriptionKinds, s)
        /\ \A i \in Invoices : Sent(InvoiceKinds, i)' = Sent(InvoiceKinds, i)
    BY <2>1, <2>2, SentBy
  <2>. QED BY <2>1, <2>3
<1>4. ASSUME UNCHANGED <<subscription, invoice, applied>> PROVE MirrorFollowsEvents'
  BY <1>4 DEF Sent
<1>5. ASSUME NEW t \in Tasks, Did(t) PROVE MirrorFollowsEvents'
  BY <1>1, <1>2, <1>3, <1>4, <1>5, MirrorKept DEF Committing
<1>6. ASSUME NEW c \in Customers, ProvisionCustomer(c) PROVE MirrorFollowsEvents'
  BY <1>4, <1>6 DEF ProvisionCustomer, history
<1>7. CASE UNCHANGED vars
  BY <1>4, <1>7 DEF vars, db, history
<1>. QED BY <1>5, <1>6, <1>7, NextCases

\* A row is mirrored exactly when an event of it was applied, with a status that
\* such an event carried, whichever tasks wrote it on whichever reads.
THEOREM MirrorIsSent == Spec => []MirrorFollowsEvents
<1>1. Init => MirrorFollowsEvents
  BY DEF Init, MirrorFollowsEvents, Follows, Sent
<1>. QED BY <1>1, MirrorStep, TypeInvariant, WorkInvariant, PTL DEF Spec

-----------------------------------------------------------------------------
(***************************************************************************)
(* Progress, without time.  Three facts carry the argument that events are *)
(* settled: some task always goes on, a task at work has finitely many     *)
(* steps left, and an attempt that can be settled fails only by losing a   *)
(* race that its retry cannot lose.  That fair scheduling turns them into  *)
(* EventuallySettled is left to the model checker.                         *)
(***************************************************************************)
\* Whoever has flushed the row it writes waits for nobody; whoever holds its event
\* row goes on, or waits for one who has.
LEMMA HolderGoesOn ==
    ASSUME NEW t \in Tasks, HoldsEvent(t)
    PROVE  \E u \in Tasks : GoesOn(u)
<1>1. CASE WaitsForRow(t)
  <2>1. PICK u \in Tasks : pc[u] = "ready"
    BY <1>1 DEF WaitsForRow, RowLocked, HoldsRow
  <2>. QED BY <2>1 DEF GoesOn, WaitsForEvent, WaitsForRow
<1>2. CASE ~WaitsForRow(t)
  BY <1>2 DEF HoldsEvent, GoesOn, WaitsForEvent
<1>. QED BY <1>1, <1>2

\* While any task is at work, one of them is not waiting for a row: however many
\* deliveries and drains hold rows, they do not wait for each other in a cycle.
THEOREM WaitsHaveNoCycle == Spec => []NoLockCycle
<1>1. TypeInv => NoLockCycle
  <2>. SUFFICES ASSUME NEW t \in Tasks, pc[t] # "idle"
                PROVE  \E u \in Tasks : GoesOn(u)
    BY DEF NoLockCycle
  <2>1. CASE WaitsForEvent(t)
    BY <2>1, HolderGoesOn DEF WaitsForEvent, EventLocked
  <2>2. CASE WaitsForRow(t)
    BY <2>2, HolderGoesOn DEF WaitsForRow, HoldsEvent
  <2>. QED BY <2>1, <2>2 DEF GoesOn
<1>. QED BY <1>1, TypeInvariant, PTL

-----------------------------------------------------------------------------
(***************************************************************************)
(* Termination of a task.  StepsLeft falls with every step; only a request *)
(* that lists its customer's events takes up a batch, and it has kept      *)
(* enough in hand for a full one.                                          *)
(***************************************************************************)
\* The batch of a task is finite, and one event less is one less.
LEMMA BatchSize ==
    ASSUME TypeInv, NEW t \in Tasks
    PROVE  /\ Cardinality(todo[t]) \in Nat
           /\ \A e \in todo[t] : Cardinality(todo[t] \ {e}) = Cardinality(todo[t]) - 1
           /\ \A S \in SUBSET Events : Cardinality(S) \in Nat
<1>1. \A S \in SUBSET Events : IsFiniteSet(S)
  BY FS_Subset, EventsAssumption
<1>2. todo[t] \in SUBSET Events
  BY DEF TypeInv, TypeOK
<1>. QED BY <1>1, <1>2, FS_CardinalityType, FS_RemoveElement

\* A step of a task that leaves its batch alone.
Ends(t) == pc[t] # "idle" /\ pc'[t] = "idle" /\ todo'[t] = {} /\ ~draining'[t]
MovesOn(t) ==
    /\ pc[t] # "idle" /\ pc'[t] # "idle"
    /\ StepsInHand[pc'[t]] < StepsInHand[pc[t]]
    /\ todo'[t] = todo[t] /\ draining'[t] = draining[t]

\* Every step of a task ends it, moves it on, or takes up or shortens a batch.
LEMMA StepCases ==
    ASSUME TypeInv, NEW t \in Tasks, Step(t)
    PROVE  Ends(t) \/ MovesOn(t) \/ ListCustomerEvents(t) \/ DrainOne(t)
<1>. USE DEF Step, Ends, MovesOn, StepsInHand, Goto, TypeInv, TypeOK
<1>1. CASE InsertEvent(t) \/ InsertEventConflict(t)
  BY <1>1 DEF InsertEvent, InsertEventConflict, Leave
<1>2. CASE SubscriptionCreated(t) \/ CheckActiveConflicts(t) \/ SubscriptionChanged(t) \/ FlushSubscription(t)
  BY <1>2 DEF SubscriptionCreated, CheckActiveConflicts, SubscriptionChanged, FlushSubscription,
     Begins, Fail, Stage, Proceed, Flushed
<1>3. CASE InvoiceArrives(t) \/ LookupInvoice(t) \/ FlushInvoice(t)
  BY <1>3 DEF InvoiceArrives, LookupInvoice, FlushInvoice, Begins, Fail, Stage, Proceed, Flushed
<1>4. CASE CommitSubscription(t) \/ CommitInvoice(t) \/ IgnoreUnsupported(t)
  BY <1>4 DEF CommitSubscription, CommitInvoice, IgnoreUnsupported, Begins, MarkProcessed,
     Returned, NextInDrain
<1>5. CASE RereadEvent(t) \/ MarkFailed(t)
  BY <1>5 DEF RereadEvent, MarkFailed, Leave, NextInDrain
<1>6. CASE NoCustomerToDrain(t) \/ DrainDone(t)
  BY <1>6 DEF NoCustomerToDrain, DrainDone, Leave
<1>. QED BY <1>1, <1>2, <1>3, <1>4, <1>5, <1>6

LEMMA EndAdvances ==
    ASSUME TypeInv, NEW t \in Tasks, Ends(t)
    PROVE  StepsLeft(t)' \in 0 .. StepsLeft(t) - 1
<1>1. /\ StepsLeft(t)' = 0 /\ pc[t] \in PC \ {"idle"}
  BY DEF StepsLeft, Ends, TypeInv, TypeOK
<1>2. StepsInHand[pc[t]] \in 1 .. 8
  BY <1>1 DEF StepsInHand, PC
<1>. QED BY <1>1, <1>2, BatchSize, TaskAssumption DEF StepsLeft, Ends

LEMMA MoveAdvances ==
    ASSUME TypeInv, TypeInv', NEW t \in Tasks, MovesOn(t)
    PROVE  StepsLeft(t)' \in 0 .. StepsLeft(t) - 1
<1>1. StepsInHand[pc[t]] \in 0 .. 8 /\ StepsInHand[pc'[t]] \in 0 .. 8
  BY DEF StepsInHand, PC, TypeInv, TypeOK
<1>. QED BY <1>1, BatchSize, TaskAssumption DEF StepsLeft, MovesOn

\* A request takes up a batch no larger than the limit it has steps for.
LEMMA ListAdvances ==
    ASSUME TypeInv, NEW t \in Tasks, ListCustomerEvents(t)
    PROVE  StepsLeft(t)' \in 0 .. StepsLeft(t) - 1
<1>1. PICK S \in SUBSET Events : Cardinality(S) <= DrainLimit /\ todo'[t] = S
  BY DEF ListCustomerEvents, RetryableOf, EventsOf, IsBatch, TypeInv, TypeOK
<1>2. pc[t] = "list" /\ ~draining[t] /\ pc'[t] = "drain" /\ draining'[t]
  BY DEF ListCustomerEvents, Goto, TypeInv, TypeOK, Control
<1>3. Cardinality(S) \in Nat /\ Cardinality(todo[t]) \in Nat
  BY BatchSize
<1>4. StepsLeft(t)' = 1 + 8 * Cardinality(S)
  BY <1>1, <1>2, <1>3 DEF StepsLeft, StepsInHand
<1>5. StepsLeft(t) = 1 + 8 * Cardinality(todo[t]) + (8 * DrainLimit + 1)
  BY <1>2, <1>3, TaskAssumption DEF StepsLeft, StepsInHand
<1>. QED BY <1>1, <1>3, <1>4, <1>5, TaskAssumption

\* A drain that takes an event in hand has one less to take.
LEMMA DrainAdvances ==
    ASSUME TypeInv, NEW t \in Tasks, DrainOne(t)
    PROVE  StepsLeft(t)' \in 0 .. StepsLeft(t) - 1
<1>1. PICK e \in todo[t] : todo'[t] = todo[t] \ {e}
  BY DEF DrainOne, TypeInv, TypeOK
<1>2. /\ pc[t] = "drain" /\ draining[t] /\ draining'[t]
      /\ pc'[t] \in {"drain", "start"}
  BY DEF DrainOne, Goto, TypeInv, TypeOK, Control
<1>3. /\ Cardinality(todo[t]) \in Nat /\ Cardinality(todo'[t]) \in Nat
      /\ Cardinality(todo'[t]) = Cardinality(todo[t]) - 1
  BY <1>1, BatchSize DEF TypeInv, TypeOK
<1>4. StepsLeft(t) = 1 + 8 * Cardinality(todo[t])
  BY <1>2, <1>3 DEF StepsLeft, StepsInHand
<1>5. StepsLeft(t)' = StepsInHand[pc'[t]] + 8 * Cardinality(todo'[t])
      /\ StepsInHand[pc'[t]] \in {1, 7}
  BY <1>2, <1>3 DEF StepsLeft, StepsInHand
<1>. QED BY <1>3, <1>4, <1>5

\* A drain never holds more than a batch, and whoever drains nothing holds none.
BatchInv ==
    \A t \in Tasks :
        IF draining[t] THEN Cardinality(todo[t]) <= DrainLimit ELSE todo[t] = {}

LEMMA BatchStep ==
    ASSUME TypeInv, BatchInv, [Next]_vars
    PROVE  BatchInv'
<1>1. ASSUME NEW t \in Tasks, Did(t) PROVE BatchInv'
  <2>1. IF draining'[t] THEN Cardinality(todo'[t]) <= DrainLimit ELSE todo'[t] = {}
    <3>1. CASE \E e \in Events : Receive(t, e) \/ ReceiveProcessed(t, e)
      BY <3>1 DEF Receive, ReceiveProcessed, task, BatchInv
    <3>2. CASE Crash(t) \/ Ends(t)
      BY <3>2 DEF Crash, Leave, Ends, TypeInv, TypeOK
    <3>3. CASE StartDrain(t) \/ ListCustomerEvents(t)
      BY <3>3 DEF StartDrain, ListCustomerEvents, IsBatch, TypeInv, TypeOK
    <3>4. CASE MovesOn(t)
      BY <3>4 DEF MovesOn, BatchInv
    <3>5. CASE DrainOne(t)
      <4>1. PICK e \in todo[t] : todo'[t] = todo[t] \ {e}
        BY <3>5 DEF DrainOne, TypeInv, TypeOK
      <4>2. draining[t] /\ draining'[t] = draining[t]
        BY <3>5 DEF DrainOne, TypeInv, Control
      <4>3. Cardinality(todo[t]) \in Nat /\ Cardinality(todo'[t]) = Cardinality(todo[t]) - 1
        BY <4>1, BatchSize
      <4>. QED BY <4>2, <4>3, TaskAssumption DEF BatchInv
    <3>. QED BY <1>1, <3>1, <3>2, <3>3, <3>4, <3>5, StepCases DEF Did
  <2>. QED BY <1>1, <2>1, OneTaskMoves DEF BatchInv, OthersKeep
<1>2. ASSUME NEW c \in Customers, ProvisionCustomer(c) PROVE BatchInv'
  BY <1>2 DEF ProvisionCustomer, task, BatchInv
<1>3. CASE UNCHANGED vars
  BY <1>3 DEF vars, task, BatchInv
<1>. QED BY <1>1, <1>2, <1>3, NextCases

LEMMA BatchInvariant == Spec => []BatchInv
<1>1. Init => BatchInv
  BY DEF Init, InitTasks, BatchInv
<1>. QED BY <1>1, BatchStep, TypeInvariant, PTL DEF Spec

LEMMA LeftIsBounded ==
    ASSUME TypeInv, BatchInv, NEW t \in Tasks
    PROVE  StepsLeft(t) <= StepsLimit
<1>1. StepsInHand[pc[t]] \in 0 .. 8 /\ DrainLimit \in Nat
  BY TaskAssumption DEF StepsInHand, PC, TypeInv, TypeOK
<1>2. CASE draining[t]
  BY <1>1, <1>2, BatchSize DEF StepsLeft, StepsLimit, BatchInv
<1>3. CASE ~draining[t]
  <2>1. Cardinality(todo[t]) = 0
    BY <1>3, FS_EmptySet DEF BatchInv
  <2>. QED BY <1>1, <1>3, <2>1 DEF StepsLeft, StepsLimit
<1>. QED BY <1>2, <1>3

\* An activation of a task takes boundedly many steps of its own, whatever fails
\* and whatever the other tasks do.
THEOREM TasksEnd == Spec => TasksAdvance
<1>1. ASSUME TypeInv, TypeInv', BatchInv, NEW t \in Tasks, Step(t)
      PROVE  StepsLeft(t) <= StepsLimit /\ StepsLeft(t)' \in 0 .. StepsLeft(t) - 1
  BY <1>1, StepCases, EndAdvances, MoveAdvances, ListAdvances, DrainAdvances, LeftIsBounded
<1>2. TypeInv /\ TypeInv' /\ BatchInv /\ [Next]_vars =>
        [\A t \in Tasks : Step(t) =>
            StepsLeft(t) <= StepsLimit /\ StepsLeft(t)' \in 0 .. StepsLeft(t) - 1]_vars
  BY <1>1
<1>. QED BY <1>2, TypeInvariant, BatchInvariant, PTL DEF Spec, TasksAdvance

-----------------------------------------------------------------------------
(***************************************************************************)
(* Failures.  An event whose subscription is mirrored and whose period is  *)
(* its own passes every check of its handler (OwnersKnown and              *)
(* OneGrantPerInvoice say why): what is left is the unique index.          *)
(***************************************************************************)
\* What a task has read is forgotten when the attempt is over.
FreshInv == \A t \in Tasks : pc[t] \notin {"staged", "ready", "mark"} => read[t] = Absent

LEMMA FreshStep ==
    ASSUME TypeInv, FreshInv, [Next]_vars
    PROVE  FreshInv'
<1>1. ASSUME NEW t \in Tasks, Did(t) PROVE FreshInv'
  <2>1. pc'[t] \notin {"staged", "ready", "mark"} => read'[t] = Absent
    <3>. USE DEF Did, Step, Goto, TypeInv, TypeOK, FreshInv
    <3>1. CASE \E e \in Events : Receive(t, e) \/ ReceiveProcessed(t, e)
      BY <3>1 DEF Receive, ReceiveProcessed, task
    <3>2. CASE StartDrain(t) \/ ListCustomerEvents(t) \/ NoCustomerToDrain(t) \/ DrainOne(t) \/ DrainDone(t)
      BY <3>2 DEF StartDrain, ListCustomerEvents, NoCustomerToDrain, DrainOne, DrainDone, Leave
    <3>3. CASE InsertEvent(t) \/ InsertEventConflict(t) \/ Crash(t)
      BY <3>3 DEF InsertEvent, InsertEventConflict, Crash, Leave
    <3>4. CASE SubscriptionCreated(t) \/ CheckActiveConflicts(t) \/ SubscriptionChanged(t) \/ FlushSubscription(t)
      BY <3>4 DEF SubscriptionCreated, CheckActiveConflicts, SubscriptionChanged, FlushSubscription,
         Begins, Fail, Stage, Proceed, Flushed
    <3>5. CASE InvoiceArrives(t) \/ LookupInvoice(t) \/ FlushInvoice(t)
      BY <3>5 DEF InvoiceArrives, LookupInvoice, FlushInvoice, Begins, Fail, Stage, Proceed, Flushed
    <3>6. CASE CommitSubscription(t) \/ CommitInvoice(t) \/ IgnoreUnsupported(t)
      BY <3>6 DEF CommitSubscription, CommitInvoice, IgnoreUnsupported, MarkProcessed, Returned,
         NextInDrain
    <3>7. CASE RereadEvent(t) \/ MarkFailed(t)
      BY <3>7 DEF RereadEvent, MarkFailed, Leave, NextInDrain
    <3>. QED BY <1>1, <3>1, <3>2, <3>3, <3>4, <3>5, <3>6, <3>7
  <2>. QED BY <1>1, <2>1, OneTaskMoves DEF FreshInv, OthersKeep
<1>2. ASSUME NEW c \in Customers, ProvisionCustomer(c) PROVE FreshInv'
  BY <1>2 DEF ProvisionCustomer, task, FreshInv
<1>3. CASE UNCHANGED vars
  BY <1>3 DEF vars, task, FreshInv
<1>. QED BY <1>1, <1>2, <1>3, NextCases

LEMMA FreshInvariant == Spec => []FreshInv
<1>1. Init => FreshInv
  BY DEF Init, InitTasks, FreshInv
<1>. QED BY <1>1, FreshStep, TypeInvariant, PTL DEF Spec

\* A task fails in one of the six steps that may raise.
LEMMA FailsByHandler ==
    ASSUME TypeInv, NEW t \in Tasks, Did(t), pc[t] # "failed", pc'[t] = "failed"
    PROVE  \/ SubscriptionCreated(t) \/ CheckActiveConflicts(t) \/ SubscriptionChanged(t)
           \/ FlushSubscription(t) \/ InvoiceArrives(t) \/ FlushInvoice(t)
<1>. USE DEF Did, Step, Goto, TypeInv, TypeOK
<1>1. CASE \E e \in Events : Receive(t, e) \/ ReceiveProcessed(t, e)
  BY <1>1 DEF Receive, ReceiveProcessed, task
<1>2. CASE StartDrain(t) \/ ListCustomerEvents(t) \/ NoCustomerToDrain(t) \/ DrainOne(t) \/ DrainDone(t)
  BY <1>2 DEF StartDrain, ListCustomerEvents, NoCustomerToDrain, DrainOne, DrainDone, Leave
<1>3. CASE InsertEvent(t) \/ InsertEventConflict(t) \/ Crash(t)
  BY <1>3 DEF InsertEvent, InsertEventConflict, Crash, Leave
<1>4. CASE CommitSubscription(t) \/ CommitInvoice(t) \/ IgnoreUnsupported(t)
  BY <1>4 DEF CommitSubscription, CommitInvoice, IgnoreUnsupported, MarkProcessed, Returned, NextInDrain
<1>5. CASE RereadEvent(t) \/ MarkFailed(t)
  BY <1>5 DEF RereadEvent, MarkFailed, Leave, NextInDrain
<1>6. CASE LookupInvoice(t)
  BY <1>6 DEF LookupInvoice, Stage
<1>. QED BY <1>1, <1>2, <1>3, <1>4, <1>5, <1>6

LostARace(t) == pc[t] # "start" /\ read[t] = Absent /\ MirrorRow(cur[t]) # Absent

\* A subscription event that can be settled: its customer is known, its row is there.
LEMMA SubscriptionFails ==
    ASSUME TypeInv, WorkInv, FreshInv, NEW t \in Tasks, pc[t] # "failed", pc'[t] = "failed",
           Settleable(cur[t]),
           \/ SubscriptionCreated(t) \/ CheckActiveConflicts(t)
           \/ SubscriptionChanged(t) \/ FlushSubscription(t)
    PROVE  LostARace(t)
<1>1. /\ pc[t] \in InProcess /\ Kind[cur[t]] \in SubscriptionKinds
      /\ Kind[cur[t]] \notin InvoiceKinds
  BY DEF SubscriptionCreated, CheckActiveConflicts, SubscriptionChanged, FlushSubscription,
     Begins, InProcess, SubscriptionKinds, InvoiceKinds
<1>2. /\ Subject[cur[t]] \in Subs /\ CustomerOf[cur[t]] = Owner[Subject[cur[t]]]
      /\ subscription[Subject[cur[t]]] # Absent
  BY <1>1, InHand DEF Settleable, SubscriptionOf
<1>3. CustomerOf[cur[t]] \in customers
  BY <1>2 DEF WorkInv, OwnersKnown
<1>4. ~SubscriptionCreated(t) /\ ~SubscriptionChanged(t)
  BY <1>2, <1>3 DEF SubscriptionCreated, SubscriptionChanged, Begins, Stage, Proceed, Goto, TypeInv, TypeOK
<1>5. MirrorRow(cur[t]) # Absent
  BY <1>1, <1>2 DEF MirrorRow
<1>6. CASE CheckActiveConflicts(t)
  BY <1>5, <1>6 DEF LostARace, CheckActiveConflicts, FreshInv
<1>7. CASE FlushSubscription(t)
  BY <1>5, <1>7 DEF LostARace, FlushSubscription, DuplicateKey, Flushed, Goto, TypeInv, TypeOK
<1>. QED BY <1>4, <1>6, <1>7

\* An invoice event that can be settled: no other invoice shares its period, so it is
\* in conflict with none, and its own entitlement is at most one.
LEMMA InvoiceFails ==
    ASSUME TypeInv, GrantInv, NEW t \in Tasks, pc[t] # "failed", pc'[t] = "failed",
           Settleable(cur[t]), InvoiceArrives(t) \/ FlushInvoice(t)
    PROVE  LostARace(t)
<1>1. pc[t] \in InProcess /\ Kind[cur[t]] \in InvoiceKinds
  BY DEF InvoiceArrives, FlushInvoice, Begins, InProcess
<1>2. /\ Subject[cur[t]] \in Invoices
      /\ SameWindow(Subject[cur[t]]) = {Subject[cur[t]]}
      /\ KnownSubscription(Subject[cur[t]])
  BY <1>1, InHand DEF Settleable, Uncontested, SubscriptionOf, KnownSubscription
<1>3. CASE InvoiceArrives(t)
  <2>1. ConflictingInvoices(Subject[cur[t]]) = {} /\ ~SeveralOf(ConflictingInvoices(Subject[cur[t]]))
    BY <1>2 DEF ConflictingInvoices, SeveralOf
  <2>. QED BY <1>2, <1>3, <2>1 DEF InvoiceArrives, Proceed, Goto, TypeInv, TypeOK
<1>4. CASE FlushInvoice(t)
  <2>1. ~SeveralEntitlements(Subject[cur[t]])
    BY <1>2 DEF SeveralEntitlements, SeveralOf, GrantInv, OneGrantPerInvoice, TypeInv, TypeOK
  <2>2. DuplicateKey(t, invoice)
    BY <1>4, <2>1 DEF FlushInvoice, Flushed, Goto, TypeInv, TypeOK
  <2>. QED BY <1>1, <1>4, <2>2 DEF LostARace, FlushInvoice, DuplicateKey, MirrorRow
<1>. QED BY <1>3, <1>4

\* An attempt at an event that can be settled fails only if it found no row and
\* another task has inserted it since; its retry will find that row.
THEOREM FailuresAreLostRaces == Spec => FailsOnlyInARace
<1>1. ASSUME TypeInv, WorkInv, GrantInv, FreshInv, Next, NEW t \in Tasks,
             pc[t] # "failed", pc'[t] = "failed", Settleable(cur[t])
      PROVE  LostARace(t)
  <2>1. CASE \E c \in Customers : ProvisionCustomer(c)
    BY <1>1, <2>1 DEF ProvisionCustomer, task
  <2>2. ASSUME NEW u \in Tasks, Did(u) PROVE LostARace(t)
    <3>1. u = t
      BY <1>1, <2>2, OneTaskMoves DEF OthersKeep
    <3>. QED BY <1>1, <2>2, <3>1, FailsByHandler, SubscriptionFails, InvoiceFails
  <2>. QED BY <1>1, <2>1, <2>2, NextCases
<1>2. TypeInv /\ WorkInv /\ GrantInv /\ FreshInv /\ [Next]_vars =>
        [\A t \in Tasks :
            pc[t] # "failed" /\ pc'[t] = "failed" /\ Settleable(cur[t]) =>
                pc[t] # "start" /\ read[t] = Absent /\ MirrorRow(cur[t]) # Absent]_vars
  BY <1>1 DEF LostARace
<1>3. Spec => []GrantInv
  BY GrantInit, GrantStep, TypeInvariant, PTL DEF Spec
<1>. QED
  BY <1>2, <1>3, TypeInvariant, WorkInvariant, FreshInvariant, PTL DEF Spec, FailsOnlyInARace

=============================================================================
