----------------------------- MODULE Provisioning -----------------------------
(***************************************************************************)
(* PaymentsService.provision_customer and its two callers: the dispatcher  *)
(* of the user.created event a sign-in emits, and a checkout that finds no *)
(* customer.  Both may run for one user at once; Stripe's idempotency key  *)
(* and the unique index on (user_id, livemode) are what keeps them apart.  *)
(*                                                                         *)
(* A job is a dispatch (named for its sign-in) or a checkout.  A customer  *)
(* at Stripe is named for the job whose call created it.                   *)
(***************************************************************************)
EXTENDS GoogleSignIn

CONSTANTS
    Checkouts,      \* POST /payments/create-checkout-session
    MaxFaults       \* bound on calls and commits that fail, restarts and keys Stripe forgets

Jobs == SignIns \cup Checkouts

ASSUME ProvisioningAssumption ==
    /\ SignIns \cap Checkouts = {} /\ None \notin Jobs
    /\ None \notin [customer : Jobs, by : Jobs] \cup [customer : Jobs, email : Emails]
    /\ MaxFaults \in Nat

VARIABLES
    event,      \* status of the user.created event of a sign-in, "none" before it is emitted
    job,        \* job[j]: how far it is
    for,        \* the user it is for
    holds,      \* the customer Stripe answered it with
    atStripe,   \* internal_user_id in a Stripe customer's metadata
    key,        \* what Stripe keeps under customer:create:<user>: parameters and answer
    customer,   \* customer[u]: row of stripe.customer with the job that inserted it, or None
    faults,
    forgotten   \* users whose key Stripe has forgotten

jobVars == <<job, for, holds>>
provisionVars == <<event, jobVars, atStripe, key, customer, faults, forgotten>>

ProvisioningInit ==
    /\ event = [e \in SignIns |-> "none"]
    /\ job = [j \in Jobs |-> "unused"]
    /\ for = [j \in Jobs |-> None]
    /\ holds = [j \in Jobs |-> None]
    /\ atStripe = [c \in Jobs |-> None]
    /\ key = [u \in Users |-> None]
    /\ customer = [u \in Users |-> None]
    /\ faults = 0
    /\ forgotten = {}

At(j, phase) ==
    /\ job' = [job EXCEPT ![j] = phase]
    /\ UNCHANGED <<for, holds>>

Begin(j, phase, u) ==
    /\ job' = [job EXCEPT ![j] = phase]
    /\ for' = [for EXCEPT ![j] = u]
    /\ UNCHANGED holds

\* A job that has ended keeps only its user.
Over(j) ==
    /\ job' = [job EXCEPT ![j] = "over"]
    /\ holds' = [holds EXCEPT ![j] = None]
    /\ UNCHANGED for

Fault ==
    /\ faults < MaxFaults
    /\ faults' = faults + 1

\* emit_event, after the sign-in has been committed: when it fails the user is sent to
\* /auth/failure with no cookies, and the rows stay.
EmitEvent(s) ==
    /\ sign[s] = "saved"
    /\ \/ /\ sign' = [sign EXCEPT ![s] = "done"]
          /\ event' = [event EXCEPT ![s] = "pending"]
          /\ Begin(s, "queued", user[s])
          /\ UNCHANGED faults
       \/ /\ Fault
          /\ sign' = [sign EXCEPT ![s] = "failed"]
          /\ UNCHANGED <<event, jobVars>>
    /\ UNCHANGED <<email, account, profile, user, linked, loaded>>
    /\ UNCHANGED <<atStripe, key, customer, forgotten>>

LookupCustomer(j) ==
    /\ job[j] = "queued"
    /\ At(j, IF customer[for[j]] # None THEN "provisioned" ELSE "creating")
    /\ UNCHANGED <<signVars, event, atStripe, key, customer, faults, forgotten>>

\* Mutant: the call is made without an idempotency key.
Remembered_Never(u) == FALSE
Remembered(u) == key[u] # None

\* Mutant: an answer without a customer is taken for one.
Answered_Always(j, answer) ==
    /\ job' = [job EXCEPT ![j] = "created"]
    /\ holds' = [holds EXCEPT ![j] = answer]
    /\ UNCHANGED for
Answered(j, answer) ==
    /\ job' = [job EXCEPT ![j] = IF answer = None THEN "failing" ELSE "created"]
    /\ holds' = [holds EXCEPT ![j] = answer]
    /\ UNCHANGED for

\* Stripe's side of customers.create: a known key answers as before, and refuses other
\* parameters than before (the address is read afresh for every call).
CreateCustomer(j) == LET u == for[j] IN
    /\ job[j] = "creating"
    /\ \/ /\ ~Remembered(u)
          /\ atStripe' = [atStripe EXCEPT ![j] = u]
          /\ key' = [key EXCEPT ![u] = [customer |-> j, email |-> email[u]]]
          /\ \/ Answered(j, j) /\ UNCHANGED faults
             \/ Fault /\ Answered(j, None)
       \/ /\ Remembered(u)
          /\ Answered(j, IF key[u].email = email[u] THEN key[u].customer ELSE None)
          /\ UNCHANGED <<atStripe, key, faults>>
       \/ /\ Fault /\ Answered(j, None)
          /\ UNCHANGED <<atStripe, key>>
    /\ UNCHANGED <<signVars, event, customer, forgotten>>

KeyForgotten(u) ==
    /\ key[u] # None /\ Fault
    /\ key' = [key EXCEPT ![u] = None]
    /\ forgotten' = forgotten \cup {u}
    /\ UNCHANGED <<signVars, event, jobVars, atStripe, customer>>

\* The row of a job that called Stripe; a job that found one writes none.
Inserts(j) == job[j] = "created"
RowTaken(j) == Inserts(j) /\ customer[for[j]] # None
InsertRow(j) ==
    customer' = IF Inserts(j)
                THEN [customer EXCEPT ![for[j]] = [customer |-> holds[j], by |-> j]]
                ELSE customer

\* Mutant: the row is committed by provision_customer, the event afterwards.
CommitEvent_RowFirst(e) ==
    /\ e \in SignIns /\ job[e] \in {"created", "provisioned"} /\ ~RowTaken(e)
    /\ InsertRow(e)
    /\ \/ At(e, "provisioned") /\ Inserts(e) /\ UNCHANGED event
       \/ Over(e) /\ ~Inserts(e) /\ event' = [event EXCEPT ![e] = "completed"]
    /\ UNCHANGED <<signVars, atStripe, key, faults, forgotten>>

\* One transaction for the row and the event's completion.
CommitEvent(e) ==
    /\ e \in SignIns /\ job[e] \in {"created", "provisioned"}
    /\ \/ /\ ~RowTaken(e)
          /\ InsertRow(e)
          /\ event' = [event EXCEPT ![e] = "completed"]
          /\ Over(e)
          /\ UNCHANGED faults
       \/ /\ RowTaken(e) /\ At(e, "failing")
          /\ UNCHANGED <<event, customer, faults>>
       \/ /\ Fault /\ At(e, "failing")
          /\ UNCHANGED <<event, customer>>
    /\ UNCHANGED <<signVars, atStripe, key, forgotten>>

\* After the rollback; nothing tries a failed event again.
MarkFailed(e) ==
    /\ e \in SignIns /\ job[e] = "failing"
    /\ event' = [event EXCEPT ![e] = "failed"]
    /\ Over(e)
    /\ UNCHANGED <<signVars, atStripe, key, customer, faults, forgotten>>

ProvisioningTypeOK ==
    /\ event \in [SignIns -> {"none", "pending", "completed", "failed"}]
    /\ job \in [Jobs -> {"unused", "checking", "asking", "allowed", "queued", "creating", "created",
                         "provisioned", "failing", "ready", "opened", "over", "dead"}]
    /\ for \in [Jobs -> Users \cup {None}]
    /\ holds \in [Jobs -> Jobs \cup {None}]
    /\ atStripe \in [Jobs -> Users \cup {None}]
    /\ key \in [Users -> [customer : Jobs, email : Emails] \cup {None}]
    /\ customer \in [Users -> [customer : Jobs, by : Jobs] \cup {None}]
    /\ faults \in 0 .. MaxFaults
    /\ forgotten \subseteq Users

\* Retries, races between an event and a checkout, lost answers and changed addresses
\* leave a user with one customer at Stripe as long as Stripe remembers the key.
OneStripeCustomer ==
    \A c, d \in Jobs : atStripe[c] \in Users \ forgotten /\ atStripe[d] = atStripe[c] => c = d

\* A completed event has left its user a row that names a customer Stripe made for that
\* user, and a row an event inserted is there only if that event is completed.
EventAndRowTogether ==
    /\ \A e \in SignIns : event[e] = "completed" => customer[user[e]] # None
    /\ \A u \in Users : customer[u] # None =>
         /\ atStripe[customer[u].customer] = u
         /\ customer[u].by \in SignIns => event[customer[u].by] = "completed"
=============================================================================
