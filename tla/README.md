# TLA+ specifications of organism

organism is a story-and-comics web application: a FastAPI backend
(`src/backend`), a React frontend (`src/frontend`), a landing page and
deployment code. This directory specifies its core: the Stripe webhook pipeline,
sign-in, customers and checkout, auth sessions together with the browser that uses
them, and the story engine. TLC checks the specifications on small instances, and
TLAPS proves their safety properties for all.

## Contents

| part | modules | instance and runs | proofs |
|---|---|---|---|
| webhooks | `StripeWebhooks`, abstract `EntitlementLedger` | `MCStripeWebhooks`, `Webhook*.cfg` | `StripeWebhooks_proofs` |
| account and checkout | `GoogleSignIn` < `Provisioning` < `Checkout`, `Billing` | `MCCheckout`, `AccountCheckout.cfg` | `Checkout_proofs` |
| auth sessions | `AuthSessions` (server) < `AuthClient` (browser) | `MCAuthClient`, `Auth*.cfg` | `AuthClient_proofs` < `AuthCause_proofs` |
| story engine | `StoryApi` < `StoryStore` < `Renders` < `PanelService`, `CharacterService`; `StoryService`; all in `StoryEngine` < `StoryReads`; abstract `EditLog` | `MCStoryEngine` with `StoryEdits.cfg`, `StoryRenders.cfg`; `MCStoryReads` with `StoryExports.cfg` | `StoryEngine_proofs` < `StoryAnswers_proofs` < `StoryLog_proofs`, `StoryReads_proofs` |

`A < B` reads: B extends A. `PROJECT.json` lists components, runs, mutants, the source
map, findings, hazards and theorems.

    tlc -workers 2 -config StoryEdits.cfg MCStoryEngine.tla
    tlapm StoryEngine_proofs.tla

## Inventory

Paths are below `src/backend/core` unless they start with `src/`.

**Stripe webhook requests** (`payments/services/payments.py`, `router.py`).
State: `stripe.event`, one row per Stripe event, with `processing_status`
pending, processed, retryable_failed or terminal_failed. Operation:
`handle_stripe_webhook_event` validates the signature, looks the event up,
answers at once when it is processed, otherwise inserts and commits the row,
processes it, drains the customer's retryable events, and answers 200, or 500
after a retryable failure. Stripe redelivers until it sees a 2xx. Hard: overlapping
deliveries of one event, stale copies of the row, a crash at any point, events
in the wrong order.

**Event processor and dispatcher** (`webhooks/processor.py`, `dispatcher.py`).
Runs the handler of the event's type in one transaction together with the
`processed` mark; on an exception rolls back and records the failure in a second
transaction. Hard: the second transaction is not atomic with the first.

**Subscription and invoice handlers** (`webhooks/handlers/`). State:
`stripe.subscription`, `stripe.invoice`, `stripe.entitlement`. Correct when an
invoice is granted once, a grant has its payment, subscription and customer, a
processed payment has its grant, and only real anomalies are rejected for good.

**Drainer** (`webhooks/drainer.py`, `scripts/drain_stripe_events.py`). Lists
pending and retryable events (the script) or the retryable events of one
customer (a request) and processes them one by one, each in a session of its
own. Correct when it neither loses an event nor processes for ever.

**Customers and checkout** (`services/payments.py`). State: `stripe.customer`, one row
per user, and `stripe.checkout_session`; at Stripe, customers, sessions and
subscriptions. A customer is provisioned by the `user.created` event or by a
checkout that finds none; a checkout asks the mirror and Stripe for a subscription
that blocks it, and opens a session. Hard: both provision at once; Stripe answers
and the commit fails, or the answer is lost; two tabs pass the guard. Correct when a
user has one customer and what is paid can be booked.

**Billing status and entitlement checks** (`services/billing_status.py`,
`dependencies.py`). Read-only decisions over the mirror. On the frontend only the billing section
of the account page asks for the recommendation before it offers the plans; the payments page
(`PaymentsPage.tsx`) and the upgrade modal (`UpgradePlansModal.tsx`) offer them to everybody, and
leave the refusal to checkout. Correct when a checkout is refused for a subscription of the same
user only, and what the account section offers is refused only where the mirror was late.

**Domain events** (`events/`). A row committed by the emitter, dispatched by a
background task, its status written with the handler's effects. Nothing redrives
a row whose task was lost.

**Google login** (`auth/services/oauth.py`). State: `user`, `google_oauth_account`.
Look-ups, then one transaction. Hard: two callbacks at once, changed addresses.
Correct when one identity is one user.

**Auth sessions, CSRF, rate limiter** (`auth/`). State: `auth_session` rows and a
sliding window in process memory. Refresh-token rotation, logout, expiry. Hard: two
refreshes with one token, a logout during a refresh. Correct when a session that was
rotated or logged out stays dead.

**Frontend HTTP client and auth provider** (`src/frontend/src/lib/httpClient.ts`,
`features/auth`). State, per page: the refresh in flight, `AuthState`; shared by all
tabs: the cookies. Hard: concurrent 401s, tabs, reloads, timeouts.

**Story generation, characters, panels, images, renders, projects**
(`story_engine/`). State: project, story, character, panel, panel_character,
edit_event and image rows, and objects in a bucket. Most model calls are bracketed by two
transactions: the first commits a pending edit event, the second commits the
result and marks it succeeded or failed. Hard: rows deleted or edited while the model
runs, a client that disconnects in mid-stream, uploads without rows, exceptions
handled in a session that has already flushed. Correct when the rows, the images and
the edit events tell the same story.

**Listings and exports** (`story_engine/service/export_service.py` and the reading halves of
the panel and character services). No state of their own: a call loads its rows, then looks up
the render of each, one statement at a time, then downloads objects. Hard: renders are
replaced and rows deleted between the statements, and the session keeps what it has loaded.
Correct when what is shown was true at some time during the call.

**Media generator, sockets, transcription, logging, configuration,
migrations, landing page, infrastructure.** Stateless I/O, generated code or
static assets.

How the parts interact: login writes the user, a session and a `user.created` event
(`AuthSessions!Callback`, `GoogleSignIn`, `Provisioning!EmitEvent`); the event's handler
provisions the customer that the webhook handlers require; checkout reads the mirror
the webhooks write and asks Stripe besides; the drain script shares only the database
with the server; the story engine is reached with an access token and an entitlement
(`require_entitlement` on its router). Hazards and the line each one bites at are listed in
`PROJECT.json`.

## Webhooks: `StripeWebhooks`

### Tasks, transactions, locks

A task is one asyncio task with a database session of its own: a webhook request
(`Requests`) or a run of the drain script (`Scripts`). A request's drain runs
inside the request, with a fresh session per event, so it is the same task.
`pc[t]` says where the task is:

    idle -> insert -> start -> checked -> staged -> ready -> list -> drain -> idle
                        |         |          |
                        +---------+----------+--> failed -> mark -> idle or drain

| pc | in the code |
|---|---|
| `insert` | the event row was not found and is about to be inserted |
| `start` | `process()` entered with a copy of the row that is not processed |
| `checked` | the handler's first query has run (customer, or subscription and period conflicts) |
| `staged` | the mirror row has been read and the ORM object changed or added |
| `ready` | that object is flushed and the entitlement looked up; commit is next |
| `failed`, `mark` | rolled back; the row read again, the failure not yet written |
| `list`, `drain` | the customer's (or all) candidates are to be listed; are processed |

One action is one run of a task between two points where another task's commit
could change what it does, so the statements of a handler are separate actions.
What the database contributes:

- READ COMMITTED: a statement sees what is committed when it runs.
- The first query of a handler autoflushes the event row that
  `mark_processing_attempt` has changed (`processor.py:37`), so the row is locked
  from then on (`HoldsEvent`). A second task with the same event waits there; when
  it goes on, it does **not** look at the status again: it still works from the
  copy it read before, so an event can be processed twice. The model keeps that.
- The mirror row is written by the next autoflush (`HoldsRow`). Raw payloads
  differ from event to event, so the flush always writes and always locks. For
  invoices the autoflush precedes `get_matching_entitlement`
  (`handlers/invoice.py:42`); that order is what makes grants unique.
- The unique indexes on `stripe_event_id`, `stripe_subscription_id` and
  `stripe_invoice_id` refuse a second insert: `InsertEventConflict` (outside the
  `try`, hence a 500 with nothing recorded) and `DuplicateKey` (inside, hence
  recorded as retryable_failed).
- An UPDATE writes only the columns that differ from what the session read
  (`Committed`, `MarkFailed`): an unchanged status does not undo another task's.
- A crash rolls back and releases everything the task had (`Crash`).

`Receive` stands for the signature check, the lookup and the branch on
`processed`; `process()` is `SubscriptionCreated` ... `CommitInvoice` per event
type, or `IgnoreUnsupported`; `Fail`, `RereadEvent`, `MarkFailed` are its except
branches; `Returned` sends a request to its drain and a drain to its next event.
`ProvisionCustomer` is the commit of a customer row, of which only the fact
that it appears matters here. `acked`, `applied` and `rejected` are the history
the properties speak of; `acked` lives at Stripe.

### What is abstracted

- A payload is the tuple (`Kind`, `Subject`, `Carried`, `CustomerOf`) of its event,
  with `PayloadAssumption` saying what Stripe guarantees: a subscription
  event names its subscription's owner, a status is one of Stripe's. Prices, dates
  and amounts are reduced to the billed period. An invoice event that cannot
  be matched (no subscription in the payload, malformed lines) is an invoice with
  `SubOf[i] = None`; the code raises a retryable error for it.
- One livemode and one entitlement feature: the code never mixes them.
- `attempt_count`, timestamps and the error text are dropped. Candidates of a drain
  are taken in any order, where the code uses `received_at`: every real order
  is among them. The limit of a batch is kept.
- `handle_stripe_webhook_event` outside the pipeline (signature failure) touches
  no state and is left out.

### What the webhook runs check

All instances have one customer, subscriptions `s1`, `s2`, and invoices
`i1`, `i2`, `i3` of `s1` for one billed period plus a one-off invoice `i4`.
An event may be delivered any number of times, to any idle request.

| run | instance | properties |
|---|---|---|
| `WebhookRaces` | two requests, one crash, subscription mirrored; a failed and a paid event of one invoice, a competing paid and a failed invoice of the same period, a one-off invoice | `OneGrantPerInvoice`, `RejectedIsAnomaly`, `PaidIsEntitled`, `AcknowledgedIsSettled`, `NoLockCycle` |
| `WebhookDrain` | from an empty database: a request and the script, batch limit 1, one crash, two subscriptions, a deletion, an invoice, an unsupported event | `TypeOK`, `GrantIsBacked`, `RejectedIsAnomaly`, `MirrorFollowsEvents`, `ImplementsLedger` |
| `WebhookLiveness` | two requests, `created1` and `paid1`, two crashes, fairness | `EventuallySettled`, `TasksAdvance`, `FailsOnlyInARace` |
| `WebhookSecondActive` | expected violation | `OneActiveSubscription` |
| `WebhookTwoInvoices` | expected violation | `OneGrantPerPeriod` |
| `WebhookOverwritten` | expected violation | `ProcessedIsFinal` |

Why these bounds are enough to be interesting. The races are between two tasks
on one row, with others that committed before: two requests on five events of
four invoices cover two duplicates of one event, two events that write one
invoice row, a competitor, and the two `MultipleResultsFound` branches, which
need two rows and a third event.
Requests are interchangeable, so `WebhookRaces` uses symmetry (it has no
temporal property). A batch limit of 1 makes every drain a truncated one. One
crash reaches every recovery path, since a task has no memory of an earlier
crash; `WebhookLiveness` allows two so that both of its requests can die.
`WebhookRaces` starts from `InitSubscribed`, the state after
`created1` was processed, to spend the states on the invoices; `WebhookDrain` and
`WebhookLiveness` start from the empty database. Every theorem below holds
without these bounds.

Deadlock checking is on in every run: a delivery is always possible, so that the
check which matters is `NoLockCycle`: while a task is at work, one waits for no row
(`GoesOn`). `TasksAdvance` bounds what is left of a task by
a number that falls with each of its steps, and `FailsOnlyInARace` says why retries end: an
attempt that has all it needs fails only because another task inserted the row first.

### Fairness

`FairSpec` assumes three things.

- `SF_vars(Step(t))`: a task that can repeatedly run does run. Strong because a
  task may be blocked by a row lock again and again; PostgreSQL serves the
  waiters of a row lock in order, so a waiter is not passed over for ever.
- `SF_vars(Redeliver(e))`: Stripe delivers an event again until it gets a 2xx.
  Stripe gives up after some days; the assumption is that a delivery gets through
  before that.
- `WF_vars(ProvisionCustomer(c))`: a customer row is committed in the end. That
  is what customer provisioning is for; `Provisioning` shows how it can be missed
  (a failed or lost event is not tried again until the user checks out), so this
  is an assumption on the user as well.

Neither crashes nor the drain script are assumed to happen.

### Disagreements found

- **A second active subscription** (`WebhookSecondActive`). `SubscriptionWebhookHandler`
  says it rejects "a second different active subscription for one user", but only
  `handle_created` looks for one. A subscription created as incomplete, overtaken by
  another that is active, and then activated by `customer.subscription.updated` is
  not checked. (Two `created` events in two tasks also pass the check together.)
- **Two grants for one period** (`WebhookTwoInvoices`). The check for another invoice
  id of the same period and the insert are two statements, and no unique index
  covers the period. Two requests with different paid invoices of a period both
  grant; afterwards `get_matching_entitlement` raises for that period on every
  retry.
- **A processed event goes back to retryable_failed** (`WebhookOverwritten`). A
  delivery that failed before the customer existed records the failure after
  a concurrent delivery of the event has committed. The event is then
  redelivered and drained again; its handler is idempotent
  (`OneGrantPerInvoice`, `PaidIsEntitled`), so no access is lost or doubled.

`EventuallySettled` excludes invoices that share their billed period with
another: after the second finding they are retried for ever.

## Account and checkout: `GoogleSignIn`, `Provisioning`, `Billing`, `Checkout`

A user signs in with Google, a background task makes a Stripe customer of them, they
check out, pay at Stripe and are mirrored. Each module adds the variables and
actions of one part; `Checkout!Next` interleaves all of them.

| state | in the code |
|---|---|
| `email`, `account` | tables `user` (address) and `google_oauth_account` (user of a sub) |
| `sign`, `profile`, `user`, `linked`, `loaded` | one `/api/auth/callback`: where it is, what Google said, the user it resolved |
| `event` | status of the `user.created` row of a sign-in |
| `job`, `for`, `holds` | one run of `provision_customer`, by a dispatch or by a checkout, and the checkout around it |
| `atStripe`, `key` | Stripe's customers and what it keeps under `customer:create:<user>` |
| `customer`, `session`, `recorded` | `stripe.customer`, sessions at Stripe, `stripe.checkout_session` |
| `subscription`, `mirror`, `reply` | status at Stripe, status in `stripe.subscription`, answer to the checkout |

A sign-in is `FindAccount`, `FindUser`, `SaveSignIn`, `EmitEvent`; a dispatch
`LookupCustomer`, `CreateCustomer`, then `CommitEvent` or `MarkFailed`; a checkout
`StartCheckout`, `CheckMirror`, `AskStripe`, `FindPlanAndCustomer`, possibly the same two
steps of provisioning and `CommitCustomer`, then `OpenSession`, `CommitCheckout` or
`AnswerError`. `Pay`, `Change` and `Mirror` are the user, Stripe and, in one step, the
webhook pipeline that `StripeWebhooks` gives in detail. A unique index is checked at
the commit: the second writer waits for the first anyway. Every call to Stripe may be
answered, fail before it had effect, or have its effect and lose the answer; a commit
may fail; the process may restart (`Crash`); Stripe may forget the idempotency key
(`KeyForgotten`). `MaxFaults` bounds these together.

`Billing` is a set of pure operators: `Rank`, `MostRelevant`, `Recommendation` after
`billing_status.py` and the repository's ORDER BY, `Blocking` for the checkout guard, and
`AccountOffersPlans` for the one place that offers plans by the recommendation, the billing section of
the account page. `StartCheckout` has no such guard, because the other pages have none: any
user may start a checkout at any time. What happens then may be the answer 409 (`TurnedAway`), of which
two action properties speak. `TurnedAwayForCause`: a 409 is given only over a subscription of the same user
that blocks, in the mirror or at Stripe; two jobs may be making customers meanwhile, so this rests on
no two rows sharing one of Stripe's customers. `AccountOfferIsKept`: a user whom the account
section could offer the plans is given it only over a subscription that blocks at Stripe and
that the mirror does not show as blocking; the local check never stops them.

`AccountCheckout`: two sign-ins, two checkouts, two Google accounts, two
addresses (one account whose address changed, another that has it now), subscriptions
that are active and then canceled, one fault; 2,656,583 states. The theorems cover the
other statuses. Properties: `SameIdentitySameUser`, `OneStripeCustomer`,
`EventAndRowTogether`, `PaidCanBeBooked`, `NoSecondSubscription`, `TurnedAwayForCause`,
`AccountOfferIsKept`, `TypeOK`. Two of each actor are what a race takes; one fault is enough for each kind of
failure to meet each step, since a job that failed remembers nothing.
`CheckMirror`'s branch for two blocking rows and a mirror with several subscriptions to rank need a
third checkout and are not reached by this instance; the proofs cover both. CHECK_DEADLOCK is off: the system stops when every
callback and checkout is over.

What the properties leave open, because the code does: two overlapping checkouts of one
user may both be paid; a checkout under a forgotten key may make a second customer;
a user whose event failed has no customer until they check out; a user with two blocking
rows whom the payments page sends to checkout is answered 500 instead of 409
(`scalar_one_or_none` meets two rows).

## Auth sessions: `AuthSessions`, `AuthClient`

`AuthSessions` is the server: `session` and `heir` are the rows of `auth_session` and
`replaced_by_session_id`, `age` the expiry of a session's tokens (access first, then both),
`recent` the rate limiter's windows. A call is one HTTP exchange: `kind`, the session whose
cookies it `carried`, `phase`, `reply`. A refresh is two steps, `ReadForRefresh` (limiter,
cookie, row) and `RotateSession` (the commit, which does not look again); so is a logout.
A protected call looks at the signature and expiry of the access token only.

`AuthClient` is the browser: `jar` is the cookie jar all tabs share, `promise[t]` is
`refreshPromise` of the page in tab `t`, `status[t]` is `AuthState`. `Refresh` is the
response interceptor (or `streamPost`) at a 401, `HearRefresh` what its awaiters do next,
`Navigate` the load of a page, which forgets everything of the page before it while
its calls go on at the server (`orphans`), `TimeOut` the 30 seconds of axios. Responses
arrive in any order; cookies are taken from the jar when a request leaves.

| run | instance | properties |
|---|---|---|
| `AuthBrowser` | four calls, two tabs, one of them open; quotas of one, two agings, one timeout, one orphan | `SharedRefresh`, `RetriedOnce`, `RotationRevokes`, `LogoutRevokes`, `RevokedForGood`, `SignedOutForCause`, `TypeOK` |
| `AuthTwoTabs` | four calls, two tabs, expected violation | `UnauthenticatedMeansNoSession` |

Four calls are two that meet a 401, with a refresh each, or one that is replayed after a refresh while
a logout overtakes it; a third tab or a fifth call repeats these. `AuthBrowser` visits
912,819 states. Deadlock is checked; `Quiescent` marks the states where all is answered.

Neither specification assumes fairness: that a call is answered in the end is the
network's business, and the only waiting inside the client, that for a shared refresh,
is covered by `SharedRefresh` (whoever waits has a refresh in flight).

**Disagreement: an unauthenticated tab beside a valid session** (`AuthTwoTabs`).
`auth.context.tsx` says "`unauthenticated` means bootstrap or refresh settled with no
valid session". Two tabs that find their access token expired refresh with the same
cookie, because `refreshPromise` is shared within one page only. The server rotates for
the first and answers the second 401; the second tab signs out, while the jar
holds the first one's new session. `SignedOutForCause` lists all the ways a tab can be
signed out beside a usable session, and shows there is no other.

## Story engine: `StoryStore` and the services

`StoryStore` holds the tables (`row`, `content`, `source`, `canonical`, `joins`, `event`,
`image`), the bucket (`blobs`) and the requests. A request is one API call; `op` and `on` are
its operation and row, `pc` where it is, `answer` the status code that `StoryApi` gives to what
the service returned or raised. An action is a run of a request between two points where
another request's commit matters:

| pc | in the code |
|---|---|
| `model` | TX1 has committed the pending event (or, for extractions and `generate_panels`, there is none); the model is called |
| `touched`, `recast` | TX2 of a panel's content: the UPDATE was autoflushed and holds the row, then the join rows are deleted |
| `stored`, `linked` | the render is in the bucket; the image row is flushed and the target was read again |
| `uploaded` | a reference image is in the bucket, its rows flushed |
| `purged`, `locked` | a deletion has removed the panel's renders, and holds the panel if it pointed at one |
| `ended` | STREAM_END is sent, the story not yet saved |
| `creating`, `committed` | the default project is about to be created; the commit is done, a read for the response follows |

The failure behaviour of SQLAlchemy is what the module takes most care over:

- A Python exception (the repository finds no row) leaves the session usable: the except
  clause writes FAILED and commits, with all that was flushed (`FailEvent`, `LinkRender`).
- A failed flush (foreign key, vanished row) makes the session refuse the except clause's update
  as well: everything is rolled back, the event stays pending, the answer is 500 (`Abort`).
- A savepoint (`begin_nested`) confines the failure: FAILED is recorded
  (`CommitRefinement`, `CommitStory`).
- After a commit the row is refreshed or read again; one deleted meanwhile raises in the
  same try block and turns SUCCEEDED into FAILED (`FinishContent`, `FinishRender`).
- `Vanish` is a restart, a cancelled stream or a lost connection.

`Renders` has the images of panels and characters (render, render edit, set canonical,
upload, delete reference; the check of set canonical and its commit are one step, and the two
answers that a deletion between them gives, 404 and 500, are choices of that step), `PanelService`, `CharacterService` and `StoryService` the
rest: 24 operations, all writes of `core/story_engine` but the renaming of a project or a story. Text and attributes are the request
that wrote them; the cast of a panel is the set of join rows of its content.

| run | instance | properties |
|---|---|---|
| `StoryEdits` | three calls of any operation, two rows of each kind (of which one is unused at first), a panel without content, one call lost | `ContentIsAudited`, `CastMatchesContent`, `CanonicalIsOwnRender`, `RendersAreCanonicalised`, `ImagesAreAccounted`, `AnswerIsHonest`, `ImplementsEditLog`, `TypeOK` |
| `StoryRenders` | two calls, expected violation | `RenderIsAtomic` |
| `StoryExports` | one reading call of any kind and two writing calls of any operation, a panel with a render of its own (by `r1`), a second panel still to be made, a character | `ReadTypeOK`, `ExportsAreWhole`, `ShownWasCanonical`, `GapsAreReal` |

Three calls are two that race on a row and a third that deletes it or prepares what
they use (a render to edit, a content to refine). `StoryEdits` visits 301,913 states. Deadlock is
checked: a request is never stuck behind a row lock.

`StoryReads` adds the calls that read: the panels or the characters of a story, one of them, the
images of one, and the exports. A reader is a call with a session of its own; each of its
statements is an action and sees what is committed by then, while the rows it has loaded stay as
they were:

| stage | in the code |
|---|---|
| `story` | `get_story` has found the story, or the call has none: the images of a character are read without it (`Open`, `FindStory`, `SkipStory`) |
| `rows` | the rows are loaded with their `canonical_render_id` (`pointer`); `ahead` are still to be looked up |
| `row` | `get_panel_by_id` or `get_character_by_id` has found the row again, or not; the image comes next |
| `objects` | every panel of an export has a render; the objects are downloaded |

`ReadImage` is `get_canonical_panel_render` and its character counterpart: the image of the
pointer, or without one the newest render (any render in the model, which does not keep the order
of images). `since` is auxiliary: the renders that have been canonical since the rows were loaded.
With `StoryExports` (226,636 states) one reader is enough, because readers do not see each other; two
writers are what it takes to replace a render and delete its row between two statements. It
starts where the engine gets once `r1` has rendered the panel, since a canonical pointer that goes
stale is the interesting case.

`EditLog` is the abstract specification: an edit is opened, succeeds or fails, and may be recorded as
failed after it succeeded (the finding below); its effect appears in the step that records its success,
or never; later edits supersede and deletions remove it, and it does not come back. `ImplementsEditLog` maps an edit to a request, its outcome to the
edit event and its effect to what the rows show of it (`Standing`).

**Disagreement: a render that failed and is kept** (`StoryRenders`).
`character_service.py:551` says "TX2: persist image row, set canonical, complete edit event
atomically". If the target is deleted while the model draws, the image row is already flushed
when `set_canonical_render` raises, and the except clause commits FAILED without a
rollback, the image row with it. If it is deleted right after the commit, the read that
follows raises and FAILED replaces SUCCEEDED. Both leave an image row whose edit failed,
for a target that is gone; `ImagesAreAccounted` shows it happens in no other case.

Also met, without a run of their own: the docstring of `render_panel_edit` asks for a reference
image that is a PANEL_RENDER (`render_character_edit` for a CHARACTER_REFERENCE), and the code
looks at the image's target only; `models/image.py:47` says the application layer enforces the
integrity of `target_id`, and deleting a character or a story leaves its images; nothing
stops two concurrent extractions or generations from writing a story's characters or
panels twice; `generate_panel` checks that the panel is empty before the model call only,
so that two of them may both write (the later one wins, with its own cast).

## What is proved

Every theorem holds for all values of the constants, under the named assumptions of the
modules (`PayloadAssumption`, `TaskAssumption`, `EventsAssumption`; `SignInAssumption`, `ProvisioningAssumption`,
`CheckoutAssumption`; `SessionAssumption`, `ClientAssumption`; `StoreAssumption`), which say
what kinds of sets the constants are, what Stripe guarantees of a payload and that a
subscription at Stripe does not come back from its end, and nothing about the size of
anything but that Stripe's events are finitely many (`EventsAssumption`, for `TasksEnd`).

| module | theorems (property) |
|---|---|
| `StripeWebhooks_proofs` | `TypeCorrect` (`TypeOK`), `AtMostOneGrant` (`OneGrantPerInvoice`), `EntitlementsAreBacked` (`GrantIsBacked`), `ProcessedPaymentsEntitle` (`PaidIsEntitled`), `NoAcknowledgedEventIsLost` (`AcknowledgedIsSettled`), `OnlyAnomaliesAreRejected` (`RejectedIsAnomaly`), `MirrorIsSent` (`MirrorFollowsEvents`), `PipelineImplementsLedger` (`ImplementsLedger`), `WaitsHaveNoCycle` (`NoLockCycle`), `TasksEnd` (`TasksAdvance`), `FailuresAreLostRaces` (`FailsOnlyInARace`), `AccessIsNeverTakenBack`, `OverwrittenKeepsItsEffect`, `SerialPeriodsGrantOnce`, `SerialInsertsAreChecked` |
| `Checkout_proofs` | `TypeCorrect` (`TypeOK`), `OneUserPerIdentity` (`SameIdentitySameUser`), `OneCustomerPerUser` (`OneStripeCustomer`), `EventWithRow` (`EventAndRowTogether`), `PaidIsBookable` (`PaidCanBeBooked`), `NoSecondCheckout` (`NoSecondSubscription`), `TurnedAwayOverHisOwn` (`TurnedAwayForCause`), `AccountOffersAreKept` (`AccountOfferIsKept`) |
| `AuthClient_proofs` | `RotationEndsParent` (`RotationRevokes`), `LogoutEndsSession` (`LogoutRevokes`), `OneRefreshPerTab` (`SharedRefresh`), `NoThirdSend` (`RetriedOnce`), `RevokedStaysRevoked` (`RevokedForGood`) |
| `AuthCause_proofs` | `TypesAndBounds` (`TypeOK`), `SignOutsHaveCauses` (`SignedOutForCause`) |
| `StoryEngine_proofs` | `ContentHasItsEvent` (`ContentIsAudited`), `CastIsOfOneAnswer` (`CastMatchesContent`), `CanonicalIsSound` (`CanonicalIsOwnRender`), `RendersHavePointer` (`RendersAreCanonicalised`), `ImagesHaveEvents` (`ImagesAreAccounted`) |
| `StoryAnswers_proofs` | `EngineTypes` (`TypeOK`), `AnswersAgreeWithRecords` (`AnswerIsHonest`) |
| `StoryLog_proofs` | `EditLogIsImplemented` (`ImplementsEditLog`), `OnlySuccessIsSeen`, `EffectsDoNotReturn` |
| `StoryReads_proofs` | `ReadersAreTyped` (`ReadTypeOK`), `ExportsHaveTheirRenders` (`ExportsAreWhole`), `ShownRendersWereCanonical` (`ShownWasCanonical`), `UnrenderedMeansUnrendered` (`GapsAreReal`), `ReadersOnlyRead` (`Spec`) |

### Webhooks

None of the safety properties is inductive; the argument goes
through four strengthenings, each proved from the one before.

1. **TypeInv** adds to `TypeOK` what a task's program counter says of its other
   variables (`Control`): an event in hand exactly inside `process()`, of a kind
   that fits the state, and for a request in its drain an event that was applied.
2. **WorkInv** says what the handler in progress has established and no other task
   can take back. Rows are never deleted (`Grows`), so a customer or subscription
   that was found stays found, and so does an anomaly that is still to be recorded.
3. **GrantInv** is the reason for `OneGrantPerInvoice`: a flushed row is held by one
   task only; an invoice has at most one entitlement; a task at `ready` with one staged holds the lock of that invoice's
   row, looked under that lock, and found none. The commit adds one to zero.
   Without the lock, or with the lookup before the flush, the step that commits
   does not preserve it.
4. **RecordInv** ties the event log to its effects: `processed` and `applied`
   imply the mirrored row and, for payments, the open period; `rejected` implies
   the anomaly; `acked` implies one of the two.

`LedgerStep` then maps each step to a ledger step or a stutter under the
refinement mapping: a commit of a subscription to `MirrorSubscription`, of a
payment to `GrantPeriod`, of a failed payment to `RecordInvoice`, everything else
to no change. `GrantPeriod` needs `WorkInv` (the subscription is still mirrored)
and `GrantInv`'s lookup (if no row is staged the period is already open).

`AccessIsNeverTakenBack` is what follows from the ledger alone, proved of its steps and
carried over by `LedgerStep`. `MirrorIsSent` is inductive given `WorkInv`: a commit that
leaves the row as it is (`Committed`, nothing seemed to change) read a row that was there,
whose status the property has accounted for already.

**Progress.** Liveness is out of the prover's reach, the facts it rests on are not:

- `WaitsHaveNoCycle`: a task that holds its event row waits at most for a mirror row, whose
  holder has flushed and waits for nobody. It needs `TypeInv` only.
- `TasksEnd`: `StepsLeft` falls with every step of its task. `BatchInv` has what that needs of a
  batch: it is no larger than `DrainLimit`, and empty outside a drain.
- `FailuresAreLostRaces`: by `FreshInv` what was read is forgotten with its attempt, by `WorkInv`
  the customer and the subscription are known, by `GrantInv` the entitlement queries find one row at
  most. What is left is the unique index.

That a fair schedule turns these into `EventuallySettled` is left to TLC.

**What the findings can and cannot cost.** Three properties of the code's comments are violated;
the theorems say how far.

- `OverwrittenKeepsItsEffect`: only the verdict of an overlapping attempt takes `processed` from an
  event, and the event stays applied, its payment granted.
- `SerialPeriodsGrantOnce`: a period with two grants needs two tasks with an entitlement
  of it staged at once (`OneStagedPerPeriod` excludes them); a lock on the period would do.
  `OneTaskGrantsOnce` is the special case of requests and drains that never overlap.
- `SerialInsertsAreChecked`: if no two tasks write subscriptions of one customer at once
  (`OneWriterPerCustomer`), a row inserted as active has no other active one beside it. The check
  of `handle_created` is therefore right but for its race; the run's counterexample is the
  other way, an update of a row that was there.

These hypotheses speak of behaviours: `Spec /\ []OneStagedPerPeriod` is the specification restricted to
the behaviours in which the overlap does not happen, as when there is one worker.

### Accounts and checkout

One inductive invariant, `IInv`: the types; `SignInControl` (a sign-in that has resolved a user has
read a row that is still there, and account rows never change their user);
`JobControl` (what a job found or made before each label); `References` (a key Stripe
still has names the user's only customer, and a customer row names one of Stripe's);
`CheckoutControl` (an open session belongs to the committed customer row; a checkout past
its questions has no blocking predecessor). The last one is why `NoSecondSubscription` holds with
a late mirror: once a user has a customer row, Stripe is always asked, and a user without
one has no subscription. The two properties of a 409 use the invariant at the step that gives it
(`WaysToBeTurnedAway`: the local check, or Stripe's answer): by `References` and `EventAndRowTogether` no
other user's row names the customer whose subscriptions Stripe listed (`ListedAreHis`), and by the
order of `Rank` whoever the local check would stop is not offered the plans (`StoppedIsNotOffered`),
whatever the mirror and however many subscriptions it has.

### Auth

`IInv`: the types (without the bounds on counters), `CallControl` (a call makes no session
before it is answered, and refreshes with the cookies it carried), `Cookies` (cookies name rows that exist),
`RotationRevokes`, `SharedRefresh`, `RetriedOnce`, and `OneLine`, which is what `LogoutRevokes`
lacks: unless two refreshes forked a session or someone signed in again, the sessions form
one line of rotations, so that a logout with the last of them ends the sign-in. The proof
shows which steps extend the line (`RotateSession`) and that no other step does (`SameLine`).

`AuthCause_proofs` adds a second invariant, `CauseInv`, on top of `IInv`. For `TypeOK` it has the
bounds of the counters (`Clocks`) and the answers a call can have (`ReplyControl`); `sends` stays
within them because a request is sent again once at most. For `SignedOutForCause` it follows the token
through a refresh: as long as nobody logs in or out, nothing times out, the limiter refuses
nothing and no two refreshes share a token (`Undisturbed`), a refresh that has not been heard to succeed carries the session in the
jar (`TokenFollowed`), so a 401 was about that session, and a session once refused is refused for
ever (`RefusedForGood`). Every way in which a page becomes `unauthenticated` then meets one of the
listed causes.

### Story engine

`IInv`: the types; `RequestControl` (what a request has written at each label, and
that rows it names were once there); `Exclusive` (one request holds a panel between its UPDATE
and its commit); `RowControl` (only live rows show work); and the five properties.
`CastMatchesContent` rests on `Exclusive`: between `DeleteCast` and `CommitContent` no join row of the
panel can appear, so the ones inserted are all there are.

**Answers** (`StoryAnswers_proofs`). `StepFrame` is what any of the 24 operations' steps may do to the
rows and to the requests that do not step: rows go from unused to live to gone and never back, a
request's label, operation, target and answer are its own, its event and image can only be
erased. `AInv` adds to `IInv` the status codes possible at each label (`AnswerControl`) and
`AnswerIsHonest` per request. A step owes that property for the request that steps only (`Owed`);
for the others `StepFrame` keeps it, since a row that is gone stays gone.

**The edit log** (`StoryLog_proofs`). `Stands(q)` is the definition of `Standing` per request. Each
step of the engine opens an edit, ends it, or erases effects: `OpenStep`, `SucceedStep`, `FadeStep`,
`EraseStep` and their companions turn what an action does to `event` and `Stands` into a step of
`EditLog`, and one lemma per service shows which it is. `IInv` is needed wherever an effect could appear
without its success: `RowControl` ties a row's source to a request past its commit, `RequestControl`
says what a request in flight has not written yet, `ImagesAreAccounted` that an image has its event.

`OnlySuccessIsSeen` and `EffectsDoNotReturn` are proved of the log's steps and hold of the engine by the
refinement: an edit that is pending, failed or vanished has left nothing, and one whose effect is gone stays gone.

**Readers** (`StoryReads_proofs`). `RInv` follows a row from its load to its image. With a pointer
(`RowControlled`): it names a render of that row which was canonical since the load, and which is
still there as long as the row is. Without one: all renders the row has by now became canonical
since the load. This is not inductive without `StepFrame`: an image becomes a render of a live row
only in the step that makes it canonical, and leaves only with its row. `ReaderKeeps` is the step of
anybody else, `FindStoryKeeps` to `AnswerKeeps` the reader's own. `ReadersOnlyRead` carries every theorem
about the engine over to the engine with readers.

### Only model-checked

`EventuallySettled` is liveness under fairness, outside the prover's reach. What can be proved of it
is under *Progress* above. Every other property of a
passing run is a theorem. That the violated properties are violated is shown by TLC's
counterexamples.

## Not modelled

- **The `--drain-all` loop and starvation in a batch**: a batch ends (`TasksAdvance`); the loop over
  batches stops at an empty one only, hence not while an event keeps failing, and which events
  a full batch leaves out depends on `received_at`, which `StripeWebhooks` abstracts away.
- **Newer against older subscription events**: the code compares no event times; the
  mirror of `Checkout` jumps to the status at Stripe, and the reordering is in
  `StripeWebhooks` as status changes in any order. `MirrorFollowsEvents` says no more than that the
  mirrored status was sent and applied.
- **Deadlock victims in PostgreSQL**: `NoLockCycle` shows there are none among webhooks. In the
  story engine a deletion that cascades over several rows is one step that waits for all it
  needs; in PostgreSQL it takes the locks one by one and may be ended as the victim of a cycle,
  which is an error answer with nothing written.
- **Expiry of a checkout session at Stripe**: an unpaid session stays payable in the model,
  which only adds behaviours.
- **CSRF**: a comparison of a cookie with a header the client copies from it.
- **Time in the rate limiter**: window boundaries and `retry_after` are arithmetic on one clock;
  only the order of requests entering and leaving is kept.
- **`require_entitlement`**, listings of projects and stories, signed URLs and the customer portal: reads
  of one statement each. Of an export the layout of pages and captions, of a character's
  page the reference images beside it are left out.
- **Renaming of projects**, story names, `meta`, prompts, image data: no property tells them apart.
- **Media generator, transcription, sockets**: calls to services that answer or raise; the
  semaphore around fal is released on every path.
- **Frontend** but for the HTTP client, the auth provider and when the account section offers the
  plans (the payments page and the upgrade modal are a checkout anybody may start); **landing page,
  deployment, migrations, logging, configuration**: no state of the running system, or nothing a model checker
  could say about it.
