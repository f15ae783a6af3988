---------------------------- MODULE Checkout_proofs ----------------------------
(***************************************************************************)
(* Proofs about sign-ins, provisioning and checkouts, for every set of     *)
(* sign-ins, Google accounts, addresses and checkouts, every number of     *)
(* faults and every way a subscription may go that does not come back from *)
(* its end.  One inductive invariant carries all of them: the types, what  *)
(* holds at each label of a sign-in and of a job, and how the rows of one  *)
(* table and the objects at Stripe refer to each other.                    *)
(***************************************************************************)
EXTENDS Checkout, FiniteSetTheorems, TLAPS

\* A sign-in knows whom it is for before it writes, and its event exists once it is done.
SignInControl(s) ==
    /\ sign[s] \in {"unlinked", "resolved", "saved", "done"} => profile[s] \in Profiles
    /\ sign[s] \in {"resolved", "saved", "done"} => user[s] \in Users
    /\ sign[s] # "resolved" => ~linked[s]
    /\ sign[s] = "resolved" =>
         /\ linked[s] => account[profile[s].sub] = user[s]
         /\ loaded[s] # None => email[user[s]] # None
    /\ sign[s] \in {"saved", "done"} =>
         /\ account[profile[s].sub] = user[s]
         /\ email[user[s]] # None
    /\ sign[s] # "done" => job[s] = "unused" /\ event[s] = "none"
    /\ sign[s] = "done" =>
         /\ for[s] = user[s]
         /\ event[s] # "none"
         /\ job[s] \notin {"over", "dead"} => event[s] = "pending"
         /\ job[s] \notin {"unused", "checking", "asking", "allowed", "ready", "opened"}

\* What a job has found out or made by the time it reaches a label.
JobControl(j) ==
    /\ job[j] # "unused" => for[j] \in Users /\ email[for[j]] # None
    /\ job[j] \in {"unused", "checking", "asking", "allowed", "queued", "creating"} => atStripe[j] =
             None
    /\ job[j] = "created" =>
         /\ holds[j] \in Jobs
         /\ atStripe[holds[j]] = for[j]
    /\ job[j] \in {"asking", "provisioned", "ready", "opened"} => customer[for[j]] # None
    /\ job[j] = "ready" =>
         holds[j] \in {None, customer[for[j]].customer}
    /\ job[j] # "created" /\ job[j] # "ready" /\ job[j] # "opened"
         /\ job[j] # "failing" => holds[j] = None

\* References between rows, and between rows and Stripe.
References ==
    /\ \A g \in Subs : account[g] # None => email[account[g]] # None
    /\ \A u \in Users : key[u] # None => atStripe[key[u].customer] = u
    /\ \A c \in Jobs : atStripe[c] \in Users \ forgotten =>
         key[atStripe[c]] # None /\ key[atStripe[c]].customer = c
    /\ EventAndRowTogether

\* From the answer to a checkout back to its rows, and what it had to make sure of.
CheckoutControl(c) ==
    /\ job[c] = "opened" => session[c] = customer[for[c]].customer
    /\ reply[c] # "none" => job[c] = "over"
    /\ reply[c] = "url" =>
         /\ c \in recorded
         /\ customer[for[c]] # None
         /\ customer[for[c]].customer = session[c]
    /\ subscription[c] # "none" => reply[c] = "url"
    /\ job[c] = "unused" => before[c] = {}
    /\ \A d \in before[c] :
         /\ for[d] = for[c]
         /\ subscription[d] \in Blocking \cup Ended
    /\ job[c] \in {"allowed", "queued", "creating", "created", "provisioned", "ready", "opened"}
         \/ reply[c] = "url"
       => \A d \in before[c] : subscription[d] \notin Blocking

IInv ==
    /\ TypeOK
    /\ \A s \in SignIns : SignInControl(s)
    /\ \A j \in Jobs : JobControl(j)
    /\ References
    /\ \A c \in Checkouts : CheckoutControl(c)
-----------------------------------------------------------------------------

\* A callback that finds the identity.
LEMMA FindAccountStep ==
  ASSUME IInv, NEW s \in SignIns, FindAccount(s), UNCHANGED provisionVars, Unrelated
  PROVE  IInv'
<1>1. SignInTypeOK'
  <2>. USE SignInAssumption DEF IInv, TypeOK, SignInTypeOK, FindAccount, Resolve, Users
  <2>1. profile' \in [SignIns -> Profiles \cup {None}]
    OBVIOUS
  <2>2. user' \in [SignIns -> Users \cup {None}] /\ loaded' \in [SignIns -> Emails \cup {None}]
    OBVIOUS
  <2>3. linked' \in [SignIns -> BOOLEAN]
    OBVIOUS
  <2>4. sign' \in [SignIns -> {"unused", "unlinked", "resolved", "saved", "done", "failed"}]
    OBVIOUS
  <2>. QED BY <2>1, <2>2, <2>3, <2>4
<1>2. ProvisioningTypeOK'
  BY DEF IInv, TypeOK, ProvisioningTypeOK, FindAccount, Resolve, provisionVars, jobVars
<1>3. TypeOK'
  BY <1>1, <1>2 DEF IInv, TypeOK, FindAccount, Resolve, Unrelated, outcome, stripeVars
<1>4. \A t \in SignIns : SignInControl(t)'
  BY SignInAssumption DEF IInv, TypeOK, SignInTypeOK, SignInControl, FindAccount, Resolve,
     provisionVars, jobVars
<1>5. \A i \in Jobs : JobControl(i)'
  BY DEF IInv, JobControl, FindAccount, Resolve, provisionVars, jobVars
<1>6. References'
  BY DEF IInv, TypeOK, SignInTypeOK, SignInControl, References, EventAndRowTogether, FindAccount,
     Resolve, provisionVars, jobVars
<1>7. \A d \in Checkouts : CheckoutControl(d)'
  BY DEF IInv, CheckoutControl, FindAccount, Resolve, provisionVars, jobVars, Unrelated, outcome,
     stripeVars
<1>. QED BY <1>3, <1>4, <1>5, <1>6, <1>7 DEF IInv

\* One that looks for the address.
LEMMA FindUserStep ==
  ASSUME IInv, NEW s \in SignIns, FindUser(s), UNCHANGED provisionVars, Unrelated
  PROVE  IInv'
<1>1. SignInTypeOK'
  BY DEF Users, IInv, TypeOK, SignInTypeOK, FindUser, Resolve
<1>2. ProvisioningTypeOK'
  BY DEF IInv, TypeOK, ProvisioningTypeOK, FindUser, Resolve, provisionVars, jobVars
<1>3. TypeOK'
  BY <1>1, <1>2 DEF IInv, TypeOK, FindUser, Resolve, Unrelated, outcome, stripeVars
<1>4. \A t \in SignIns : SignInControl(t)'
  <2>1. PICK u \in Users : Resolve(s, u)
    BY DEF FindUser, Users
  <2>. QED BY <2>1, SignInAssumption DEF IInv, TypeOK, SignInTypeOK, SignInControl, FindUser, Resolve,
    provisionVars, jobVars, Users
<1>5. \A i \in Jobs : JobControl(i)'
  BY DEF IInv, JobControl, FindUser, Resolve, provisionVars, jobVars
<1>6. References'
  BY DEF IInv, SignInControl, References, EventAndRowTogether, FindUser, Resolve, provisionVars,
     jobVars
<1>7. \A d \in Checkouts : CheckoutControl(d)'
  BY DEF IInv, CheckoutControl, FindUser, Resolve, provisionVars, jobVars, Unrelated, outcome,
     stripeVars
<1>. QED BY <1>3, <1>4, <1>5, <1>6, <1>7 DEF IInv

\* Its transaction.
LEMMA SaveSignInStep ==
  ASSUME IInv, NEW s \in SignIns, SaveSignIn(s), UNCHANGED provisionVars, Unrelated
  PROVE  IInv'
<1>1. SignInTypeOK'
  BY SignInAssumption DEF IInv, TypeOK, SignInTypeOK, SignInControl, SaveSignIn, WritesEmail,
     EmailTaken, SubTaken, Forget
<1>2. ProvisioningTypeOK'
  BY DEF IInv, TypeOK, ProvisioningTypeOK, SaveSignIn, WritesEmail, EmailTaken, SubTaken, Forget,
     provisionVars, jobVars
<1>3. TypeOK'
  BY <1>1, <1>2 DEF IInv, TypeOK, SaveSignIn, WritesEmail, EmailTaken, SubTaken, Forget, Unrelated,
     outcome, stripeVars
<1>4. \A t \in SignIns : SignInControl(t)'
  BY SignInAssumption DEF Users, IInv, TypeOK, SignInTypeOK, SignInControl, SaveSignIn, WritesEmail,
     EmailTaken, SubTaken, Forget, provisionVars, jobVars
<1>5. \A i \in Jobs : JobControl(i)'
  BY SignInAssumption DEF IInv, TypeOK, SignInTypeOK, SignInControl, JobControl, SaveSignIn,
     WritesEmail, EmailTaken, SubTaken, Forget, provisionVars, jobVars
<1>6. References'
  BY SignInAssumption DEF IInv, TypeOK, SignInTypeOK, SignInControl, References,
     EventAndRowTogether, SaveSignIn, WritesEmail, EmailTaken, SubTaken, Forget, provisionVars,
     jobVars
<1>7. \A d \in Checkouts : CheckoutControl(d)'
  BY DEF IInv, CheckoutControl, SaveSignIn, WritesEmail, EmailTaken, SubTaken, Forget,
     provisionVars, jobVars, Unrelated, outcome, stripeVars
<1>. QED BY <1>3, <1>4, <1>5, <1>6, <1>7 DEF IInv

\* The event after it.
LEMMA EmitEventStep ==
  ASSUME IInv, NEW s \in SignIns, EmitEvent(s), Unrelated
  PROVE  IInv'
<1>1. SignInTypeOK'
  BY DEF IInv, TypeOK, SignInTypeOK, EmitEvent, Begin
<1>2. ProvisioningTypeOK'
  <2>. USE DEF IInv, TypeOK, SignInTypeOK, ProvisioningTypeOK, SignInControl, EmitEvent, Begin,
           jobVars, Jobs
  <2>1. event' \in [SignIns -> {"none", "pending", "completed", "failed"}]
    OBVIOUS
  <2>2. job' \in [Jobs -> {"unused", "checking", "asking", "allowed", "queued", "creating", "created",
                         "provisioned", "failing", "ready", "opened", "over", "dead"}]
    OBVIOUS
  <2>3. for' \in [Jobs -> Users \cup {None}]
    OBVIOUS
  <2>4. faults' \in 0 .. MaxFaults
    BY ProvisioningAssumption DEF Fault
  <2>. QED BY <2>1, <2>2, <2>3, <2>4
<1>3. TypeOK'
  BY <1>1, <1>2 DEF IInv, TypeOK, EmitEvent, Begin, Unrelated, outcome, stripeVars
<1>4. \A t \in SignIns : SignInControl(t)'
  BY DEF Jobs, IInv, TypeOK, SignInTypeOK, ProvisioningTypeOK, SignInControl, EmitEvent, Begin,
     jobVars
<1>5. \A i \in Jobs : JobControl(i)'
  BY DEF IInv, TypeOK, ProvisioningTypeOK, SignInControl, JobControl, EmitEvent, Begin, jobVars
<1>6. References'
  BY DEF IInv, TypeOK, ProvisioningTypeOK, SignInControl, References, EventAndRowTogether,
     EmitEvent, Begin
<1>7. \A d \in Checkouts : CheckoutControl(d)'
  BY DEF Jobs, IInv, TypeOK, ProvisioningTypeOK, SignInControl, CheckoutControl, Blocking, Running,
     Recovering, Ended, Statuses, EmitEvent, Begin, jobVars, Unrelated, outcome, stripeVars
<1>. QED BY <1>3, <1>4, <1>5, <1>6, <1>7 DEF IInv

\* The dispatch of an event ends.
LEMMA CommitEventStep ==
  ASSUME IInv, NEW e \in SignIns, CommitEvent(e), Unrelated
  PROVE  IInv'
<1>1. SignInTypeOK'
  BY DEF IInv, TypeOK, SignInTypeOK, CommitEvent, signVars
<1>2. ProvisioningTypeOK'
  <2>. USE DEF IInv, TypeOK, SignInTypeOK, ProvisioningTypeOK, CommitEvent, At, Over, Jobs
  <2>1. event' \in [SignIns -> {"none", "pending", "completed", "failed"}]
    OBVIOUS
  <2>2. job' \in [Jobs -> {"unused", "checking", "asking", "allowed", "queued", "creating", "created",
                         "provisioned", "failing", "ready", "opened", "over", "dead"}]
    OBVIOUS
  <2>3. for' \in [Jobs -> Users \cup {None}]  /\ holds' \in [Jobs -> Jobs \cup {None}]
    OBVIOUS
  <2>4. customer' \in [Users -> [customer : Jobs, by : Jobs] \cup {None}]
    BY DEF JobControl, Inserts, InsertRow
  <2>5. faults' \in 0 .. MaxFaults
    BY ProvisioningAssumption DEF Fault
  <2>. QED BY <2>1, <2>2, <2>3, <2>4, <2>5
<1>3. TypeOK'
  BY <1>1, <1>2 DEF IInv, TypeOK, CommitEvent, Unrelated, outcome, stripeVars
<1>4. \A t \in SignIns : SignInControl(t)'
  BY DEF Jobs, IInv, TypeOK, ProvisioningTypeOK, SignInControl, CommitEvent, RowTaken, Inserts,
     InsertRow, At, Over, Fault, signVars
<1>5. \A i \in Jobs : JobControl(i)'
  BY SMTT(30)
  DEF IInv, TypeOK, ProvisioningTypeOK, JobControl, CommitEvent, RowTaken, Inserts, InsertRow, At,
      Over, Fault, signVars
<1>6. References'
  <2>. USE SignInAssumption, ProvisioningAssumption DEF IInv, TypeOK, SignInTypeOK,
           ProvisioningTypeOK, CommitEvent, At, Over, Jobs, References, Users, RowTaken, Inserts,
           InsertRow, signVars
  <2>1. CASE ~RowTaken(e) /\ InsertRow(e) /\ event' = [event EXCEPT ![e] = "completed"]
     <3>1. for[e] = user[e] /\ for[e] \in Users /\ customer'[for[e]] # None
        BY <2>1 DEF SignInControl, JobControl
     <3>2. \A u \in Users : customer[u] # None => customer'[u] = customer[u]
        BY <2>1 DEF JobControl
     <3>3. EventAndRowTogether'
        BY <2>1, <3>1, <3>2 DEF EventAndRowTogether, SignInControl, JobControl
     <3>. QED BY <3>3
  <2>2. CASE UNCHANGED <<event, customer>>
     BY <2>2 DEF EventAndRowTogether
  <2>. QED BY <2>1, <2>2
<1>7. \A d \in Checkouts : CheckoutControl(d)'
  BY SignInAssumption, ProvisioningAssumption, CheckoutAssumption DEF Jobs, IInv, TypeOK,
     ProvisioningTypeOK, SignInControl, JobControl, CheckoutControl, CommitEvent, RowTaken, Inserts,
     InsertRow, At, Over, Fault, signVars, Unrelated, outcome, stripeVars
<1>. QED BY <1>3, <1>4, <1>5, <1>6, <1>7 DEF IInv

\* It ends badly.
LEMMA MarkFailedStep ==
  ASSUME IInv, NEW e \in SignIns, MarkFailed(e), Unrelated
  PROVE  IInv'
<1>1. SignInTypeOK'
  BY DEF IInv, TypeOK, SignInTypeOK, MarkFailed, signVars
<1>2. ProvisioningTypeOK'
  BY DEF Jobs, IInv, TypeOK, ProvisioningTypeOK, MarkFailed, Over
<1>3. TypeOK'
  BY <1>1, <1>2 DEF IInv, TypeOK, MarkFailed, Unrelated, outcome, stripeVars
<1>4. \A t \in SignIns : SignInControl(t)'
  BY DEF Jobs, IInv, TypeOK, ProvisioningTypeOK, SignInControl, MarkFailed, Over, signVars
<1>5. \A i \in Jobs : JobControl(i)'
  BY DEF IInv, TypeOK, ProvisioningTypeOK, JobControl, MarkFailed, Over, signVars
<1>6. References'
  BY DEF IInv, SignInControl, References, EventAndRowTogether, MarkFailed, signVars
<1>7. \A d \in Checkouts : CheckoutControl(d)'
  BY DEF IInv, CheckoutControl, MarkFailed, Over, Unrelated, outcome, stripeVars
<1>. QED BY <1>3, <1>4, <1>5, <1>6, <1>7 DEF IInv

\* Provisioning looks for a customer.
LEMMA LookupCustomerStep ==
  ASSUME IInv, NEW j \in Jobs, LookupCustomer(j), Unrelated
  PROVE  IInv'
<1>1. SignInTypeOK'
  BY DEF IInv, TypeOK, SignInTypeOK, LookupCustomer, signVars
<1>2. ProvisioningTypeOK'
  BY DEF IInv, TypeOK, ProvisioningTypeOK, LookupCustomer, At
<1>3. TypeOK'
  BY <1>1, <1>2 DEF IInv, TypeOK, LookupCustomer, Unrelated, outcome, stripeVars
<1>4. \A t \in SignIns : SignInControl(t)'
  BY DEF IInv, SignInControl, LookupCustomer, At, signVars
<1>5. \A i \in Jobs : JobControl(i)'
  BY DEF IInv, JobControl, LookupCustomer, At, signVars
<1>6. References'
  BY DEF IInv, References, EventAndRowTogether, LookupCustomer, signVars
<1>7. \A d \in Checkouts : CheckoutControl(d)'
  BY DEF IInv, CheckoutControl, LookupCustomer, At, Unrelated, outcome, stripeVars
<1>. QED BY <1>3, <1>4, <1>5, <1>6, <1>7 DEF IInv

\* It calls Stripe.
LEMMA CreateCustomerStep ==
  ASSUME IInv, NEW j \in Jobs, CreateCustomer(j), Unrelated
  PROVE  IInv'
<1>1. SignInTypeOK'
  BY DEF IInv, TypeOK, SignInTypeOK, CreateCustomer, Remembered, Answered, signVars
<1>2. ProvisioningTypeOK'
  <2>. USE DEF IInv, TypeOK, SignInTypeOK, ProvisioningTypeOK, CreateCustomer, Answered, Jobs
  <2>0. for[j] \in Users /\ email[for[j]] \in Emails
    BY DEF JobControl, Users
  <2>1. PICK answer \in Jobs \cup {None} : Answered(j, answer)
    BY <2>0 DEF Remembered
  <2>2. job' \in [Jobs -> {"unused", "checking", "asking", "allowed", "queued", "creating", "created",
                         "provisioned", "failing", "ready", "opened", "over", "dead"}]
    BY <2>1
  <2>3. for' \in [Jobs -> Users \cup {None}]  /\ holds' \in [Jobs -> Jobs \cup {None}]
    BY <2>1
  <2>4. key' \in [Users -> [customer : Jobs, email : Emails] \cup {None}]
    BY <2>0
  <2>5. faults' \in 0 .. MaxFaults
    BY ProvisioningAssumption DEF Fault
  <2>6. atStripe' \in [Jobs -> Users \cup {None}]
    BY <2>0
  <2>. QED BY <2>3, <2>2, <2>6, <2>4, <2>5
<1>3. TypeOK'
  BY <1>1, <1>2 DEF IInv, TypeOK, CreateCustomer, Remembered, Answered, Unrelated, outcome,
     stripeVars
<1>4. \A t \in SignIns : SignInControl(t)'
  BY DEF Jobs, IInv, TypeOK, ProvisioningTypeOK, SignInControl, CreateCustomer, Remembered,
     Answered, signVars
<1>5. \A i \in Jobs : JobControl(i)'
  BY ProvisioningAssumption DEF Users, Jobs, IInv, TypeOK, ProvisioningTypeOK, JobControl,
     References, EventAndRowTogether, CreateCustomer, Remembered, Answered, signVars
<1>6. References'
  <2>. USE SignInAssumption, ProvisioningAssumption DEF IInv, TypeOK, SignInTypeOK,
           ProvisioningTypeOK, CreateCustomer, References, Users, Remembered, signVars
  <2>0. for[j] \in Users /\ atStripe[j] = None
    BY DEF JobControl
  <2>1. CASE ~Remembered(for[j]) /\ atStripe' = [atStripe EXCEPT ![j] = for[j]]
          /\ key' = [key EXCEPT ![for[j]] = [customer |-> j, email |-> email[for[j]]]]
     <3>1. \A u \in Users : key'[u] # None => atStripe'[key'[u].customer] = u
        BY <2>0, <2>1
     <3>2. \A c \in Jobs : atStripe'[c] \in Users \ forgotten' =>
         key'[atStripe'[c]] # None /\ key'[atStripe'[c]].customer = c
       <4>1. forgotten' = forgotten
         OBVIOUS
       <4>2. key'[for[j]].customer = j /\ key'[for[j]] # None
         BY <2>0, <2>1, for[j] \in Users, email[for[j]] \in Emails DEF JobControl
       <4>3. ASSUME NEW c \in Jobs \ {j}, atStripe[c] \in Users \ forgotten
             PROVE  atStripe[c] # for[j]
         BY <2>1, <4>3
       <4>. QED BY <2>0, <2>1, <4>1, <4>2, <4>3
     <3>3. EventAndRowTogether'
        BY <2>0, <2>1 DEF EventAndRowTogether
     <3>. QED BY <3>1, <3>2, <3>3
  <2>2. CASE UNCHANGED <<atStripe, key>>
     BY <2>2 DEF EventAndRowTogether
  <2>. QED BY <2>1, <2>2
<1>7. \A d \in Checkouts : CheckoutControl(d)'
  BY DEF Jobs, IInv, TypeOK, ProvisioningTypeOK, CheckoutControl, CreateCustomer, Remembered,
     Answered, Unrelated, outcome, stripeVars
<1>. QED BY <1>3, <1>4, <1>5, <1>6, <1>7 DEF IInv

\* Stripe forgets a key.
LEMMA KeyForgottenStep ==
  ASSUME IInv, NEW u \in Users, KeyForgotten(u), Unrelated
  PROVE  IInv'
<1>1. SignInTypeOK'
  BY DEF IInv, TypeOK, SignInTypeOK, KeyForgotten, signVars
<1>2. ProvisioningTypeOK'
  BY ProvisioningAssumption DEF IInv, TypeOK, ProvisioningTypeOK, KeyForgotten, Fault, jobVars
<1>3. TypeOK'
  BY <1>1, <1>2 DEF IInv, TypeOK, KeyForgotten, Unrelated, outcome, stripeVars
<1>4. \A t \in SignIns : SignInControl(t)'
  BY DEF IInv, SignInControl, KeyForgotten, jobVars, signVars
<1>5. \A i \in Jobs : JobControl(i)'
  BY DEF IInv, JobControl, KeyForgotten, jobVars, signVars
<1>6. References'
  BY DEF IInv, References, EventAndRowTogether, KeyForgotten, signVars
<1>7. \A d \in Checkouts : CheckoutControl(d)'
  BY DEF IInv, CheckoutControl, KeyForgotten, jobVars, Unrelated, outcome, stripeVars
<1>. QED BY <1>3, <1>4, <1>5, <1>6, <1>7 DEF IInv

\* A checkout begins.
LEMMA StartCheckoutStep ==
  ASSUME IInv, NEW c \in Checkouts, StartCheckout(c)
  PROVE  IInv'
<1>1. SignInTypeOK'
  BY DEF IInv, TypeOK, SignInTypeOK, StartCheckout, Begin, signVars
<1>2. ProvisioningTypeOK'
  BY DEF Jobs, IInv, TypeOK, ProvisioningTypeOK, SignInControl, StartCheckout, Begin
<1>3. TypeOK'
  BY <1>1, <1>2 DEF IInv, TypeOK, StartCheckout, Begin, outcome, stripeVars
<1>4. \A t \in SignIns : SignInControl(t)'
  BY ProvisioningAssumption DEF IInv, SignInControl, StartCheckout, Begin, signVars
<1>5. \A i \in Jobs : JobControl(i)'
  BY DEF IInv, TypeOK, ProvisioningTypeOK, SignInControl, JobControl, StartCheckout, Begin, signVars
<1>6. References'
  BY DEF IInv, References, EventAndRowTogether, StartCheckout, Begin, signVars
<1>7. \A d \in Checkouts : CheckoutControl(d)'
  BY DEF Jobs, IInv, TypeOK, ProvisioningTypeOK, CheckoutControl, Blocking, Running, Recovering,
     Ended, Statuses, StartCheckout, Begin, outcome, stripeVars
<1>. QED BY <1>3, <1>4, <1>5, <1>6, <1>7 DEF IInv

\* It asks the mirror.
LEMMA CheckMirrorStep ==
  ASSUME IInv, NEW c \in Checkouts, CheckMirror(c)
  PROVE  IInv'
<1>1. SignInTypeOK'
  BY DEF IInv, TypeOK, SignInTypeOK, CheckMirror, signVars
<1>2. ProvisioningTypeOK'
  BY DEF IInv, TypeOK, ProvisioningTypeOK, CheckMirror, Answer, Over, At
<1>3. TypeOK'
  BY <1>1, <1>2 DEF IInv, TypeOK, CheckMirror, Answer, Over, At, stripeVars
<1>4. \A t \in SignIns : SignInControl(t)'
  BY DEF Jobs, IInv, TypeOK, ProvisioningTypeOK, SignInControl, CheckMirror, Answer, Over, At,
     signVars
<1>5. \A i \in Jobs : JobControl(i)'
  BY DEF IInv, TypeOK, ProvisioningTypeOK, JobControl, CheckMirror, Answer, Over, At, signVars
<1>6. References'
  BY DEF IInv, References, EventAndRowTogether, CheckMirror, signVars
<1>7. \A d \in Checkouts : CheckoutControl(d)'
  BY DEF Jobs, IInv, TypeOK, ProvisioningTypeOK, CheckoutControl, Blocking, Running, Recovering,
     Ended, Statuses, CheckMirror, Answer, Over, At, stripeVars
<1>. QED BY <1>3, <1>4, <1>5, <1>6, <1>7 DEF IInv

\* It asks Stripe.
LEMMA AskStripeStep ==
  ASSUME IInv, NEW c \in Checkouts, AskStripe(c)
  PROVE  IInv'
<1>1. SignInTypeOK'
  BY DEF IInv, TypeOK, SignInTypeOK, AskStripe, BlockedAtStripe, signVars
<1>2. ProvisioningTypeOK'
  BY DEF IInv, TypeOK, ProvisioningTypeOK, AskStripe, BlockedAtStripe, Answer, Over, At
<1>3. TypeOK'
  BY <1>1, <1>2 DEF IInv, TypeOK, AskStripe, BlockedAtStripe, Answer, Over, At, stripeVars
<1>4. \A t \in SignIns : SignInControl(t)'
  BY DEF Jobs, IInv, TypeOK, ProvisioningTypeOK, SignInControl, AskStripe, BlockedAtStripe, Answer,
     Over, At, signVars
<1>5. \A i \in Jobs : JobControl(i)'
  BY DEF IInv, TypeOK, ProvisioningTypeOK, JobControl, AskStripe, BlockedAtStripe, Answer, Over, At,
     signVars
<1>6. References'
  BY DEF IInv, References, EventAndRowTogether, AskStripe, BlockedAtStripe, signVars
<1>7. \A d \in Checkouts : CheckoutControl(d)'
  BY DEF Jobs, IInv, TypeOK, ProvisioningTypeOK, CheckoutControl, Blocking, Running, Recovering,
     Ended, Statuses, AskStripe, BlockedAtStripe, Answer, Over, At, stripeVars
<1>. QED BY <1>3, <1>4, <1>5, <1>6, <1>7 DEF IInv

\* It finds the plan and the customer.
LEMMA FindPlanAndCustomerStep ==
  ASSUME IInv, NEW c \in Checkouts, FindPlanAndCustomer(c)
  PROVE  IInv'
<1>1. SignInTypeOK'
  BY DEF IInv, TypeOK, SignInTypeOK, FindPlanAndCustomer, signVars
<1>2. ProvisioningTypeOK'
  BY DEF IInv, TypeOK, ProvisioningTypeOK, FindPlanAndCustomer, Answer, Over, At
<1>3. TypeOK'
  BY <1>1, <1>2 DEF IInv, TypeOK, FindPlanAndCustomer, Answer, Over, At, stripeVars
<1>4. \A t \in SignIns : SignInControl(t)'
  BY DEF Jobs, IInv, TypeOK, ProvisioningTypeOK, SignInControl, FindPlanAndCustomer, Answer, Over,
     At, signVars
<1>5. \A i \in Jobs : JobControl(i)'
  BY DEF IInv, TypeOK, ProvisioningTypeOK, JobControl, FindPlanAndCustomer, Answer, Over, At,
     signVars
<1>6. References'
  BY DEF IInv, References, EventAndRowTogether, FindPlanAndCustomer, signVars
<1>7. \A d \in Checkouts : CheckoutControl(d)'
  BY DEF Jobs, IInv, TypeOK, ProvisioningTypeOK, CheckoutControl, FindPlanAndCustomer, Answer, Over,
     At, stripeVars
<1>. QED BY <1>3, <1>4, <1>5, <1>6, <1>7 DEF IInv

\* It commits a customer.
LEMMA CommitCustomerStep ==
  ASSUME IInv, NEW c \in Checkouts, CommitCustomer(c)
  PROVE  IInv'
<1>1. SignInTypeOK'
  BY DEF IInv, TypeOK, SignInTypeOK, CommitCustomer, signVars
<1>2. ProvisioningTypeOK'
  <2>. USE DEF IInv, TypeOK, ProvisioningTypeOK, CommitCustomer, At, Jobs
  <2>1. customer' \in [Users -> [customer : Jobs, by : Jobs] \cup {None}]
    BY DEF Inserts, InsertRow, JobControl
  <2>2. holds' \in [Jobs -> Jobs \cup {None}]
    <3>1. CASE At(c, "failing")
      BY <3>1
    <3>2. CASE ~RowTaken(c) /\ InsertRow(c) /\ holds' = [holds EXCEPT ![c] =
             customer'[for[c]].customer]
      <4>1. for[c] \in Users /\ customer'[for[c]] \in [customer : Jobs, by : Jobs]
        BY <3>2, <2>1 DEF RowTaken, Inserts, InsertRow, JobControl
      <4>. QED BY <3>2, <4>1
    <3>. QED BY <3>1, <3>2
  <2>3. job' \in [Jobs -> {"unused", "checking", "asking", "allowed", "queued", "creating", "created",
                          "provisioned", "failing", "ready", "opened", "over", "dead"}]
    OBVIOUS
  <2>4. faults' \in 0 .. MaxFaults
    BY ProvisioningAssumption DEF Fault
  <2>. QED BY <2>1, <2>2, <2>3, <2>4
<1>3. TypeOK'
  BY <1>1, <1>2 DEF IInv, TypeOK, CommitCustomer, outcome, stripeVars
<1>4. \A t \in SignIns : SignInControl(t)'
  BY ProvisioningAssumption DEF Jobs, IInv, TypeOK, ProvisioningTypeOK, SignInControl,
     CommitCustomer, RowTaken, Inserts, InsertRow, At, Fault, signVars
<1>5. \A i \in Jobs : JobControl(i)'
  <2>. USE ProvisioningAssumption DEF IInv, TypeOK, SignInTypeOK, ProvisioningTypeOK,
           CommitCustomer, At, Inserts, InsertRow, RowTaken, Jobs, JobControl, signVars
  <2>1. \A u \in Users : customer[u] # None => customer'[u] = customer[u]
     OBVIOUS
  <2>2. job'[c] = "ready" => customer'[for[c]] # None /\ holds'[c] = customer'[for[c]].customer
     OBVIOUS
  <2>3. \A i \in Jobs \ {c} : job'[i] = job[i] /\ holds'[i] = holds[i]
     OBVIOUS
  <2>4. for' = for /\ atStripe' = atStripe /\ email' = email /\ job'[c] \in {"ready", "failing"}
     OBVIOUS
  <2>5. JobControl(c)'
     BY <2>2, <2>4
  <2>6. ASSUME NEW i \in Jobs \ {c} PROVE JobControl(i)'
     BY <2>1, <2>3, <2>4, <2>6
  <2>. QED BY <2>5, <2>6
<1>6. References'
  BY ProvisioningAssumption DEF Jobs, IInv, TypeOK, ProvisioningTypeOK, SignInControl, JobControl,
     References, EventAndRowTogether, CommitCustomer, RowTaken, Inserts, InsertRow, At, Fault,
     signVars
<1>7. \A d \in Checkouts : CheckoutControl(d)'
  BY DEF Users, Jobs, IInv, TypeOK, ProvisioningTypeOK, JobControl, CheckoutControl, CommitCustomer,
     RowTaken, Inserts, InsertRow, At, Fault, outcome, stripeVars
<1>. QED BY <1>3, <1>4, <1>5, <1>6, <1>7 DEF IInv

\* It answers an error.
LEMMA AnswerErrorStep ==
  ASSUME IInv, NEW c \in Checkouts, AnswerError(c)
  PROVE  IInv'
<1>1. SignInTypeOK'
  BY DEF IInv, TypeOK, SignInTypeOK, AnswerError, signVars
<1>2. ProvisioningTypeOK'
  BY DEF Jobs, IInv, TypeOK, ProvisioningTypeOK, AnswerError, Answer, Over
<1>3. TypeOK'
  BY <1>1, <1>2 DEF IInv, TypeOK, AnswerError, Answer, Over, stripeVars
<1>4. \A t \in SignIns : SignInControl(t)'
  BY DEF IInv, SignInControl, AnswerError, Answer, Over, signVars
<1>5. \A i \in Jobs : JobControl(i)'
  BY DEF IInv, TypeOK, ProvisioningTypeOK, JobControl, AnswerError, Answer, Over, signVars
<1>6. References'
  BY DEF IInv, References, EventAndRowTogether, AnswerError, signVars
<1>7. \A d \in Checkouts : CheckoutControl(d)'
  BY DEF Jobs, IInv, TypeOK, ProvisioningTypeOK, CheckoutControl, AnswerError, Answer, Over,
     stripeVars
<1>. QED BY <1>3, <1>4, <1>5, <1>6, <1>7 DEF IInv

\* It opens a session.
LEMMA OpenSessionStep ==
  ASSUME IInv, NEW c \in Checkouts, OpenSession(c)
  PROVE  IInv'
<1>1. SignInTypeOK'
  BY DEF IInv, TypeOK, SignInTypeOK, OpenSession, signVars
<1>2. ProvisioningTypeOK'
  BY ProvisioningAssumption DEF IInv, TypeOK, ProvisioningTypeOK, OpenSession, Answer, Over, At,
     Fault
<1>3. TypeOK'
  <2>. USE DEF IInv, TypeOK, ProvisioningTypeOK, OpenSession, Answer, Jobs
  <2>1. session' \in [Checkouts -> Jobs \cup {None}]
    <3>1. for[c] \in Users /\ customer[for[c]].customer \in Jobs
      BY DEF JobControl
    <3>. QED BY <3>1
  <2>2. reply' \in [Checkouts -> {"none", "url", "blocked", "refused", "error"}]
    OBVIOUS
  <2>3. UNCHANGED <<recorded, stripeVars, before>>
    OBVIOUS
  <2>. QED BY <1>1, <1>2, <2>1, <2>2, <2>3 DEF stripeVars
<1>4. \A t \in SignIns : SignInControl(t)'
  BY DEF Jobs, IInv, TypeOK, ProvisioningTypeOK, SignInControl, OpenSession, Answer, Over, At,
     Fault, signVars
<1>5. \A i \in Jobs : JobControl(i)'
  BY DEF IInv, TypeOK, ProvisioningTypeOK, JobControl, OpenSession, Answer, Over, At, Fault,
     signVars
<1>6. References'
  BY DEF IInv, References, EventAndRowTogether, OpenSession, signVars
<1>7. \A d \in Checkouts : CheckoutControl(d)'
  BY DEF Jobs, IInv, TypeOK, ProvisioningTypeOK, JobControl, CheckoutControl, OpenSession, Answer,
     Over, At, Fault, stripeVars
<1>. QED BY <1>3, <1>4, <1>5, <1>6, <1>7 DEF IInv

\* It commits its row and answers.
LEMMA CommitCheckoutStep ==
  ASSUME IInv, NEW c \in Checkouts, CommitCheckout(c)
  PROVE  IInv'
<1>1. SignInTypeOK'
  BY DEF IInv, TypeOK, SignInTypeOK, CommitCheckout, signVars
<1>2. ProvisioningTypeOK'
  BY SignInAssumption, ProvisioningAssumption, CheckoutAssumption DEF Users, Jobs, IInv, TypeOK,
     ProvisioningTypeOK, CommitCheckout, Answer, Over, At, Fault
<1>3. TypeOK'
  BY <1>1, <1>2 DEF IInv, TypeOK, CommitCheckout, Answer, Over, At, Fault, stripeVars
<1>4. \A t \in SignIns : SignInControl(t)'
  BY DEF Jobs, IInv, TypeOK, ProvisioningTypeOK, SignInControl, CommitCheckout, Answer, Over, At,
     Fault, signVars
<1>5. \A i \in Jobs : JobControl(i)'
  BY DEF IInv, TypeOK, ProvisioningTypeOK, JobControl, CommitCheckout, Answer, Over, At, Fault,
     signVars
<1>6. References'
  BY DEF IInv, References, EventAndRowTogether, CommitCheckout, signVars
<1>7. \A d \in Checkouts : CheckoutControl(d)'
  BY DEF Jobs, IInv, TypeOK, ProvisioningTypeOK, JobControl, CheckoutControl, CommitCheckout,
     Answer, Over, At, Fault, stripeVars
<1>. QED BY <1>3, <1>4, <1>5, <1>6, <1>7 DEF IInv

\* A user pays.
LEMMA PayStep ==
  ASSUME IInv, NEW c \in Checkouts, Pay(c)
  PROVE  IInv'
<1>1. SignInTypeOK'
  BY DEF IInv, TypeOK, SignInTypeOK, Pay, signVars
<1>2. ProvisioningTypeOK'
  BY DEF IInv, TypeOK, ProvisioningTypeOK, Pay, provisionVars, jobVars
<1>3. TypeOK'
  BY <1>1, <1>2, CheckoutAssumption DEF IInv, TypeOK, Pay, outcome
<1>4. \A t \in SignIns : SignInControl(t)'
  BY DEF IInv, SignInControl, Pay, provisionVars, jobVars, signVars
<1>5. \A i \in Jobs : JobControl(i)'
  BY DEF IInv, JobControl, Pay, provisionVars, jobVars, signVars
<1>6. References'
  BY DEF IInv, References, EventAndRowTogether, Pay, provisionVars, jobVars, signVars
<1>7. \A d \in Checkouts : CheckoutControl(d)'
  BY DEF IInv, CheckoutControl, Blocking, Running, Recovering, Ended, Statuses, Pay, provisionVars,
     jobVars, outcome
<1>. QED BY <1>3, <1>4, <1>5, <1>6, <1>7 DEF IInv

\* Stripe changes a subscription.
LEMMA ChangeStep ==
  ASSUME IInv, NEW c \in Checkouts, Change(c)
  PROVE  IInv'
<1>1. SignInTypeOK'
  BY DEF IInv, TypeOK, SignInTypeOK, Change, signVars
<1>2. ProvisioningTypeOK'
  BY DEF IInv, TypeOK, ProvisioningTypeOK, Change, provisionVars, jobVars
<1>3. TypeOK'
  BY <1>1, <1>2, CheckoutAssumption DEF IInv, TypeOK, Change, outcome
<1>4. \A t \in SignIns : SignInControl(t)'
  BY DEF IInv, SignInControl, Change, provisionVars, jobVars, signVars
<1>5. \A i \in Jobs : JobControl(i)'
  BY DEF IInv, JobControl, Change, provisionVars, jobVars, signVars
<1>6. References'
  BY DEF IInv, References, EventAndRowTogether, Change, provisionVars, jobVars, signVars
<1>7. \A d \in Checkouts : CheckoutControl(d)'
  BY CheckoutAssumption DEF IInv, CheckoutControl, Blocking, Running, Recovering, Ended, Statuses,
     Change, provisionVars, jobVars, outcome
<1>. QED BY <1>3, <1>4, <1>5, <1>6, <1>7 DEF IInv

\* A webhook is applied.
LEMMA MirrorStep ==
  ASSUME IInv, NEW c \in Checkouts, Mirror(c)
  PROVE  IInv'
<1>1. SignInTypeOK'
  BY DEF IInv, TypeOK, SignInTypeOK, Mirror, signVars
<1>2. ProvisioningTypeOK'
  BY DEF IInv, TypeOK, ProvisioningTypeOK, Mirror, provisionVars, jobVars
<1>3. TypeOK'
  BY <1>1, <1>2 DEF IInv, TypeOK, Mirror, outcome
<1>4. \A t \in SignIns : SignInControl(t)'
  BY DEF IInv, SignInControl, Mirror, provisionVars, jobVars, signVars
<1>5. \A i \in Jobs : JobControl(i)'
  BY DEF IInv, JobControl, Mirror, provisionVars, jobVars, signVars
<1>6. References'
  BY DEF IInv, References, EventAndRowTogether, Mirror, provisionVars, jobVars, signVars
<1>7. \A d \in Checkouts : CheckoutControl(d)'
  BY DEF IInv, CheckoutControl, Mirror, provisionVars, jobVars, outcome
<1>. QED BY <1>3, <1>4, <1>5, <1>6, <1>7 DEF IInv

\* The process restarts.
LEMMA CrashStep ==
  ASSUME IInv, Crash
  PROVE  IInv'
<1>1. SignInTypeOK'
  BY DEF IInv, TypeOK, SignInTypeOK, Crash
<1>2. ProvisioningTypeOK'
  BY ProvisioningAssumption DEF IInv, TypeOK, ProvisioningTypeOK, Crash, Fault
<1>3. TypeOK'
  BY <1>1, <1>2 DEF IInv, TypeOK, Crash, outcome, stripeVars
<1>4. \A t \in SignIns : SignInControl(t)'
  BY DEF Jobs, IInv, SignInControl, Crash
<1>5. \A i \in Jobs : JobControl(i)'
  BY DEF IInv, JobControl, Crash
<1>6. References'
  BY DEF IInv, References, EventAndRowTogether, Crash
<1>7. \A d \in Checkouts : CheckoutControl(d)'
  BY DEF Jobs, IInv, CheckoutControl, Crash, outcome, stripeVars
<1>. QED BY <1>3, <1>4, <1>5, <1>6, <1>7 DEF IInv

-----------------------------------------------------------------------------
\* Every state the program starts in satisfies the invariant.
LEMMA InitIInv == Init => IInv
<1>. SUFFICES ASSUME Init PROVE IInv
  OBVIOUS
<1>1. TypeOK
  <2>1. SignInTypeOK
    BY DEF Init, SignInInit, SignInTypeOK
  <2>2. ProvisioningTypeOK
    BY ProvisioningAssumption DEF Init, ProvisioningInit, ProvisioningTypeOK
  <2>. QED BY <2>1, <2>2 DEF Init, TypeOK
<1>2. \A s \in SignIns : SignInControl(s)
  BY DEF Init, SignInInit, ProvisioningInit, SignInControl, Jobs
<1>3. \A j \in Jobs : JobControl(j)
  BY DEF Init, ProvisioningInit, JobControl
<1>4. References
  BY ProvisioningAssumption
  DEF Init, SignInInit, ProvisioningInit, References, EventAndRowTogether, Users, Jobs
<1>5. \A c \in Checkouts : CheckoutControl(c)
  BY DEF Init, ProvisioningInit, CheckoutControl, Jobs
<1>. QED BY <1>1, <1>2, <1>3, <1>4, <1>5 DEF IInv

\* Every step keeps it.
LEMMA StepIInv == IInv /\ [Next]_vars => IInv'
<1>. SUFFICES ASSUME IInv, [Next]_vars PROVE IInv'
  OBVIOUS
<1>1. ASSUME NEW s \in SignIns,
             FindAccount(s) \/ FindUser(s) \/ SaveSignIn(s), UNCHANGED provisionVars, Unrelated
      PROVE  IInv'
  BY <1>1, FindAccountStep, FindUserStep, SaveSignInStep
<1>2. ASSUME NEW s \in SignIns, EmitEvent(s) \/ CommitEvent(s) \/ MarkFailed(s), Unrelated
      PROVE  IInv'
  BY <1>2, EmitEventStep, CommitEventStep, MarkFailedStep
<1>3. ASSUME NEW j \in Jobs, LookupCustomer(j) \/ CreateCustomer(j), Unrelated
      PROVE  IInv'
  BY <1>3, LookupCustomerStep, CreateCustomerStep
<1>4. ASSUME NEW u \in Users, KeyForgotten(u), Unrelated
      PROVE  IInv'
  BY <1>4, KeyForgottenStep
<1>5. ASSUME NEW c \in Checkouts,
             StartCheckout(c) \/ CheckMirror(c) \/ AskStripe(c) \/ FindPlanAndCustomer(c)
      PROVE  IInv'
  BY <1>5, StartCheckoutStep, CheckMirrorStep, AskStripeStep, FindPlanAndCustomerStep
<1>6. ASSUME NEW c \in Checkouts,
             CommitCustomer(c) \/ AnswerError(c) \/ OpenSession(c) \/ CommitCheckout(c)
      PROVE  IInv'
  BY <1>6, CommitCustomerStep, AnswerErrorStep, OpenSessionStep, CommitCheckoutStep
<1>7. ASSUME NEW c \in Checkouts, Pay(c) \/ Change(c) \/ Mirror(c)
      PROVE  IInv'
  BY <1>7, PayStep, ChangeStep, MirrorStep
<1>8. CASE Crash
  BY <1>8, CrashStep
<1>9. CASE UNCHANGED vars
  BY <1>9
  DEF vars, signVars, provisionVars, jobVars, IInv, TypeOK, SignInTypeOK, ProvisioningTypeOK,
      SignInControl, JobControl, References, EventAndRowTogether, CheckoutControl
<1>. QED BY <1>1, <1>2, <1>3, <1>4, <1>5, <1>6, <1>7, <1>8, <1>9 DEF Next

\* The invariant holds in every state of the program.
THEOREM Invariance == Spec => []IInv
<1>. QED BY InitIInv, StepIInv, PTL DEF Spec

\* Every variable keeps its type: no job takes a failed call to Stripe for a customer.
THEOREM TypeCorrect == Spec => []TypeOK
<1>1. IInv => TypeOK
  BY DEF IInv
<1>. QED BY <1>1, Invariance, PTL

\* Two callbacks for one Google account that both get through are for one user: the
\* account row names the user of each, and it never changes once it is there.
THEOREM OneUserPerIdentity == Spec => []SameIdentitySameUser
<1>1. IInv => SameIdentitySameUser
  BY DEF IInv, SignInControl, SameIdentitySameUser
<1>. QED BY <1>1, Invariance, PTL

\* A user whose key Stripe still has got at most one customer there, however many jobs
\* called and whichever answers were lost: the key names it.
THEOREM OneCustomerPerUser == Spec => []OneStripeCustomer
<1>1. IInv => OneStripeCustomer
  BY DEF IInv, References, OneStripeCustomer
<1>. QED BY <1>1, Invariance, PTL

\* A completed event and the row of its customer come together, whoever inserts first.
THEOREM EventWithRow == Spec => []EventAndRowTogether
<1>1. IInv => EventAndRowTogether
  BY DEF IInv, References
<1>. QED BY <1>1, Invariance, PTL

\* Whatever a user paid for has its checkout row and the customer row the webhook needs.
THEOREM PaidIsBookable == Spec => []PaidCanBeBooked
<1>1. IInv => PaidCanBeBooked
  BY DEF IInv, CheckoutControl, PaidCanBeBooked
<1>. QED BY <1>1, Invariance, PTL

\* A checkout that began beside a blocking subscription ends in no session while it blocks,
\* and no subscription comes back from its end.
THEOREM NoSecondCheckout == Spec => []NoSecondSubscription
<1>1. IInv => NoSecondSubscription
  BY DEF IInv, CheckoutControl, NoSecondSubscription
<1>. QED BY <1>1, Invariance, PTL

\* Among subscriptions of which one blocks, the one shown blocks, and then no plan is
\* offered.
LEMMA ShownBlocks ==
  ASSUME NEW M, NEW mine \in [M -> Statuses \cup {"none"}], NEW d \in M, mine[d] \in Blocking,
         NEW entitled \in BOOLEAN, NEW r \in Recommendations(mine, entitled)
  PROVE  ~AccountOffersPlans(r)
<1>. DEFINE present == {mine[x] : x \in DOMAIN mine} \ {"none"}
<1>. USE DEF Blocking, Running, Recovering, Ended, Statuses
<1>1. \A st \in Statuses : /\ st \in Running => Rank(st) = 0
                           /\ st \in Recovering => Rank(st) = 1
                           /\ st \notin Blocking => Rank(st) \in {2, 3}
  BY DEF Rank
<1>2. mine[d] \in present /\ present \subseteq Statuses
  OBVIOUS
<1>3. \A st \in MostRelevant(mine) : st \in Blocking
  <2>. SUFFICES ASSUME NEW st \in present, Rank(st) <= Rank(mine[d]) PROVE st \in Blocking
    BY <1>2 DEF MostRelevant
  <2>. QED BY <1>1, <1>2
<1>4. MostRelevant(mine) # {}
  <2>1. CASE \E st \in present : st \in Running
    <3>1. PICK st \in present : st \in Running
      BY <2>1
    <3>2. \A other \in present : Rank(st) <= Rank(other)
      BY <1>1, <1>2, <3>1
    <3>. QED BY <3>1, <3>2 DEF MostRelevant
  <2>2. CASE \A st \in present : st \notin Running
    <3>1. \A other \in present : Rank(mine[d]) <= Rank(other)
      BY <1>1, <1>2, <2>2
    <3>. QED BY <1>2, <3>1 DEF MostRelevant
  <2>. QED BY <2>1, <2>2
<1>5. PICK st \in Blocking : r = Recommendation(st, entitled)
  BY <1>3, <1>4 DEF Recommendations
<1>. QED BY <1>5 DEF Recommendation, AccountOffersPlans

\* The account section offers no plan to a user the local check would stop.
LEMMA StoppedIsNotOffered ==
  ASSUME TypeOK, NEW u \in Users, Mirrored(u) # {}
  PROVE  ~AccountMayOffer(u)
<1>. DEFINE M == {c \in Checkouts : for[c] = u}
<1>. DEFINE mine == [c \in M |-> mirror[c]]
<1>1. PICK d \in M : mine[d] \in Blocking
  BY DEF Mirrored
<1>2. mine \in [M -> Statuses \cup {"none"}]
  BY DEF TypeOK
<1>. HIDE DEF M, mine
<1>3. \A entitled \in BOOLEAN : \A r \in Recommendations(mine, entitled) : ~AccountOffersPlans(r)
  BY <1>1, <1>2, ShownBlocks
<1>. QED BY <1>3 DEF AccountMayOffer, M, mine

\* The two ways to a 409, and whom a checkout is for by then.
LEMMA WaysToBeTurnedAway ==
  ASSUME IInv, [Next]_vars, NEW c \in Checkouts, TurnedAway(c)
  PROVE  /\ for[c] \in Users
         /\ \/ Mirrored(for[c]) # {}
            \/ customer[for[c]] # None /\ BlockedAtStripe(customer[for[c]].customer)
<1>. USE DEF TurnedAway
<1>1. reply \in [Checkouts -> {"none", "url", "blocked", "refused", "error"}]
  BY DEF IInv, TypeOK
<1>2. PICK i \in Checkouts : CheckMirror(i) \/ AskStripe(i)
  <2>1. CASE UNCHANGED reply
    BY <2>1
  <2>2. ASSUME NEW i \in Checkouts, reply' = [reply EXCEPT ![i] = "url"]
                                    \/ reply' = [reply EXCEPT ![i] = "refused"]
                                    \/ reply' = [reply EXCEPT ![i] = "error"]
        PROVE  FALSE
    BY <1>1, <2>2
  <2>3. ASSUME NEW i \in Checkouts,
               FindPlanAndCustomer(i) \/ AnswerError(i) \/ OpenSession(i) \/ CommitCheckout(i)
        PROVE  FALSE
    BY <2>1, <2>2, <2>3 DEF FindPlanAndCustomer, AnswerError, OpenSession, CommitCheckout, Answer
  <2>4. ASSUME NEW i \in Checkouts,
               StartCheckout(i) \/ CommitCustomer(i) \/ Pay(i) \/ Change(i) \/ Mirror(i)
        PROVE  FALSE
    BY <2>1, <2>4 DEF StartCheckout, CommitCustomer, Pay, Change, Mirror, outcome
  <2>5. ~Crash /\ ~Unrelated /\ ~UNCHANGED vars
    BY <2>1 DEF Crash, Unrelated, vars, outcome
  <2>. QED BY <2>3, <2>4, <2>5 DEF Next
<1>3. i = c /\ job[c] \in {"checking", "asking"}
  BY <1>1, <1>2 DEF CheckMirror, AskStripe, Answer
<1>4. for[c] \in Users /\ (job[c] = "asking" => customer[for[c]] # None)
  BY <1>3 DEF IInv, JobControl, Jobs
<1>5. CASE CheckMirror(c)
  <2>1. Cardinality(Mirrored(for[c])) = 1
    BY <1>1, <1>5 DEF CheckMirror, Answer
  <2>2. Mirrored(for[c]) # {}
    BY <2>1, FS_EmptySet
  <2>. QED BY <1>4, <2>2
<1>6. CASE AskStripe(c)
  BY <1>4, <1>6 DEF AskStripe
<1>. QED BY <1>2, <1>3, <1>5, <1>6

\* What Stripe lists for a user's customer is that user's: the customer a session was
\* opened for carries the id of the user whose row names it, and no other row may.
LEMMA ListedAreHis ==
  ASSUME IInv, NEW u \in Users, customer[u] # None, NEW d \in Checkouts,
         session[d] = customer[u].customer, subscription[d] \in Blocking
  PROVE  for[d] = u
<1>1. subscription[d] # "none" /\ d \in Jobs
  BY DEF Blocking, Running, Recovering, Jobs
<1>2. /\ for[d] \in Users
      /\ customer[for[d]] # None
      /\ customer[for[d]].customer = session[d]
  BY <1>1 DEF IInv, CheckoutControl, JobControl
<1>3. \A v \in Users : customer[v] # None => atStripe[customer[v].customer] = v
  BY DEF IInv, References, EventAndRowTogether
<1>. QED BY <1>2, <1>3

\* A 409 is given over a subscription of the very user, however many jobs made customers:
\* no two rows share a customer of Stripe, which holds only with IInv.
THEOREM TurnedAwayOverHisOwn == Spec => TurnedAwayForCause
<1>1. ASSUME IInv, [Next]_vars, NEW c \in Checkouts, TurnedAway(c)
      PROVE  \E d \in Checkouts : /\ for[d] = for[c]
                                  /\ {subscription[d], mirror[d]} \cap Blocking # {}
  <2>1. CASE Mirrored(for[c]) # {}
    BY <2>1 DEF Mirrored
  <2>2. CASE Mirrored(for[c]) = {}
    BY <1>1, <2>2, WaysToBeTurnedAway, ListedAreHis DEF BlockedAtStripe
  <2>. QED BY <2>1, <2>2
<1>2. IInv /\ [Next]_vars =>
        [\A c \in Checkouts : TurnedAway(c) =>
           \E d \in Checkouts : /\ for[d] = for[c]
                                /\ {subscription[d], mirror[d]} \cap Blocking # {}]_vars
  BY <1>1
<1>. QED BY <1>2, Invariance, PTL DEF Spec, TurnedAwayForCause

\* Where the account section could offer the plans the local check lets the user through,
\* and a 409 comes from Stripe alone, over a subscription whose webhook is late.
THEOREM AccountOffersAreKept == Spec => AccountOfferIsKept
<1>1. ASSUME IInv, [Next]_vars, NEW c \in Checkouts, TurnedAway(c), AccountMayOffer(for[c])
      PROVE  \E d \in Checkouts : /\ for[d] = for[c]
                                  /\ subscription[d] \in Blocking
                                  /\ mirror[d] \notin Blocking
  <2>1. for[c] \in Users /\ Mirrored(for[c]) = {}
    BY <1>1, WaysToBeTurnedAway, StoppedIsNotOffered DEF IInv
  <2>2. PICK d \in Checkouts : for[d] = for[c] /\ subscription[d] \in Blocking
    BY <1>1, <2>1, WaysToBeTurnedAway, ListedAreHis DEF BlockedAtStripe
  <2>. QED BY <2>1, <2>2 DEF Mirrored
<1>2. IInv /\ [Next]_vars =>
        [\A c \in Checkouts : TurnedAway(c) /\ AccountMayOffer(for[c]) =>
           \E d \in Checkouts : /\ for[d] = for[c]
                                /\ subscription[d] \in Blocking
                                /\ mirror[d] \notin Blocking]_vars
  BY <1>1
<1>. QED BY <1>2, Invariance, PTL DEF Spec, AccountOfferIsKept
=============================================================================
