------------------------------- MODULE Billing -------------------------------
(***************************************************************************)
(* Subscriptions (routers/billing.py): the checkout that gives a seller a  *)
(* Stripe customer, and the webhook that copies the state of a             *)
(* subscription from Stripe's events, which may come twice and in any      *)
(* order.  Nothing keeps a seller from paying for a second subscription    *)
(* while one runs, and the webhook stores a subscription's id but compares *)
(* it with nothing (so the column is left out).                            *)
(***************************************************************************)
EXTENDS Sessions, Naturals, FiniteSets

CONSTANTS Subscriptions, \* those the seller may ever pay for
          Checkouts,   \* checkout requests in progress
          Webhooks,    \* webhook calls in progress
          MaxEvents,   \* bound: events of the subscriptions
          MaxCustomers \* bound: customers made at Stripe

ASSUME BillingAssumption == MaxEvents \in Nat /\ MaxCustomers \in Nat

VARIABLES account,      \* the billing columns of the seller's row
          customers,    \* how many customers Stripe has for this seller
          subscription, \* each one's customer and state at Stripe
          sent,         \* the events Stripe has sent
          pending,      \* those it has not had an answer to
          checkout,     \* the checkout requests in progress
          webhook,      \* the webhook calls in progress
          newest,       \* history: the latest event handled
          disordered,   \* history: an older event was handled after a newer one
          parallel,     \* history: two webhook calls were in progress at a time
          rivalry,      \* history: two checkouts each made a customer, or one's was lost
          doubled       \* history: a second subscription was paid for while one ran

stripe      == <<customers, subscription, sent, pending>>
billingPast == <<newest, disordered, parallel, rivalry, doubled>>
billingVars == <<account, stripe, checkout, webhook, billingPast>>

Statuses == {"none", "trialing", "active", "past_due", "canceled"}

(* Stripe knows more, "unpaid" among them *)
StripeStatuses == (Statuses \ {"none"}) \cup {"unpaid"}

NoCustomer == 0

Account == [customer : Nat, status : Statuses, plan : {"free", "pro"}, period : BOOLEAN]

Subscription == [customer : Nat, status : StripeStatuses \cup {"none"}]

Event == [n : Nat, id : Subscriptions, type : {"created", "updated", "deleted"},
          status : StripeStatuses, customer : Nat]

NoRequest == [pc |-> "idle"]

CheckoutState == {NoRequest} \cup [pc : {"made", "pay"}, customer : Nat]

WebhookState == {NoRequest} \cup [pc : {"save"}, event : Event, loaded : Account]

BillingTypeOK ==
  /\ account \in Account
  /\ customers \in Nat
  /\ subscription \in [Subscriptions -> Subscription]
  /\ sent \in SUBSET Event /\ pending \subseteq sent
  /\ checkout \in [Checkouts -> CheckoutState]
  /\ webhook \in [Webhooks -> WebhookState]
  /\ newest \in Nat
  /\ {disordered, parallel, rivalry, doubled} \subseteq BOOLEAN

BillingInit ==
  /\ account = [customer |-> NoCustomer, status |-> "none", plan |-> "free", period |-> FALSE]
  /\ customers = 0 /\ sent = {} /\ pending = {}
  /\ subscription = [s \in Subscriptions |-> [customer |-> NoCustomer, status |-> "none"]]
  /\ checkout = [c \in Checkouts |-> NoRequest]
  /\ webhook = [h \in Webhooks |-> NoRequest]
  /\ newest = 0 /\ disordered = FALSE /\ parallel = FALSE /\ rivalry = FALSE
  /\ doubled = FALSE

-----------------------------------------------------------------------------
(* create_checkout_session reads the seller; without a customer it makes   *)
(* one at Stripe ...                                                       *)
CheckoutMakes(c) ==
  /\ checkout[c].pc = "idle" /\ account.customer = NoCustomer /\ customers < MaxCustomers
  /\ customers' = customers + 1
  /\ checkout' = [checkout EXCEPT ![c] = [pc |-> "made", customer |-> customers + 1]]
  /\ rivalry' = (rivalry \/ customers > 0)
  /\ UNCHANGED <<account, subscription, sent, pending, webhook, newest, disordered, parallel,
                 doubled>>

(* Mutant: the new id is not committed *)
Uncommitted(c) == account

WithCustomer(c) == [account EXCEPT !.customer = checkout[c].customer]

(* ... and commits its id; the session it opens at Stripe is that customer's *)
CheckoutCommits(c) ==
  /\ checkout[c].pc = "made"
  /\ account' = WithCustomer(c)
  /\ checkout' = [checkout EXCEPT ![c].pc = "pay"]
  /\ UNCHANGED <<stripe, webhook, billingPast>>

CheckoutReuses(c) ==
  /\ checkout[c].pc = "idle" /\ account.customer # NoCustomer
  /\ checkout' = [checkout EXCEPT ![c] = [pc |-> "pay", customer |-> account.customer]]
  /\ UNCHANGED <<account, stripe, webhook, billingPast>>

(* The API dies, or Stripe opens no session, or the seller goes away *)
CheckoutEnds(c) ==
  /\ checkout[c].pc # "idle"
  /\ checkout' = [checkout EXCEPT ![c] = NoRequest]
  /\ UNCHANGED <<account, stripe, webhook, billingPast>>

-----------------------------------------------------------------------------
(* An event of a subscription *)
Sends(s, type, status, customer) ==
  /\ Cardinality(sent) < MaxEvents
  /\ LET e == [n |-> Cardinality(sent) + 1, id |-> s, type |-> type, status |-> status,
               customer |-> customer]
     IN  sent' = sent \cup {e} /\ pending' = pending \cup {e}
  /\ subscription' = [subscription EXCEPT ![s] = [customer |-> customer, status |-> status]]

Runs(s) == subscription[s].status \notin {"none", "canceled"}

(* The seller pays in the session of a checkout, whatever they pay already *)
Subscribes(c, s) ==
  /\ checkout[c].pc = "pay" /\ subscription[s].status = "none"
  /\ \E status \in {"trialing", "active"} : Sends(s, "created", status, checkout[c].customer)
  /\ checkout' = [checkout EXCEPT ![c] = NoRequest]
  /\ doubled' = (doubled \/ \E r \in Subscriptions : Runs(r))
  /\ UNCHANGED <<account, customers, webhook, newest, disordered, parallel, rivalry>>

(* Payments fail and are made up for *)
Changes(s) ==
  /\ Runs(s)
  /\ \E status \in {"active", "past_due", "unpaid"} \ {subscription[s].status} :
       Sends(s, "updated", status, subscription[s].customer)
  /\ UNCHANGED <<account, customers, checkout, webhook, billingPast>>

Cancels(s) ==
  /\ Runs(s)
  /\ Sends(s, "deleted", "canceled", subscription[s].customer)
  /\ UNCHANGED <<account, customers, checkout, webhook, billingPast>>

-----------------------------------------------------------------------------
(* stripe_webhook: any event may come, and again until it is answered.     *)
(* The seller with this customer is selected; without one it is ignored.   *)
WebhookReadsSeller(h, e) ==
  /\ webhook[h].pc = "idle"
  /\ e.customer = account.customer
  /\ webhook' = [webhook EXCEPT ![h] = [pc |-> "save", event |-> e, loaded |-> account]]
  /\ parallel' = (parallel \/ \E g \in Webhooks : webhook[g].pc # "idle")
  /\ UNCHANGED <<account, stripe, checkout, newest, disordered, rivalry, doubled>>

WebhookIgnores(e) ==
  /\ e \in pending /\ e.customer # account.customer
  /\ pending' = pending \ {e}
  /\ UNCHANGED <<account, customers, subscription, sent, checkout, webhook, billingPast>>

(* Mutant: the status is stored as Stripe names it *)
Verbatim(x) == x.status

(* status_map *)
StatusOf(x) == IF x.status = "unpaid" THEN "none" ELSE x.status

(* Mutant: the plan follows the creation of a subscription *)
ProOnCreation(e, loaded) ==
  [loaded EXCEPT !.status = StatusOf(e), !.period = TRUE,
                 !.plan = IF e.type = "created" THEN "pro" ELSE @]

(* Mutant: a subscription that ends leaves the plan *)
NeverFree(e, loaded) ==
  [loaded EXCEPT !.status = StatusOf(e), !.period = TRUE,
                 !.plan = IF StatusOf(e) \in {"active", "trialing"} THEN "pro" ELSE @]

(* What the handler assigns; current_period_end is in every event *)
Applied(e, loaded) ==
  IF StatusOf(e) \in {"active", "trialing"}
  THEN [loaded EXCEPT !.status = StatusOf(e), !.period = TRUE, !.plan = "pro"]
  ELSE IF e.type = "deleted"
  THEN [loaded EXCEPT !.status = StatusOf(e), !.period = FALSE, !.plan = "free"]
  ELSE [loaded EXCEPT !.status = StatusOf(e), !.period = TRUE]

FlushAccount(loaded, new) ==
  [customer |-> Column(account.customer, loaded.customer, new.customer),
   status   |-> Column(account.status, loaded.status, new.status),
   plan     |-> Column(account.plan, loaded.plan, new.plan),
   period   |-> Column(account.period, loaded.period, new.period)]

WebhookCommits(h) ==
  /\ webhook[h].pc = "save"
  /\ LET e == webhook[h].event
         loaded == webhook[h].loaded
     IN  /\ account' = FlushAccount(loaded, Applied(e, loaded))
         /\ pending' = pending \ {e}
         /\ disordered' = (disordered \/ e.n < newest)
         /\ newest' = IF e.n > newest THEN e.n ELSE newest
  /\ webhook' = [webhook EXCEPT ![h] = NoRequest]
  /\ UNCHANGED <<customers, subscription, sent, checkout, parallel, rivalry, doubled>>

(* The commit fails or the API dies: Stripe sends the event again *)
WebhookFails(h) ==
  /\ webhook[h].pc = "save"
  /\ webhook' = [webhook EXCEPT ![h] = NoRequest]
  /\ UNCHANGED <<account, stripe, checkout, billingPast>>

-----------------------------------------------------------------------------
BillingNext ==
  \/ \E c \in Checkouts :
       CheckoutMakes(c) \/ CheckoutCommits(c) \/ CheckoutReuses(c) \/ CheckoutEnds(c)
       \/ \E s \in Subscriptions : Subscribes(c, s)
  \/ \E s \in Subscriptions : Changes(s) \/ Cancels(s)
  \/ \E h \in Webhooks : \/ \E e \in sent : WebhookReadsSeller(h, e)
                         \/ WebhookCommits(h) \/ WebhookFails(h)
  \/ \E e \in pending : WebhookIgnores(e)

BillingSpec == BillingInit /\ [][BillingNext]_billingVars

-----------------------------------------------------------------------------
(* Stripe has an answer to every event, and got them without trouble: the  *)
(* handler compares no times, so this is to say that no older event was    *)
(* handled after a newer one, no two at a time, and that only one customer *)
(* was ever made.                                                          *)
Settled ==
  /\ pending = {} /\ \A h \in Webhooks : webhook[h].pc = "idle"
  /\ ~disordered /\ ~parallel /\ ~rivalry

(* "Keep subscription state in sync" (stripe_webhook): the row then has the *)
(* status of the subscription that runs, and the plan is pro if it is      *)
(* active or in trial; if none runs any more the plan is free and there is *)
(* no period.  One after the other, a seller may have any number of them,  *)
(* but never two at a time.                                                *)
InSync ==
  Settled /\ ~doubled /\ sent # {} =>
    /\ \A s \in Subscriptions : Runs(s) =>
         /\ account.status = StatusOf(subscription[s])
         /\ subscription[s].status \in {"active", "trialing"} => account.plan = "pro"
    /\ (\A s \in Subscriptions : ~Runs(s)) =>
         account.status = "canceled" /\ account.plan = "free" /\ ~account.period

(* A seller whose subscription runs, as far as the row knows, has what     *)
(* they pay for, even if events come out of order; two handlers at a time  *)
(* may mix their columns (active but free), since a flush leaves out what  *)
(* it did not change.                                                      *)
ActiveIsPro ==
  ~parallel => (account.status \in {"active", "trialing"} => account.plan = "pro")

(* Who pays is the customer on record, so that the webhook finds the       *)
(* seller, unless two checkouts made a customer each.                      *)
PayerIsKnown ==
  ~rivalry => \A s \in Subscriptions :
    subscription[s].status # "none" => account.customer = subscription[s].customer
=============================================================================
