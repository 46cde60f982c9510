------------------------------- MODULE Billing -------------------------------
(***************************************************************************)
(* The tier a company pays for: services/api/app/billing.py and its routes *)
(* (routes/billing.py), with Stripe's side as the environment.  One        *)
(* company, one live subscription at a time.                               *)
(*                                                                         *)
(* Stripe sends an event for every change of the subscription and resends  *)
(* those that were answered with an error; it promises no order.  The      *)
(* handler of a finished checkout asks Stripe for the subscription as it   *)
(* is then, and writes it afterwards.                                      *)
(***************************************************************************)
EXTENDS Integers, Sequences, SequencesExt, FiniteSets

CONSTANTS Checkouts,     \* checkout requests served at one time (bound)
          Customers,     \* customers Stripe can create (bound)
          Prices, Sold,  \* prices; those that settings map to a tier
          MaxEvents, MaxFailures,     \* (bounds)
          Unset          \* no customer, no subscription in hand

ASSUME BillingConstants ==
    /\ Sold # {} /\ Sold \subseteq Prices /\ "free" \notin Prices
    /\ IsFiniteSet(Checkouts)
    /\ MaxEvents \in Nat /\ MaxFailures \in Nat
    /\ Unset \notin Customers

VARIABLES
    tier, customer,        \* companies.tier_name, stripe_customer_id
    creating, wanted,      \* a customer created but not stored, the price asked for
    customers, sessions,   \* Stripe: customers of this company, open sessions
    status, price, payer,  \* Stripe: the subscription, its customer
    events, sent,          \* events not acknowledged, oldest first; all ever sent
    retrieved,             \* what the handler of a finished checkout retrieved
    disordered,            \* an event was handled before an older one, or during one
    mishaps                \* requests and handlers that failed half-way

row == <<tier, customer>>
requests == <<creating, wanted>>
subscription == <<status, price, payer>>
webhook == <<events, sent, retrieved, disordered>>
billingVars == <<row, requests, customers, sessions, subscription, webhook, mishaps>>

Statuses == {"none", "active", "past_due", "unpaid", "canceled"}
Tiers == Sold \cup {"free"}

BillingTypeOK ==
    /\ tier \in Tiers /\ customer \in customers \cup {Unset}
    /\ customers \subseteq Customers
    /\ creating \in [Checkouts -> customers \cup {Unset}]
    /\ wanted \in [Checkouts -> Sold]
    /\ sessions \subseteq customers \X Sold
    /\ status \in Statuses /\ price \in Prices /\ payer \in customers \cup {Unset}
    /\ (status = "none") <=> (payer = Unset)
    /\ sent \in 0..MaxEvents /\ Len(events) <= sent
    /\ retrieved = Unset \/ retrieved \in Statuses \X Prices \X customers
    /\ disordered \in BOOLEAN /\ mishaps \in 0..MaxFailures

BillingInit ==
    /\ tier = "free" /\ customer = Unset
    /\ creating = [c \in Checkouts |-> Unset] /\ wanted = [c \in Checkouts |-> CHOOSE p \in Sold : TRUE]
    /\ customers = {} /\ sessions = {}
    /\ status = "none" /\ price = (CHOOSE p \in Sold : TRUE) /\ payer = Unset
    /\ events = <<>> /\ sent = 0 /\ retrieved = Unset
    /\ disordered = FALSE /\ mishaps = 0

-----------------------------------------------------------------------------
(* Checkout and portal.                                                    *)

\* _ensure_stripe_customer asks whether the row has a customer.
HasCustomer == customer # Unset

\* start_checkout for a company that has a customer.
StartCheckout(p) ==
    /\ HasCustomer /\ sessions' = sessions \cup {<<customer, p>>}
    /\ UNCHANGED <<row, requests, customers, subscription, webhook, mishaps>>

\* ... and for one that has none: create it at Stripe ...
CreateCustomer(c, k, p) ==
    /\ creating[c] = Unset /\ ~HasCustomer
    /\ k \in Customers \ customers /\ customers' = customers \cup {k}
    /\ creating' = [creating EXCEPT ![c] = k] /\ wanted' = [wanted EXCEPT ![c] = p]
    /\ UNCHANGED <<row, sessions, subscription, webhook, mishaps>>

\* ... store it, whatever is stored by now, and open the session ...
StoreCustomer(c) ==
    /\ creating[c] # Unset /\ creating' = [creating EXCEPT ![c] = Unset]
    /\ customer' = creating[c]
    /\ sessions' = sessions \cup {<<creating[c], wanted[c]>>}
    /\ UNCHANGED <<tier, wanted, customers, subscription, webhook, mishaps>>

\* ... unless the process ends in between.
CheckoutDies(c) ==
    /\ creating[c] # Unset /\ creating' = [creating EXCEPT ![c] = Unset]
    /\ mishaps < MaxFailures /\ mishaps' = mishaps + 1
    /\ UNCHANGED <<row, wanted, customers, sessions, subscription, webhook>>

-----------------------------------------------------------------------------
(* Stripe.                                                                 *)

Live == status \in {"active", "past_due"}

Emit(es) ==
    /\ sent + Len(es) <= MaxEvents /\ sent' = sent + Len(es)
    /\ events' = events \o es /\ UNCHANGED <<retrieved, disordered>>

SubscriptionEvent(s, p) == [kind |-> "subscription", status |-> s, price |-> p]
SessionEvent(k) == [kind |-> "session", customer |-> k]

\* The customer pays; the two events race.
SessionCompleted(k, p) ==
    /\ <<k, p>> \in sessions /\ ~Live
    /\ sessions' = sessions \ {<<k, p>>}
    /\ status' = "active" /\ price' = p /\ payer' = k
    /\ \/ Emit(<<SubscriptionEvent("active", p), SessionEvent(k)>>)
       \/ Emit(<<SessionEvent(k), SubscriptionEvent("active", p)>>)
    /\ UNCHANGED <<row, requests, customers, mishaps>>

\* A payment fails, the grace period ends, or the customer changes the plan or
\* cancels in the portal of open_portal, which is that of the stored customer.
SubscriptionChanges(s, p) ==
    /\ Live /\ s \in Statuses \ {"none"} /\ <<s, p>> # <<status, price>>
    /\ s = "canceled" \/ p # price => payer = customer
    /\ status' = s /\ price' = p /\ Emit(<<SubscriptionEvent(s, p)>>)
    /\ UNCHANGED <<row, requests, customers, sessions, payer, mishaps>>

-----------------------------------------------------------------------------
(* The webhook.                                                            *)

\* A price settings do not know buys nothing.
TierOfPrice(p) == IF p \in Sold THEN p ELSE "free"

\* _apply_subscription: these statuses end the tier, the others keep it.  The
\* mutant forgets one.
MutantEndsTier(s) == s = "canceled"
EndsTier(s) == s \in {"unpaid", "canceled", "none"}
TierOf(s, p) == IF EndsTier(s) THEN "free" ELSE TierOfPrice(p)

Handled(i) ==
    /\ events' = RemoveAt(events, i) /\ UNCHANGED sent
    /\ disordered' = (disordered \/ i > 1 \/ retrieved # Unset)

\* handle_event, customer.subscription.*.
ApplySubscription(i) ==
    /\ events[i].kind = "subscription"
    /\ tier' = TierOf(events[i].status, events[i].price)
    /\ Handled(i)
    /\ UNCHANGED <<customer, requests, customers, sessions, subscription, retrieved, mishaps>>

\* handle_event, checkout.session.completed: bind the customer, retrieve the
\* subscription ...
BindSession(i) ==
    /\ events[i].kind = "session" /\ retrieved = Unset
    /\ customer' = events[i].customer /\ retrieved' = <<status, price, events[i].customer>>
    /\ Handled(i)
    /\ UNCHANGED <<tier, requests, customers, sessions, subscription, mishaps>>

\* ... and apply it.
ApplyRetrieved ==
    /\ retrieved # Unset /\ retrieved' = Unset
    /\ tier' = TierOf(retrieved[1], retrieved[2])
    /\ UNCHANGED <<customer, requests, customers, sessions, subscription, events, sent,
                   disordered, mishaps>>

\* stripe_webhook answers 500 and Stripe sends the event again, later.
HandlerFails ==
    /\ retrieved # Unset /\ retrieved' = Unset
    /\ mishaps < MaxFailures /\ mishaps' = mishaps + 1
    /\ events' = Append(events, SessionEvent(retrieved[3]))
    /\ UNCHANGED <<row, requests, customers, sessions, subscription, sent, disordered>>

-----------------------------------------------------------------------------
CheckoutStep(c) ==
    \/ \E k \in Customers, p \in Sold : CreateCustomer(c, k, p)
    \/ StoreCustomer(c) \/ CheckoutDies(c)

WebhookStep ==
    \/ \E i \in DOMAIN events : ApplySubscription(i) \/ BindSession(i)
    \/ ApplyRetrieved \/ HandlerFails

BillingNext ==
    \/ \E c \in Checkouts : CheckoutStep(c)
    \/ \E p \in Sold : StartCheckout(p)
    \/ \E k \in Customers, p \in Sold : SessionCompleted(k, p)
    \/ \E s \in Statuses, p \in Prices : SubscriptionChanges(s, p)
    \/ WebhookStep

BillingSpec == BillingInit /\ [][BillingNext]_billingVars

-----------------------------------------------------------------------------
(* Properties.                                                             *)

\* Once every event is handled the company has the tier of its subscription, unless
\* an event overtook an older one or was handled while the handler of a checkout
\* held a subscription it had retrieved: the last write wins.
TierFollowsSubscription ==
    events = <<>> /\ retrieved = Unset /\ ~disordered =>
        tier = IF status \in {"unpaid", "canceled", "none"} \/ price \notin Sold THEN "free" ELSE price

\* _ensure_stripe_customer creates one customer, and one more for every request that
\* overlaps the first or ends before it stores what it created.
CustomersBounded == Cardinality(customers) <= Cardinality(Checkouts) + mishaps

\* The account and Stripe end up in agreement: one subscription and its tier, one
\* customer, but for overtaken events, overlapping checkouts and requests cut short.
AgreesWithStripe == TierFollowsSubscription /\ CustomersBounded
=============================================================================
