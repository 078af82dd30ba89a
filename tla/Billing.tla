------------------------------ MODULE Billing ------------------------------
(***************************************************************************)
(* The billing service: src/backend/apps/billing_service (main.py and its  *)
(* in-memory store.py), one worker process.                                *)
(*                                                                         *)
(* Every handler is an `async def` that awaits nothing between its first   *)
(* read of the store and its last write, so one handler is one step of     *)
(* the event loop and the interleavings are those of whole handlers.       *)
(* What is hard is the order: the user, an administrator and Stripe all    *)
(* write the same subscription, Stripe delivers its events at least once   *)
(* and in any order, and the store forgets everything when its process     *)
(* restarts, while Stripe forgets nothing.                                 *)
(*                                                                         *)
(* Stripe is the environment: it completes the checkout sessions the       *)
(* service created, and may deliver any event about them, or about an      *)
(* invoice or subscription the service has never heard of, any number of   *)
(* times.  A session stands for the Stripe subscription it opens, and for  *)
(* the invoice "in_<session id>" the service books for it.                 *)
(*                                                                         *)
(* Left out: the demo seed and the legacy endpoints (both keep dictionaries*)
(* of their own), usage records, seats, billing cycle and coupons (data    *)
(* that no other handler reads back), and the tenant check of the          *)
(* administrator's handlers (a 404 that changes nothing).                  *)
(***************************************************************************)
EXTENDS Integers, FiniteSets

CONSTANTS
  Users,           \* owners of a bearer token
  SubIds,          \* identifiers _new_subscription_id() can return
  InvIds,          \* identifiers _new_invoice_id() can return
  Sessions,        \* Stripe checkout sessions
  Events,          \* identifiers of Stripe events
  Plans,           \* plan identifiers
  Tier,            \* [Plans -> Nat], the "tier" of plans.py
  Price,           \* [Plans -> Nat], plan_price_cents() with tax
  StripeStatuses,  \* statuses Stripe may report
  RefundAmounts,   \* amounts an administrator may type: any integers
  CreditAmounts,   \* credits an administrator may grant
  MaxCards,        \* bound on the cards one user ever adds
  MaxCredit,       \* bound on the credit of one user
  MaxRefund,       \* bound, either way, on what is refunded on one invoice
  Absent           \* no entry in a dictionary, None

Statuses == {"trialing", "active", "past_due", "canceled",
             "unpaid", "paused", "incomplete", "expired"}

ASSUME BillingAssumption ==
  /\ Tier \in [Plans -> Nat]
  /\ Price \in [Plans -> Nat]
  /\ StripeStatuses \subseteq Statuses \ {"expired"}
  /\ RefundAmounts \subseteq Int
  /\ CreditAmounts \subseteq Nat \ {0}
  /\ MaxCards \in Nat
  /\ MaxCredit \in Nat
  /\ MaxRefund \in Nat

VARIABLES
  customers,     \* users with a Customer
  wallet,        \* [Users -> set of cards]; a card is its creation rank
  defaults,      \* [Users -> set of cards whose is_default is True]
  added,         \* [Users -> Nat], the cards a user has ever added
  subs,          \* _subscriptions
  subOf,         \* _subscriptions_by_user
  invoices,      \* _invoices_by_user, flattened: identifiers are unique
  refundLog,     \* per invoice, the sum of the refund.issued amounts
  creditLog,     \* per user, the sum of the _credits records
  eventLog,      \* _webhook_events
  sessions       \* the checkout sessions, held by Stripe

cardVars == <<wallet, defaults, added>>
subVars  == <<subs, subOf, creditLog>>
invVars  == <<invoices, refundLog>>
vars     == <<customers, cardVars, subVars, invVars, eventLog, sessions>>

Subscription ==
  [user_id: Users, plan_id: Plans, scheduled_plan_id: Plans \cup {Absent},
   status: Statuses, cancel_at_period_end: BOOLEAN, canceled_at: BOOLEAN,
   stripe_subscription_id: Sessions \cup {Absent}, credit_cents: Nat]

\* `made_by` is not in the code: the event whose handler built the invoice.
Invoice ==
  [user_id: Users, status: {"open", "paid", "void"}, total_cents: Nat,
   refunded_cents: Int, stripe_invoice_id: Sessions \cup {Absent},
   made_by: Events]

\* What a WebhookEvent says, of which only a checkout's session is kept.
WebhookEvent == [session: Sessions \cup {Absent}, processed: BOOLEAN]

Session == [user_id: Users, plan_id: Plans]

ASSUME AbsentAssumption ==
  /\ Absent \notin Subscription \cup Invoice \cup WebhookEvent \cup Session
  /\ Absent \notin SubIds \cup Sessions \cup Plans

----------------------------------------------------------------------------
\* Reading the store.

\* get_subscription_by_user(u), when it is not None
SubscriptionOf(u) == subs[subOf[u]]

HasSubscription(u) == subOf[u] # Absent

\* list_all_subscriptions(), searched for a Stripe subscription
Linked(s) == {x \in SubIds : subs[x] # Absent /\ subs[x].stripe_subscription_id = s}

\* get_invoice_by_stripe_id("in_<session id>")
Booked(s) == {i \in InvIds : invoices[i] # Absent /\ invoices[i].stripe_invoice_id = s}

\* Mutant of Fresh: the event log is written and never consulted.
NeverDuplicate(e) == TRUE

\* get_webhook_event(e) is None: the handler goes on only then.
Fresh(e) == eventLog[e] = Absent

NewSubIds == {x \in SubIds : subs[x] = Absent}
NewInvIds == {i \in InvIds : invoices[i] = Absent}

NewSubscription(u, plan, status, s) ==
  [user_id |-> u, plan_id |-> plan, scheduled_plan_id |-> Absent,
   status |-> status, cancel_at_period_end |-> FALSE, canceled_at |-> FALSE,
   stripe_subscription_id |-> s, credit_cents |-> 0]

\* _build_invoice with status "paid", as both its callers ask
BuiltInvoice(u, total, s, e) ==
  [user_id |-> u, status |-> "paid", total_cents |-> total,
   refunded_cents |-> 0, stripe_invoice_id |-> s, made_by |-> e]

----------------------------------------------------------------------------
\* Customers and cards.

\* _ensure_customer, which most of the user's handlers begin with
EnsureCustomer(u) == customers' = customers \cup {u}

\* GET /customer, PUT /customer, POST /payment-methods/setup, GET /portal
VisitCustomer(u) ==
  /\ EnsureCustomer(u)
  /\ UNCHANGED <<cardVars, subVars, invVars, eventLog, sessions>>

\* add_my_payment_method: the first card is the default one if so asked.
AddPaymentMethod(u, setDefault) ==
  LET makeDefault == setDefault /\ wallet[u] = {}
      pm          == added[u] + 1
  IN  /\ added[u] < MaxCards
      /\ EnsureCustomer(u)
      /\ added' = [added EXCEPT ![u] = pm]
      /\ wallet' = [wallet EXCEPT ![u] = @ \cup {pm}]
      /\ defaults' = IF makeDefault THEN [defaults EXCEPT ![u] = {pm}] ELSE defaults
      /\ UNCHANGED <<subVars, invVars, eventLog, sessions>>

\* max(bucket.values(), key=created_at)
Newest(cards) == {c \in cards : \A d \in cards : d <= c}

\* Mutant of RemovePaymentMethod: the default card takes its flag with it.
RemoveWithFlag(u, pm) ==
  /\ pm \in wallet[u]
  /\ wallet' = [wallet EXCEPT ![u] = @ \ {pm}]
  /\ defaults' = [defaults EXCEPT ![u] = @ \ {pm}]
  /\ UNCHANGED <<customers, added, subVars, invVars, eventLog, sessions>>

\* remove_payment_method: the default flag moves to the newest card left.
RemovePaymentMethod(u, pm) ==
  LET left == wallet[u] \ {pm}
  IN  /\ pm \in wallet[u]
      /\ wallet' = [wallet EXCEPT ![u] = left]
      /\ \/ /\ pm \in defaults[u]
            /\ left # {}
            /\ \E c \in Newest(left) :
                 defaults' = [defaults EXCEPT ![u] = (@ \ {pm}) \cup {c}]
         \/ /\ pm \notin defaults[u] \/ left = {}
            /\ defaults' = [defaults EXCEPT ![u] = @ \ {pm}]
      /\ UNCHANGED <<customers, added, subVars, invVars, eventLog, sessions>>

\* Mutant of SetDefaultPaymentMethod: the other cards keep their flag.
SetDefaultToo(u, pm) ==
  /\ pm \in wallet[u]
  /\ defaults' = [defaults EXCEPT ![u] = @ \cup {pm}]
  /\ UNCHANGED <<customers, wallet, added, subVars, invVars, eventLog, sessions>>

SetDefaultPaymentMethod(u, pm) ==
  /\ pm \in wallet[u]
  /\ defaults' = [defaults EXCEPT ![u] = {c \in wallet[u] : c = pm}]
  /\ UNCHANGED <<customers, wallet, added, subVars, invVars, eventLog, sessions>>

----------------------------------------------------------------------------
\* The user's subscription.

\* save_subscription of a new object: the user's index now points to it.
SaveNew(x, sub) ==
  /\ subs' = [subs EXCEPT ![x] = sub]
  /\ subOf' = [subOf EXCEPT ![sub.user_id] = x]

\* POST /trial: refused to a user with any subscription, canceled or not
StartTrial(u, plan) ==
  /\ ~ HasSubscription(u)
  /\ EnsureCustomer(u)
  /\ \E x \in NewSubIds : SaveNew(x, NewSubscription(u, plan, "trialing", Absent))
  /\ UNCHANGED <<cardVars, creditLog, invVars, eventLog, sessions>>

\* POST /checkout opens a Stripe session and writes no subscription.
CreateCheckout(u, s, plan) ==
  /\ sessions[s] = Absent
  /\ EnsureCustomer(u)
  /\ sessions' = [sessions EXCEPT ![s] = [user_id |-> u, plan_id |-> plan]]
  /\ UNCHANGED <<cardVars, subVars, invVars, eventLog>>

\* A handler that ends in save_subscription of the object it has changed
ChangeSubscription(x, sub) ==
  /\ subs' = [subs EXCEPT ![x] = sub]
  /\ UNCHANGED <<customers, cardVars, subOf, creditLog, invVars, sessions>>

\* The change of plan of update_my_subscription: a downgrade is put off to
\* the end of the period unless the caller declines proration.
UpdatePlan(u, plan, prorate) ==
  LET sub         == SubscriptionOf(u)
      isDowngrade == Tier[plan] < Tier[sub.plan_id]
  IN  /\ HasSubscription(u)
      /\ sub.status \notin {"canceled", "expired"}
      /\ plan # sub.plan_id
      /\ ChangeSubscription(subOf[u],
           IF isDowngrade /\ prorate THEN [sub EXCEPT !.scheduled_plan_id = plan]
                                     ELSE [sub EXCEPT !.plan_id = plan])
      /\ UNCHANGED eventLog

CancelMine(u, immediate) ==
  LET sub == SubscriptionOf(u)
  IN  /\ HasSubscription(u)
      /\ ChangeSubscription(subOf[u],
           IF immediate THEN [sub EXCEPT !.status = "canceled", !.canceled_at = TRUE]
                        ELSE [sub EXCEPT !.cancel_at_period_end = TRUE])
      /\ UNCHANGED eventLog

ResumeMine(u) ==
  LET sub == SubscriptionOf(u)
  IN  /\ HasSubscription(u)
      /\ sub.status \in {"canceled", "paused"} \/ sub.cancel_at_period_end
      /\ ChangeSubscription(subOf[u],
           [sub EXCEPT !.status = "active", !.cancel_at_period_end = FALSE,
                       !.canceled_at = FALSE])
      /\ UNCHANGED eventLog

\* Mutant of PauseMine: a status of no SubscriptionStatus.
PauseMisspelt(u) ==
  /\ HasSubscription(u)
  /\ ChangeSubscription(subOf[u], [SubscriptionOf(u) EXCEPT !.status = "pause"])
  /\ UNCHANGED eventLog

PauseMine(u) ==
  /\ HasSubscription(u)
  /\ ChangeSubscription(subOf[u], [SubscriptionOf(u) EXCEPT !.status = "paused"])
  /\ UNCHANGED eventLog

----------------------------------------------------------------------------
\* The administrator.

\* Mutant of AdminRefund: the last refund replaces those before it.
RefundOverwriting(i, amount) ==
  LET inv    == invoices[i]
      refund == IF amount \in {Absent, 0} THEN inv.total_cents ELSE amount
  IN  /\ inv # Absent
      /\ refundLog[i] + refund \in -MaxRefund..MaxRefund
      /\ invoices' = [invoices EXCEPT ![i] =
                        [inv EXCEPT !.refunded_cents = refund,
                                    !.status = IF refund >= inv.total_cents
                                                 THEN "void" ELSE @]]
      /\ refundLog' = [refundLog EXCEPT ![i] = @ + refund]
      /\ UNCHANGED <<customers, cardVars, subVars, eventLog, sessions>>

\* admin_refund; `amount` is Absent for a full refund, and 0 counts as one.
\* Nothing compares what is refunded with what was paid, and a RefundRequest
\* may ask for less than nothing, which no status follows back.
AdminRefund(i, amount) ==
  LET inv      == invoices[i]
      refund   == IF amount \in {Absent, 0} THEN inv.total_cents ELSE amount
      refunded == inv.refunded_cents + refund
  IN  /\ inv # Absent
      /\ refunded \in -MaxRefund..MaxRefund
      /\ invoices' = [invoices EXCEPT ![i] =
                        [inv EXCEPT !.refunded_cents = refunded,
                                    !.status = IF refunded >= inv.total_cents
                                                 THEN "void" ELSE @]]
      /\ refundLog' = [refundLog EXCEPT ![i] = @ + refund]
      /\ UNCHANGED <<customers, cardVars, subVars, eventLog, sessions>>

AdminCredit(u, amount) ==
  /\ HasSubscription(u)
  /\ creditLog[u] + amount <= MaxCredit
  /\ subs' = [subs EXCEPT ![subOf[u]] =
                [SubscriptionOf(u) EXCEPT !.credit_cents = @ + amount]]
  /\ creditLog' = [creditLog EXCEPT ![u] = @ + amount]
  /\ UNCHANGED <<customers, cardVars, subOf, invVars, eventLog, sessions>>

AdminForceCancel(x) ==
  /\ subs[x] # Absent
  /\ ChangeSubscription(x,
       [subs[x] EXCEPT !.status = "canceled", !.canceled_at = TRUE,
                       !.cancel_at_period_end = FALSE])
  /\ UNCHANGED eventLog

----------------------------------------------------------------------------
\* Stripe's webhook: stripe_webhook around _handle_webhook_event.  An event
\* whose identifier is known is answered as a duplicate and changes nothing.

RecordEvent(e, s, ok) ==
  eventLog' = [eventLog EXCEPT ![e] = [session |-> s, processed |-> ok]]

\* Mutant of SubscribeBuyer: it does not look for an earlier subscription.
SubscribeAgain(u, plan, s) ==
  \E x \in NewSubIds : SaveNew(x, NewSubscription(u, plan, "active", s))

\* Mutant of SubscribeBuyer: it writes a new one over the earlier.
SubscribeAfresh(u, plan, s) ==
  \/ /\ ~ HasSubscription(u)
     /\ \E x \in NewSubIds : SaveNew(x, NewSubscription(u, plan, "active", s))
  \/ /\ HasSubscription(u)
     /\ SaveNew(subOf[u], NewSubscription(u, plan, "active", s))

\* The subscription part of checkout.session.completed
SubscribeBuyer(u, plan, s) ==
  \/ /\ ~ HasSubscription(u)
     /\ \E x \in NewSubIds : SaveNew(x, NewSubscription(u, plan, "active", s))
  \/ /\ HasSubscription(u)
     /\ UNCHANGED <<subs, subOf>>

\* Mutant of BookCheckout: trusts the event log alone.
BookAgain(e, u, plan, s) ==
  \E i \in NewInvIds :
    invoices' = [invoices EXCEPT ![i] = BuiltInvoice(u, Price[plan], s, e)]

\* Its invoice part: booked unless some event has booked it already
BookCheckout(e, u, plan, s) ==
  \/ /\ Booked(s) = {}
     /\ \E i \in NewInvIds :
          invoices' = [invoices EXCEPT ![i] = BuiltInvoice(u, Price[plan], s, e)]
  \/ /\ Booked(s) # {}
     /\ UNCHANGED invoices

CheckoutCompleted(e, s) ==
  /\ Fresh(e)
  /\ sessions[s] # Absent
  /\ RecordEvent(e, s, TRUE)
  /\ EnsureCustomer(sessions[s].user_id)
  /\ SubscribeBuyer(sessions[s].user_id, sessions[s].plan_id, s)
  /\ BookCheckout(e, sessions[s].user_id, sessions[s].plan_id, s)
  /\ UNCHANGED <<cardVars, creditLog, refundLog, sessions>>

\* Mutant of CheckoutMalformed: it chokes where it prices the invoice, with the
\* subscription saved already.
MalformedLate(e, u) ==
  /\ Fresh(e)
  /\ RecordEvent(e, Absent, FALSE)
  /\ EnsureCustomer(u)
  /\ \E s \in Sessions :
       /\ sessions[s] # Absent /\ sessions[s].user_id = u
       /\ SubscribeBuyer(u, sessions[s].plan_id, s)
  /\ UNCHANGED <<cardVars, creditLog, invVars, sessions>>

\* A checkout event with metadata the handler chokes on: on the seats,
\* before it wrote anything; on the billing cycle, once it has made sure of
\* the customer and is about to build a first subscription.
CheckoutMalformed(e, u) ==
  /\ Fresh(e)
  /\ RecordEvent(e, Absent, FALSE)
  /\ \/ UNCHANGED customers
     \/ ~ HasSubscription(u) /\ EnsureCustomer(u)
  /\ UNCHANGED <<cardVars, subVars, invVars, sessions>>

\* customer.subscription.updated
StripeUpdates(e, s, status, atPeriodEnd) ==
  /\ Fresh(e)
  /\ RecordEvent(e, Absent, TRUE)
  /\ \E x \in Linked(s) :
       ChangeSubscription(x, [subs[x] EXCEPT !.status = status,
                                             !.cancel_at_period_end = atPeriodEnd])

\* customer.subscription.deleted
StripeDeletes(e, s) ==
  /\ Fresh(e)
  /\ RecordEvent(e, Absent, TRUE)
  /\ \E x \in Linked(s) :
       ChangeSubscription(x, [subs[x] EXCEPT !.status = "canceled",
                                             !.canceled_at = TRUE])

\* invoice.paid for an invoice booked at checkout
InvoicePaid(e, s) ==
  /\ Fresh(e)
  /\ RecordEvent(e, Absent, TRUE)
  /\ \E i \in Booked(s) : invoices' = [invoices EXCEPT ![i].status = "paid"]
  /\ UNCHANGED <<customers, cardVars, subVars, refundLog, sessions>>

\* invoice.paid for one it does not know: a customer's renewal is booked,
\* under an identifier of the service's own.
RenewalPaid(e, u, total) ==
  /\ Fresh(e)
  /\ RecordEvent(e, Absent, TRUE)
  /\ u \in customers
  /\ \E i \in NewInvIds :
       invoices' = [invoices EXCEPT ![i] = BuiltInvoice(u, total, Absent, e)]
  /\ UNCHANGED <<customers, cardVars, subVars, refundLog, sessions>>

InvoicePaymentFailed(e, s) ==
  /\ Fresh(e)
  /\ RecordEvent(e, Absent, TRUE)
  /\ \E i \in Booked(s) : invoices' = [invoices EXCEPT ![i].status = "open"]
  /\ UNCHANGED <<customers, cardVars, subVars, refundLog, sessions>>

\* Acknowledged and otherwise ignored: customer.*, an unknown type, and an
\* event about a subscription, invoice or customer the store does not hold
IgnoredEvent(e) ==
  /\ Fresh(e)
  /\ RecordEvent(e, Absent, TRUE)
  /\ UNCHANGED <<customers, cardVars, subVars, invVars, sessions>>

----------------------------------------------------------------------------
\* The store of a worker that has just started

Init ==
  /\ customers = {}
  /\ wallet = [u \in Users |-> {}]
  /\ defaults = [u \in Users |-> {}]
  /\ added = [u \in Users |-> 0]
  /\ subs = [x \in SubIds |-> Absent]
  /\ subOf = [u \in Users |-> Absent]
  /\ invoices = [i \in InvIds |-> Absent]
  /\ refundLog = [i \in InvIds |-> 0]
  /\ creditLog = [u \in Users |-> 0]
  /\ eventLog = [e \in Events |-> Absent]
  /\ sessions = [s \in Sessions |-> Absent]

\* The process restarts: its store is empty again, for nothing of it was
\* ever written to disk, and Stripe's sessions are what they were.
Restart ==
  /\ customers' = {}
  /\ wallet' = [u \in Users |-> {}]
  /\ defaults' = [u \in Users |-> {}]
  /\ added' = [u \in Users |-> 0]
  /\ subs' = [x \in SubIds |-> Absent]
  /\ subOf' = [u \in Users |-> Absent]
  /\ invoices' = [i \in InvIds |-> Absent]
  /\ refundLog' = [i \in InvIds |-> 0]
  /\ creditLog' = [u \in Users |-> 0]
  /\ eventLog' = [e \in Events |-> Absent]
  /\ UNCHANGED sessions

Next ==
  \/ \E u \in Users :
       \/ VisitCustomer(u)
       \/ \E b \in BOOLEAN : AddPaymentMethod(u, b)
       \/ \E pm \in 1..MaxCards : RemovePaymentMethod(u, pm)
       \/ \E pm \in 1..MaxCards : SetDefaultPaymentMethod(u, pm)
       \/ \E p \in Plans : StartTrial(u, p)
       \/ \E s \in Sessions, p \in Plans : CreateCheckout(u, s, p)
       \/ \E p \in Plans, b \in BOOLEAN : UpdatePlan(u, p, b)
       \/ \E b \in BOOLEAN : CancelMine(u, b)
       \/ ResumeMine(u)
       \/ PauseMine(u)
       \/ \E a \in CreditAmounts : AdminCredit(u, a)
  \/ \E i \in InvIds, a \in RefundAmounts \cup {Absent} : AdminRefund(i, a)
  \/ \E x \in SubIds : AdminForceCancel(x)
  \/ \E e \in Events :
       \/ \E s \in Sessions : CheckoutCompleted(e, s)
       \/ \E u \in Users : CheckoutMalformed(e, u)
       \/ \E s \in Sessions, st \in StripeStatuses, b \in BOOLEAN :
            StripeUpdates(e, s, st, b)
       \/ \E s \in Sessions : StripeDeletes(e, s)
       \/ \E s \in Sessions : InvoicePaid(e, s)
       \/ \E u \in Users, p \in Plans : RenewalPaid(e, u, Price[p])
       \/ \E s \in Sessions : InvoicePaymentFailed(e, s)
       \/ IgnoredEvent(e)
  \/ Restart

Spec == Init /\ [][Next]_vars

----------------------------------------------------------------------------
\* Properties

TypeOK ==
  /\ customers \subseteq Users
  /\ wallet \in [Users -> SUBSET (1..MaxCards)]
  /\ defaults \in [Users -> SUBSET (1..MaxCards)]
  /\ added \in [Users -> 0..MaxCards]
  /\ subs \in [SubIds -> Subscription \cup {Absent}]
  /\ subOf \in [Users -> SubIds \cup {Absent}]
  /\ invoices \in [InvIds -> Invoice \cup {Absent}]
  /\ refundLog \in [InvIds -> Int]
  /\ creditLog \in [Users -> Nat]
  /\ eventLog \in [Events -> WebhookEvent \cup {Absent}]
  /\ sessions \in [Sessions -> Session \cup {Absent}]

\* A user never holds two subscriptions, though a trial, a checkout event and
\* a second checkout event may each create one: every stored subscription is
\* the one its owner's index leads to, and the index leads nowhere else.
SingleSubscription ==
  /\ \A x \in SubIds : subs[x] # Absent => subOf[subs[x].user_id] = x
  /\ \A u \in Users :
       HasSubscription(u) => SubscriptionOf(u) # Absent /\ SubscriptionOf(u).user_id = u

\* At most one card of a user is the default one, and it is a card the user
\* still has, whatever order cards are added, removed and chosen in.
SingleDefault ==
  \A u \in Users : /\ defaults[u] \subseteq wallet[u]
                   /\ \A c, d \in defaults[u] : c = d

\* A user who has a default card keeps having one until the last card goes:
\* removing the default one hands the flag on (remove_payment_method).
DefaultKept ==
  [][\A u \in Users :
       defaults[u] # {} /\ wallet'[u] # {} => defaults'[u] # {}]_vars

\* However often, under whatever event identifiers, Stripe reports that a
\* checkout session completed, the session is invoiced once.
OneInvoicePerCheckout ==
  \A s \in Sessions : \A i, j \in Booked(s) : i = j

\* "the same event never produces two invoices" (main.py:783-784), for the
\* renewals too, which nothing but the event log protects; and no invoice
\* stems from an event whose handling failed or is not on record.
EventBooksOnce ==
  \A i \in InvIds : invoices[i] # Absent =>
    /\ eventLog[invoices[i].made_by] # Absent
    /\ eventLog[invoices[i].made_by].processed
    /\ \A j \in InvIds :
         invoices[j] # Absent /\ invoices[j].made_by = invoices[i].made_by => i = j

\* What an invoice says was refunded is the sum of the refunds announced for
\* it, through full and partial refunds and late events from Stripe.
RefundsAddUp ==
  \A i \in InvIds :
    refundLog[i] = IF invoices[i] = Absent THEN 0 ELSE invoices[i].refunded_cents

\* A completed checkout takes effect as a whole or not at all, though handlers
\* fail between two writes, Stripe repeats its events and the store is lost:
\* nobody holds the subscription of a checkout that was not invoiced, or is
\* invoiced for one and left without a subscription, and both are the owner's
\* of the session, whatever refunds, cancellations and late events follow.
CheckoutIsWhole ==
  \A s \in Sessions : Linked(s) # {} \/ Booked(s) # {} =>
    /\ sessions[s] # Absent
    /\ Booked(s) # {} /\ HasSubscription(sessions[s].user_id)
    /\ \A x \in Linked(s) : subs[x].user_id = sessions[s].user_id
    /\ \A i \in Booked(s) : invoices[i].user_id = sessions[s].user_id

\* A user's credit is the sum of the credits on record: no handler that
\* changes or replaces a subscription loses a credit on the way.
CreditsAddUp ==
  \A u \in Users :
    creditLog[u] = IF HasSubscription(u) THEN SubscriptionOf(u).credit_cents ELSE 0

\* "Create or upgrade subscription for the user." (main.py:759): once the
\* completion of a checkout has been handled, its buyer's subscription is
\* active on the plan that was bought.
CheckoutGrantsPlan ==
  [][\A e \in Events, s \in Sessions :
       Fresh(e) /\ eventLog'[e] = [session |-> s, processed |-> TRUE]
         => LET buyer == sessions[s].user_id
                sub   == subs'[subOf'[buyer]]
            IN  sub.plan_id = sessions[s].plan_id /\ sub.status = "active"]_vars

=============================================================================
