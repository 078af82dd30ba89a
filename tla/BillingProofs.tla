--------------------------- MODULE BillingProofs ---------------------------
(***************************************************************************)
(* What holds of the billing store for any number of users, sessions,      *)
(* events and invoices.  The proofs first say which kinds of change a      *)
(* step makes to the cards, to the subscriptions, and to the invoices      *)
(* with the event log; each invariant is then preserved kind by kind.      *)
(***************************************************************************)
EXTENDS Billing, TLAPS

-----------------------------------------------------------------------------
(* The types, part by part.                                                *)

CardTypes ==
  /\ wallet \in [Users -> SUBSET (1..MaxCards)]
  /\ defaults \in [Users -> SUBSET (1..MaxCards)]
  /\ added \in [Users -> 0..MaxCards]

SubTypes ==
  /\ subs \in [SubIds -> Subscription \cup {Absent}]
  /\ subOf \in [Users -> SubIds \cup {Absent}]
  /\ creditLog \in [Users -> Nat]

InvTypes ==
  /\ invoices \in [InvIds -> Invoice \cup {Absent}]
  /\ refundLog \in [InvIds -> Int]
  /\ eventLog \in [Events -> WebhookEvent \cup {Absent}]

SessionTypes ==
  /\ customers \subseteq Users
  /\ sessions \in [Sessions -> Session \cup {Absent}]

LEMMA TypeParts == TypeOK <=> CardTypes /\ SubTypes /\ InvTypes /\ SessionTypes
  BY DEF TypeOK, CardTypes, SubTypes, InvTypes, SessionTypes

-----------------------------------------------------------------------------
(* The kinds of change a step makes.                                       *)

\* The completion of the checkout s is handled.
Completing(s) == \E e \in Events : CheckoutCompleted(e, s)

\* A stored subscription is written over by one of the same user, credit and
\* checkout.
SubMoves ==
  \E x \in SubIds, sub \in Subscription :
    /\ subs[x] # Absent
    /\ sub.user_id = subs[x].user_id
    /\ sub.credit_cents = subs[x].credit_cents
    /\ sub.stripe_subscription_id = subs[x].stripe_subscription_id
    /\ subs' = [subs EXCEPT ![x] = sub]
    /\ UNCHANGED <<subOf, creditLog>>

\* A subscription of no checkout begins, or that of the one now completed.
SubBegins ==
  \E x \in NewSubIds, sub \in Subscription :
    /\ ~ HasSubscription(sub.user_id)
    /\ sub.credit_cents = 0
    /\ LET s == sub.stripe_subscription_id
       IN  \/ s = Absent
           \/ Completing(s) /\ sub.user_id = sessions[s].user_id
    /\ SaveNew(x, sub)
    /\ UNCHANGED creditLog

SubCredited ==
  \E u \in Users, amount \in Nat :
    /\ HasSubscription(u)
    /\ subs' = [subs EXCEPT ![subOf[u]] =
                  [SubscriptionOf(u) EXCEPT !.credit_cents = @ + amount]]
    /\ creditLog' = [creditLog EXCEPT ![u] = @ + amount]
    /\ UNCHANGED subOf

SubsForgotten ==
  /\ Restart
  /\ subs' = [x \in SubIds |-> Absent]
  /\ subOf' = [u \in Users |-> Absent]
  /\ creditLog' = [u \in Users |-> 0]

SubStep == SubMoves \/ SubBegins \/ SubCredited \/ SubsForgotten \/ UNCHANGED subVars

\* The event log does not change, or one more event enters it.
LogGrows(e) ==
  \E s \in Sessions \cup {Absent}, ok \in BOOLEAN : Fresh(e) /\ RecordEvent(e, s, ok)

InvUntouched ==
  /\ UNCHANGED invVars
  /\ UNCHANGED eventLog \/ \E e \in Events : LogGrows(e)

InvBooked ==
  \E i \in NewInvIds, e \in Events, s \in Sessions \cup {Absent},
     inv \in Invoice :
    /\ Fresh(e)
    /\ RecordEvent(e, s, TRUE)
    /\ inv.made_by = e /\ inv.status = "paid" /\ inv.refunded_cents = 0
    /\ LET t == inv.stripe_invoice_id
       IN  \/ t = Absent
           \/ Booked(t) = {} /\ Completing(t) /\ inv.user_id = sessions[t].user_id
    /\ invoices' = [invoices EXCEPT ![i] = inv]
    /\ UNCHANGED refundLog

InvRestated ==
  \E i \in InvIds, st \in {"open", "paid"}, e \in Events :
    /\ invoices[i] # Absent
    /\ LogGrows(e)
    /\ invoices' = [invoices EXCEPT ![i].status = st]
    /\ UNCHANGED refundLog

InvRefunded ==
  \E i \in InvIds, refund \in Int :
    LET inv == invoices[i]
        refunded == inv.refunded_cents + refund
    IN  /\ inv # Absent
        /\ invoices' = [invoices EXCEPT ![i] =
                          [inv EXCEPT !.refunded_cents = refunded,
                                      !.status = IF refunded >= inv.total_cents
                                                   THEN "void" ELSE @]]
        /\ refundLog' = [refundLog EXCEPT ![i] = @ + refund]
        /\ UNCHANGED eventLog

InvForgotten ==
  /\ Restart
  /\ invoices' = [i \in InvIds |-> Absent]
  /\ refundLog' = [i \in InvIds |-> 0]
  /\ eventLog' = [e \in Events |-> Absent]

InvStep == InvUntouched \/ InvBooked \/ InvRestated \/ InvRefunded \/ InvForgotten

-----------------------------------------------------------------------------
(* Every step is of some kind.                                             *)

LEMMA IndexedExists ==
  ASSUME SubTypes, SingleSubscription, NEW u \in Users, HasSubscription(u)
  PROVE  /\ subOf[u] \in SubIds
         /\ subs[subOf[u]] # Absent
         /\ subs[subOf[u]] \in Subscription
         /\ subs[subOf[u]].user_id = u
  BY AbsentAssumption DEF SubTypes, SingleSubscription, HasSubscription, SubscriptionOf

LEMMA Moved ==
  ASSUME NEW x \in SubIds, NEW sub \in Subscription, subs[x] # Absent,
         sub.user_id = subs[x].user_id, sub.credit_cents = subs[x].credit_cents,
         sub.stripe_subscription_id = subs[x].stripe_subscription_id,
         ChangeSubscription(x, sub)
  PROVE  SubMoves
  BY DEF ChangeSubscription, SubMoves

LEMMA NewIsSubscription ==
  ASSUME NEW u \in Users, NEW plan \in Plans, NEW st \in {"trialing", "active"},
         NEW s \in Sessions \cup {Absent}
  PROVE  LET sub == NewSubscription(u, plan, st, s)
         IN  /\ sub \in Subscription /\ sub.user_id = u /\ sub.credit_cents = 0
             /\ sub.stripe_subscription_id = s
  BY DEF NewSubscription, Subscription, Statuses

LEMMA SubKinds ==
  ASSUME SubTypes, SessionTypes, SingleSubscription, Next
  PROVE  SubStep
  <1>1. ASSUME NEW u \in Users, NEW p \in Plans, StartTrial(u, p)
        PROVE  SubBegins
    <2>1. PICK x \in NewSubIds : SaveNew(x, NewSubscription(u, p, "trialing", Absent))
      BY <1>1 DEF StartTrial
    <2> DEFINE sub == NewSubscription(u, p, "trialing", Absent)
    <2>2. /\ sub \in Subscription /\ sub.user_id = u
          /\ sub.credit_cents = 0 /\ sub.stripe_subscription_id = Absent
      BY NewIsSubscription
    <2>3. ~ HasSubscription(u) /\ SaveNew(x, sub) /\ UNCHANGED creditLog
      BY <1>1, <2>1 DEF StartTrial
    <2> HIDE DEF sub
    <2> QED BY <2>2, <2>3 DEF SubBegins
  <1>2. ASSUME NEW u \in Users, NEW p \in Plans, NEW b \in BOOLEAN, UpdatePlan(u, p, b)
        PROVE  SubMoves
    BY <1>2, IndexedExists, Moved DEF UpdatePlan, SubscriptionOf, Subscription
  <1>3. ASSUME NEW u \in Users, NEW b \in BOOLEAN, CancelMine(u, b)
        PROVE  SubMoves
    <2>1. /\ subOf[u] \in SubIds
          /\ SubscriptionOf(u) # Absent
          /\ SubscriptionOf(u) \in Subscription
      BY <1>3, IndexedExists DEF CancelMine, SubscriptionOf
    <2>2. CASE b
      BY <1>3, <2>1, <2>2, Moved DEF CancelMine, SubscriptionOf, Subscription, Statuses
    <2>3. CASE ~ b
      BY <1>3, <2>1, <2>3, Moved DEF CancelMine, SubscriptionOf, Subscription
    <2> QED BY <2>2, <2>3
  <1>4. ASSUME NEW u \in Users, ResumeMine(u)
        PROVE  SubMoves
    <2>1. /\ subOf[u] \in SubIds
          /\ SubscriptionOf(u) # Absent
          /\ SubscriptionOf(u) \in Subscription
      BY <1>4, IndexedExists DEF ResumeMine, SubscriptionOf
    <2> QED
      BY <1>4, <2>1, Moved DEF ResumeMine, SubscriptionOf, Subscription, Statuses
  <1>5. ASSUME NEW u \in Users, PauseMine(u)
        PROVE  SubMoves
    BY <1>5, IndexedExists, Moved DEF PauseMine, SubscriptionOf, Subscription, Statuses
  <1>6. ASSUME NEW u \in Users, NEW a \in CreditAmounts, AdminCredit(u, a)
        PROVE  SubCredited
    BY <1>6, BillingAssumption DEF AdminCredit, SubCredited
  <1>7. ASSUME NEW x \in SubIds, AdminForceCancel(x)
        PROVE  SubMoves
    <2>1. subs[x] \in Subscription
      BY <1>7 DEF AdminForceCancel, SubTypes
    <2> QED
      BY <1>7, <2>1, Moved DEF AdminForceCancel, Subscription, Statuses
  <1>8. ASSUME NEW e \in Events, NEW s \in Sessions, CheckoutCompleted(e, s)
        PROVE  SubStep
    <2>1. sessions[s] \in Session
      BY <1>8 DEF CheckoutCompleted, SessionTypes
    <2>2. sessions[s].user_id \in Users /\ sessions[s].plan_id \in Plans
      BY <2>1 DEF Session
    <2>3. CASE ~ HasSubscription(sessions[s].user_id)
      <3>1. Completing(s)
        BY <1>8 DEF Completing
      <3>2. PICK x \in NewSubIds :
              SaveNew(x, NewSubscription(sessions[s].user_id, sessions[s].plan_id,
                                         "active", s))
        BY <1>8, <2>3 DEF CheckoutCompleted, SubscribeBuyer
      <3> DEFINE sub == NewSubscription(sessions[s].user_id, sessions[s].plan_id,
                                        "active", s)
      <3>3. /\ sub \in Subscription /\ sub.user_id = sessions[s].user_id
            /\ sub.credit_cents = 0 /\ sub.stripe_subscription_id = s
        BY <2>2, NewIsSubscription
      <3>4. SaveNew(x, sub) /\ UNCHANGED creditLog
        BY <1>8, <3>2 DEF CheckoutCompleted
      <3> HIDE DEF sub
      <3> QED BY <2>3, <3>1, <3>3, <3>4 DEF SubBegins, SubStep
    <2>4. CASE HasSubscription(sessions[s].user_id)
      BY <1>8, <2>4 DEF CheckoutCompleted, SubscribeBuyer, SubStep, subVars
    <2> QED BY <2>3, <2>4
  <1>9. ASSUME NEW e \in Events, NEW s \in Sessions, NEW st \in StripeStatuses,
               NEW b \in BOOLEAN, StripeUpdates(e, s, st, b)
        PROVE  SubMoves
    <2>1. PICK x \in Linked(s) :
            ChangeSubscription(x, [subs[x] EXCEPT !.status = st,
                                                  !.cancel_at_period_end = b])
      BY <1>9 DEF StripeUpdates
    <2>2. x \in SubIds /\ subs[x] # Absent /\ subs[x] \in Subscription
      BY DEF Linked, SubTypes
    <2>3. st \in Statuses
      BY BillingAssumption
    <2> QED
      BY <2>1, <2>2, <2>3, Moved DEF Subscription
  <1>10. ASSUME NEW e \in Events, NEW s \in Sessions, StripeDeletes(e, s)
         PROVE  SubMoves
    <2>1. PICK x \in Linked(s) :
            ChangeSubscription(x, [subs[x] EXCEPT !.status = "canceled",
                                                  !.canceled_at = TRUE])
      BY <1>10 DEF StripeDeletes
    <2>2. x \in SubIds /\ subs[x] # Absent /\ subs[x] \in Subscription
      BY DEF Linked, SubTypes
    <2> QED
      BY <2>1, <2>2, Moved DEF Subscription, Statuses
  <1>11. ASSUME Restart
         PROVE  SubsForgotten
    BY <1>11 DEF Restart, SubsForgotten
  <1>12. ASSUME NEW u \in Users,
                \/ VisitCustomer(u)
                \/ \E b \in BOOLEAN : AddPaymentMethod(u, b)
                \/ \E pm \in 1..MaxCards : RemovePaymentMethod(u, pm)
                \/ \E pm \in 1..MaxCards : SetDefaultPaymentMethod(u, pm)
                \/ \E s \in Sessions, p \in Plans : CreateCheckout(u, s, p)
         PROVE  UNCHANGED subVars
    BY <1>12 DEF VisitCustomer, AddPaymentMethod, RemovePaymentMethod,
                 SetDefaultPaymentMethod, CreateCheckout
  <1>13. ASSUME NEW i \in InvIds, NEW a, AdminRefund(i, a)
         PROVE  UNCHANGED subVars
    BY <1>13 DEF AdminRefund
  <1>14. ASSUME NEW e \in Events,
                \/ \E u \in Users : CheckoutMalformed(e, u)
                \/ \E s \in Sessions : InvoicePaid(e, s)
                \/ \E u \in Users, p \in Plans : RenewalPaid(e, u, Price[p])
                \/ \E s \in Sessions : InvoicePaymentFailed(e, s)
                \/ IgnoredEvent(e)
         PROVE  UNCHANGED subVars
    BY <1>14 DEF CheckoutMalformed, InvoicePaid, RenewalPaid,
                 InvoicePaymentFailed, IgnoredEvent
  <1> QED
    BY <1>1, <1>2, <1>3, <1>4, <1>5, <1>6, <1>7, <1>8, <1>9, <1>10, <1>11,
       <1>12, <1>13, <1>14 DEF Next, SubStep

LEMMA Built ==
  ASSUME NEW u \in Users, NEW total \in Nat,
         NEW s \in Sessions \cup {Absent}, NEW e \in Events
  PROVE  LET inv == BuiltInvoice(u, total, s, e)
         IN  /\ inv \in Invoice
             /\ inv.made_by = e /\ inv.status = "paid"
             /\ inv.refunded_cents = 0 /\ inv.stripe_invoice_id = s
             /\ inv.user_id = u
  BY DEF BuiltInvoice, Invoice

LEMMA Logged ==
  ASSUME NEW e \in Events, NEW s \in Sessions \cup {Absent}, NEW ok \in BOOLEAN,
         Fresh(e), RecordEvent(e, s, ok)
  PROVE  LogGrows(e)
  BY DEF LogGrows

LEMMA InvKinds ==
  ASSUME InvTypes, SessionTypes, Next
  PROVE  InvStep
  <1>1. ASSUME NEW e \in Events, NEW s \in Sessions, CheckoutCompleted(e, s)
        PROVE  InvStep
    <2>1. /\ sessions[s].user_id \in Users
          /\ Price[sessions[s].plan_id] \in Nat
      BY <1>1, BillingAssumption DEF CheckoutCompleted, SessionTypes, Session
    <2>2. /\ Fresh(e) /\ RecordEvent(e, s, TRUE)
          /\ BookCheckout(e, sessions[s].user_id, sessions[s].plan_id, s)
          /\ UNCHANGED refundLog
      BY <1>1 DEF CheckoutCompleted
    <2>3. CASE Booked(s) = {}
      <3>1. PICK i \in NewInvIds :
              invoices' = [invoices EXCEPT ![i] =
                BuiltInvoice(sessions[s].user_id, Price[sessions[s].plan_id], s, e)]
        BY <2>2, <2>3 DEF BookCheckout
      <3> DEFINE inv == BuiltInvoice(sessions[s].user_id,
                                     Price[sessions[s].plan_id], s, e)
      <3>2. /\ inv \in Invoice
            /\ inv.made_by = e /\ inv.status = "paid"
            /\ inv.refunded_cents = 0 /\ inv.stripe_invoice_id = s
            /\ inv.user_id = sessions[s].user_id
        BY <2>1, Built
      <3>3. Completing(s)
        BY <1>1 DEF Completing
      <3> HIDE DEF inv
      <3>4. InvBooked
        BY <2>2, <2>3, <3>1, <3>2, <3>3 DEF InvBooked, inv
      <3> QED BY <3>4 DEF InvStep
    <2>4. CASE Booked(s) # {}
      <3>1. UNCHANGED invoices /\ LogGrows(e)
        BY <2>2, <2>4, Logged DEF BookCheckout
      <3> QED BY <2>2, <3>1 DEF InvStep, InvUntouched, invVars
    <2> QED BY <2>3, <2>4
  <1>2. ASSUME NEW e \in Events, NEW u \in Users, NEW p \in Plans,
               RenewalPaid(e, u, Price[p])
        PROVE  InvBooked
    <2>1. PICK i \in NewInvIds :
            invoices' = [invoices EXCEPT ![i] = BuiltInvoice(u, Price[p], Absent, e)]
      BY <1>2 DEF RenewalPaid
    <2>2. Price[p] \in Nat
      BY BillingAssumption
    <2> DEFINE inv == BuiltInvoice(u, Price[p], Absent, e)
    <2>3. /\ inv \in Invoice
          /\ inv.made_by = e /\ inv.status = "paid"
          /\ inv.refunded_cents = 0 /\ inv.stripe_invoice_id = Absent
      BY <2>2, Built
    <2> HIDE DEF inv
    <2> QED BY <1>2, <2>1, <2>3 DEF RenewalPaid, InvBooked, inv
  <1>3. ASSUME NEW e \in Events, NEW s \in Sessions,
               InvoicePaid(e, s) \/ InvoicePaymentFailed(e, s)
        PROVE  InvRestated
    <2>1. LogGrows(e)
      BY <1>3, Logged DEF InvoicePaid, InvoicePaymentFailed
    <2>2. \E i \in Booked(s), st \in {"open", "paid"} :
            invoices' = [invoices EXCEPT ![i].status = st]
      BY <1>3 DEF InvoicePaid, InvoicePaymentFailed
    <2> QED BY <1>3, <2>1, <2>2 DEF InvoicePaid, InvoicePaymentFailed, Booked, InvRestated
  <1>4. ASSUME NEW i \in InvIds, NEW a \in RefundAmounts \cup {Absent}, AdminRefund(i, a)
        PROVE  InvRefunded
    <2> DEFINE refund == IF a \in {Absent, 0} THEN invoices[i].total_cents ELSE a
    <2>1. refund \in Int
      BY <1>4, BillingAssumption DEF AdminRefund, InvTypes, Invoice
    <2> HIDE DEF refund
    <2> QED BY <1>4, <2>1 DEF AdminRefund, InvRefunded, refund
  <1>5. ASSUME NEW e \in Events,
               \/ \E u \in Users : CheckoutMalformed(e, u)
               \/ \E s \in Sessions, st \in StripeStatuses, b \in BOOLEAN :
                    StripeUpdates(e, s, st, b)
               \/ \E s \in Sessions : StripeDeletes(e, s)
               \/ IgnoredEvent(e)
        PROVE  InvUntouched
    <2>1. LogGrows(e)
      BY <1>5, Logged DEF CheckoutMalformed, StripeUpdates, StripeDeletes, IgnoredEvent
    <2>2. UNCHANGED invVars
      BY <1>5 DEF CheckoutMalformed, StripeUpdates, StripeDeletes, IgnoredEvent,
                  ChangeSubscription
    <2> QED BY <2>1, <2>2 DEF InvUntouched
  <1>6. ASSUME Restart
        PROVE  InvForgotten
    BY <1>6 DEF Restart, InvForgotten
  <1>7. ASSUME NEW u \in Users,
               \/ VisitCustomer(u)
               \/ \E b \in BOOLEAN : AddPaymentMethod(u, b)
               \/ \E pm \in 1..MaxCards : RemovePaymentMethod(u, pm)
               \/ \E pm \in 1..MaxCards : SetDefaultPaymentMethod(u, pm)
               \/ \E p \in Plans : StartTrial(u, p)
               \/ \E s \in Sessions, p \in Plans : CreateCheckout(u, s, p)
        PROVE  InvUntouched
    BY <1>7 DEF VisitCustomer, AddPaymentMethod, RemovePaymentMethod,
                SetDefaultPaymentMethod, StartTrial, CreateCheckout, InvUntouched
  <1>8. ASSUME NEW u \in Users,
               \/ \E p \in Plans, b \in BOOLEAN : UpdatePlan(u, p, b)
               \/ \E b \in BOOLEAN : CancelMine(u, b)
               \/ ResumeMine(u)
               \/ PauseMine(u)
               \/ \E a \in CreditAmounts : AdminCredit(u, a)
        PROVE  InvUntouched
    BY <1>8 DEF UpdatePlan, CancelMine, ResumeMine, PauseMine, AdminCredit,
                ChangeSubscription, InvUntouched
  <1>9. ASSUME NEW x \in SubIds, AdminForceCancel(x)
        PROVE  InvUntouched
    BY <1>9 DEF AdminForceCancel, ChangeSubscription, InvUntouched
  <1> QED
    BY <1>1, <1>2, <1>3, <1>4, <1>5, <1>6, <1>7, <1>8, <1>9 DEF Next, InvStep

-----------------------------------------------------------------------------
(* The cards and the sessions.                                             *)

LEMMA CardInit == Init => CardTypes /\ SingleDefault
  BY BillingAssumption DEF Init, CardTypes, SingleDefault

\* A step changes the cards of no one, or of one user in one of three ways.
CardsAdd(u) ==
  \E pm \in 1..MaxCards :
    /\ added' = [added EXCEPT ![u] = pm]
    /\ wallet' = [wallet EXCEPT ![u] = @ \cup {pm}]
    /\ \/ wallet[u] = {} /\ defaults' = [defaults EXCEPT ![u] = {pm}]
       \/ UNCHANGED defaults

CardsForgotten ==
  /\ wallet' = [u \in Users |-> {}]
  /\ defaults' = [u \in Users |-> {}]
  /\ added' = [u \in Users |-> 0]

CardStep ==
  \/ \E u \in Users : CardsAdd(u)
  \/ \E u \in Users, pm \in 1..MaxCards : RemovePaymentMethod(u, pm)
  \/ \E u \in Users, pm \in 1..MaxCards : SetDefaultPaymentMethod(u, pm)
  \/ CardsForgotten
  \/ UNCHANGED cardVars

LEMMA CardKinds ==
  ASSUME CardTypes, Next
  PROVE  CardStep
  <1>1. ASSUME NEW u \in Users, NEW b \in BOOLEAN, AddPaymentMethod(u, b)
        PROVE  CardsAdd(u)
    <2>1. added[u] + 1 \in 1..MaxCards
      BY <1>1, BillingAssumption DEF AddPaymentMethod, CardTypes
    <2> QED BY <1>1, <2>1 DEF AddPaymentMethod, CardsAdd
  <1>2. ASSUME Restart
        PROVE  CardsForgotten
    BY <1>2 DEF Restart, CardsForgotten
  <1>3. ASSUME NEW u \in Users,
               \/ VisitCustomer(u)
               \/ \E p \in Plans : StartTrial(u, p)
               \/ \E s \in Sessions, p \in Plans : CreateCheckout(u, s, p)
               \/ \E p \in Plans, b \in BOOLEAN : UpdatePlan(u, p, b)
               \/ \E b \in BOOLEAN : CancelMine(u, b)
               \/ ResumeMine(u)
               \/ PauseMine(u)
               \/ \E a \in CreditAmounts : AdminCredit(u, a)
        PROVE  UNCHANGED cardVars
    BY <1>3 DEF VisitCustomer, StartTrial, CreateCheckout, UpdatePlan, CancelMine,
                ResumeMine, PauseMine, AdminCredit, ChangeSubscription
  <1>4. ASSUME NEW i \in InvIds, NEW a, AdminRefund(i, a)
        PROVE  UNCHANGED cardVars
    BY <1>4 DEF AdminRefund
  <1>5. ASSUME NEW x \in SubIds, AdminForceCancel(x)
        PROVE  UNCHANGED cardVars
    BY <1>5 DEF AdminForceCancel, ChangeSubscription
  <1>6. ASSUME NEW e \in Events,
               \/ \E s \in Sessions : CheckoutCompleted(e, s)
               \/ \E u \in Users : CheckoutMalformed(e, u)
               \/ \E s \in Sessions, st \in StripeStatuses, b \in BOOLEAN :
                    StripeUpdates(e, s, st, b)
               \/ \E s \in Sessions : StripeDeletes(e, s)
               \/ \E s \in Sessions : InvoicePaid(e, s)
               \/ \E u \in Users, p \in Plans : RenewalPaid(e, u, Price[p])
               \/ \E s \in Sessions : InvoicePaymentFailed(e, s)
               \/ IgnoredEvent(e)
        PROVE  UNCHANGED cardVars
    BY <1>6 DEF CheckoutCompleted, CheckoutMalformed, StripeUpdates, StripeDeletes,
                InvoicePaid, RenewalPaid, InvoicePaymentFailed, IgnoredEvent,
                ChangeSubscription
  <1> QED
    BY <1>1, <1>2, <1>3, <1>4, <1>5, <1>6 DEF Next, CardStep

\* The cards of one user before and after a step of theirs
LEMMA CardsKept ==
  ASSUME CardTypes, SingleDefault, CardStep, NEW u \in Users
  PROVE  /\ wallet'[u] \in SUBSET (1..MaxCards)
         /\ defaults'[u] \subseteq wallet'[u]
         /\ \A c, d \in defaults'[u] : c = d
         /\ defaults[u] # {} /\ wallet'[u] # {} => defaults'[u] # {}
  <1> USE DEF CardTypes, SingleDefault
  <1>1. ASSUME NEW v \in Users, CardsAdd(v)
        PROVE  /\ wallet'[u] \in SUBSET (1..MaxCards)
               /\ defaults'[u] \subseteq wallet'[u]
               /\ \A c, d \in defaults'[u] : c = d
               /\ defaults[u] # {} /\ wallet'[u] # {} => defaults'[u] # {}
    BY <1>1 DEF CardsAdd
  <1>2. ASSUME NEW v \in Users, NEW pm \in 1..MaxCards, RemovePaymentMethod(v, pm)
        PROVE  /\ wallet'[u] \in SUBSET (1..MaxCards)
               /\ defaults'[u] \subseteq wallet'[u]
               /\ \A c, d \in defaults'[u] : c = d
               /\ defaults[u] # {} /\ wallet'[u] # {} => defaults'[u] # {}
    <2>1. CASE u # v
      BY <1>2, <2>1 DEF RemovePaymentMethod
    <2>2. CASE u = v /\ pm \in defaults[v] /\ wallet[v] \ {pm} # {}
      <3>1. PICK c \in Newest(wallet[v] \ {pm}) :
              defaults' = [defaults EXCEPT ![v] = (@ \ {pm}) \cup {c}]
        BY <1>2, <2>2 DEF RemovePaymentMethod
      <3>2. c \in wallet[v] \ {pm}
        BY DEF Newest
      <3>3. defaults'[u] = {c} /\ wallet'[u] = wallet[u] \ {pm}
        BY <1>2, <2>2, <3>1 DEF RemovePaymentMethod
      <3> QED BY <2>2, <3>2, <3>3
    <2>3. CASE u = v /\ (pm \notin defaults[v] \/ wallet[v] \ {pm} = {})
      <3>1. defaults'[u] = defaults[u] \ {pm} /\ wallet'[u] = wallet[u] \ {pm}
        BY <1>2, <2>3 DEF RemovePaymentMethod
      <3> QED BY <2>3, <3>1
    <2> QED BY <2>1, <2>2, <2>3
  <1>3. ASSUME NEW v \in Users, NEW pm \in 1..MaxCards, SetDefaultPaymentMethod(v, pm)
        PROVE  /\ wallet'[u] \in SUBSET (1..MaxCards)
               /\ defaults'[u] \subseteq wallet'[u]
               /\ \A c, d \in defaults'[u] : c = d
               /\ defaults[u] # {} /\ wallet'[u] # {} => defaults'[u] # {}
    BY <1>3 DEF SetDefaultPaymentMethod
  <1>4. CASE CardsForgotten
    BY <1>4 DEF CardsForgotten
  <1>5. CASE UNCHANGED cardVars
    BY <1>5 DEF cardVars
  <1> QED BY <1>1, <1>2, <1>3, <1>4, <1>5 DEF CardStep

LEMMA CardNext ==
  ASSUME CardTypes, SingleDefault, Next
  PROVE  CardTypes' /\ SingleDefault'
  <1>1. CardStep
    BY CardKinds
  <1>2. SingleDefault'
    BY <1>1, CardsKept DEF SingleDefault
  <1>3. added' \in [Users -> 0..MaxCards]
    <2>1. ASSUME NEW u \in Users, CardsAdd(u)
          PROVE  added' \in [Users -> 0..MaxCards]
      <3>1. PICK pm \in 1..MaxCards : added' = [added EXCEPT ![u] = pm]
        BY <2>1 DEF CardsAdd
      <3>2. pm \in 0..MaxCards
        BY BillingAssumption
      <3> QED BY <3>1, <3>2 DEF CardTypes
    <2>2. CASE CardsForgotten
      <3>1. 0 \in 0..MaxCards
        BY BillingAssumption
      <3> QED BY <2>2, <3>1 DEF CardsForgotten
    <2>3. CASE added' = added
      BY <2>3 DEF CardTypes
    <2> QED BY <1>1, <2>1, <2>2, <2>3
              DEF CardStep, RemovePaymentMethod, SetDefaultPaymentMethod, cardVars
  <1>4. wallet' \in [Users -> SUBSET (1..MaxCards)]
    <2>1. ASSUME NEW u \in Users, CardsAdd(u)
          PROVE  wallet' \in [Users -> SUBSET (1..MaxCards)]
      BY <2>1 DEF CardTypes, CardsAdd
    <2>2. ASSUME NEW u \in Users, NEW pm \in 1..MaxCards, RemovePaymentMethod(u, pm)
          PROVE  wallet' \in [Users -> SUBSET (1..MaxCards)]
      <3>1. wallet' = [wallet EXCEPT ![u] = wallet[u] \ {pm}]
        BY <2>2 DEF RemovePaymentMethod
      <3>2. wallet[u] \ {pm} \in SUBSET (1..MaxCards)
        BY DEF CardTypes
      <3> QED BY <3>1, <3>2 DEF CardTypes
    <2>3. ASSUME NEW u \in Users, NEW pm \in 1..MaxCards, SetDefaultPaymentMethod(u, pm)
          PROVE  wallet' \in [Users -> SUBSET (1..MaxCards)]
      BY <2>3 DEF CardTypes, SetDefaultPaymentMethod
    <2>4. CASE CardsForgotten \/ UNCHANGED cardVars
      BY <2>4 DEF CardTypes, CardsForgotten, cardVars
    <2> QED BY <1>1, <2>1, <2>2, <2>3, <2>4 DEF CardStep
  <1>5. defaults' \in [Users -> SUBSET (1..MaxCards)]
    <2>1. ASSUME NEW u \in Users, CardsAdd(u)
          PROVE  defaults' \in [Users -> SUBSET (1..MaxCards)]
      BY <2>1 DEF CardTypes, CardsAdd
    <2>2. ASSUME NEW u \in Users, NEW pm \in 1..MaxCards, RemovePaymentMethod(u, pm)
          PROVE  defaults' \in [Users -> SUBSET (1..MaxCards)]
      BY <2>2 DEF CardTypes, RemovePaymentMethod, Newest
    <2>3. ASSUME NEW u \in Users, NEW pm \in 1..MaxCards, SetDefaultPaymentMethod(u, pm)
          PROVE  defaults' \in [Users -> SUBSET (1..MaxCards)]
      BY <2>3 DEF CardTypes, SetDefaultPaymentMethod
    <2>4. CASE CardsForgotten \/ UNCHANGED cardVars
      BY <2>4 DEF CardTypes, CardsForgotten, cardVars
    <2> QED BY <1>1, <2>1, <2>2, <2>3, <2>4 DEF CardStep
  <1>6. CardTypes'
    BY <1>3, <1>4, <1>5 DEF CardTypes
  <1> QED BY <1>2, <1>6

\* Stripe forgets no checkout session.
SessionsStay == \A s \in Sessions : sessions[s] # Absent => sessions'[s] = sessions[s]

LEMMA SessionNext ==
  ASSUME SessionTypes, Next
  PROVE  SessionTypes' /\ SessionsStay
  <1> USE DEF SessionTypes, SessionsStay
  <1>1. ASSUME NEW u \in Users, NEW s \in Sessions, NEW p \in Plans,
               CreateCheckout(u, s, p)
        PROVE  SessionTypes' /\ SessionsStay
    BY <1>1 DEF CreateCheckout, EnsureCustomer, Session
  <1>2. ASSUME NEW u \in Users,
               \/ VisitCustomer(u)
               \/ \E b \in BOOLEAN : AddPaymentMethod(u, b)
               \/ \E pm \in 1..MaxCards : RemovePaymentMethod(u, pm)
               \/ \E pm \in 1..MaxCards : SetDefaultPaymentMethod(u, pm)
               \/ \E p \in Plans : StartTrial(u, p)
        PROVE  SessionTypes' /\ SessionsStay
    BY <1>2 DEF VisitCustomer, AddPaymentMethod, RemovePaymentMethod,
                SetDefaultPaymentMethod, StartTrial, EnsureCustomer
  <1>3. ASSUME NEW u \in Users,
               \/ \E p \in Plans, b \in BOOLEAN : UpdatePlan(u, p, b)
               \/ \E b \in BOOLEAN : CancelMine(u, b)
               \/ ResumeMine(u)
               \/ PauseMine(u)
               \/ \E a \in CreditAmounts : AdminCredit(u, a)
        PROVE  SessionTypes' /\ SessionsStay
    BY <1>3 DEF UpdatePlan, CancelMine, ResumeMine, PauseMine, AdminCredit,
                ChangeSubscription
  <1>4. ASSUME NEW i \in InvIds, NEW a, AdminRefund(i, a)
        PROVE  SessionTypes' /\ SessionsStay
    BY <1>4 DEF AdminRefund
  <1>5. ASSUME NEW x \in SubIds, AdminForceCancel(x)
        PROVE  SessionTypes' /\ SessionsStay
    BY <1>5 DEF AdminForceCancel, ChangeSubscription
  <1>6. ASSUME NEW e \in Events, NEW s \in Sessions, CheckoutCompleted(e, s)
        PROVE  SessionTypes' /\ SessionsStay
    BY <1>6 DEF CheckoutCompleted, EnsureCustomer, Session
  <1>7. ASSUME NEW e \in Events,
               \/ \E u \in Users : CheckoutMalformed(e, u)
               \/ \E s \in Sessions, st \in StripeStatuses, b \in BOOLEAN :
                    StripeUpdates(e, s, st, b)
               \/ \E s \in Sessions : StripeDeletes(e, s)
               \/ \E s \in Sessions : InvoicePaid(e, s)
               \/ \E u \in Users, p \in Plans : RenewalPaid(e, u, Price[p])
               \/ \E s \in Sessions : InvoicePaymentFailed(e, s)
               \/ IgnoredEvent(e)
        PROVE  SessionTypes' /\ SessionsStay
    BY <1>7 DEF CheckoutMalformed, StripeUpdates, StripeDeletes, InvoicePaid,
                RenewalPaid, InvoicePaymentFailed, IgnoredEvent,
                ChangeSubscription, EnsureCustomer
  <1>8. ASSUME Restart
        PROVE  SessionTypes' /\ SessionsStay
    BY <1>8 DEF Restart
  <1> QED
    BY <1>1, <1>2, <1>3, <1>4, <1>5, <1>6, <1>7, <1>8 DEF Next

-----------------------------------------------------------------------------
(* The subscriptions.                                                      *)

SubInv == SubTypes /\ SingleSubscription /\ CreditsAddUp

LEMMA SubInit == Init => SubInv
  BY AbsentAssumption
    DEF Init, SubInv, SubTypes, SingleSubscription, CreditsAddUp, HasSubscription

LEMMA SubNext ==
  ASSUME SubInv, SubStep
  PROVE  SubInv'
  <1> USE AbsentAssumption DEF SubInv, SubTypes, SingleSubscription, CreditsAddUp,
        HasSubscription, SubscriptionOf
  <1>1. CASE SubMoves
    <2>1. PICK x \in SubIds, sub \in Subscription :
            /\ subs[x] # Absent
            /\ sub.user_id = subs[x].user_id
            /\ sub.credit_cents = subs[x].credit_cents
            /\ subs' = [subs EXCEPT ![x] = sub]
            /\ UNCHANGED <<subOf, creditLog>>
      BY <1>1 DEF SubMoves
    <2>2. sub # Absent
      OBVIOUS
    <2>3. SubTypes'
      BY <2>1
    <2>4. SingleSubscription'
      BY <2>1, <2>2
    <2>5. CreditsAddUp'
      BY <2>1, <2>2
    <2> QED BY <2>3, <2>4, <2>5
  <1>2. CASE SubBegins
    <2>1. PICK x \in NewSubIds, sub \in Subscription :
            /\ subOf[sub.user_id] = Absent
            /\ sub.credit_cents = 0
            /\ subs' = [subs EXCEPT ![x] = sub]
            /\ subOf' = [subOf EXCEPT ![sub.user_id] = x]
            /\ UNCHANGED creditLog
      BY <1>2 DEF SubBegins, SaveNew
    <2>2. /\ sub # Absent /\ sub.user_id \in Users
          /\ x \in SubIds /\ subs[x] = Absent /\ x # Absent
      BY DEF NewSubIds, Subscription
    <2>3. SubTypes'
      BY <2>1, <2>2
    <2>4. SingleSubscription'
      BY <2>1, <2>2
    <2>5. CreditsAddUp'
      BY <2>1, <2>2
    <2> QED BY <2>3, <2>4, <2>5
  <1>3. CASE SubCredited
    <2>1. PICK u \in Users, amount \in Nat :
            /\ subOf[u] # Absent
            /\ subs' = [subs EXCEPT ![subOf[u]] =
                          [subs[subOf[u]] EXCEPT !.credit_cents = @ + amount]]
            /\ creditLog' = [creditLog EXCEPT ![u] = @ + amount]
            /\ UNCHANGED subOf
      BY <1>3 DEF SubCredited
    <2> DEFINE x == subOf[u]
               sub == [subs[x] EXCEPT !.credit_cents = @ + amount]
    <2>2. /\ x \in SubIds /\ subs[x] \in Subscription /\ subs[x] # Absent
          /\ subs[x].user_id = u
      BY <2>1
    <2>3. /\ sub \in Subscription
          /\ sub.user_id = u /\ sub.credit_cents = subs[x].credit_cents + amount
      BY <2>2 DEF Subscription
    <2>4. sub # Absent
      BY <2>3
    <2>5. subs' = [subs EXCEPT ![x] = sub]
      BY <2>1
    <2>6. creditLog[u] = subs[x].credit_cents
      BY <2>1, <2>2
    <2> HIDE DEF sub
    <2>7. SubTypes'
      BY <2>1, <2>2, <2>3, <2>5
    <2>8. SingleSubscription'
      BY <2>1, <2>2, <2>3, <2>4, <2>5
    <2>9. CreditsAddUp'
      BY <2>1, <2>2, <2>3, <2>4, <2>5, <2>6
    <2> QED BY <2>7, <2>8, <2>9
  <1>4. CASE SubsForgotten
    BY <1>4 DEF SubsForgotten
  <1>5. CASE UNCHANGED subVars
    BY <1>5 DEF subVars
  <1> QED BY <1>1, <1>2, <1>3, <1>4, <1>5 DEF SubStep

-----------------------------------------------------------------------------
(* The invoices and the event log.                                         *)

InvInv ==
  /\ InvTypes
  /\ OneInvoicePerCheckout
  /\ EventBooksOnce
  /\ RefundsAddUp

LEMMA InvInit == Init => InvInv
  BY AbsentAssumption
    DEF Init, InvInv, InvTypes, OneInvoicePerCheckout, Booked, EventBooksOnce,
        RefundsAddUp

\* One more event in the log leaves those it held as they were.
LEMMA LogKeeps ==
  ASSUME InvTypes, NEW e \in Events, NEW s \in Sessions \cup {Absent},
         NEW ok \in BOOLEAN, Fresh(e), RecordEvent(e, s, ok)
  PROVE  /\ eventLog' \in [Events -> WebhookEvent \cup {Absent}]
         /\ eventLog'[e] # Absent
         /\ eventLog'[e].processed = ok
         /\ \A d \in Events : eventLog[d] # Absent => eventLog'[d] = eventLog[d]
  <1> DEFINE entry == [session |-> s, processed |-> ok]
  <1>1. entry \in WebhookEvent /\ entry # Absent
    BY AbsentAssumption DEF WebhookEvent
  <1>2. eventLog' = [eventLog EXCEPT ![e] = entry]
    BY DEF RecordEvent
  <1> QED BY <1>1, <1>2 DEF InvTypes, Fresh

\* What happens to the log when no invoice is booked keeps what is accounted.
LEMMA StaysAccounted ==
  ASSUME InvTypes, UNCHANGED eventLog \/ \E e \in Events : LogGrows(e)
  PROVE  /\ eventLog' \in [Events -> WebhookEvent \cup {Absent}]
         /\ \A d \in Events : eventLog[d] # Absent => eventLog'[d] = eventLog[d]
  <1>1. CASE UNCHANGED eventLog
    BY <1>1 DEF InvTypes
  <1>2. CASE \E e \in Events : LogGrows(e)
    BY <1>2, LogKeeps DEF LogGrows
  <1> QED BY <1>1, <1>2

\* A step that writes over one invoice without touching what identifies it
LEMMA RewriteKeeps ==
  ASSUME InvInv, NEW i \in InvIds, invoices[i] # Absent, NEW inv \in Invoice,
         inv.stripe_invoice_id = invoices[i].stripe_invoice_id,
         inv.made_by = invoices[i].made_by,
         invoices' = [invoices EXCEPT ![i] = inv],
         eventLog' \in [Events -> WebhookEvent \cup {Absent}],
         \A d \in Events : eventLog[d] # Absent => eventLog'[d] = eventLog[d]
  PROVE  /\ invoices' \in [InvIds -> Invoice \cup {Absent}]
         /\ OneInvoicePerCheckout'
         /\ EventBooksOnce'
  <1>1. inv # Absent
    BY AbsentAssumption
  <1>2. invoices' \in [InvIds -> Invoice \cup {Absent}]
    BY DEF InvInv, InvTypes
  <1>3. OneInvoicePerCheckout'
    <2> SUFFICES ASSUME NEW s \in Sessions, NEW j \in Booked(s)', NEW k \in Booked(s)'
                 PROVE  j = k
      BY DEF OneInvoicePerCheckout
    <2>1. j \in Booked(s) /\ k \in Booked(s)
      BY <1>1 DEF Booked, InvInv, InvTypes
    <2> QED BY <2>1 DEF InvInv, OneInvoicePerCheckout
  <1>4. \A j \in InvIds : invoices'[j] # Absent =>
          invoices[j] # Absent /\ invoices'[j].made_by = invoices[j].made_by
    BY <1>1 DEF InvInv, InvTypes
  <1>5. \A j \in InvIds : invoices[j] # Absent => invoices[j].made_by \in Events
    BY DEF InvInv, InvTypes, Invoice
  <1>6. EventBooksOnce'
    BY <1>4, <1>5 DEF EventBooksOnce, InvInv
  <1> QED BY <1>2, <1>3, <1>6

LEMMA InvNext ==
  ASSUME InvInv, InvStep
  PROVE  InvInv'
  <1>1. CASE InvUntouched
    <2>1. /\ eventLog' \in [Events -> WebhookEvent \cup {Absent}]
          /\ \A d \in Events : eventLog[d] # Absent => eventLog'[d] = eventLog[d]
      BY <1>1, StaysAccounted DEF InvUntouched, InvInv
    <2>2. invoices' = invoices /\ refundLog' = refundLog
      BY <1>1 DEF InvUntouched, invVars
    <2>3. \A j \in InvIds : invoices[j] # Absent => invoices[j].made_by \in Events
      BY DEF InvInv, InvTypes, Invoice
    <2>4. EventBooksOnce'
      BY <2>1, <2>2, <2>3 DEF EventBooksOnce, InvInv
    <2>5. InvTypes' /\ OneInvoicePerCheckout' /\ RefundsAddUp'
      BY <2>1, <2>2 DEF InvInv, InvTypes, OneInvoicePerCheckout, Booked,
                        RefundsAddUp
    <2> QED BY <2>4, <2>5 DEF InvInv
  <1>2. CASE InvBooked
    <2>1. PICK i \in NewInvIds, e \in Events, s \in Sessions \cup {Absent},
               inv \in Invoice :
            /\ Fresh(e)
            /\ RecordEvent(e, s, TRUE)
            /\ inv.made_by = e /\ inv.status = "paid" /\ inv.refunded_cents = 0
            /\ inv.stripe_invoice_id = Absent \/ Booked(inv.stripe_invoice_id) = {}
            /\ invoices' = [invoices EXCEPT ![i] = inv]
            /\ UNCHANGED refundLog
      BY <1>2 DEF InvBooked
    <2>2. i \in InvIds /\ invoices[i] = Absent /\ inv # Absent
      BY AbsentAssumption DEF NewInvIds
    <2>3. /\ eventLog' \in [Events -> WebhookEvent \cup {Absent}]
          /\ eventLog'[e] # Absent /\ eventLog'[e].processed
          /\ \A d \in Events : eventLog[d] # Absent => eventLog'[d] = eventLog[d]
      BY <2>1, LogKeeps DEF InvInv
    <2>4. InvTypes'
      BY <2>1, <2>2, <2>3 DEF InvInv, InvTypes
    <2>5. OneInvoicePerCheckout'
      <3> SUFFICES ASSUME NEW t \in Sessions, NEW j \in Booked(t)', NEW k \in Booked(t)'
                   PROVE  j = k
        BY DEF OneInvoicePerCheckout
      <3>1. t # Absent
        BY AbsentAssumption
      <3>2. CASE inv.stripe_invoice_id = t
        BY <2>1, <2>2, <3>1, <3>2 DEF Booked, InvInv, InvTypes
      <3>3. CASE inv.stripe_invoice_id # t
        <4>1. j \in Booked(t) /\ k \in Booked(t)
          BY <2>1, <2>2, <3>3 DEF Booked, InvInv, InvTypes
        <4> QED BY <4>1 DEF InvInv, OneInvoicePerCheckout
      <3> QED BY <3>2, <3>3
    <2>6. EventBooksOnce'
      <3>1. \A j \in InvIds : invoices[j] # Absent =>
              invoices[j].made_by \in Events /\ invoices[j].made_by # e
        BY <2>1 DEF InvInv, InvTypes, Invoice, EventBooksOnce, Fresh
      <3>2. \A j \in InvIds : j # i => invoices'[j] = invoices[j]
        BY <2>1 DEF InvInv, InvTypes
      <3>3. invoices'[i] = inv
        BY <2>1, <2>2 DEF InvInv, InvTypes
      <3> QED BY <2>1, <2>3, <3>1, <3>2, <3>3 DEF EventBooksOnce, InvInv
    <2>7. RefundsAddUp'
      BY <2>1, <2>2 DEF InvInv, InvTypes, RefundsAddUp
    <2> QED BY <2>4, <2>5, <2>6, <2>7 DEF InvInv
  <1>3. CASE InvRestated
    <2>1. PICK i \in InvIds, st \in {"open", "paid"} :
            /\ invoices[i] # Absent
            /\ invoices' = [invoices EXCEPT ![i].status = st]
            /\ UNCHANGED refundLog
            /\ \E e \in Events : LogGrows(e)
      BY <1>3 DEF InvRestated
    <2> DEFINE inv == [invoices[i] EXCEPT !.status = st]
    <2>2. /\ inv \in Invoice /\ inv.status = st
          /\ inv.stripe_invoice_id = invoices[i].stripe_invoice_id
          /\ inv.made_by = invoices[i].made_by
          /\ inv.refunded_cents = invoices[i].refunded_cents
      BY <2>1 DEF InvInv, InvTypes, Invoice
    <2>3. invoices' = [invoices EXCEPT ![i] = inv] /\ inv # Absent
      BY <2>1, <2>2, AbsentAssumption
    <2> HIDE DEF inv
    <2>4. /\ eventLog' \in [Events -> WebhookEvent \cup {Absent}]
          /\ \A d \in Events : eventLog[d] # Absent => eventLog'[d] = eventLog[d]
      BY <2>1, StaysAccounted DEF InvInv
    <2>5. /\ invoices' \in [InvIds -> Invoice \cup {Absent}]
          /\ OneInvoicePerCheckout' /\ EventBooksOnce'
      BY <2>1, <2>2, <2>3, <2>4, RewriteKeeps
    <2>6. RefundsAddUp'
      BY <2>1, <2>2, <2>3 DEF InvInv, InvTypes, RefundsAddUp
    <2> QED BY <2>1, <2>4, <2>5, <2>6 DEF InvInv, InvTypes
  <1>4. CASE InvRefunded
    <2>1. PICK i \in InvIds, refund \in Int :
            /\ invoices[i] # Absent
            /\ invoices' = [invoices EXCEPT ![i] =
                 [invoices[i] EXCEPT
                    !.refunded_cents = invoices[i].refunded_cents + refund,
                    !.status = IF invoices[i].refunded_cents + refund
                                    >= invoices[i].total_cents
                                 THEN "void" ELSE @]]
            /\ refundLog' = [refundLog EXCEPT ![i] = @ + refund]
            /\ UNCHANGED eventLog
      BY <1>4 DEF InvRefunded
    <2> DEFINE old == invoices[i]
               sum == old.refunded_cents + refund
               st  == IF sum >= old.total_cents THEN "void" ELSE old.status
               inv == [old EXCEPT !.refunded_cents = sum, !.status = st]
    <2>a. old \in Invoice
      BY <2>1 DEF InvInv, InvTypes
    <2>b. sum \in Int /\ st \in {"open", "paid", "void"}
      BY <2>a DEF Invoice
    <2>c. invoices' = [invoices EXCEPT ![i] = inv]
      BY <2>1
    <2> HIDE DEF st
    <2>2. /\ inv \in Invoice
          /\ inv.stripe_invoice_id = old.stripe_invoice_id
          /\ inv.made_by = old.made_by
          /\ inv.refunded_cents = old.refunded_cents + refund
      BY <2>a, <2>b DEF Invoice
    <2>3. invoices' = [invoices EXCEPT ![i] = inv] /\ inv # Absent
      BY <2>c, <2>2, AbsentAssumption
    <2> HIDE DEF inv
    <2>4. /\ eventLog' \in [Events -> WebhookEvent \cup {Absent}]
          /\ \A d \in Events : eventLog[d] # Absent => eventLog'[d] = eventLog[d]
      BY <2>1, StaysAccounted DEF InvInv
    <2>5. /\ invoices' \in [InvIds -> Invoice \cup {Absent}]
          /\ OneInvoicePerCheckout' /\ EventBooksOnce'
      BY <2>1, <2>2, <2>3, <2>4, RewriteKeeps
    <2>6. invoices[i].refunded_cents \in Int /\ refundLog[i] \in Int
      BY <2>1 DEF InvInv, InvTypes, Invoice
    <2>7. refundLog' \in [InvIds -> Int]
      BY <2>1, <2>6 DEF InvInv, InvTypes
    <2>8. RefundsAddUp'
      BY <2>1, <2>2, <2>3, <2>6 DEF InvInv, InvTypes, RefundsAddUp
    <2> QED BY <2>4, <2>5, <2>7, <2>8 DEF InvInv, InvTypes
  <1>5. CASE InvForgotten
    BY <1>5 DEF InvForgotten, InvInv, InvTypes, OneInvoicePerCheckout, Booked,
                EventBooksOnce, RefundsAddUp
  <1> QED BY <1>1, <1>2, <1>3, <1>4, <1>5 DEF InvStep

-----------------------------------------------------------------------------
(* The invariant and the theorems.                                         *)

IInv == CardTypes /\ SingleDefault /\ SessionTypes /\ SubInv /\ InvInv

LEMMA IInvInit == Init => IInv
  <1>1. Init => SessionTypes
    BY DEF Init, SessionTypes
  <1> QED BY <1>1, CardInit, SubInit, InvInit DEF IInv

LEMMA IInvNext == IInv /\ [Next]_vars => IInv'
  <1> SUFFICES ASSUME IInv, [Next]_vars
               PROVE  IInv'
    OBVIOUS
  <1>1. CASE Next
    <2>1. CardTypes' /\ SingleDefault' /\ SessionTypes'
      BY <1>1, CardNext, SessionNext DEF IInv
    <2>2. SubInv'
      BY <1>1, SubKinds, SubNext DEF IInv, SubInv
    <2>3. InvInv'
      BY <1>1, InvKinds, InvNext DEF IInv, InvInv
    <2> QED BY <2>1, <2>2, <2>3 DEF IInv
  <1>2. CASE UNCHANGED vars
    <2>1. UNCHANGED <<cardVars, customers, sessions, subVars, invVars, eventLog>>
      BY <1>2 DEF vars
    <2>2. CardTypes' /\ SingleDefault' /\ SessionTypes'
      BY <2>1 DEF IInv, cardVars, CardTypes, SingleDefault, SessionTypes
    <2>3. SubInv'
      BY <2>1, SubNext DEF IInv, SubStep
    <2>4. InvInv'
      BY <2>1, InvNext DEF IInv, InvStep, InvUntouched
    <2> QED BY <2>2, <2>3, <2>4 DEF IInv
  <1> QED BY <1>1, <1>2

LEMMA Invariance == Spec => []IInv
  BY IInvInit, IInvNext, PTL DEF Spec

\* Every variable keeps its type.
THEOREM TypeCorrect == Spec => []TypeOK
  <1>1. IInv => TypeOK
    BY TypeParts DEF IInv, SubInv, InvInv
  <1> QED BY <1>1, Invariance, PTL

\* However trials, checkout events and changes of plan come, a user has one
\* subscription.
THEOREM OneSubscription == Spec => []SingleSubscription
  <1>1. IInv => SingleSubscription
    BY DEF IInv, SubInv
  <1> QED BY <1>1, Invariance, PTL

\* The credit of a subscription is the sum of the credits granted to it.
THEOREM CreditsSound == Spec => []CreditsAddUp
  <1>1. IInv => CreditsAddUp
    BY DEF IInv, SubInv
  <1> QED BY <1>1, Invariance, PTL

\* Whatever Stripe repeats or reorders, a checkout is invoiced once.
THEOREM InvoicedOnce == Spec => []OneInvoicePerCheckout
  <1>1. IInv => OneInvoicePerCheckout
    BY DEF IInv, InvInv
  <1> QED BY <1>1, Invariance, PTL

\* An event makes one invoice at most, and only if it was processed.
THEOREM BookedOnce == Spec => []EventBooksOnce
  <1>1. IInv => EventBooksOnce
    BY DEF IInv, InvInv
  <1> QED BY <1>1, Invariance, PTL

\* The refunds on an invoice add up to those announced.
THEOREM RefundsSound == Spec => []RefundsAddUp
  <1>1. IInv => RefundsAddUp
    BY DEF IInv, InvInv
  <1> QED BY <1>1, Invariance, PTL

\* At most one of a user's cards is the default one.
THEOREM OneDefault == Spec => []SingleDefault
  <1>1. IInv => SingleDefault
    BY DEF IInv
  <1> QED BY <1>1, Invariance, PTL

\* A user who has a default card loses it only with the last card.
THEOREM DefaultStays == Spec => DefaultKept
  <1> DEFINE Kept == \A u \in Users :
                       defaults[u] # {} /\ wallet'[u] # {} => defaults'[u] # {}
  <1>1. IInv /\ [Next]_vars => [Kept]_vars
    <2> SUFFICES ASSUME IInv, Next
                 PROVE  Kept
      OBVIOUS
    <2>1. CardStep
      BY CardKinds DEF IInv
    <2> QED BY <2>1, CardsKept DEF IInv
  <1> QED BY <1>1, Invariance, PTL DEF Spec, DefaultKept

-----------------------------------------------------------------------------
(* What a completed checkout is worth.                                     *)

\* The user whom a checkout session belongs to.
Buyer(s) == sessions[s].user_id

\* A step in which Stripe's report that the checkout s completed is handled.
HandlesCheckout(e, s) ==
  Fresh(e) /\ eventLog'[e] = [session |-> s, processed |-> TRUE]

\* Once the completion of a checkout has been handled, in whatever state it
\* found the store, exactly one invoice is booked for it and its buyer has a
\* subscription; and the plan that was bought is active, if the buyer had no
\* subscription before.
CheckoutHonoured ==
  [][\A e \in Events, s \in Sessions : HandlesCheckout(e, s) =>
       /\ \E i \in InvIds : Booked(s)' = {i}
       /\ HasSubscription(Buyer(s))'
       /\ ~ HasSubscription(Buyer(s)) =>
            /\ SubscriptionOf(Buyer(s))'.plan_id = sessions[s].plan_id
            /\ SubscriptionOf(Buyer(s))'.status = "active"]_vars

\* No other event is recorded with a session.
LEMMA OnlyCheckoutsNameSessions ==
  ASSUME InvTypes, Next, NEW e \in Events, NEW s \in Sessions, HandlesCheckout(e, s)
  PROVE  CheckoutCompleted(e, s)
  <1> DEFINE entry == [session |-> s, processed |-> TRUE]
  <1>1. eventLog[e] = Absent /\ eventLog'[e] = entry /\ entry # Absent /\ s # Absent
    <2>1. entry \in WebhookEvent /\ s # Absent
      BY AbsentAssumption DEF WebhookEvent
    <2> QED BY <2>1, AbsentAssumption DEF HandlesCheckout, Fresh
  <1>2. ASSUME NEW d \in Events, NEW t \in Sessions \cup {Absent}, NEW ok \in BOOLEAN,
               RecordEvent(d, t, ok)
        PROVE  d = e /\ t = s
    <2>1. eventLog' = [eventLog EXCEPT ![d] = [session |-> t, processed |-> ok]]
      BY <1>2 DEF RecordEvent
    <2>2. d = e
      BY <1>1, <2>1 DEF InvTypes
    <2>3. [session |-> t, processed |-> ok] = entry
      BY <1>1, <2>1, <2>2 DEF InvTypes
    <2>4. [session |-> t, processed |-> ok].session = entry.session
      BY <2>3
    <2> QED BY <2>2, <2>4
  <1>3. ASSUME UNCHANGED eventLog PROVE FALSE
    BY <1>1, <1>3
  <1>4. ASSUME NEW d \in Events, NEW ok \in BOOLEAN, RecordEvent(d, Absent, ok)
        PROVE  FALSE
    BY <1>1, <1>2, <1>4
  <1> HIDE DEF entry
  <1>5. ASSUME NEW d \in Events, NEW t \in Sessions, CheckoutCompleted(d, t)
        PROVE  CheckoutCompleted(e, s)
    BY <1>2, <1>5 DEF CheckoutCompleted
  <1>6. ASSUME NEW d \in Events,
               \/ \E u \in Users : CheckoutMalformed(d, u)
               \/ \E t \in Sessions, st \in StripeStatuses, b \in BOOLEAN :
                    StripeUpdates(d, t, st, b)
               \/ \E t \in Sessions : StripeDeletes(d, t)
               \/ \E t \in Sessions : InvoicePaid(d, t)
               \/ \E u \in Users, p \in Plans : RenewalPaid(d, u, Price[p])
               \/ \E t \in Sessions : InvoicePaymentFailed(d, t)
               \/ IgnoredEvent(d)
        PROVE  FALSE
    BY <1>4, <1>6 DEF CheckoutMalformed, StripeUpdates, StripeDeletes, InvoicePaid,
                      RenewalPaid, InvoicePaymentFailed, IgnoredEvent
  <1>7. ASSUME NEW u \in Users,
               \/ VisitCustomer(u)
               \/ \E b \in BOOLEAN : AddPaymentMethod(u, b)
               \/ \E pm \in 1..MaxCards : RemovePaymentMethod(u, pm)
               \/ \E pm \in 1..MaxCards : SetDefaultPaymentMethod(u, pm)
               \/ \E p \in Plans : StartTrial(u, p)
               \/ \E t \in Sessions, p \in Plans : CreateCheckout(u, t, p)
        PROVE  FALSE
    BY <1>3, <1>7 DEF VisitCustomer, AddPaymentMethod, RemovePaymentMethod,
                      SetDefaultPaymentMethod, StartTrial, CreateCheckout
  <1>8. ASSUME NEW u \in Users,
               \/ \E p \in Plans, b \in BOOLEAN : UpdatePlan(u, p, b)
               \/ \E b \in BOOLEAN : CancelMine(u, b)
               \/ ResumeMine(u)
               \/ PauseMine(u)
               \/ \E a \in CreditAmounts : AdminCredit(u, a)
        PROVE  FALSE
    BY <1>3, <1>8 DEF UpdatePlan, CancelMine, ResumeMine, PauseMine, AdminCredit
  <1>9. ASSUME \/ \E i \in InvIds, a \in RefundAmounts \cup {Absent} : AdminRefund(i, a)
               \/ \E x \in SubIds : AdminForceCancel(x)
        PROVE  FALSE
    BY <1>3, <1>9 DEF AdminRefund, AdminForceCancel
  <1>10. CASE Restart
    BY <1>1, <1>10 DEF Restart
  <1> QED
    BY <1>5, <1>6, <1>7, <1>8, <1>9, <1>10 DEF Next

LEMMA CheckoutIsHonoured ==
  ASSUME IInv, IInv', NEW e \in Events, NEW s \in Sessions, CheckoutCompleted(e, s)
  PROVE  /\ \E i \in InvIds : Booked(s)' = {i}
         /\ HasSubscription(Buyer(s))'
         /\ ~ HasSubscription(Buyer(s)) =>
              /\ SubscriptionOf(Buyer(s))'.plan_id = sessions[s].plan_id
              /\ SubscriptionOf(Buyer(s))'.status = "active"
  <1> DEFINE u == sessions[s].user_id
             p == sessions[s].plan_id
  <1>1. /\ u \in Users /\ p \in Plans
        /\ sessions' = sessions
        /\ SubscribeBuyer(u, p, s)
        /\ BookCheckout(e, u, p, s)
    BY DEF CheckoutCompleted, IInv, SessionTypes, Session
  <1>2. Booked(s)' # {}
    <2>1. CASE Booked(s) = {}
      <3>1. PICK i \in NewInvIds :
              invoices' = [invoices EXCEPT ![i] = BuiltInvoice(u, Price[p], s, e)]
        BY <1>1, <2>1 DEF BookCheckout
      <3>2. Price[p] \in Nat
        BY <1>1, BillingAssumption
      <3> DEFINE inv == BuiltInvoice(u, Price[p], s, e)
      <3>3. inv \in Invoice /\ inv.stripe_invoice_id = s
        BY <1>1, <3>2, Built
      <3>4. inv # Absent
        BY <3>3, AbsentAssumption
      <3> HIDE DEF inv
      <3>5. i \in InvIds /\ invoices'[i] = inv
        BY <3>1 DEF inv, NewInvIds, IInv, InvInv, InvTypes
      <3> QED BY <3>3, <3>4, <3>5 DEF Booked
    <2>2. CASE Booked(s) # {}
      BY <1>1, <2>2 DEF BookCheckout, Booked
    <2> QED BY <2>1, <2>2
  <1>3. \E i \in InvIds : Booked(s)' = {i}
    <2>1. PICK i \in Booked(s)' : TRUE
      BY <1>2
    <2>2. \A j \in Booked(s)' : j = i
      BY <2>1 DEF IInv, InvInv, OneInvoicePerCheckout
    <2> QED BY <2>1, <2>2 DEF Booked
  <1>4. CASE ~ HasSubscription(u)
    <2>1. PICK x \in NewSubIds : SaveNew(x, NewSubscription(u, p, "active", s))
      BY <1>1, <1>4 DEF SubscribeBuyer
    <2> DEFINE sub == NewSubscription(u, p, "active", s)
    <2>2. /\ sub \in Subscription /\ sub.user_id = u
          /\ sub.plan_id = p /\ sub.status = "active"
      BY <1>1, NewIsSubscription DEF NewSubscription
    <2> HIDE DEF sub, u, p
    <2>3. subOf'[u] = x /\ subs'[x] = sub
      BY <1>1, <2>1, <2>2 DEF sub, SaveNew, NewSubIds, IInv, SubInv, SubTypes
    <2>4. SubscriptionOf(Buyer(s))' = sub
      BY <1>1, <2>3 DEF SubscriptionOf, Buyer, u
    <2>5. HasSubscription(Buyer(s))'
      BY <1>1, <2>1, <2>3, AbsentAssumption DEF HasSubscription, Buyer, NewSubIds, u
    <2> QED BY <1>3, <2>2, <2>4, <2>5 DEF u, p
  <1>5. CASE HasSubscription(u)
    <2>1. UNCHANGED <<subs, subOf>>
      BY <1>1, <1>5 DEF SubscribeBuyer
    <2>2. HasSubscription(Buyer(s))'
      BY <1>1, <1>5, <2>1 DEF HasSubscription, Buyer
    <2> QED BY <1>3, <1>5, <2>2 DEF Buyer
  <1> QED BY <1>4, <1>5

\* A checkout is never paid for nothing: whatever trials, renewals and late or
\* repeated events surround it, its completion leaves one invoice and a
\* subscription, on the plan that was bought unless the buyer already had
\* another (main.py:753-812).
THEOREM CheckoutsAreHonoured == Spec => CheckoutHonoured
  <1> DEFINE Honoured ==
        \A e \in Events, s \in Sessions : HandlesCheckout(e, s) =>
          /\ \E i \in InvIds : Booked(s)' = {i}
          /\ HasSubscription(Buyer(s))'
          /\ ~ HasSubscription(Buyer(s)) =>
               /\ SubscriptionOf(Buyer(s))'.plan_id = sessions[s].plan_id
               /\ SubscriptionOf(Buyer(s))'.status = "active"
  <1>1. IInv /\ IInv' /\ [Next]_vars => [Honoured]_vars
    <2> SUFFICES ASSUME IInv, IInv', Next, NEW e \in Events, NEW s \in Sessions,
                        HandlesCheckout(e, s)
                 PROVE  /\ \E i \in InvIds : Booked(s)' = {i}
                        /\ HasSubscription(Buyer(s))'
                        /\ ~ HasSubscription(Buyer(s)) =>
                             /\ SubscriptionOf(Buyer(s))'.plan_id = sessions[s].plan_id
                             /\ SubscriptionOf(Buyer(s))'.status = "active"
      OBVIOUS
    <2>1. CheckoutCompleted(e, s)
      BY OnlyCheckoutsNameSessions DEF IInv, InvInv
    <2> QED BY <2>1, CheckoutIsHonoured
  <1> QED BY <1>1, Invariance, PTL DEF Spec, CheckoutHonoured

-----------------------------------------------------------------------------
(* A checkout takes effect as a whole.                                     *)

\* Only the completion of a checkout links a subscription to it.
LEMMA LinkedByCompletion ==
  ASSUME SubInv, SubStep, ~ Restart
  PROVE  /\ \A s \in Sessions : \A x \in Linked(s)' :
              \/ x \in Linked(s) /\ subs'[x].user_id = subs[x].user_id
              \/ Completing(s) /\ subs'[x].user_id = sessions[s].user_id
         /\ \A u \in Users : HasSubscription(u) => HasSubscription(u)'
  <1> USE AbsentAssumption DEF SubInv, SubTypes, Linked, HasSubscription
  <1> DEFINE Linking(x) ==
        \A s \in Sessions : x \in Linked(s)' =>
          \/ x \in Linked(s) /\ subs'[x].user_id = subs[x].user_id
          \/ Completing(s) /\ subs'[x].user_id = sessions[s].user_id
  <1>1. CASE SubMoves
    <2>1. PICK x \in SubIds, sub \in Subscription :
            /\ subs[x] # Absent
            /\ sub.user_id = subs[x].user_id
            /\ sub.stripe_subscription_id = subs[x].stripe_subscription_id
            /\ subs' = [subs EXCEPT ![x] = sub]
            /\ UNCHANGED subOf
      BY <1>1 DEF SubMoves
    <2> QED BY <2>1
  <1>2. CASE SubBegins
    <2>1. PICK x \in NewSubIds, sub \in Subscription :
            /\ \/ sub.stripe_subscription_id = Absent
               \/ /\ Completing(sub.stripe_subscription_id)
                  /\ sub.user_id = sessions[sub.stripe_subscription_id].user_id
            /\ subs' = [subs EXCEPT ![x] = sub]
            /\ subOf' = [subOf EXCEPT ![sub.user_id] = x]
      BY <1>2 DEF SubBegins, SaveNew
    <2>2. x \in SubIds /\ sub.user_id \in Users /\ x # Absent
      BY DEF NewSubIds, Subscription
    <2>3. ASSUME NEW y \in SubIds PROVE Linking(y)
      <3>1. CASE y = x
        BY <2>1, <2>2, <3>1
      <3>2. CASE y # x
        BY <2>1, <2>2, <3>2
      <3> QED BY <3>1, <3>2
    <2> QED BY <2>1, <2>2, <2>3
  <1>3. CASE SubCredited
    <2>1. PICK u \in Users, amount \in Nat :
            /\ HasSubscription(u)
            /\ subs' = [subs EXCEPT ![subOf[u]] =
                          [subs[subOf[u]] EXCEPT !.credit_cents = @ + amount]]
            /\ UNCHANGED subOf
      BY <1>3 DEF SubCredited, SubscriptionOf
    <2>2. subOf[u] \in SubIds /\ subs[subOf[u]] # Absent /\ subs[subOf[u]] \in Subscription
      BY <2>1, IndexedExists
    <2> DEFINE sub == [subs[subOf[u]] EXCEPT !.credit_cents = @ + amount]
    <2>3. /\ sub.user_id = subs[subOf[u]].user_id
          /\ sub.stripe_subscription_id = subs[subOf[u]].stripe_subscription_id
      BY <2>2 DEF Subscription
    <2>4. subs' = [subs EXCEPT ![subOf[u]] = sub]
      BY <2>1
    <2> HIDE DEF sub
    <2> QED BY <2>1, <2>2, <2>3, <2>4
  <1>4. CASE UNCHANGED subVars
    BY <1>4 DEF subVars
  <1> QED BY <1>1, <1>2, <1>3, <1>4 DEF SubStep, SubsForgotten

\* Only the completion of a checkout books its invoice, and none is unbooked.
LEMMA BookedByCompletion ==
  ASSUME InvTypes, InvStep, ~ Restart
  PROVE  /\ \A s \in Sessions : \A i \in Booked(s)' :
              \/ i \in Booked(s) /\ invoices'[i].user_id = invoices[i].user_id
              \/ Completing(s) /\ invoices'[i].user_id = sessions[s].user_id
         /\ \A s \in Sessions : Booked(s) \subseteq Booked(s)'
  <1> USE AbsentAssumption DEF InvTypes, Booked
  <1> DEFINE Stays(i, inv) ==
        /\ invoices[i] # Absent /\ inv # Absent
        /\ inv.user_id = invoices[i].user_id
        /\ inv.stripe_invoice_id = invoices[i].stripe_invoice_id
        /\ invoices' = [invoices EXCEPT ![i] = inv]
  <1>1. CASE InvUntouched
    BY <1>1 DEF InvUntouched, invVars
  <1>2. CASE InvBooked
    <2>1. PICK i \in NewInvIds, inv \in Invoice :
            /\ \/ inv.stripe_invoice_id = Absent
               \/ /\ Completing(inv.stripe_invoice_id)
                  /\ inv.user_id = sessions[inv.stripe_invoice_id].user_id
            /\ invoices' = [invoices EXCEPT ![i] = inv]
      BY <1>2 DEF InvBooked
    <2>2. i \in InvIds /\ invoices[i] = Absent
      BY DEF NewInvIds
    <2>3. ASSUME NEW s \in Sessions, NEW j \in Booked(s)'
          PROVE  \/ j \in Booked(s) /\ invoices'[j].user_id = invoices[j].user_id
                 \/ Completing(s) /\ invoices'[j].user_id = sessions[s].user_id
      <3>1. CASE j = i
        BY <2>1, <2>2, <2>3, <3>1
      <3>2. CASE j # i
        BY <2>1, <2>2, <2>3, <3>2
      <3> QED BY <3>1, <3>2
    <2>4. \A s \in Sessions : Booked(s) \subseteq Booked(s)'
      BY <2>1, <2>2
    <2> QED BY <2>3, <2>4
  <1>3. ASSUME NEW i \in InvIds, NEW inv, Stays(i, inv)
        PROVE  /\ \A s \in Sessions : \A j \in Booked(s)' :
                    j \in Booked(s) /\ invoices'[j].user_id = invoices[j].user_id
               /\ \A s \in Sessions : Booked(s) \subseteq Booked(s)'
    BY <1>3
  <1>4. CASE InvRestated
    <2>1. PICK i \in InvIds, st \in {"open", "paid"} :
            /\ invoices[i] # Absent
            /\ invoices' = [invoices EXCEPT ![i].status = st]
      BY <1>4 DEF InvRestated
    <2> DEFINE inv == [invoices[i] EXCEPT !.status = st]
    <2>2. /\ inv \in Invoice
          /\ inv.user_id = invoices[i].user_id
          /\ inv.stripe_invoice_id = invoices[i].stripe_invoice_id
      BY <2>1 DEF Invoice
    <2>3. Stays(i, inv)
      BY <2>1, <2>2
    <2> QED BY <1>3, <2>3
  <1>5. CASE InvRefunded
    <2>1. PICK i \in InvIds, refund \in Int :
            /\ invoices[i] # Absent
            /\ invoices' = [invoices EXCEPT ![i] =
                 [invoices[i] EXCEPT
                    !.refunded_cents = invoices[i].refunded_cents + refund,
                    !.status = IF invoices[i].refunded_cents + refund
                                    >= invoices[i].total_cents
                                 THEN "void" ELSE @]]
      BY <1>5 DEF InvRefunded
    <2> DEFINE old == invoices[i]
               sum == old.refunded_cents + refund
               st  == IF sum >= old.total_cents THEN "void" ELSE old.status
               inv == [old EXCEPT !.refunded_cents = sum, !.status = st]
    <2>2. old \in Invoice
      BY <2>1
    <2>3. sum \in Int /\ st \in {"open", "paid", "void"}
      BY <2>2 DEF Invoice
    <2>4. invoices' = [invoices EXCEPT ![i] = inv]
      BY <2>1
    <2> HIDE DEF sum, st
    <2>5. /\ inv \in Invoice
          /\ inv.user_id = old.user_id
          /\ inv.stripe_invoice_id = old.stripe_invoice_id
      BY <2>2, <2>3 DEF Invoice
    <2>6. Stays(i, inv)
      BY <2>1, <2>4, <2>5
    <2> QED BY <1>3, <2>6
  <1> QED BY <1>1, <1>2, <1>4, <1>5 DEF InvStep, InvForgotten

LEMMA WholeNext ==
  ASSUME IInv, IInv', CheckoutIsWhole, Next
  PROVE  CheckoutIsWhole'
  <1>1. CASE Restart
    BY <1>1 DEF Restart, CheckoutIsWhole, Linked, Booked
  <1>2. CASE ~ Restart
    <2>1. /\ \A s \in Sessions : \A x \in Linked(s)' :
               \/ x \in Linked(s) /\ subs'[x].user_id = subs[x].user_id
               \/ Completing(s) /\ subs'[x].user_id = sessions[s].user_id
          /\ \A u \in Users : HasSubscription(u) => HasSubscription(u)'
      BY <1>2, SubKinds, LinkedByCompletion DEF IInv, SubInv
    <2>2. /\ \A s \in Sessions : \A i \in Booked(s)' :
               \/ i \in Booked(s) /\ invoices'[i].user_id = invoices[i].user_id
               \/ Completing(s) /\ invoices'[i].user_id = sessions[s].user_id
          /\ \A s \in Sessions : Booked(s) \subseteq Booked(s)'
      BY <1>2, InvKinds, BookedByCompletion DEF IInv, InvInv
    <2>3. \A s \in Sessions : sessions[s] # Absent => sessions'[s] = sessions[s]
      BY SessionNext DEF IInv, SessionsStay
    <2> SUFFICES ASSUME NEW s \in Sessions, Linked(s)' # {} \/ Booked(s)' # {}
                 PROVE  /\ sessions'[s] # Absent
                        /\ Booked(s)' # {} /\ HasSubscription(sessions[s].user_id)'
                        /\ \A x \in Linked(s)' : subs'[x].user_id = sessions'[s].user_id
                        /\ \A i \in Booked(s)' : invoices'[i].user_id = sessions'[s].user_id
      BY DEF CheckoutIsWhole
    <2>4. CASE ~ Completing(s)
      <3>1. Linked(s) # {} \/ Booked(s) # {}
        BY <2>1, <2>2, <2>4
      <3>2. /\ sessions[s] # Absent
            /\ Booked(s) # {} /\ HasSubscription(sessions[s].user_id)
            /\ \A x \in Linked(s) : subs[x].user_id = sessions[s].user_id
            /\ \A i \in Booked(s) : invoices[i].user_id = sessions[s].user_id
        BY <3>1 DEF CheckoutIsWhole
      <3>3. sessions'[s] = sessions[s] /\ sessions[s].user_id \in Users
        BY <2>3, <3>2 DEF IInv, SessionTypes, Session
      <3>4. HasSubscription(sessions[s].user_id)'
        BY <2>1, <3>2, <3>3 DEF HasSubscription
      <3> QED BY <2>1, <2>2, <2>4, <3>2, <3>3, <3>4
    <2>5. CASE Completing(s)
      <3>1. PICK e \in Events : CheckoutCompleted(e, s)
        BY <2>5 DEF Completing
      <3>2. sessions[s] # Absent /\ sessions' = sessions
        BY <3>1 DEF CheckoutCompleted
      <3>3. Booked(s)' # {} /\ HasSubscription(sessions[s].user_id)'
        BY <3>1, CheckoutIsHonoured DEF Buyer
      <3>4. ASSUME NEW x \in Linked(s)'
            PROVE  subs'[x].user_id = sessions[s].user_id
        BY <2>1 DEF CheckoutIsWhole
      <3>5. ASSUME NEW i \in Booked(s)'
            PROVE  invoices'[i].user_id = sessions[s].user_id
        BY <2>2 DEF CheckoutIsWhole
      <3> QED BY <3>2, <3>3, <3>4, <3>5
    <2> QED BY <2>4, <2>5
  <1> QED BY <1>1, <1>2

\* However handlers fail, events repeat and the store is lost, a checkout has
\* both its invoice and a subscription of its buyer, or neither of them.
THEOREM CheckoutsAreWhole == Spec => []CheckoutIsWhole
  <1>1. Init => CheckoutIsWhole
    BY DEF Init, CheckoutIsWhole, Linked, Booked
  <1>2. IInv /\ IInv' /\ CheckoutIsWhole /\ [Next]_vars => CheckoutIsWhole'
    <2>1. CASE UNCHANGED vars
      BY <2>1 DEF vars, subVars, invVars, CheckoutIsWhole, Linked, Booked, HasSubscription
    <2> QED BY <2>1, WholeNext
  <1> QED BY <1>1, <1>2, Invariance, PTL DEF Spec
=============================================================================
