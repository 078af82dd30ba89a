----------------------------- MODULE MCBilling -----------------------------
(***************************************************************************)
(* The instance of Billing that TLC checks: three plans of plans.py in     *)
(* their order, with prices in units small enough to refund piece by       *)
(* piece.                                                                  *)
(***************************************************************************)
EXTENDS Billing, TLC

MCTier  == [p \in Plans |-> CASE p = "free" -> 0 [] p = "starter" -> 1 [] OTHER -> 2]
MCPrice == [p \in Plans |-> CASE p = "free" -> 0 [] p = "starter" -> 1 [] OTHER -> 2]

\* A configuration file has no negative numbers.
MCRefunds == {-1, 0, 1}

\* Identifiers are opaque to every handler: none is compared but for equality.
Symm == Permutations(Users) \cup Permutations(SubIds) \cup Permutations(InvIds)
          \cup Permutations(Sessions) \cup Permutations(Events)

\* Cards and the rest of the store share nothing but the customers, so the
\* run follows them separately: no card is touched once anything was bought.
CardsApart ==
  \/ \A u \in Users : added[u] = 0
  \/ sessions = [s \in Sessions |-> Absent] /\ \A u \in Users : ~ HasSubscription(u)

\* One record, a refunded invoice or a subscription no longer as created, is
\* enough to mistake it for another one's, or its user for another.
AsCreated(sub) ==
  \E st \in {"trialing", "active"} :
    sub = NewSubscription(sub.user_id, sub.plan_id, st, sub.stripe_subscription_id)

OneMoves ==
  Cardinality({i \in InvIds : refundLog[i] # 0})
    + Cardinality({x \in SubIds : subs[x] # Absent /\ ~ AsCreated(subs[x])}) <= 1

=============================================================================
