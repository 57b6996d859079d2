----------------------------- MODULE MCBilling -----------------------------
(* Small instances of Billing. *)
EXTENDS Billing, TLC

MCNoFees == {[gross \in Amount |-> 0]}

\* A plan whose first period and whose cycle are one unit of time.
MCTerms == {<<1, 1>>}

Rows == Permutations(Direct) \cup Permutations(Sales \ Direct) \cup Permutations(Payments)

----------------------------------------------------------------------------
(* Claims of the documents the code does not meet.  No configuration of    *)
(* this directory checks them; BillingCore.cfg refutes each, the fourth    *)
(* with Openings = {o1}, the last with Quantities = {1, 2}.                *)

\* docs/renewals.md: a renewal is the next charge of its subscription, and
\* paying it moves the subscription on to the renewal's period.
PaymentAdvancesPeriod ==
  [][\A s \in Sales, k \in Cycle :
       ren[s][k].st # "PAID" /\ ren'[s][k].st = "PAID" => sub'[s].end > sub[s].end]_billingVars

\* docs/renewals.md: only a renewal that was not paid is cancelled.
PaidIsNotCancelled ==
  [][\A s \in Sales, k \in Cycle : ren[s][k].st = "PAID" => ren'[s][k].st = "PAID"]_billingVars

\* docs/renewals.md: from-subscription creates a pending renewal: an active
\* subscription has an open renewal or can still be given one.
AlwaysRenewable ==
  \A s \in Sales : LiveSub(s) /\ sub[s].st = "ACTIVE" /\ sub[s].end \in Cycle =>
    \/ \E k \in Cycle : Open(s, k)
    \/ ren[s][sub[s].end].st = "NONE"

\* docs/subscriptions.md: a subscription is created from a sale that is
\* CONFIRMED or FULFILLED.
OpenedOnBillableSale ==
  [][\A s \in Sales : sub[s].st = "NONE" /\ sub'[s].st # "NONE" => Billable(s)']_billingVars

\* docs/renewals.md: paying an open renewal creates a confirmed sale, that
\* is the sale passes the checks of its table.
RenewalIsPayable ==
  \A s \in Sales, k \in Cycle : Open(s, k) => Divides(ren[s][k].amount, sub[s].quantity)
============================================================================
