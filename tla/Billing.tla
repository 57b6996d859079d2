------------------------------ MODULE Billing ------------------------------
(***************************************************************************)
(* Subscriptions and renewals, composed with the sales and payments of     *)
(* SalesPayments.  A confirmed sale opens the subscription of its          *)
(* recurring line with a first renewal; paying a renewal writes a new      *)
(* confirmed sale with its payment, moves the period of the subscription   *)
(* and schedules the next renewal, all in one transaction that locks the   *)
(* renewal and the subscription.  Handlers of SalesPayments that also      *)
(* write subscriptions or renewals are here conjoined with that part.      *)
(*                                                                         *)
(* Every sale has one line and it is recurring, so a subscription is named *)
(* by its sale.  Dates are counted from the start of the subscription, in  *)
(* a unit that divides every duration; a due date never forbids a step in  *)
(* the end, so the wall clock is left out.  A renewal is named by its      *)
(* subscription and the period start its cycleKey was built from.          *)
(***************************************************************************)
EXTENDS SalesPayments

CONSTANTS
  Direct,     \* rows of "Sale" that users create; renewals write the others
  Terms,      \* <<length of the first period, billing cycle>> of a plan
  Durations,  \* durations PATCH /sales/:id accepts for a confirmed sale
  Quantities, \* quantities of a recurring line
  Openings,   \* POST /subscriptions/from-sale-item/:id requests
  Horizon     \* bound on the period starts explored

Length == Nat \ {0}

ASSUME TermsAssumption ==
  /\ Direct \subseteq Sales
  /\ Terms \subseteq Length \X Length
  /\ Durations \subseteq Length
  /\ Quantities \subseteq Length
  /\ Horizon \in Nat

VARIABLES
  sub,      \* the Subscription row of each sale's line
  ren,      \* the Renewal rows, by subscription and cycleKey
  opening   \* the sale each from-sale-item request found billable

recurring   == <<sub, ren, opening>>
billingVars == <<sale, payment, stock, tracked, moved, fee, request, sub, ren, opening>>

Cycle == 0..Horizon

SubStatus == {"NONE", "PENDING", "ACTIVE", "SUSPENDED", "EXPIRED", "CANCELLED"}
RenStatus == {"NONE", "PENDING", "DUE", "PAID", "CANCELLED"}

SubRow == [st : SubStatus, deleted : BOOLEAN, start : Nat, end : Nat,
           cycle : Nat, amount : Amount, quantity : Nat]
RenRow == [st : RenStatus, deleted : BOOLEAN, source : Sales \cup {NoSale},
           start : Nat, end : Nat, amount : Amount, sale : Sales \cup {NoSale}]

BillingTypeOK ==
  /\ TypeOK
  /\ sub \in [Sales -> SubRow]
  /\ ren \in [Sales -> [Cycle -> RenRow]]
  /\ opening \in [Openings -> Sales \cup {NoSale}]

----------------------------------------------------------------------------
LiveSub(s) == sub[s].st # "NONE" /\ ~sub[s].deleted
Ended(s)   == sub[s].deleted \/ sub[s].st \in {"CANCELLED", "EXPIRED"}

LiveRen(s, k) == ren[s][k].st # "NONE" /\ ~ren[s][k].deleted
Open(s, k)    == LiveRen(s, k) /\ ren[s][k].st \in {"PENDING", "DUE"}

NewSub(term, amount, quantity) ==
  [st |-> "PENDING", deleted |-> FALSE, start |-> 0, end |-> term[1],
   cycle |-> term[2], amount |-> amount, quantity |-> quantity]

NewRen(source, start, end, amount) ==
  [st |-> "PENDING", deleted |-> FALSE, source |-> source, start |-> start,
   end |-> end, amount |-> amount, sale |-> NoSale]

\* The price of one unit, rounded to cents by the column that stores it.
UnitPrice(amount, quantity) == (2 * amount + quantity) \div (2 * quantity)

\* The CHECK on SaleItem: its total is quantity times unit price.
Divides(amount, quantity) == quantity * UnitPrice(amount, quantity) = amount

----------------------------------------------------------------------------
(* The part of the sale handlers that writes subscriptions and renewals.   *)

\* ensureSubscriptionsForSale: the first renewal is keyed by the period that
\* the sale itself covers.
StartSubscription(s, amount, term, quantity) ==
  /\ UNCHANGED opening
  /\ IF sub[s].st # "NONE"
       THEN UNCHANGED <<sub, ren>>
       ELSE /\ sub' = [sub EXCEPT ![s] = NewSub(term, amount, quantity)]
            /\ ren' = [ren EXCEPT ![s][0] = NewRen(s, 0, term[1], amount)]

SellConfirmed(s, total, cart, term, quantity) ==
  /\ CreateConfirmed(s, total, cart)
  /\ StartSubscription(s, total, term, quantity)

SellPaid(s, total, cart, p, gross, m, term, quantity) ==
  /\ CreatePaid(s, total, cart, p, gross, m)
  /\ StartSubscription(s, total, term, quantity)

ConfirmSale(s, term, quantity) ==
  /\ \/ ConfirmUnpaid(s)
     \/ \E p \in Payments, gross \in 1..MaxAmount, m \in Methods : ConfirmPaid(s, p, gross, m)
  /\ StartSubscription(s, sale[s].total, term, quantity)

\* PATCH /sales/:id with subscriptionDurationDays after the confirmation:
\* the period of the subscription and of its pending renewals are rewritten,
\* their cycle keys are not.
ChangeDuration(s, d) ==
  /\ Billable(s)
  /\ LiveSub(s)
  /\ sub' = [sub EXCEPT ![s].end = d]
  /\ ren' = [ren EXCEPT ![s] = [k \in Cycle |->
       IF LiveRen(s, k) /\ @[k].st = "PENDING"
         THEN [@[k] EXCEPT !.start = 0, !.end = d]
         ELSE @[k]]]
  /\ UNCHANGED opening /\ UNCHANGED vars

\* Mutant of CloseRenewals: a renewal that is already due stays open.
CloseOnlyPending(s) ==
  ren' = [t \in Sales |-> [k \in Cycle |->
    IF LiveRen(t, k) /\ ren[t][k].source = s /\ ren[t][k].st = "PENDING"
      THEN [ren[t][k] EXCEPT !.st = "CANCELLED", !.deleted = TRUE]
      ELSE ren[t][k]]]

\* The renewals DELETE /sales/:id closes with the sale that is their source.
CloseRenewals(s) ==
  ren' = [t \in Sales |-> [k \in Cycle |->
    IF LiveRen(t, k) /\ ren[t][k].source = s
      THEN [ren[t][k] EXCEPT !.st = "CANCELLED", !.deleted = TRUE]
      ELSE ren[t][k]]]

\* Mutant of RemoveSale: the subscription is left to run.
RemoveSaleOnly(s) ==
  /\ Remove(s)
  /\ CloseRenewals(s)
  /\ UNCHANGED <<sub, opening>>

RemoveSale(s) ==
  /\ Remove(s)
  /\ CloseRenewals(s)
  /\ sub' = IF LiveSub(s) THEN [sub EXCEPT ![s].st = "CANCELLED", ![s].deleted = TRUE]
                          ELSE sub
  /\ UNCHANGED opening

----------------------------------------------------------------------------
(* Subscriptions.                                                          *)

\* SubscriptionsService.transition, and the activation of a service, which
\* moves its subscription the same way.
MoveSub(s, from, to) ==
  /\ LiveSub(s)
  /\ sub[s].st \in from
  /\ sub' = [sub EXCEPT ![s].st = to]
  /\ UNCHANGED <<ren, opening>> /\ UNCHANGED vars

Activate(s)  == MoveSub(s, {"PENDING", "SUSPENDED"}, "ACTIVE")
Suspend(s)   == MoveSub(s, {"ACTIVE"}, "SUSPENDED")
Expire(s)    == MoveSub(s, {"ACTIVE", "SUSPENDED"}, "EXPIRED")
CancelSub(s) == MoveSub(s, {"PENDING", "ACTIVE", "SUSPENDED"}, "CANCELLED")

\* SubscriptionsService.createFromSaleItem locks the line and reads the
\* status of its sale without a lock ...
SubmitOpening(o, s) ==
  /\ opening[o] = NoSale
  /\ \A x \in Openings : opening[x] # s  \* the lock on the line
  /\ sub[s].st = "NONE"
  /\ Billable(s)
  /\ opening' = [opening EXCEPT ![o] = s]
  /\ UNCHANGED <<sub, ren>> /\ UNCHANGED vars

\* ... and then inserts the subscription, with no renewal.
InsertOpening(o, term, quantity) ==
  LET s == opening[o]
  IN  /\ s # NoSale
      /\ sub' = [sub EXCEPT ![s] = NewSub(term, sale[s].total, quantity)]
      /\ opening' = [opening EXCEPT ![o] = NoSale]
      /\ UNCHANGED ren /\ UNCHANGED vars

----------------------------------------------------------------------------
(* Renewals.                                                               *)

\* RenewalsService.createFromSubscription, when it creates: an existing row,
\* open or not, deleted or not, is returned as it is.
RequestRenewal(s) ==
  LET k == sub[s].end
  IN  /\ LiveSub(s)
      /\ \A j \in Cycle : LiveRen(s, j) => ren[s][j].st # "PENDING"
      /\ ~Ended(s)
      /\ k \in Cycle
      /\ ren[s][k].st = "NONE"
      /\ ren' = [ren EXCEPT ![s][k] = NewRen(s, k, k + sub[s].cycle, sub[s].amount)]
      /\ UNCHANGED <<sub, opening>> /\ UNCHANGED vars

MarkDue(s, k) ==
  /\ LiveRen(s, k)
  /\ ren[s][k].st = "PENDING"
  /\ ren' = [ren EXCEPT ![s][k].st = "DUE"]
  /\ UNCHANGED <<sub, opening>> /\ UNCHANGED vars

CancelRenewal(s, k) ==
  /\ Open(s, k)
  /\ ren' = [ren EXCEPT ![s][k].st = "CANCELLED"]
  /\ UNCHANGED <<sub, opening>> /\ UNCHANGED vars

\* Mutant of Paid: the next renewal is left to be requested.
PaidAlone(s, k, g) == [ren[s] EXCEPT ![k].st = "PAID", ![k].sale = g]

\* The rows of subscription s after renewal k is paid with sale g: the upsert
\* leaves an existing row of the next cycle as it is.
Paid(s, k, g) ==
  LET next  == ren[s][k].end
      rows  == [ren[s] EXCEPT ![k].st = "PAID", ![k].sale = g]
  IN  IF rows[next].st # "NONE" THEN rows
      ELSE [rows EXCEPT ![next] =
              NewRen(g, next, next + sub[s].cycle, ren[s][k].amount)]

\* Mutant of PayRenewal: a retry pays again what was already paid.
PayAgain(s, k, g, cart, p, m) ==
  LET r == ren[s][k]
  IN  /\ LiveRen(s, k) /\ r.st # "CANCELLED"
      /\ LiveSub(s) /\ sub[s].st = "ACTIVE"
      /\ r.end \in Cycle
      /\ CreateRenewalSale(g, r.amount, cart, p, m)
      /\ ren' = [ren EXCEPT ![s] = Paid(s, k, g)]
      /\ sub' = [sub EXCEPT ![s].start = r.start, ![s].end = r.end]
      /\ UNCHANGED opening

\* Mutant of PayRenewal: it does not ask for an ACTIVE subscription.
PayEnded(s, k, g, cart, p, m) ==
  LET r == ren[s][k]
  IN  /\ Open(s, k)
      /\ LiveSub(s)
      /\ r.end \in Cycle
      /\ CreateRenewalSale(g, r.amount, cart, p, m)
      /\ ren' = [ren EXCEPT ![s] = Paid(s, k, g)]
      /\ sub' = [sub EXCEPT ![s].start = r.start, ![s].end = r.end]
      /\ UNCHANGED opening

PayRenewal(s, k, g, cart, p, m) ==
  LET r == ren[s][k]
  IN  /\ Open(s, k)
      /\ LiveSub(s) /\ sub[s].st = "ACTIVE"
      /\ r.end \in Cycle
      /\ Divides(r.amount, sub[s].quantity)
      /\ CreateRenewalSale(g, r.amount, cart, p, m)
      /\ ren' = [ren EXCEPT ![s] = Paid(s, k, g)]
      /\ sub' = [sub EXCEPT ![s].start = r.start, ![s].end = r.end]
      /\ UNCHANGED opening

----------------------------------------------------------------------------
NoSubRow == [st |-> "NONE", deleted |-> FALSE, start |-> 0, end |-> 0,
             cycle |-> 0, amount |-> 0, quantity |-> 0]
NoRenRow == [st |-> "NONE", deleted |-> FALSE, source |-> NoSale,
             start |-> 0, end |-> 0, amount |-> 0, sale |-> NoSale]

BillingInit ==
  /\ Init
  /\ sub = [s \in Sales |-> NoSubRow]
  /\ ren = [s \in Sales |-> [k \in Cycle |-> NoRenRow]]
  /\ opening = [o \in Openings |-> NoSale]

\* Handlers that touch no subscription.
PlainStep ==
  /\ \/ \E s \in Sales :
          \/ \E total \in Amount, cart \in Cart, paidNow \in BOOLEAN :
               s \in Direct /\ CreateDraft(s, total, cart, paidNow)
          \/ \E total \in Amount, paidNow \in BOOLEAN : UpdateDraft(s, total, paidNow)
          \/ Fulfill(s)
          \/ Cancel(s)
     \/ PaymentStep
     \/ CatalogStep
  /\ UNCHANGED recurring

SellStep ==
  \E s \in Direct, term \in Terms, quantity \in Quantities :
    \/ \E total \in Amount, cart \in Cart :
         \/ SellConfirmed(s, total, cart, term, quantity)
         \/ \E p \in Payments, gross \in 1..MaxAmount, m \in Methods :
              SellPaid(s, total, cart, p, gross, m, term, quantity)
    \/ ConfirmSale(s, term, quantity)

SubStep ==
  \/ \E s \in Sales :
       \/ \E d \in Durations : ChangeDuration(s, d)
       \/ RemoveSale(s)
       \/ Activate(s) \/ Suspend(s) \/ Expire(s) \/ CancelSub(s)
  \/ \E o \in Openings :
       \/ \E s \in Sales : SubmitOpening(o, s)
       \/ \E term \in Terms, quantity \in Quantities : InsertOpening(o, term, quantity)

RenewalStep ==
  \E s \in Sales :
    \/ RequestRenewal(s)
    \/ \E k \in Cycle :
         \/ MarkDue(s, k)
         \/ CancelRenewal(s, k)
         \/ \E g \in Sales \ Direct, cart \in Cart, p \in Payments, m \in Methods :
              PayRenewal(s, k, g, cart, p, m)

BillingNext == PlainStep \/ SellStep \/ SubStep \/ RenewalStep

BillingSpec == BillingInit /\ [][BillingNext]_billingVars

----------------------------------------------------------------------------
(* Correctness.                                                            *)

Renewals == Sales \X Cycle
Row(x)   == ren[x[1]][x[2]]

\* A renewal is charged at most once, with one sale of its own for exactly
\* its amount, whatever retries and double clicks race for it; and every
\* sale that charges a subscription answers to a renewal.
ChargedOnce ==
  /\ \A x \in Renewals :
      /\ Row(x).st = "PAID" => Row(x).sale \in Sales
      /\ Row(x).sale \in Sales =>
           /\ sale[Row(x).sale].total = Row(x).amount
           /\ \E p \in Payments : /\ payment[p].sale = Row(x).sale
                                  /\ payment[p].net = Row(x).amount
                                  /\ Settled(p)
           /\ \A y \in Renewals : Row(y).sale = Row(x).sale => y = x
  /\ \A g \in Sales \ Direct : sale[g].st # "NONE" => \E x \in Renewals : Row(x).sale = g

\* The chain of renewals is never broken by a payment: once a renewal is
\* paid, a renewal is on record for the period that follows it.
ChainUnbroken ==
  \A s \in Sales, k \in Cycle : ren[s][k].st = "PAID" => ren[s][ren[s][k].end].st # "NONE"

\* A subscription over a removed sale.
Orphan(s) == LiveSub(s) /\ sale[s].deleted

\* Removing a sale leaves nothing to collect on its account: an open renewal
\* was generated by a sale that stands, or it renews a subscription that a
\* from-sale-item request opened over its sale after the removal.
OpenRenewalHasSource ==
  \A s \in Sales, k \in Cycle : Open(s, k) =>
    \/ Live(ren[s][k].source)
    \/ ren[s][k].source = s /\ Orphan(s)

\* No other order of requests leaves a subscription over a removed sale:
\* only one that read the sale before the removal and inserts after it.
OrphanedOnlyByRace ==
  [][\A s \in Sales : ~Orphan(s) /\ Orphan(s)' => \E o \in Openings : opening[o] = s]_billingVars

\* A subscription that ended is never revived and never charged again,
\* even by requests that race with its end.
EndedIsFinal ==
  [][\A s \in Sales : Ended(s) =>
       /\ Ended(s)'
       /\ \A k \in Cycle : ren'[s][k].st = "PAID" => ren[s][k].st = "PAID"]_billingVars

----------------------------------------------------------------------------
(* What documents and screens say of the program.                          *)

\* ADR-012: a cycle is renewed once, that is no period is paid twice.
PeriodPaidOnce ==
  \A s \in Sales, j, k \in Cycle :
    /\ ren[s][j].st = "PAID"
    /\ ren[s][k].st = "PAID"
    /\ ren[s][j].start = ren[s][k].start
    => j = k

\* The removal dialog: the subscription and the renewals of the sale are
\* cancelled with it.
RemovalClosesRenewals ==
  \A s \in Sales : sale[s].deleted => \A k \in Cycle : ~Open(s, k)
============================================================================
