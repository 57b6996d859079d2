----------------------------- MODULE ReportRows ------------------------------
(***************************************************************************)
(* The rows that the dashboards read, and the steps of the business that   *)
(* change them, as far as a figure can tell.  The handlers themselves, with *)
(* their locks and retries, are those of SalesPayments, Billing,           *)
(* Opportunities and Contacts; a step here is what one of them commits.    *)
(* There is one organisation and one currency.  The clock counts days, and *)
(* a month is MonthDays of them.                                           *)
(***************************************************************************)
EXTENDS Integers, FiniteSets, FiniteSetsExt, Functions

CONSTANTS
  Buyers,     \* rows of "Contact"
  Countries,  \* with NoCountry, which the figures call 'Sin pais'
  NoCountry,
  Sellers,    \* users
  Sales,
  Lines, SaleOf, \* "SaleItem" and the sale of each
  CycleOf,    \* of each line, the "billingCycle" of the subscription it opens
  Names,      \* names a product has had
  Takings, TakenFor, \* "Payment" and the sale of each
  Methods,
  Deals,      \* "Opportunity"
  Ads,        \* "Campaign"
  Deliveries, LineFor, \* "Fulfillment", numbered as they are created, and the line of each
  Providers, NoProvider,
  MonthDays,
  LastDay,    \* bound on the clock
  Price       \* bound on the total of a line

\* A cycle, and the days of it if it is a CUSTOM one, which the database has be some.
BillingCycles ==
  [every : {"TRIAL", "WEEKLY", "MONTHLY", "QUARTERLY", "SEMI_ANNUAL", "ANNUAL", "CUSTOM"}, days : Nat \ {0}]

ASSUME ReportRowsAssumption ==
  /\ NoCountry \in Countries /\ Names # {}
  /\ SaleOf \in [Lines -> Sales] /\ CycleOf \in [Lines -> BillingCycles] /\ TakenFor \in [Takings -> Sales]
  /\ Deliveries \subseteq Nat /\ LineFor \in [Deliveries -> Lines] /\ NoProvider \in Providers
  /\ MonthDays \in Nat \ {0} /\ LastDay \in Nat /\ Price \in Nat
  /\ IsFiniteSet(Buyers) /\ IsFiniteSet(Countries) /\ IsFiniteSet(Sellers) /\ IsFiniteSet(Sales)
  /\ IsFiniteSet(Lines) /\ IsFiniteSet(Names) /\ IsFiniteSet(Takings) /\ IsFiniteSet(Methods)
  /\ IsFiniteSet(Deals) /\ IsFiniteSet(Ads) /\ IsFiniteSet(Deliveries)

VARIABLES
  today,
  buyer,    \* live: not removed; made: createdAt; customer: isCustomer
  deal,     \* "Opportunity": archived or not, it has no deletedAt
  sale,     \* sold: soldAt; extra: the tax less the discount of the sale as a whole
  sub,      \* "Subscription" of a line: its contact, its status, the day it starts and the day it ends
  line,     \* name: productNameSnapshot, the name the product had
  taking,   \* net: netAmount; back: refundedAmount; lost: the commission
  delivery, \* "Fulfillment": its provider and the day of its activation; a line may have several
  name,     \* the name that the product has now
  serving   \* whether the status of each seller is ACTIVE

rowVars == <<today, buyer, deal, sale, sub, line, taking, delivery, name, serving>>

Days == 0 .. LastDay
Unset == -1
Void == "none"

NoBuyer == [state |-> Void, country |-> NoCountry, made |-> Unset, customer |-> FALSE]
NoDeal == [state |-> Void, of |-> {}, by |-> {}, ad |-> {}, stage |-> "POTENTIAL_BUYER", made |-> Unset]
NoSaleYet == [status |-> Void, of |-> {}, by |-> {}, deal |-> {}, made |-> Unset, sold |-> Unset, extra |-> 0]
NoSub == [status |-> Void, of |-> {}, starts |-> Unset, ends |-> Unset]
NoTaking == [status |-> Void, net |-> 0, lost |-> 0, back |-> 0, method |-> {}, day |-> Unset]
NoDelivery == [state |-> Void, by |-> NoProvider, active |-> Unset]

Exists(row) == row.state # Void
Live(row) == row.state = "live"

Billed == {s \in Sales : sale[s].status \in {"CONFIRMED", "FULFILLED"}}

\* SUM(expr) over the rows of a set.
SumOf(S, amount(_)) == SumFunctionOnSet([x \in S |-> amount(x)], S)

LinesOf(s) == {l \in Lines : SaleOf[l] = s /\ line[l].total > 0}
LineTotal(l) == line[l].total
Subtotal(s) == SumOf(LinesOf(s), LineTotal)
Total(s) == Subtotal(s) + sale[s].extra

\* What a sale holds, as its own service counts it.
HeldFor(s) ==
  LET Held(t) == taking[t].net - taking[t].back
  IN SumOf({t \in Takings : TakenFor[t] = s /\ taking[t].status \in {"CONFIRMED", "REFUNDED"}}, Held)

----------------------------------------------------------------------------
Tomorrow ==
  /\ today < LastDay
  /\ today' = today + 1
  /\ UNCHANGED <<buyer, deal, sale, sub, line, taking, delivery, name, serving>>

AddBuyer(b, country) ==
  /\ buyer[b].state = Void
  /\ buyer' = [buyer EXCEPT ![b] = [state |-> "live", country |-> country, made |-> today, customer |-> FALSE]]
  /\ UNCHANGED <<today, deal, sale, sub, line, taking, delivery, name, serving>>

EditCountry(b, country) ==
  /\ Live(buyer[b])
  /\ buyer' = [buyer EXCEPT ![b].country = country]
  /\ UNCHANGED <<today, deal, sale, sub, line, taking, delivery, name, serving>>

SalesTo(b) == {s \in Sales : sale[s].status \notin {Void, "removed"} /\ sale[s].of = {b}}

\* A contact with a sale is not removed; its opportunities stay.
RemoveBuyer(b) ==
  /\ Live(buyer[b])
  /\ SalesTo(b) = {}
  /\ buyer' = [buyer EXCEPT ![b].state = "removed"]
  /\ UNCHANGED <<today, deal, sale, sub, line, taking, delivery, name, serving>>

OpenDeal(d, b, u, ads) ==
  /\ deal[d].state = Void
  /\ Live(buyer[b])
  /\ Cardinality(ads) <= 1
  /\ deal' = [deal EXCEPT ![d] = [state |-> "live", of |-> {b}, by |-> {u}, ad |-> ads,
                                  stage |-> "POTENTIAL_BUYER", made |-> today]]
  /\ UNCHANGED <<today, buyer, sale, sub, line, taking, delivery, name, serving>>

ArchiveDeal(d) ==
  /\ Live(deal[d])
  /\ deal' = [deal EXCEPT ![d].state = "archived"]
  /\ UNCHANGED <<today, buyer, sale, sub, line, taking, delivery, name, serving>>

\* A draft, by itself or of an opportunity of the buyer, with the lines it names.
\* The contact is read without a lock, so it may have been removed meanwhile.
DraftSale(s, b, u, ds, totals, extra) ==
  /\ sale[s].status = Void
  /\ Exists(buyer[b])
  /\ ds \in {{}} \cup {{d} : d \in {e \in Deals : Exists(deal[e]) /\ deal[e].of = {b}}}
  /\ \A t \in Sales : sale[t].status \notin {Void, "removed", "CANCELLED"} => sale[t].deal \cap ds = {}
  /\ \E l \in Lines : SaleOf[l] = s /\ totals[l] > 0
  /\ line' = [l \in Lines |-> IF SaleOf[l] = s THEN [total |-> totals[l], name |-> name] ELSE line[l]]
  /\ sale' = [sale EXCEPT ![s] = [status |-> "DRAFT", of |-> {b}, by |-> {u}, deal |-> ds,
                                  made |-> today, sold |-> Unset, extra |-> extra]]
  /\ Total(s)' >= 0
  /\ UNCHANGED <<today, buyer, deal, sub, taking, delivery, name, serving>>

SubsOf(s) == {l \in LinesOf(s) : sub[l].status \notin {Void, "removed"}}

\* The opportunity is won and its contact a customer; a sale without one leaves
\* the contact as it is.  Every line recurs and opens a subscription.
ConfirmSale(s) ==
  /\ sale[s].status = "DRAFT"
  /\ sale' = [sale EXCEPT ![s].status = "CONFIRMED", ![s].sold = today]
  /\ sub' = [l \in Lines |-> IF l \in LinesOf(s)
                             THEN [status |-> "PENDING", of |-> sale[s].of, starts |-> today, ends |-> Unset]
                             ELSE sub[l]]
  /\ deal' = [d \in Deals |-> IF d \in sale[s].deal THEN [deal[d] EXCEPT !.stage = "PURCHASED"] ELSE deal[d]]
  /\ buyer' = [b \in Buyers |-> IF b \in sale[s].of /\ sale[s].deal # {}
                                THEN [buyer[b] EXCEPT !.customer = TRUE] ELSE buyer[b]]
  /\ UNCHANGED <<today, line, taking, delivery, name, serving>>

\* The correction of a confirmed sale: its contact, which its subscriptions
\* follow, and its date, which may be erased.
CorrectSale(s, b, sold) ==
  /\ s \in Billed
  /\ Exists(buyer[b])
  /\ sold \in {Unset, sale[s].sold} \cup (0 .. today)
  /\ sale' = [sale EXCEPT ![s].of = {b}, ![s].sold = sold]
  /\ sub' = [l \in Lines |-> IF l \in SubsOf(s) THEN [sub[l] EXCEPT !.of = {b}] ELSE sub[l]]
  /\ UNCHANGED <<today, buyer, deal, line, taking, delivery, name, serving>>

ActivateSub(l) ==
  /\ sub[l].status = "PENDING" /\ SaleOf[l] \in Billed
  /\ sub' = [sub EXCEPT ![l].status = "ACTIVE"]
  /\ UNCHANGED <<today, buyer, deal, sale, line, taking, delivery, name, serving>>

EndSub(l) ==
  /\ sub[l].status \in {"PENDING", "ACTIVE"}
  /\ sub' = [sub EXCEPT ![l].status = "CANCELLED", ![l].ends = today]
  /\ UNCHANGED <<today, buyer, deal, sale, line, taking, delivery, name, serving>>

\* The cancellation leaves the subscriptions as they are, the removal does not.
CancelSale(s) ==
  /\ sale[s].status \in {"DRAFT", "CONFIRMED"}
  /\ HeldFor(s) <= 0
  /\ sale' = [sale EXCEPT ![s].status = "CANCELLED"]
  /\ UNCHANGED <<today, buyer, deal, sub, line, taking, delivery, name, serving>>

RemoveSale(s) ==
  /\ sale[s].status \notin {Void, "removed"}
  /\ HeldFor(s) <= 0
  /\ sale' = [sale EXCEPT ![s].status = "removed"]
  /\ sub' = [l \in Lines |-> IF l \in SubsOf(s) THEN [sub[l] EXCEPT !.status = "removed"] ELSE sub[l]]
  /\ UNCHANGED <<today, buyer, deal, line, taking, delivery, name, serving>>

\* A payment that is confirmed, with its commission, and what of it is given back.
Take(t, m, net, lost) ==
  LET s == TakenFor[t]
  IN
  /\ taking[t].status = Void
  /\ s \in Billed
  /\ net + lost > 0 /\ net <= Total(s) - HeldFor(s)
  /\ taking' = [taking EXCEPT ![t] = [status |-> "CONFIRMED", net |-> net, lost |-> lost, back |-> 0,
                                      method |-> {m}, day |-> today]]
  /\ UNCHANGED <<today, buyer, deal, sale, sub, line, delivery, name, serving>>

GiveBack(t, amount) ==
  /\ taking[t].status \in {"CONFIRMED", "REFUNDED"}
  /\ amount <= taking[t].net - taking[t].back
  /\ taking' = [taking EXCEPT ![t].status = "REFUNDED", ![t].back = @ + amount]
  /\ UNCHANGED <<today, buyer, deal, sale, sub, line, delivery, name, serving>>

\* A line is delivered once by itself and once for each subscription it opened,
\* by a provider or not yet by any.
Deliver(f, provider) ==
  LET l == LineFor[f]
  IN
  /\ delivery[f].state = Void
  /\ \A g \in Deliveries : g < f => Exists(delivery[g])
  /\ SaleOf[l] \in Billed /\ line[l].total > 0
  /\ delivery' = [delivery EXCEPT ![f] = [state |-> "live", by |-> provider, active |-> Unset]]
  /\ UNCHANGED <<today, buyer, deal, sale, sub, line, taking, name, serving>>

Activate(f) ==
  /\ Exists(delivery[f]) /\ delivery[f].active = Unset
  /\ delivery' = [delivery EXCEPT ![f].active = today]
  /\ UNCHANGED <<today, buyer, deal, sale, sub, line, taking, name, serving>>

\* A product is renamed: the lines keep the name they were sold under.
RenameProduct(n) ==
  /\ name # n
  /\ name' = n
  /\ UNCHANGED <<today, buyer, deal, sale, sub, line, taking, delivery, serving>>

\* A user is switched off or on again: no service does, the database is told to; what
\* the user had asked for by then may still be done.
SwitchUser(u) ==
  /\ serving' = [serving EXCEPT ![u] = ~@]
  /\ UNCHANGED <<today, buyer, deal, sale, sub, line, taking, delivery, name>>

RowsInit ==
  /\ today = 0
  /\ buyer = [b \in Buyers |-> NoBuyer]
  /\ deal = [d \in Deals |-> NoDeal]
  /\ sale = [s \in Sales |-> NoSaleYet]
  /\ sub = [l \in Lines |-> NoSub]
  /\ taking = [t \in Takings |-> NoTaking]
  /\ delivery = [f \in Deliveries |-> NoDelivery]
  /\ name = CHOOSE n \in Names : TRUE
  /\ serving = [u \in Sellers |-> TRUE]
  /\ line = [l \in Lines |-> [total |-> 0, name |-> name]]

\* Any amounts; the parts of MCReports take small ones.
RowsNext ==
  \/ Tomorrow
  \/ \E b \in Buyers : RemoveBuyer(b) \/ \E k \in Countries : AddBuyer(b, k) \/ EditCountry(b, k)
  \/ \E d \in Deals : \/ ArchiveDeal(d)
                      \/ \E b \in Buyers, u \in Sellers, ads \in SUBSET Ads : OpenDeal(d, b, u, ads)
  \/ \E s \in Sales, b \in Buyers :
       \/ \E u \in Sellers, ds \in SUBSET Deals, totals \in [Lines -> Nat], extra \in Int :
            DraftSale(s, b, u, ds, totals, extra)
       \/ \E sold \in Days \cup {Unset} : CorrectSale(s, b, sold)
  \/ \E s \in Sales : ConfirmSale(s) \/ CancelSale(s) \/ RemoveSale(s)
  \/ \E l \in Lines : ActivateSub(l) \/ EndSub(l)
  \/ \E t \in Takings : \/ \E m \in Methods, net \in Nat, lost \in Nat : Take(t, m, net, lost)
                        \/ \E amount \in Nat \ {0} : GiveBack(t, amount)
  \/ \E f \in Deliveries : Activate(f) \/ \E p \in Providers : Deliver(f, p)
  \/ \E n \in Names : RenameProduct(n)
  \/ \E u \in Sellers : SwitchUser(u)
=============================================================================
