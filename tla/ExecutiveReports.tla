-------------------------- MODULE ExecutiveReports ---------------------------
(***************************************************************************)
(* The figures of the executive dashboard, of business intelligence and of *)
(* the page of a customer.  Each is one query over the rows of ReportRows; *)
(* a range is half open.  The filters kept are country, seller and         *)
(* campaign; figures are grouped by whatever names the row of the answer,  *)
(* and a group of nothing, which the answer leaves out, is a zero here.  A  *)
(* table has a hundred rows at most, and is taken to fit them.             *)
(***************************************************************************)
EXTENDS ReportRows

CONSTANTS
  AnyOne,  \* the filter that was not given
  PageTake \* how many sales the page of a customer takes in: take, which is a hundred

ASSUME ExecutiveAssumption == PageTake \in Nat \ {0}

WhenSold(s) == IF sale[s].sold = Unset THEN sale[s].made ELSE sale[s].sold
In(day, range) == range.from <= day /\ day < range.to
MonthOf(day) == day \div MonthDays
MonthRange(day) == [from |-> MonthDays * MonthOf(day), to |-> MonthDays * (MonthOf(day) + 1)]

CountryOf(s) == {buyer[b].country : b \in sale[s].of}
AdsOf(s) == UNION {deal[d].ad : d \in sale[s].deal}
Asked(values, filter) == filter = AnyOne \/ filter \in values

salesFilters(q) ==
  {s \in Billed : /\ Asked(CountryOf(s), q.country)
                  /\ Asked(sale[s].by, q.seller)
                  /\ Asked(AdsOf(s), q.ad)}

SoldIn(range, q) == {s \in salesFilters(q) : In(WhenSold(s), range)}

salesMoney(range, q) == SumOf(SoldIn(range, q), Total)

ReceivedIn(range, q) ==
  {t \in Takings : /\ taking[t].status \in {"CONFIRMED", "REFUNDED"}
                   /\ TakenFor[t] \in salesFilters(q)
                   /\ In(taking[t].day, range)}
Received(t) == taking[t].net - taking[t].back

paymentMoney(range, q) == SumOf(ReceivedIn(range, q), Received)

paymentMethods(range, q) ==
  [m \in Methods |-> SumOf({t \in ReceivedIn(range, q) : taking[t].method = {m}}, Received)]

ActiveSubs == {l \in Lines : sub[l].status = "ACTIVE"}
mrr(q) == SumOf({l \in ActiveSubs : \E b \in sub[l].of : q.country \in {AnyOne, buyer[b].country}}, LineTotal)

\* What is left of each sale: the payments that were refunded, if only in part,
\* do not count, and what counts does so before its commission.
paidGross(s) ==
  LET Gross(t) == taking[t].net + taking[t].lost - taking[t].back
  IN SumOf({t \in Takings : TakenFor[t] = s /\ taking[t].status = "CONFIRMED"}, Gross)
Pending(s) == IF Total(s) > paidGross(s) THEN Total(s) - paidGross(s) ELSE 0
pendingBalance(q) == SumOf(salesFilters(q), Pending)

revenueDaily(range, q) ==
  [d \in Days |-> SumOf({s \in SoldIn(range, q) : WhenSold(s) = d}, Total)]

\* The twelve months up to the one of a day.
revenueMonthly(day, q) ==
  [m \in (MonthOf(day) - 11) .. MonthOf(day) |-> SumOf({s \in salesFilters(q) : MonthOf(WhenSold(s)) = m}, Total)]

\* Mutant of FromCountry: contacts that were removed are left out of the join.
FromLiveCountry(s, country) == \E b \in sale[s].of : Live(buyer[b]) /\ buyer[b].country = country

FromCountry(s, country) == CountryOf(s) = {country}

\* The charts by country and by product take no other filter.
AllSoldIn(range) == {s \in Billed : In(WhenSold(s), range)}

salesByCountry(range, q) ==
  [k \in Countries |-> IF q.country \in {AnyOne, k}
                       THEN SumOf({s \in AllSoldIn(range) : FromCountry(s, k)}, Total) ELSE 0]

LinesIn(range) == UNION {LinesOf(s) : s \in AllSoldIn(range)}
salesByProduct(range) ==
  [n \in Names |-> SumOf({l \in LinesIn(range) : line[l].name = n}, LineTotal)]

DealsIn(range) == {d \in Deals : Exists(deal[d]) /\ In(deal[d].made, range)}

funnel(range, q) ==
  [c \in {"POTENTIAL_BUYER", "PURCHASED"} |->
    Cardinality({d \in DealsIn(range) : /\ deal[d].stage = c
                                        /\ \E b \in deal[d].of : q.country \in {AnyOne, buyer[b].country}})]

generalConversion(range) ==
  [total |-> Cardinality(DealsIn(range)),
   won |-> Cardinality({d \in DealsIn(range) : deal[d].stage = "PURCHASED"})]

newCustomers(range) == Cardinality({b \in Buyers : Live(buyer[b]) /\ In(buyer[b].made, range)})
activeCustomers == Cardinality({b \in Buyers : Live(buyer[b]) /\ buyer[b].customer})

\* Cards, and the charts beside them; the statements do not share a snapshot.
dashboard(range, today0, q) ==
  [salesToday |-> salesMoney([from |-> today0, to |-> range.to], q),
   salesMonth |-> salesMoney(MonthRange(today0), q),
   billingMonth |-> paymentMoney(MonthRange(today0), q),
   mrr |-> mrr(q),
   activeCustomers |-> activeCustomers,
   newCustomers |-> newCustomers(MonthRange(today0)),
   pendingBalance |-> pendingBalance(q),
   revenueDaily |-> revenueDaily(range, q),
   revenueMonthly |-> revenueMonthly(today0, q),
   salesCountry |-> salesByCountry(range, q),
   salesProduct |-> salesByProduct(range),
   funnel |-> funnel(range, q),
   paymentMethods |-> paymentMethods(range, q),
   conversion |-> generalConversion(range)]

----------------------------------------------------------------------------
(* Business intelligence.                                                  *)

countries(range) ==
  [k \in Countries |->
    [leads |-> Cardinality({b \in Buyers : Live(buyer[b]) /\ buyer[b].country = k /\ In(buyer[b].made, range)}),
     opportunities |-> Cardinality({d \in DealsIn(range) : \E b \in deal[d].of : buyer[b].country = k}),
     sales |-> Cardinality({s \in AllSoldIn(range) : FromCountry(s, k)}),
     revenue |-> SumOf({s \in AllSoldIn(range) : FromCountry(s, k)}, Total),
     mrr |-> SumOf({l \in ActiveSubs : \E b \in sub[l].of : buyer[b].country = k}, LineTotal)]]

\* The deliveries are joined too, so each repeats the units and the total of its line.
products(range) ==
  LET Joined(l) == LET n == Cardinality({f \in Deliveries : LineFor[f] = l /\ Exists(delivery[f])})
                   IN LineTotal(l) * (IF n = 0 THEN 1 ELSE n)
  IN [n \in Names |-> SumOf({l \in LinesIn(range) : line[l].name = n}, Joined)]

\* Opportunities that came in, sales that came of them whenever they did.
campaigns(range) ==
  [a \in Ads |->
    [leads |-> Cardinality({d \in DealsIn(range) : deal[d].ad = {a}}),
     sales |-> Cardinality({s \in AllSoldIn(range) : AdsOf(s) = {a}}),
     revenue |-> SumOf({s \in AllSoldIn(range) : AdsOf(s) = {a}}, Total)]]

\* Of the users who are active, whoever sold.
sellers(range) ==
  [u \in {u \in Sellers : serving[u]} |->
    [leads |-> Cardinality({d \in DealsIn(range) : deal[d].by = {u}}),
     sales |-> Cardinality({s \in AllSoldIn(range) : sale[s].by = {u}}),
     revenue |-> SumOf({s \in AllSoldIn(range) : sale[s].by = {u}}, Total)]]

\* The newest sales of a set, as many as a page takes; the clock does not tell apart
\* those of one day.
Newest(S) ==
  IF Cardinality(S) <= PageTake THEN S
  ELSE CHOOSE N \in SUBSET S : /\ Cardinality(N) = PageTake
                               /\ \A s \in N, t \in S \ N : sale[t].made <= sale[s].made

\* The pages of the customers: a contact that was removed is not found.  What is
\* pending takes in drafts and cancelled sales.
customer360 ==
  [b \in {b \in Buyers : Live(buyer[b])} |->
    LET bought == Newest(SalesTo(b))
    IN [ltv |-> SumOf(bought \cap Billed, Total),
        mrr |-> SumOf({l \in ActiveSubs : sub[l].of = {b}}, LineTotal),
        pending |-> SumOf(bought, Pending)]]

----------------------------------------------------------------------------
(* Correctness.                                                            *)

Everything == [country |-> AnyOne, seller |-> AnyOne, ad |-> AnyOne]
Always == [from |-> 0, to |-> LastDay + 1]
LastMonths == [from |-> MonthDays * (MonthOf(LastDay) - 11), to |-> MonthDays * (MonthOf(LastDay) + 1)]
SumOver(f) == SumFunction(f)

\* The pages that take in all that their customer bought, and what is on none of them.
WholePages == {b \in DOMAIN customer360 : Cardinality(SalesTo(b)) <= PageTake}
OffPages == {s \in Billed : sale[s].of \cap WholePages = {}}
Unpaged == {l \in ActiveSubs : sub[l].of \cap DOMAIN customer360 = {}}

\* Without filters the dashboard, its charts, the tables of business intelligence
\* and the pages of the customers say the same of the same rows, whatever was
\* corrected, refunded, archived or removed meanwhile: a join neither loses nor
\* repeats a sale, a payment, a subscription or an opportunity
\* (docs/executive-dashboard.md: the charts rest on the same queries as the KPIs).
\* The table by seller lacks the sales of users who are not active, and no others; the
\* pages lack those of removed contacts and of who bought more than one takes.
ReportsReconcile ==
  LET q == Everything
      revenue == salesMoney(Always, q)
      byCountry == countries(Always)
      bySeller == sellers(Always)
      Of(b) == customer360[b].ltv
      OfSubs(b) == customer360[b].mrr
      Revenue(k) == byCountry[k].revenue
      Mrr(k) == byCountry[k].mrr
      Opened(k) == byCountry[k].opportunities
      Sold(u) == bySeller[u].revenue
      Brought(a) == campaigns(Always)[a].revenue
      Extra(s) == sale[s].extra
      unlisted == {s \in Billed : sale[s].by \cap DOMAIN bySeller = {}}
  IN /\ revenue = SumOver(revenueDaily(Always, q))
     /\ salesMoney(LastMonths, q) = SumOver(revenueMonthly(LastDay, q))
     /\ revenue = SumOver(salesByCountry(Always, q)) /\ revenue = SumOf(Countries, Revenue)
     /\ revenue = SumOf(DOMAIN bySeller, Sold) + SumOf(unlisted, Total)
     /\ revenue = SumOf(WholePages, Of) + SumOf(OffPages, Total)
     /\ revenue = SumOver(salesByProduct(Always)) + SumOf(AllSoldIn(Always), Extra)
     /\ SumOf(Ads, Brought) <= revenue
     /\ paymentMoney(Always, q) = SumOver(paymentMethods(Always, q))
     /\ mrr(q) = SumOf(Countries, Mrr)
     /\ mrr(q) = SumOf(DOMAIN customer360, OfSubs) + SumOf(Unpaged, LineTotal)
     /\ generalConversion(Always).total = SumOver(funnel(Always, q))
     /\ generalConversion(Always).total = SumOf(Countries, Opened)

\* Contradicted: the balance is the total less what was received net of commissions
\* and refunds, of the payments confirmed or refunded (docs/domain-model.md:197,
\* docs/ADR-007-calculated-balance.md:9).
OneBalance == \A s \in Billed : Pending(s) = Total(s) - HeldFor(s)

\* Contradicted: a product has brought in what its lines say.
ProductsReconcile == products(Always) = salesByProduct(Always)
=============================================================================
