--------------------------- MODULE RevenueReports ----------------------------
(***************************************************************************)
(* Revenue intelligence: its KPIs, funnel, cohorts and forecast, each one  *)
(* query over the rows of ReportRows in a closed range, and its trends,    *)
(* which come from the materialized view of the daily sales as it was at   *)
(* the last refresh.  All lines are of one product, which has a name at a  *)
(* time.  The filters kept are country and seller.                         *)
(***************************************************************************)
EXTENDS FinancialReports

VARIABLE view \* "revenue_sales_daily": its rows, and the first and the last refresh it has had

viewVars == <<rowVars, financeVars, view>>

filters == [from : Days, to : Days, country : Countries \cup {AnyOne}, seller : Sellers \cup {AnyOne}]
Between(day, f) == f.from <= day /\ day <= f.to

saleConditions(f) ==
  {s \in Billed : /\ Between(WhenSold(s), f)
                  /\ Asked(CountryOf(s), f.country)
                  /\ Asked(sale[s].by, f.seller)}

subscriptionConditions(f) ==
  {l \in Lines : /\ sub[l].status \notin {Void, "removed"}
                 /\ \E b \in sub[l].of : f.country \in {AnyOne, buyer[b].country}
                 /\ Asked(sale[SaleOf[l]].by, f.seller)}

moneyForSales(f) == [amount |-> SumOf(saleConditions(f), Total), count |-> Cardinality(saleConditions(f))]

\* As in the finances in twelfths of the unit, but a trial brings in nothing.
normalized(l) ==
  LET cycle == CycleOf[l]
  IN CASE cycle.every = "WEEKLY" -> 52 * LineTotal(l)
       [] cycle.every = "MONTHLY" -> 12 * LineTotal(l)
       [] cycle.every = "QUARTERLY" -> 4 * LineTotal(l)
       [] cycle.every = "SEMI_ANNUAL" -> 2 * LineTotal(l)
       [] cycle.every = "ANNUAL" -> LineTotal(l)
       [] cycle.every = "CUSTOM" -> (12 * 30 * LineTotal(l)) \div cycle.days
       [] OTHER -> 0

normalizedMrr(f) == SumOf({l \in subscriptionConditions(f) : sub[l].status = "ACTIVE"}, normalized)

BuyersOf(sales) == UNION {sale[s].of : s \in sales}

\* The first sale is looked for among those of the range.
newBuyers(f) ==
  {b \in BuyersOf(saleConditions(f)) :
    Between(Min({WhenSold(s) : s \in {t \in saleConditions(f) : sale[t].of = {b}}}), f)}
activeBuyers(f) == BuyersOf(saleConditions(f))

lostBuyers(f) ==
  LET Bought(b, days) == \E s \in Billed : sale[s].of = {b} /\ WhenSold(s) \in days
  IN {b \in Buyers : Live(buyer[b]) /\ Bought(b, 0 .. f.from - 1) /\ ~Bought(b, f.from .. f.to)}

\* Days from the opportunity to the sale, and from the sale to the activation,
\* summed: the averages divide them by the rows that have both.
timings(f) ==
  LET Close(s) == SumOf(sale[s].deal, LAMBDA d : WhenSold(s) - deal[d].made)
      SoldOf(d) == SaleOf[LineFor[d]]
      Wait(d) == delivery[d].active - WhenSold(SoldOf(d))
  IN [close |-> SumOf(saleConditions(f), Close),
      activation |-> SumOf({d \in Deliveries : /\ Exists(delivery[d]) /\ delivery[d].active # Unset
                                               /\ Between(WhenSold(SoldOf(d)), f)}, Wait)]

churnRate(f) ==
  LET mine == subscriptionConditions(f)
  IN [churned |-> Cardinality({l \in mine : sub[l].status = "CANCELLED" /\ Between(sub[l].ends, f)}),
      base |-> Cardinality({l \in mine : /\ sub[l].starts < f.from
                                         /\ sub[l].ends = Unset \/ sub[l].ends >= f.from})]

\* Mutant of ConvertedIn: cancelled sales count as conversions.
ConvertedInAny(f, d) ==
  {s \in Sales : sale[s].status \notin {Void, "removed"} /\ sale[s].deal = {d} /\ Between(WhenSold(s), f)}

ConvertedIn(f, d) == {s \in Billed : sale[s].deal = {d} /\ Between(WhenSold(s), f)}

\* The opportunities opened in the range under a key they have, and the sales of them in it.
\* An opportunity is joined with its stage, contact and seller, which it has.
conversionRows(f, keys, key) ==
  LET deals(k) == {d \in Deals : /\ Exists(deal[d]) /\ Between(deal[d].made, f) /\ k \in key[d]
                                 /\ \E b \in deal[d].of : f.country \in {AnyOne, buyer[b].country}
                                 /\ Asked(deal[d].by, f.seller)}
  IN [k \in keys |-> [opportunities |-> Cardinality(deals(k)),
                      conversions |-> Cardinality(UNION {ConvertedIn(f, d) : d \in deals(k)})]]

conversionByStage(f) == conversionRows(f, {"POTENTIAL_BUYER", "PURCHASED"}, [d \in Deals |-> {deal[d].stage}])
conversionBySeller(f) == conversionRows(f, Sellers, [d \in Deals |-> deal[d].by])
conversionByCountry(f) == conversionRows(f, Countries, [d \in Deals |-> {buyer[b].country : b \in deal[d].of}])

KpisForFilters(f) ==
  [salesToday |-> moneyForSales([f EXCEPT !.from = f.to]),
   salesMonth |-> moneyForSales([f EXCEPT !.from = MonthDays * MonthOf(f.to)]),
   mrr |-> normalizedMrr(f),
   arr |-> 12 * normalizedMrr(f),
   newCustomers |-> Cardinality(newBuyers(f)),
   activeCustomers |-> Cardinality(activeBuyers(f)),
   lostCustomers |-> Cardinality(lostBuyers(f)),
   timings |-> timings(f),
   churnRate |-> churnRate(f),
   averageTicket |-> moneyForSales(f).amount,
   byStage |-> conversionByStage(f),
   bySeller |-> conversionBySeller(f),
   byCountry |-> conversionByCountry(f)]

\* The months of the buyers' first sales, and what they bought later.
cohorts(f) ==
  LET first(b) == MonthOf(Min({WhenSold(s) : s \in {t \in saleConditions(f) : sale[t].of = {b}}}))
      of(c) == {b \in activeBuyers(f) : first(b) = c}
      sales(c, p) == {s \in saleConditions(f) : sale[s].of \subseteq of(c) /\ MonthOf(WhenSold(s)) = c + p}
      months == 0 .. MonthOf(LastDay)
  IN [c \in months |-> [p \in months |->
       [acquired |-> Cardinality(BuyersOf(sales(c, p))),
        retained |-> Cardinality(BuyersOf(sales(c, p))),
        revenue |-> SumOf(sales(c, p), Total)]]]

\* The line through the first and the last month of the history that had sales.
forecast(f, horizon) ==
  LET months == {MonthOf(WhenSold(s)) : s \in saleConditions(f)}
      Of(m) == SumOf({s \in saleConditions(f) : MonthOf(WhenSold(s)) = m}, Total)
      first == Of(Min(months))
      last == Of(Max(months))
      slope == IF Cardinality(months) > 1 THEN (last - first) \div (Cardinality(months) - 1) ELSE 0
  IN IF months = {} THEN {}
     ELSE {[month |-> Max(months) + i, amount |-> Max({0, last + slope * i})] : i \in 1 .. horizon}

funnelStageCount(f) ==
  LET SoldBy(d) == SaleOf[LineFor[d]]
  IN [message |-> Cardinality({b \in Buyers : /\ Live(buyer[b]) /\ Between(buyer[b].made, f)
                                              /\ f.country \in {AnyOne, buyer[b].country}}),
      potential |-> conversionByStage(f)["POTENTIAL_BUYER"].opportunities,
      sale |-> Cardinality(saleConditions(f)),
      activation |-> Cardinality({d \in Deliveries : delivery[d].active # Unset /\ Between(WhenSold(SoldBy(d)), f)})]

----------------------------------------------------------------------------
(* The view.                                                               *)

Delivered(l) == {f \in Deliveries : LineFor[f] = l /\ Exists(delivery[f])}

\* Mutant of ProviderOf: a plain join instead of the first delivery.
EveryProviderOf(l) == IF Delivered(l) = {} THEN {NoProvider} ELSE {delivery[f].by : f \in Delivered(l)}

\* The provider of the first delivery of a line.
ProviderOf(l) == IF Delivered(l) = {} THEN {NoProvider} ELSE {delivery[Min(Delivered(l))].by}

LinesBilled == UNION {LinesOf(s) : s \in Billed}

GroupsOf(l) ==
  LET s == SaleOf[l]
  IN {[day |-> WhenSold(s), name |-> line[l].name, country |-> k, seller |-> u, provider |-> p] :
        k \in CountryOf(s), u \in sale[s].by, p \in ProviderOf(l)}

Grouped(g) ==
  LET lines == {l \in LinesBilled : g \in GroupsOf(l)}
      sales == {SaleOf[l] : l \in lines}
  IN [group |-> g, revenue |-> SumOf(lines, LineTotal), sales |-> Cardinality(sales),
      customers |-> Cardinality(BuyersOf(sales))]

FreshRows == {Grouped(g) : g \in UNION {GroupsOf(l) : l \in LinesBilled}}

\* The unique index of the view, which has no column for the name.
Identity(r) == [r.group EXCEPT !.name = {}]

\* The refresh replaces the rows, and fails if two of them collide in the index;
\* the views after this one are then not refreshed either.
Refresh ==
  /\ \A r, o \in FreshRows : Identity(r) = Identity(o) => r = o
  /\ view' = FreshRows
  /\ UNCHANGED rowVars

InFilters(r, f) ==
  /\ Between(r.group.day, f)
  /\ f.country \in {AnyOne, r.group.country} /\ f.seller \in {AnyOne, r.group.seller}

\* A view without a row in the range is passed over for the sales themselves.
trends(f) ==
  LET Rows(d) == {r \in view : InFilters(r, f) /\ r.group.day = d}
      Revenue(r) == r.revenue
      SoldOn(d) == {s \in saleConditions(f) : WhenSold(s) = d}
  IN [d \in f.from .. f.to |->
       IF \E r \in view : InFilters(r, f) THEN SumOf(Rows(d), Revenue) ELSE SumOf(SoldOn(d), Total)]

FiguresNext ==
  \/ RowsNext /\ UNCHANGED <<financeVars, view>>
  \/ FinancesNext /\ UNCHANGED <<rowVars, view>>
  \/ Refresh /\ UNCHANGED financeVars

FiguresSpec == RowsInit /\ FinancesInit /\ view = {} /\ [][FiguresNext]_viewVars

----------------------------------------------------------------------------
(* Correctness.                                                            *)

Whole == [from |-> 0, to |-> LastDay, country |-> AnyOne, seller |-> AnyOne]

\* A refresh of the view counts every line that was sold once, under the day, the
\* country and the seller that its sale has at that time, however often the line
\* was delivered and whoever delivered it.
ViewCountsOnce ==
  [][view' # view =>
       \A d \in Days, k \in Countries, u \in Sellers :
         LET Revenue(r) == r.revenue
             mine == {l \in LinesBilled : /\ WhenSold(SaleOf[l]) = d /\ CountryOf(SaleOf[l]) = {k}
                                          /\ sale[SaleOf[l]].by = {u}}
         IN SumOf({r \in view' : r.group.day = d /\ r.group.country = k /\ r.group.seller = u}, Revenue)
              = SumOf(mine, LineTotal)]_viewVars

\* The fronts of the business say the same: the KPIs and the executive dashboard agree
\* on what was sold, the KPIs and the finances on what recurs but for the trials, which
\* the finances take at their whole amount, the cohorts and the
\* conversions speak of the same sales no more and no less, nobody is both lost and
\* active, and the operational dashboard, my day and the finances agree with both.
FrontsAgree ==
  LET f == Whole
      sold == moneyForSales(f).amount
      OfCohort(c) == SumOver([p \in DOMAIN cohorts(f)[c] |-> cohorts(f)[c][p].revenue])
      Won(rows) == SumOver([k \in DOMAIN rows |-> rows[k].conversions])
      Opened(rows) == SumOver([k \in DOMAIN rows |-> rows[k].opportunities])
      linked == Cardinality({s \in Billed : sale[s].deal # {}})
      trials == {l \in ActiveSubs : CycleOf[l].every = "TRIAL"}
  IN /\ OperationsAgree /\ FinancesAgree
     /\ sold = salesMoney(Always, Everything)
     /\ financialDashboard(0, "local").mrr = normalizedMrr(f) + 12 * SumOf(trials, LineTotal)
     /\ sold = SumOf(0 .. MonthOf(LastDay), OfCohort)
     /\ \A rows \in {conversionByStage(f), conversionBySeller(f), conversionByCountry(f)} :
          Won(rows) = linked /\ Opened(rows) = generalConversion(Always).total
     /\ \A d \in Days : lostBuyers([f EXCEPT !.from = d]) \cap activeBuyers([f EXCEPT !.from = d]) = {}

\* Contradicted: what recurs is normalized to a month (docs/kpis.md, "MRR"); the executive
\* dashboard and the page of a customer add amounts of any cycle as they are.
RecurringIsOne == normalizedMrr(Whole) = 12 * mrr(Everything)

\* Contradicted: a new customer is one whose first sale falls in the range
\* (docs/kpis.md, "Nuevos clientes"); who bought before it counts too.
NewAreNew ==
  \A d \in Days : \A b \in newBuyers([Whole EXCEPT !.from = d]) :
    \A s \in Billed : sale[s].of = {b} => WhenSold(s) >= d

\* Contradicted: the view can be refreshed, whatever names its products had.
AlwaysRefreshable == ENABLED Refresh
=============================================================================
