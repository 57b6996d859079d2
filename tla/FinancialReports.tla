-------------------------- MODULE FinancialReports ---------------------------
(***************************************************************************)
(* Finances: categories and expenses entered by hand, the exchange rate an *)
(* expense is converted at, the financial dashboard of a month and the     *)
(* profitability by country, product and campaign.  Templates of recurring *)
(* expenses are those of RecurringExpenses; here they are the expenses     *)
(* they generate.  Sales are in the local currency, an expense in it or in *)
(* dollars.                                                                *)
(***************************************************************************)
EXTENDS OperationsReports

CONSTANTS
  Expenses,
  Categories,        \* "ExpenseCategory"
  CategoryNames,
  VariableNames,     \* VARIABLE_CATEGORY_NAMES
  Rates,             \* what a dollar rate can be, Baseline among them
  Baseline,
  StaleDays

ASSUME FinancialAssumption ==
  /\ VariableNames \subseteq CategoryNames /\ Rates \subseteq Nat \ {0} /\ Baseline \in Rates /\ StaleDays \in Nat
  /\ IsFiniteSet(Expenses) /\ AnyOne \notin {"local", "USD"}

VARIABLES
  category,
  expense,   \* in: its category, if any; usd: usdAmount, the conversion made when it was entered
  rateOf     \* "ExchangeRate" of the local currency, or none

financeVars == <<category, expense, rateOf>>

Coins == {"local", "USD"}
NoCategoryRow == [state |-> Void, names |-> {}, active |-> FALSE]
NoExpense == [state |-> Void, in |-> {}, amount |-> 0, coin |-> "local", usd |-> {}, day |-> Unset]

----------------------------------------------------------------------------
(* Rates.                                                                  *)

UpdateRate(r, active) ==
  /\ rateOf' = {[rate |-> r, active |-> active, at |-> today]}
  /\ UNCHANGED <<category, expense>>

\* An active record, stale after a week, or else the emergency baseline, always stale.
getRate ==
  IF \E r \in rateOf : r.active
  THEN LET r == CHOOSE r \in rateOf : TRUE IN [rate |-> r.rate, isStale |-> today - r.at > StaleDays]
  ELSE [rate |-> Baseline, isStale |-> TRUE]

convertToUsd(amount, coin) == IF coin = "USD" THEN amount ELSE amount * getRate.rate

\* The page of rates lists a record whether or not it is active.
ratesList ==
  IF rateOf = {} THEN [rate |-> Baseline, isStale |-> TRUE]
  ELSE LET r == CHOOSE r \in rateOf : TRUE IN [rate |-> r.rate, isStale |-> today - r.at > StaleDays]

----------------------------------------------------------------------------
(* Categories.                                                             *)

\* A name is unique among the categories, archived ones too, by its index.
NameFree(c, n) == \A d \in Categories \ {c} : n \notin category[d].names

CreateCategory(c, n) ==
  /\ category[c].state = Void
  /\ NameFree(c, n)
  /\ category' = [category EXCEPT ![c] = [state |-> "live", names |-> {n}, active |-> TRUE]]
  /\ UNCHANGED <<expense, rateOf>>

UpdateCategory(c, n, active) ==
  /\ Live(category[c])
  /\ NameFree(c, n)
  /\ category' = [category EXCEPT ![c].names = {n}, ![c].active = active]
  /\ UNCHANGED <<expense, rateOf>>

ArchiveCategory(c) ==
  /\ Live(category[c])
  /\ category' = [category EXCEPT ![c].state = "archived", ![c].active = FALSE]
  /\ UNCHANGED <<expense, rateOf>>

----------------------------------------------------------------------------
(* Expenses.                                                               *)

assertReferences(cs) == \A c \in cs : Live(category[c]) /\ category[c].active

CreateExpense(e, cs, amount, coin, day) ==
  /\ expense[e].state = Void
  /\ assertReferences(cs)
  /\ expense' = [expense EXCEPT ![e] = [state |-> "live", in |-> cs, amount |-> amount, coin |-> coin,
                                        usd |-> {convertToUsd(amount, coin)}, day |-> day]]
  /\ UNCHANGED <<category, rateOf>>

\* The category is read again only if it is among what changes, and the
\* conversion is not made again.
UpdateExpense(e, cs, amount, coin, day) ==
  /\ Live(expense[e])
  /\ cs # expense[e].in => assertReferences(cs)
  /\ expense' = [expense EXCEPT ![e].in = cs, ![e].amount = amount, ![e].coin = coin, ![e].day = day]
  /\ UNCHANGED <<category, rateOf>>

ArchiveExpense(e) ==
  /\ Live(expense[e])
  /\ expense' = [expense EXCEPT ![e].state = "archived"]
  /\ UNCHANGED <<category, rateOf>>

\* An occurrence of a template, whose category was valid when it was entered.
GenerateExpense(e, cs, amount, coin, day) ==
  /\ expense[e].state = Void
  /\ \A c \in cs : Exists(category[c])
  /\ expense' = [expense EXCEPT ![e] = [state |-> "live", in |-> cs, amount |-> amount, coin |-> coin,
                                        usd |-> {}, day |-> day]]
  /\ UNCHANGED <<category, rateOf>>

FinancesInit ==
  /\ category = [c \in Categories |-> NoCategoryRow]
  /\ expense = [e \in Expenses |-> NoExpense]
  /\ rateOf = {}

FinancesNext ==
  \/ \E r \in Rates, active \in BOOLEAN : UpdateRate(r, active)
  \/ \E c \in Categories : \/ ArchiveCategory(c)
                           \/ \E n \in CategoryNames : CreateCategory(c, n) \/ \E on \in BOOLEAN : UpdateCategory(c, n, on)
  \/ \E e \in Expenses : ArchiveExpense(e)
  \/ \E e \in Expenses, cs \in SUBSET Categories, amount \in Nat, coin \in Coins, day \in Int :
       CreateExpense(e, cs, amount, coin, day) \/ UpdateExpense(e, cs, amount, coin, day)
         \/ GenerateExpense(e, cs, amount, coin, day)

----------------------------------------------------------------------------
(* The dashboard of a month.                                               *)

expenseWhere(range, coin) ==
  {e \in Expenses : Live(expense[e]) /\ In(expense[e].day, range) /\ coin \in {AnyOne, expense[e].coin}}
Spent(e) == expense[e].amount

saleWhere(range, coin) == IF coin = "USD" THEN {} ELSE AllSoldIn(range)

\* The page of expenses: one category or all, a closed range of days.
listExpenses(cs, from, to) ==
  {e \in Expenses : /\ Live(expense[e]) /\ from <= expense[e].day /\ expense[e].day <= to
                    /\ cs # {} => expense[e].in = cs}

Month(m) == [from |-> MonthDays * m, to |-> MonthDays * (m + 1)]

IsVariable(e) == \E c \in expense[e].in : category[c].names \cap VariableNames # {}

\* What a line brings in a month, in twelfths of the unit so that the divisions come
\* out even; what is left over of a CUSTOM cycle is cut off.
monthlyOf(l) ==
  LET cycle == CycleOf[l]
  IN CASE cycle.every = "WEEKLY" -> 52 * LineTotal(l)
       [] cycle.every = "QUARTERLY" -> 4 * LineTotal(l)
       [] cycle.every = "SEMI_ANNUAL" -> 2 * LineTotal(l)
       [] cycle.every = "ANNUAL" -> LineTotal(l)
       [] cycle.every = "CUSTOM" -> (12 * 30 * LineTotal(l)) \div cycle.days
       [] OTHER -> 12 * LineTotal(l)

financialDashboard(month, coin) ==
  LET Revenue(m) == SumOf(saleWhere(Month(m), coin), Total)
      Out(m) == SumOf(expenseWhere(Month(m), coin), Spent)
      payments == {t \in Takings : /\ taking[t].status \in {"CONFIRMED", "REFUNDED"}
                                   /\ In(taking[t].day, Month(month)) /\ coin # "USD"}
      realIncome == SumOf(payments, Received)
      variable == SumOf({e \in expenseWhere(Month(month), coin) : IsVariable(e)}, Spent)
  IN [revenue |-> Revenue(month),
      realIncome |-> realIncome,
      expenses |-> Out(month),
      grossProfit |-> realIncome - variable,
      netProfit |-> realIncome - Out(month),
      mrr |-> IF coin = "local" THEN SumOf(ActiveSubs, monthlyOf) ELSE 0,
      fixedMonthlyCost |-> Out(month) - variable,
      variableCost |-> variable,
      previousMonth |-> [revenue |-> Revenue(month - 1), expenses |-> Out(month - 1),
                         netProfit |-> Revenue(month - 1) - Out(month - 1)],
      monthlyTrend |-> [m \in (month - 11) .. month |->
                         [revenue |-> Revenue(m), expenses |-> Out(m), netProfit |-> Revenue(m) - Out(m)]]]

\* The costs of each dimension are zero for now, so its profit is its revenue.
profitability(month) ==
  LET sold == AllSoldIn(Month(month))
      lines == UNION {LinesOf(s) : s \in sold}
  IN [byCountry |-> [k \in Countries |-> SumOf({s \in sold : FromCountry(s, k)}, Total)],
      byProduct |-> SumOf(lines, LineTotal),
      byCampaign |-> [a \in Ads |-> SumOf({s \in sold : AdsOf(s) = {a}}, Total)]]

----------------------------------------------------------------------------
(* Correctness.                                                            *)

\* Month by month the finances say of the sales and of what was received what the
\* executive dashboard says, and, while all that recurs does so by the month, of what
\* recurs (in twelfths here); the trend and the comparison with the
\* month before are what the dashboards of those months showed; costs are fixed or
\* variable whatever became of their category; and the profitability by country
\* and by campaign speaks of the same sales.
FinancesAgree ==
  \A m \in 0 .. MonthOf(LastDay) :
    LET board == financialDashboard(m, AnyOne)
        month == Month(m)
        Extra(s) == sale[s].extra
        profits == profitability(m)
    IN /\ board.revenue = salesMoney(month, Everything)
       /\ board.realIncome = paymentMoney(month, Everything)
       /\ (\A l \in ActiveSubs : CycleOf[l].every = "MONTHLY")
            => financialDashboard(m, "local").mrr = 12 * mrr(Everything)
       /\ board.expenses = SumOf(Coins, LAMBDA c : financialDashboard(m, c).expenses)
       /\ 0 <= board.variableCost /\ 0 <= board.fixedMonthlyCost
       /\ board.netProfit = board.grossProfit - board.fixedMonthlyCost
       /\ \A p \in (m - 1) .. m :
            LET then == financialDashboard(p, AnyOne)
            IN /\ board.monthlyTrend[p].revenue = then.revenue
               /\ board.monthlyTrend[p].expenses = then.expenses
               /\ p < m => board.previousMonth.revenue = then.revenue
                           /\ board.previousMonth.expenses = then.expenses
       /\ board.revenue = SumOver(profits.byCountry)
       /\ board.revenue = profits.byProduct + SumOf(AllSoldIn(month), Extra)
       /\ profits.byCountry = salesByCountry(month, Everything)
       /\ \A a \in Ads : profits.byCampaign[a] = campaigns(month)[a].revenue

\* Contradicted: the profit of the month before is what its own dashboard showed;
\* the comparison takes what was sold for what was received.
PreviousProfitAgrees ==
  \A m \in 0 .. MonthOf(LastDay) :
    financialDashboard(m, AnyOne).previousMonth.netProfit = financialDashboard(m - 1, AnyOne).netProfit

\* Contradicted: an expense is worth in dollars what its amount is at some rate; an
\* edit changes the amount or the currency and leaves the conversion.
UsdIsOfTheAmount ==
  \A e \in Expenses : expense[e].coin = "USD" => \A u \in expense[e].usd : u = expense[e].amount

\* Contradicted: a conversion uses the rate that the page of rates lists.
ListedRateIsUsed == ratesList.rate = getRate.rate
=============================================================================
