------------------------------ MODULE MCReports ------------------------------
(* Bounded instances of the figures of the business and of what they are read *)
(* from, of the lists of work and of the daily metrics.  A behaviour is that  *)
(* of one part; the parts of the figures differ in the steps they allow.      *)
EXTENDS RevenueReports, WorkLists, SmartInbox, PipelineBoard, DailyMetrics, TLC

CONSTANTS s_one, s_two, i_one, i_two, i_three, t_one, t_two, d_one, d_none, n_promo, p_here, m_one, u_one, u_two

ASSUME MCReportsAssumption ==
  /\ {u_one, u_two} \subseteq Sellers /\ {s_one, s_two} \subseteq Sales /\ {i_one, i_two, i_three} \subseteq Lines
  /\ Countries # {NoCountry} /\ Baseline + 1 \in Rates /\ Bosses # {}

MCSaleOf == i_one :> s_one @@ i_two :> s_one @@ i_three :> s_two
MCCycleOf ==
  LET Every(c) == [every |-> c, days |-> 15]
  IN i_one :> Every("MONTHLY") @@ i_two :> Every("CUSTOM") @@ i_three :> Every("TRIAL")
MCTakenFor == t_one :> s_one @@ t_two :> s_one
MCDeliveries == {1, 2}
MCChatOf == [d \in Talks |-> CHOOSE c \in Chats : TRUE]
MCLineFor == [f \in MCDeliveries |-> i_one]

Entered(day, names, ids) == [date |-> day, place |-> p_here, name |-> names, id |-> ids]
MCMetricFiles ==
  {<<Entered(d_one, {n_promo}, {})>>, <<Entered(d_one, {}, {m_one})>>, <<Entered(d_one, {}, {})>>,
   <<Entered(d_one, {n_promo}, {}), Entered(d_none, {}, {})>>}

VARIABLE part

Parts == {"sold", "paid", "views", "deals", "tasks", "cycles", "orders", "metrics", "spending", "trials", "inbox",
          "claims", "interests", "board"}
rows == <<today, buyer, deal, sale, sub, line, taking, delivery, name, serving, view>>
mcVars == <<rows, financeVars, workVars, inboxVars, boardVars, metricVars, part>>

MCReportsInit ==
  /\ part \in Parts
  /\ RowsInit /\ FinancesInit /\ view = {} /\ WorkListsInit /\ SmartInboxInit /\ PipelineBoardInit
  /\ DailyMetricsInit

Twins == Permutations(Buyers) \cup Permutations(Deals)

Abroad == CHOOSE k \in Countries : k # NoCountry
Only(b) == \A c \in Buyers \ {b} : ~Exists(buyer[c])
WholeSale(s) == [l \in Lines |-> IF SaleOf[l] = s THEN Price ELSE 0]
\* Each sale is of a seller of its own, the opportunities of the first.
SellerOf(s) == IF s = s_one THEN u_one ELSE u_two
Draft(s, extra, ds) == \E b \in Buyers : DraftSale(s, b, SellerOf(s), ds, WholeSale(s), extra)

\* Sales of contacts of the first day that move, are corrected, cancelled and removed,
\* one by a seller that is switched off.
SoldPart ==
  \/ today = LastDay /\ sale[s_one].status = "CONFIRMED" /\ SwitchUser(u_one)
  \/ Tomorrow
  \/ \E b \in Buyers : (today = 0 /\ AddBuyer(b, Abroad)) \/ EditCountry(b, NoCountry) \/ RemoveBuyer(b)
  \/ \E s \in Sales : Draft(s, 0, {}) \/ ConfirmSale(s)
  \/ CancelSale(s_one) \/ RemoveSale(s_two)
  \/ \E b \in Buyers, d \in {Unset, 0} : CorrectSale(s_one, b, d)

\* Payments with commissions, refunds, and what is left of one sale.
PaidPart ==
  \/ Tomorrow \/ \E b \in Buyers : Only(b) /\ AddBuyer(b, Abroad)
  \/ Draft(s_one, -1, {}) \/ ConfirmSale(s_one) \/ CancelSale(s_one)
  \/ \E t \in Takings, m \in Methods, net \in 0 .. Price, lost \in {0, 1} : Take(t, m, net, lost)
  \/ \E t \in Takings, amount \in 1 .. Price : GiveBack(t, amount)

\* The view: lines delivered again, products renamed, countries and dates corrected.
ViewsPart ==
  \/ Tomorrow \/ \E b \in Buyers : Only(b) /\ (AddBuyer(b, Abroad) \/ EditCountry(b, NoCountry))
  \/ \E s \in Sales : Draft(s, 0, {}) \/ ConfirmSale(s)
  \/ \E f \in Deliveries : Activate(f) \/ \E p \in Providers : Deliver(f, p)
  \/ \E n \in Names : RenameProduct(n)

\* Opportunities, the sales drafted the same day and the subscriptions that come of them,
\* of contacts of the first day; subscriptions of other cycles are activated last.
DealsPart ==
  \/ Tomorrow \/ \E b \in Buyers : today = 0 /\ AddBuyer(b, Abroad)
  \/ \E d \in Deals : ArchiveDeal(d) \/ \E b \in Buyers, ads \in SUBSET Ads : OpenDeal(d, b, u_one, ads)
  \/ \E s \in Sales, d \in Deals : deal[d].made = today /\ Draft(s, 0, {d})
  \/ \E s \in Sales : ConfirmSale(s)
  \/ CancelSale(s_one) \/ EndSub(i_one)
  \/ today = LastDay /\ ActivateSub(i_one)
  \/ sub[i_one].status = "ACTIVE" /\ ActivateSub(i_two)
  \/ sub[i_two].status = "ACTIVE" /\ ActivateSub(i_three)

\* Expenses that are entered, generated, edited and archived while their categories
\* and the rate change.
Chosen == {{}} \cup {{c} : c \in Categories}
SpendingPart ==
  \/ \E active \in BOOLEAN : UpdateRate(Baseline + 1, active)
  \/ \E c \in Categories, n \in CategoryNames : CreateCategory(c, n) \/ \E on \in BOOLEAN : UpdateCategory(c, n, on)
  \/ \E c \in Categories : ArchiveCategory(c)
  \/ \E e \in Expenses : ArchiveExpense(e)
  \/ \E e \in Expenses, cs \in Chosen :
       \/ \E coin \in Coins : CreateExpense(e, cs, 1, coin, 0)
       \/ GenerateExpense(e, cs, 1, "local", LastDay)
       \/ UpdateExpense(e, cs, Price, "USD", LastDay)

\* Cards that are claimed, whose interest is edited, or that are paged through.
Kept == CHOOSE u \in Bosses : TRUE
Maybe(S) == S \cup {Nothing}
Changes ==
  [class : Maybe(Classes)] \cup [good : Maybe(Goods)] \cup [amount : BOOLEAN]
    \cup [amount : {TRUE}, coin : {"USD"}] \cup {<<>>}
MCClassOf == (CHOOSE g \in Goods : TRUE) :> (CHOOSE k \in Classes : TRUE)
OnlyFirst == \A o \in Cards : ~OnBoard(o)
CardStep ==
  CASE part = "claims" ->
         \/ OnlyFirst /\ \E u \in Users, s \in Columns : CreateCard(u, u, s, Nothing, Nothing) \/ CreateCard(Kept, Nothing, s, Nothing, Nothing)
         \/ \E u \in Users, o \in Cards : ReadCard(u, o)
         \/ \E u \in Users : DropEdit(u) \/ \E to \in Users \cup {Nothing} : AssignCard(u, to)
         \/ \E o \in Cards, archived \in BOOLEAN : ArchiveCard(o, archived)
    [] part = "interests" ->
         \/ OnlyFirst /\ \E s \in Columns, k \in Classes \cup {Nothing}, g \in Goods \cup {Nothing} : CreateCard(Kept, Nothing, s, k, g)
         \/ \E u \in Hands, o \in Cards : ReadCard(u, o)
         \/ \E u \in Hands, asked \in Changes : UpdateCard(u, asked)
    [] OTHER ->
         \/ \E s \in Columns : CreateCard(Kept, Nothing, s, Nothing, Nothing) \/ ArchiveColumn(s) \/ RestoreColumn(s) \/ ReadPage(s)
         \/ \E o \in Cards : \/ \E s \in Columns : MoveCard(o, s) \/ ReopenCard(o, s)
                             \/ \E archived \in BOOLEAN : ArchiveCard(o, archived)
         \/ CloseColumn

\* What a part does not move it leaves as it began, so each is asked for its own;
\* the figures read neither deliveries nor the view, which has its own property.
FigureParts == {"sold", "paid", "deals", "spending"}
CardParts == {"claims", "interests", "board"}
FiguresReconcile == part \in FigureParts => ReportsReconcile
FiguresAgree == part \in FigureParts => FrontsAgree
WorkInSight ==
  /\ part \in {"tasks", "cycles", "orders", "trials"} => NothingForgotten
  /\ part = "inbox" => InboxKeepsInSight
  /\ part \in CardParts => BoardIsWhole

MCReportsNext ==
  /\ UNCHANGED part
  /\ \/ /\ UNCHANGED <<workVars, inboxVars, boardVars, metricVars, financeVars>>
        /\ \/ part = "sold" /\ SoldPart /\ UNCHANGED view
           \/ part = "paid" /\ PaidPart /\ UNCHANGED view
           \/ part = "views" /\ (Refresh \/ (ViewsPart /\ UNCHANGED view))
           \/ part = "deals" /\ DealsPart /\ UNCHANGED view
     \/ part = "tasks" /\ TaskStep /\ UNCHANGED <<rows, inboxVars, boardVars, metricVars, financeVars>>
     \/ part = "cycles" /\ CycleStep /\ UNCHANGED <<rows, inboxVars, boardVars, metricVars, financeVars>>
     \/ part = "orders" /\ OrderStep /\ UNCHANGED <<rows, inboxVars, boardVars, metricVars, financeVars>>
     \/ part = "trials" /\ TestStep /\ UNCHANGED <<rows, inboxVars, boardVars, metricVars, financeVars>>
     \/ part = "metrics" /\ DailyMetricsNext /\ UNCHANGED <<rows, workVars, inboxVars, boardVars, financeVars>>
     \/ part = "spending" /\ SpendingPart /\ UNCHANGED <<rows, workVars, inboxVars, boardVars, metricVars>>
     \/ part = "inbox" /\ InboxStep /\ UNCHANGED <<rows, workVars, boardVars, metricVars, financeVars>>
     \/ part \in CardParts /\ CardStep /\ UNCHANGED <<rows, workVars, inboxVars, metricVars, financeVars>>

MCReportsSpec == MCReportsInit /\ [][MCReportsNext]_mcVars
=============================================================================
