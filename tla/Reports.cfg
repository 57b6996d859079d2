\* Bounds: two buyers, sales, opportunities, follow-ups and requests, three lines of a total up to Price,
\* two payments, two days (LastDay) of a month each (MonthDays), four half days (LastTick, Half) and what is
\* due today, tomorrow, in a week and after it (Dues); nine rows in the log of a contact (LogEnd), three cards paged by one
\* (PageSize) with two rows in each of their histories (TrailEnd).  Lists of work have no end state: see CHECK_DEADLOCK.
SPECIFICATION MCReportsSpec
CONSTANTS
  s_one = s_one
  s_two = s_two
  i_one = i_one
  i_two = i_two
  i_three = i_three
  t_one = t_one
  t_two = t_two
  d_one = d_one
  d_none = d_none
  n_promo = n_promo
  p_here = p_here
  m_one = m_one
  u_one = u_one
  u_two = u_two
  Buyers = {b1, b2}
  Countries = {k1, NoCountry}
  NoCountry = NoCountry
  Sellers = {u_one, u_two}
  Sales = {s_one, s_two}
  Lines = {i_one, i_two, i_three}
  SaleOf <- MCSaleOf
  CycleOf <- MCCycleOf
  Names = {n1, n2}
  Takings = {t_one, t_two}
  TakenFor <- MCTakenFor
  Methods = {cash, card}
  Deals = {d1, d2}
  Ads = {a1}
  Deliveries <- MCDeliveries
  LineFor <- MCLineFor
  Providers = {v1, NoProvider}
  NoProvider = NoProvider
  MonthDays = 1
  LastDay = 1
  Price = 2
  AnyOne = AnyOne
  PageTake = 1
  Tasks = {w1, w2}
  Cycles = {c1, c2}
  Orders = {o1}
  Leads = {l1}
  Tests = {x1}
  Limit = 1
  Chats = {h1}
  Talks = {q1, q2}
  ChatOf <- MCChatOf
  Many = 2
  Few = 1
  Cut = 3
  LogEnd = 9
  Cards = {1, 2, 3}
  Columns = {f_new, f_won, f_hot}
  Closing = {f_won}
  Bosses = {boss}
  Hands = {hand_a, hand_b}
  Classes = {y1, y2}
  Goods = {z1}
  ClassOf <- MCClassOf
  Nothing = Nothing
  PageSize = 1
  TrailEnd = 2
  Half = 2
  Dues = {1, 2, 15, 16, 17}
  LastTick = 3
  Requests = {r1, r2}
  Dates = {d_one, d_none}
  Places = {p_here}
  Campaigns = {m_one, m2}
  NoCampaign = NoCampaign
  CampaignNames = {n_promo}
  MetricFiles <- MCMetricFiles
  Expenses = {e1, e2}
  Categories = {g1}
  CategoryNames = {ads, rent}
  VariableNames = {ads}
  Rates = {1, 2}
  Baseline = 1
  StaleDays = 0
SYMMETRY Twins
INVARIANTS FiguresReconcile FiguresAgree 
PROPERTIES ViewCountsOnce ImportWhole
CHECK_DEADLOCK FALSE
