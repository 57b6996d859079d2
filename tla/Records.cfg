\* Two books of three scopes with three entries, two requests on each; three categories,
\* two inline creations and two plans; two contacts, two phones and two requests of each kind; two campaigns,
\* two rows of spend and two files of two rows; two renewals over three days; three sessions and
\* two calls of the web client.
SPECIFICATION MCRecordsSpec
CONSTANTS
  b_all = b_all
  b_firm = b_firm
  e_all = e_all
  e_late = e_late
  e_firm = e_firm
  any = any
  firm = firm
  nowhere = nowhere
  here = here
  Books = {b_all, b_firm}
  Entries = {e_all, e_late, e_firm}
  Segments = {any, firm}
  AnySegment = any
  Countries = {nowhere, here}
  NoCountry = nowhere
  Scopes <- MCScopes
  Priority <- MCPriority
  InBook <- MCInBook
  Age <- MCAge
  Instants = {1, 2}
  Periods = {{1, 2}, {2}}
  Always = {1, 2}
  Prices = {10, 20}
  BookEditors = {r1, r2}
  EntryEditors = {x1, x2}
  Sellers = {v1}
  Categories = {k1, k2, k3}
  Slugs = {g1, g2}
  Plans = {p1, p2}
  Codes = {d1}
  NoCode = NoCode
  Variants = {w1}
  NoPlan = NoPlan
  QuickRequests = {q1, q2}
  PriceRequests = {a1}
  LastOrder = 2
  NoCategory = NoCategory
  Contacts = {c1, c2}
  Phones = {h1, h2}
  NoPhone = NoPhone
  Users = {u1}
  NoUser = NoUser
  Tags = {t1, t2}
  n_vip = n_vip
  n_Vip = n_Vip
  TagNames = {n_vip, n_Vip}
  Folded <- MCFolded
  Editors = {y1, y2}
  Leads = {l1, l2}
  BuyerSales = {s1}
  NoContact = NoContact
  Campaigns = {m1, m2}
  AdSets = {f1}
  NoAdSet = NoAdSet
  Spends = {o1, o2}
  Keys = {z1}
  Amounts = {1, 2}
  Spenders = {r3, r4}
  SoldSales = {x2, x3}
  CommercialImports = {i1, i2}
  ImportFiles = {f2}
  ImportRows = {n1, n2}
  Importers = {q3, q4}
  Cycles = {c3, c4}
  k_before = k_before
  k_after = k_after
  Kinds = {k_before, k_after}
  Offset <- MCOffset
  Back = 1
  Ahead = 2
  LastDay = 2
  Generators = {g3, g4}
  Imports = {i3, i4}
  Sessions = {s3, s4, s5}
  Refreshes = {q5, q6}
  Resets = {}
  NoSession = NoSession
SYMMETRY Alike
INVARIANTS BestMatchWins ChargedOnRecord RowsWrittenOnce LostOnlyByRace
PROPERTIES QuickEndsWithLiveOne ToldIsRecorded DeliveredOnce
CHECK_DEADLOCK FALSE
