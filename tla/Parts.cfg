\* Two requests over one template, two instances over two organisations, two runs;
\* two calls over one fulfillment, two trials of two offers and two requests, three
\* sessions and two refreshes; four stages, two requests to change them, one
\* opportunity; three follow-ups of two users and two requests to reschedule.
SPECIFICATION MCPartsSpec
CONSTANTS
  NoAssignee = NoAssignee
  j1 = j1
  Assignees = {j1, j2}
  Templates = {t1}
  Generators = {g1, g2}
  weekly = weekly
  monthly = monthly
  Frequencies = {weekly, monthly}
  Period <- MCPeriod
  LastDay = 2
  NoDate = NoDate
  NoTemplate = NoTemplate
  Instances = {i1, i2}
  Orgs = {o1, o2}
  LastWeek = 2
  NoOrg = NoOrg
  Runs = {r1, r2}
  LastSent = 2
  PageSize = 1
  Providers = {p1}
  Fulfillments = {f1}
  Calls = {c1, c2}
  Activations = {a1, a2}
  MaxAttempts = 3
  NoProvider = NoProvider
  NoFulfillment = NoFulfillment
  TrialIds = {d1, d2}
  Offers = {n1, n2}
  NoOffer = NoOffer
  Requests = {q1, q2}
  LastStart = 2
  NoRequest = NoRequest
  Stages = {s_talk, s_seen, s_paid, s_lost}
  s_talk = s_talk
  s_seen = s_seen
  s_paid = s_paid
  s_lost = s_lost
  Category <- MCCategory
  Kind <- MCKind
  Admins = {m1, m2}
  NoAdmin = NoAdmin
  FollowUpIds = {u1, u2, u3}
  Opportunities = {w1}
  Schedulers = {h1, h2}
  Movers = {v1}
  LastDue = 2
  NoFollowUp = NoFollowUp
  NoOpportunity = NoOpportunity
  Sessions = {s1, s2, s3}
  Refreshes = {e1, e2}
  Resets = {k1}
  NoSession = NoSession
SYMMETRY Alike
INVARIANTS ScheduleAhead QuietWeekRefreshes OneOwner NoOverlappingTrials FamilyHasOneLive EveryCategoryHasStage
PROPERTIES ReopenedOnlyExplicitly RescheduledOnce
CHECK_DEADLOCK FALSE
