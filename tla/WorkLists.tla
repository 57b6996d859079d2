------------------------------ MODULE WorkLists ------------------------------
(***************************************************************************)
(* The lists of work: "my day", the agenda of follow-ups, the operational  *)
(* agenda and pipeline intelligence.  They are queries over rows that the  *)
(* steps here move, as FollowUps, RenewalCenter, Provisioning and          *)
(* Opportunities do in full.  The clock has Half instants a day, so that   *)
(* "now" is not always the start of one.                                   *)
(***************************************************************************)
EXTENDS Integers, FiniteSets, FiniteSetsExt, Functions

CONSTANTS
  Tasks,     \* "FollowUp"
  Cycles,    \* "Renewal"
  Orders,    \* lines sold with a subscription: its "Fulfillment" and the last "Activation" of it
  Leads,     \* "Opportunity"
  Tests,     \* "Trial"
  Limit,     \* rows a section shows
  Half,      \* instants of a day
  Dues,      \* the instants something is due at
  LastTick   \* bound on the clock

ASSUME WorkListsAssumption ==
  /\ Half \in Nat \ {0} /\ Dues \subseteq Nat /\ LastTick \in Nat /\ Limit \in Nat \ {0}
  /\ IsFiniteSet(Tasks) /\ IsFiniteSet(Cycles) /\ IsFiniteSet(Dues)

VARIABLES
  now,
  task,  \* due: the instant it is due; archived: archivedAt
  cycle, \* status, workflowStatus, dueAt, paidAt
  order, \* sold: its sale is billed; its subscription, fulfillment, activation and credential, EXPIRED
         \* being CANCELLED or REVOKED; whether it is tried, and an attempt was worth another
  lead,  \* stage, instants it was made and last moved
  test   \* status, endsAt

workVars == <<now, task, cycle, order, lead, test>>

None == "none"

NoTask == [status |-> None, due |-> 0, archived |-> FALSE]
NoCycle == [status |-> None, work |-> "PENDING", due |-> 0, paid |-> {}]
NoOrder == [sold |-> FALSE, sub |-> None, status |-> None, activation |-> None, credential |-> None,
            trying |-> FALSE, retryable |-> FALSE]
NoLead == [stage |-> None, made |-> 0, moved |-> 0]
NoTest == [status |-> None, ends |-> 0]

Day(t) == t \div Half
StartOf(day) == day * Half

----------------------------------------------------------------------------
(* What moves the rows.                                                    *)

Pass == now < LastTick /\ now' = now + 1 /\ UNCHANGED <<task, cycle, order, lead, test>>

PlanTask(t, due) ==
  /\ task[t].status = None
  /\ due >= now
  /\ task' = [task EXCEPT ![t] = [NoTask EXCEPT !.status = "PENDING", !.due = due]]
  /\ UNCHANGED <<now, cycle, order, lead, test>>

SettleTask(t, status) ==
  /\ task[t].status = "PENDING"
  /\ task' = [task EXCEPT ![t].status = status]
  /\ UNCHANGED <<now, cycle, order, lead, test>>

ArchiveTask(t) ==
  /\ task[t].status \in {"COMPLETED", "CANCELLED", "RESCHEDULED"} /\ ~task[t].archived
  /\ task' = [task EXCEPT ![t].archived = TRUE]
  /\ UNCHANGED <<now, cycle, order, lead, test>>

RescheduleTask(t, u, due) ==
  /\ task[t].status = "PENDING" /\ task[u].status = None /\ due >= now
  /\ task' = [task EXCEPT ![t].status = "RESCHEDULED", ![u] = [NoTask EXCEPT !.status = "PENDING", !.due = due]]
  /\ UNCHANGED <<now, cycle, order, lead, test>>

OpenCycle(c, due) ==
  /\ cycle[c].status = None
  /\ cycle' = [cycle EXCEPT ![c] = [NoCycle EXCEPT !.status = "PENDING", !.due = due]]
  /\ UNCHANGED <<now, task, order, lead, test>>

\* Statuses by hand; the workflow is set whatever the status is.
MoveCycle(c, status) ==
  /\ cycle[c].status \in {"PENDING", "DUE", "OVERDUE"}
  /\ cycle' = [cycle EXCEPT ![c].status = status, ![c].paid = IF status = "PAID" THEN {now} ELSE @]
  /\ UNCHANGED <<now, task, order, lead, test>>
PromiseCycle(c, work) ==
  /\ cycle[c].status # None
  /\ cycle' = [cycle EXCEPT ![c].work = work]
  /\ UNCHANGED <<now, task, order, lead, test>>

SetOrder(o, row) == order' = [order EXCEPT ![o] = row] /\ UNCHANGED <<now, task, cycle, lead, test>>

\* The confirmation of its sale opens the subscription; the cancellation leaves it.
SellOrder(o) == order[o] = NoOrder /\ SetOrder(o, [NoOrder EXCEPT !.sold = TRUE, !.sub = "PENDING"])
UnsellOrder(o) == order[o].sold /\ SetOrder(o, [order[o] EXCEPT !.sold = FALSE])

\* The subscription by hand.
Subscribed == {<<"PENDING", "ACTIVE">>, <<"SUSPENDED", "ACTIVE">>, <<"ACTIVE", "SUSPENDED">>,
               <<"PENDING", "CANCELLED">>, <<"ACTIVE", "CANCELLED">>, <<"SUSPENDED", "CANCELLED">>}
MoveSub(o, status) == <<order[o].sub, status>> \in Subscribed /\ SetOrder(o, [order[o] EXCEPT !.sub = status])

\* The fulfillment: created for a line that is sold, moved whatever becomes of the sale.
AddOrder(o) ==
  \E status \in {"PENDING", "ASSIGNED"} :
    order[o].sold /\ order[o].status = None /\ SetOrder(o, [order[o] EXCEPT !.status = status])
Movable(status) ==
  CASE status \in {"PENDING", "ASSIGNED"} -> {"PENDING", "ASSIGNED", "PROCESSING", "FAILED"}
    [] status = "PROCESSING" -> {"PENDING", "ASSIGNED", "FAILED"}
    [] status = "COMPLETED" -> {"PENDING", "ASSIGNED", "PROCESSING"}
    [] OTHER -> {"PENDING", "ASSIGNED", "PROCESSING", "FAILED"}
MoveOrder(o, status) ==
  order[o].status \in Movable(status) /\ SetOrder(o, [order[o] EXCEPT !.status = status])
\* An attempt that ends writes its outcome whatever the fulfillment is by now; one is
\* in the air at a time.
BeginAttempt(o) ==
  /\ order[o].status \in Movable("PROCESSING") /\ ~order[o].trying
  /\ SetOrder(o, [order[o] EXCEPT !.status = "PROCESSING", !.trying = TRUE])
EndAttempt(o, status, more) ==
  /\ order[o].trying
  /\ SetOrder(o, [order[o] EXCEPT !.status = status, !.trying = FALSE,
                                  !.retryable = @ \/ (status = "FAILED" /\ more)])

\* The activation: of a completed fulfillment that has no live one.  It moves the
\* subscription, also when it is asked for the status it has.
LiveActivations == {"PENDING", "ACTIVE", "SUSPENDED"}
AddActivation(o) ==
  /\ order[o].status = "COMPLETED" /\ order[o].activation \notin LiveActivations
  /\ SetOrder(o, [order[o] EXCEPT !.activation = "PENDING"])
Activatable(status) ==
  CASE status = "ACTIVE" -> {"PENDING", "ACTIVE", "SUSPENDED"}
    [] status = "SUSPENDED" -> {"ACTIVE", "SUSPENDED"}
    [] status = "REVOKED" -> {"PENDING", "ACTIVE", "SUSPENDED", "REVOKED"}
    [] OTHER -> {"PENDING", "FAILED"}
SubAfter(sub, status) ==
  CASE status = "ACTIVE" /\ sub \in {"PENDING", "SUSPENDED"} -> "ACTIVE"
    [] status = "SUSPENDED" /\ sub = "ACTIVE" -> "SUSPENDED"
    [] OTHER -> sub
Activated(o, status) ==
  /\ order[o].activation \in Activatable(status)
  /\ SetOrder(o, [order[o] EXCEPT !.activation = status, !.sub = SubAfter(@, status)])

IssueCredential(o) ==
  order[o].status # None /\ order[o].credential = None /\ SetOrder(o, [order[o] EXCEPT !.credential = "ACTIVE"])
RevokeCredential(o) ==
  order[o].credential = "ACTIVE" /\ SetOrder(o, [order[o] EXCEPT !.credential = "REVOKED"])

StartTest(t, ends) ==
  /\ test[t].status = None /\ ends > now
  /\ test' = [test EXCEPT ![t] = [status |-> "ACTIVE", ends |-> ends]]
  /\ UNCHANGED <<now, task, cycle, order, lead>>
EndTest(t, status) ==
  /\ test[t].status = "ACTIVE"
  /\ test' = [test EXCEPT ![t].status = status]
  /\ UNCHANGED <<now, task, cycle, order, lead>>

MoveLead(l, stage) ==
  /\ lead[l].stage # stage
  /\ lead' = [lead EXCEPT ![l] = [stage |-> stage, moved |-> now,
                                  made |-> IF @.stage = None THEN now ELSE @.made]]
  /\ UNCHANGED <<now, task, cycle, order, test>>

----------------------------------------------------------------------------
(* My day.  The start of the day is that of the time zone asked for.       *)

PendingTasks == {t \in Tasks : task[t].status = "PENDING" /\ ~task[t].archived}

\* Mutant of overdueFollowUps: late only from the start of yesterday, as another time zone may have it.
overdueFollowUpsLate == {t \in PendingTasks : task[t].due < StartOf(Day(now) - 1)}
overdueFollowUps == {t \in PendingTasks : task[t].due < StartOf(Day(now))}
todayFollowUps == {t \in PendingTasks : Day(task[t].due) = Day(now)}
upcomingFollowUps ==
  {t \in PendingTasks : StartOf(Day(now) + 1) <= task[t].due /\ task[t].due < StartOf(Day(now) + 8)}

Unpaid == {c \in Cycles : cycle[c].status \notin {None, "PAID", "CANCELLED"}}

renewalsToday == {c \in Unpaid : Day(cycle[c].due) = Day(now)}
DueIn(days) == {c \in Unpaid : now <= cycle[c].due /\ cycle[c].due < now + days * Half}
urgentRenewals == DueIn(7)
vipRenewals == DueIn(30)
overdueRenewals == {c \in Unpaid : cycle[c].due < now}
paymentPromises == {c \in Unpaid : cycle[c].work = "PAYMENT_PROMISE"}

newLeads == {l \in Leads : lead[l].stage = "NEW_LEAD" /\ lead[l].made >= now - 3 * Half}
InStage(stage) == {l \in Leads : lead[l].stage = stage}
recentWins == {l \in Leads : lead[l].stage = "PURCHASED" /\ lead[l].moved >= now - 2 * Half}

pendingFulfillments == {o \in Orders : order[o].status \in {"PENDING", "ASSIGNED"}}
failedFulfillments == {o \in Orders : order[o].status = "FAILED"}
pendingSubscriptionActivations ==
  {o \in Orders : order[o].sold /\ order[o].sub = "PENDING" /\ order[o].activation \notin LiveActivations}
ActivationsUnderWay == {o \in Orders : order[o].activation = "PENDING"}
pendingActivations == ActivationsUnderWay \cup pendingSubscriptionActivations

expiringTrials == {t \in Tests : test[t].status = "ACTIVE" /\ now <= test[t].ends /\ test[t].ends <= now + 2 * Half}
expiredTrials ==
  {t \in Tests : test[t].status = "EXPIRED" \/ (test[t].status = "ACTIVE" /\ test[t].ends < now)}
credentialsToDeliver == {o \in Orders : order[o].credential = "ACTIVE" /\ order[o].status = "COMPLETED"}
provisioningRetries == {o \in Orders : order[o].retryable}

\* A section shows the first rows.  The sections of the seller count all of them,
\* those of the operation, the collections apart, only what they show; the
\* subscriptions to activate follow the activations and are counted.
FirstOf(rows) == IF Cardinality(rows) > Limit THEN Limit ELSE Cardinality(rows)
sellerSection(rows) == [data |-> FirstOf(rows), total |-> Cardinality(rows), hasMore |-> Cardinality(rows) > Limit]
operationSection(rows) == [data |-> FirstOf(rows), total |-> FirstOf(rows), hasMore |-> FirstOf(rows) > Limit]

activationSection ==
  LET shown == FirstOf(ActivationsUnderWay)
      total == shown + Cardinality(pendingSubscriptionActivations)
  IN [data |-> shown + FirstOf(pendingSubscriptionActivations), total |-> total, hasMore |-> total > Limit]

operationalSections ==
  [pendingFulfillments |-> operationSection(pendingFulfillments),
   failedFulfillments |-> operationSection(failedFulfillments),
   pendingActivations |-> activationSection,
   expiringTrials |-> operationSection(expiringTrials), expiredTrials |-> operationSection(expiredTrials),
   credentialsToDeliver |-> operationSection(credentialsToDeliver),
   provisioningRetries |-> operationSection(provisioningRetries),
   renewalsToday |-> operationSection(renewalsToday), urgentRenewals |-> operationSection(urgentRenewals),
   paymentPromises |-> operationSection(paymentPromises),
   overdueRenewals |-> operationSection(overdueRenewals), vipRenewals |-> operationSection(vipRenewals)]

getMyDay ==
  [overdueFollowUps |-> sellerSection(overdueFollowUps), todayFollowUps |-> sellerSection(todayFollowUps),
   upcomingFollowUps |-> sellerSection(upcomingFollowUps), newLeads |-> sellerSection(newLeads),
   potentialBuyers |-> sellerSection(InStage("POTENTIAL_BUYER")), recentWins |-> sellerSection(recentWins),
   operations |-> operationalSections]

\* The badges count what the sections list.
operationalSummary ==
  [fulfillments |-> Cardinality(pendingFulfillments), failed |-> Cardinality(failedFulfillments),
   activations |-> Cardinality(ActivationsUnderWay) + Cardinality(pendingSubscriptionActivations), today |-> Cardinality(renewalsToday),
   urgent |-> Cardinality(urgentRenewals), promises |-> Cardinality(paymentPromises),
   overdue |-> Cardinality(overdueRenewals), vip |-> Cardinality(vipRenewals),
   expiring |-> Cardinality(expiringTrials), expired |-> Cardinality(expiredTrials),
   credentials |-> Cardinality(credentialsToDeliver), retries |-> Cardinality(provisioningRetries)]
getSummary ==
  [overdue |-> Cardinality(overdueFollowUps), today |-> Cardinality(todayFollowUps),
   upcoming |-> Cardinality(upcomingFollowUps), leads |-> Cardinality(newLeads),
   buyers |-> Cardinality(InStage("POTENTIAL_BUYER")), wins |-> Cardinality(recentWins),
   operations |-> operationalSummary]

----------------------------------------------------------------------------
(* The agenda of follow-ups, and the operational agenda, which has the day  *)
(* of UTC and takes in what was rescheduled.                                *)

OnDay(day) == {t \in Tasks : task[t].status # None /\ ~task[t].archived /\ Day(task[t].due) = day}
OfStatus(day, status) == {t \in OnDay(day) : task[t].status = status}
daySummary(day) ==
  [total |-> Cardinality(OnDay(day)),
   pending |-> Cardinality(OfStatus(day, "PENDING")), completed |-> Cardinality(OfStatus(day, "COMPLETED")),
   cancelled |-> Cardinality(OfStatus(day, "CANCELLED")), rescheduled |-> Cardinality(OfStatus(day, "RESCHEDULED")),
   overdue |-> Cardinality({t \in PendingTasks : task[t].due < StartOf(day)})]

operationalAgenda ==
  [followUps |-> {t \in Tasks : task[t].status \in {"PENDING", "RESCHEDULED"} /\ task[t].due < now + Half},
   promises |-> {c \in Cycles : cycle[c].work = "PAYMENT_PROMISE" /\ cycle[c].status \notin {None, "PAID"}},
   renewals |-> {c \in Unpaid : cycle[c].due <= now + 30 * Half},
   fulfillments |-> {o \in Orders : order[o].status \in {"PENDING", "ASSIGNED", "PROCESSING", "FAILED"}},
   activations |-> {o \in Orders : order[o].activation \in {"PENDING", "FAILED"}}]

\* An opportunity that has not moved, or whose follow-up is late.
stalled(days) == {l \in Leads : lead[l].stage # None /\ lead[l].moved <= now - days * Half}
ageDays(l) == (now - lead[l].made) \div Half

----------------------------------------------------------------------------
(* The renewal center.  Its days start at midnight UTC, also for what is    *)
(* late; a renewal is worth one.                                            *)

centerWhere(q) ==
  {c \in Cycles : /\ cycle[c].status \in q.statuses /\ cycle[c].work \in q.works
                  /\ q.from <= cycle[c].due /\ cycle[c].due <= q.to}
WholeCenter == [statuses |-> {"PENDING", "DUE", "OVERDUE", "PAID", "CANCELLED"},
                works |-> {"PENDING", "PAYMENT_PROMISE", "LOST"}, from |-> 0, to |-> Max(Dues)]

renewalCards ==
  LET today0 == StartOf(Day(now))
      all == centerWhere(WholeCenter)
      next(days) == {c \in Unpaid : today0 <= cycle[c].due /\ cycle[c].due < today0 + days * Half}
      overdue == {c \in Unpaid : cycle[c].due < today0}
      paid == {c \in all : cycle[c].status = "PAID"}
      lost == {c \in all : cycle[c].work = "LOST"}
  IN [today |-> {c \in all : Day(cycle[c].due) = Day(now)},
      next7 |-> next(7), next15 |-> next(15), next30 |-> next(30),
      overdue |-> overdue, atRisk |-> next(7) \cup overdue, history |-> paid,
      rate |-> <<Cardinality(paid), Cardinality(paid) + Cardinality(lost) + Cardinality(overdue)>>]

\* What was paid in a period, which is the revenue of that month.
renewedIn(from, to) ==
  {c \in Cycles : cycle[c].status = "PAID" /\ \E t \in cycle[c].paid : from <= t /\ t < to}

calendar(q) == [d \in {Day(cycle[c].due) : c \in centerWhere(q)} |-> {c \in centerWhere(q) : Day(cycle[c].due) = d}]

\* Grouped by what a renewal has: its period, or anything else of it.
report(q, key) ==
  LET mine == centerWhere(q)
  IN [k \in {key[c] : c \in mine} |->
       LET rows == {c \in mine : key[c] = k}
       IN [count |-> Cardinality(rows), paid |-> Cardinality({c \in rows : cycle[c].status = "PAID"})]]

\* The page of the customer of some renewals, the one due last being the current one.
customerRenewals(cs) ==
  LET mine == {c \in cs : cycle[c].status # None}
  IN [count |-> Cardinality(mine), ltv |-> Cardinality({c \in mine : cycle[c].status = "PAID"}),
      current |-> {cycle[c].work : c \in {d \in mine : \A e \in mine : cycle[e].due <= cycle[d].due}}]

----------------------------------------------------------------------------
(* Correctness.                                                            *)

WorkListsInit ==
  /\ now = 0
  /\ task = [t \in Tasks |-> NoTask] /\ cycle = [c \in Cycles |-> NoCycle]
  /\ order = [o \in Orders |-> NoOrder] /\ lead = [l \in Leads |-> NoLead] /\ test = [t \in Tests |-> NoTest]

TaskStep ==
  \/ Pass
  \/ \E t \in Tasks, due \in Dues : PlanTask(t, due) \/ \E u \in Tasks : RescheduleTask(t, u, due)
  \/ \E t \in Tasks : ArchiveTask(t) \/ \E s \in {"COMPLETED", "CANCELLED"} : SettleTask(t, s)

CycleStep ==
  \/ Pass
  \/ \E c \in Cycles : \/ \E due \in Dues : OpenCycle(c, due)
                       \/ \E s \in {"DUE", "OVERDUE", "PAID", "CANCELLED"} : MoveCycle(c, s)
                       \/ \E w \in WholeCenter.works : PromiseCycle(c, w)

OrderStep ==
  \/ Pass
  \/ \E o \in Orders : \/ SellOrder(o) \/ UnsellOrder(o) \/ AddOrder(o) \/ BeginAttempt(o) \/ AddActivation(o)
                       \/ IssueCredential(o) \/ RevokeCredential(o)
                       \/ \E s \in {"ACTIVE", "SUSPENDED", "CANCELLED"} : MoveSub(o, s)
                       \/ \E s \in {"PENDING", "ASSIGNED", "PROCESSING", "COMPLETED", "FAILED", "CANCELLED"} : MoveOrder(o, s)
                       \/ \E s \in {"COMPLETED", "FAILED"}, more \in BOOLEAN : EndAttempt(o, s, more)
                       \/ \E s \in {"PENDING", "ACTIVE", "FAILED", "SUSPENDED", "REVOKED"} : Activated(o, s)

TestStep ==
  \/ Pass
  \/ \E t \in Tests : \/ \E due \in Dues : StartTest(t, due)
                      \/ \E s \in {"EXPIRED", "CONVERTED", "CANCELLED"} : EndTest(t, s)
  \/ \E l \in Leads, s \in {"NEW_LEAD", "POTENTIAL_BUYER", "PURCHASED"} : MoveLead(l, s)

WorkListsNext == TaskStep \/ CycleStep \/ OrderStep \/ TestStep
WorkListsSpec == WorkListsInit /\ [][WorkListsNext]_workVars

\* No work falls between two lists, whenever the page is opened.  A follow-up that is
\* pending is in exactly one section or due in more than a week, and in the agenda of
\* the operation if it is due.
TasksInSight ==
  /\ \A t \in PendingTasks :
       \/ t \in overdueFollowUps \cup todayFollowUps \cup upcomingFollowUps
       \/ task[t].due >= StartOf(Day(now) + 8)
  /\ overdueFollowUps \cap (todayFollowUps \cup upcomingFollowUps) = {}
  /\ todayFollowUps \cap upcomingFollowUps = {}
  /\ overdueFollowUps \cup todayFollowUps \subseteq operationalAgenda.followUps \cup {t \in Tasks : task[t].due >= now}

\* A renewal that is not paid is late, or urgent, or due in more than a week, and what
\* is due on the day is in one of the two; the agenda of the operation has all of these
\* and the promises; the cards of the center are within one another, and hold what my
\* day holds.
CyclesInSight ==
  /\ \A c \in Unpaid : c \in overdueRenewals \cup urgentRenewals \/ cycle[c].due >= now + 7 * Half
  /\ renewalsToday \subseteq overdueRenewals \cup urgentRenewals
  /\ overdueRenewals \cup urgentRenewals \cup vipRenewals \subseteq operationalAgenda.renewals
  /\ paymentPromises \subseteq operationalAgenda.promises
  /\ LET cards == renewalCards
     IN /\ cards.next7 \subseteq cards.next15 /\ cards.next15 \subseteq cards.next30
        /\ cards.overdue \cap cards.next30 = {}
        /\ \A c \in Unpaid : c \in cards.overdue \cup cards.next30 \/ cycle[c].due >= now + 29 * Half
        /\ cards.overdue \subseteq overdueRenewals
        /\ cards.next7 \subseteq overdueRenewals \cup urgentRenewals

\* Of what is delivered and tried: what waits for the operation is in its agenda, a
\* subscription that was sold waits in my day until it is activated or given up, and a
\* trial that runs is on a list from two days before its end.
OrdersInSight ==
  /\ \A o \in Orders : order[o].sold /\ order[o].sub = "PENDING" => o \in pendingActivations
  /\ pendingFulfillments \cup failedFulfillments \subseteq operationalAgenda.fulfillments
  /\ \A t \in Tests : test[t].status = "ACTIVE" =>
       t \in expiringTrials \cup expiredTrials \/ test[t].ends > now + 2 * Half

\* The days of the agenda and the groups of the renewal center add up, and its cards and
\* its calendar leave nothing out of the whole.
CenterAddsUp ==
  /\ \A d \in {Day(t) : t \in Dues} :
       LET s == daySummary(d) IN s.total = s.pending + s.completed + s.cancelled + s.rescheduled
  /\ LET cards == renewalCards
         rows == centerWhere(WholeCenter)
         byDay == report(WholeCenter, [c \in Cycles |-> Day(cycle[c].due)])
     IN /\ renewalsToday \subseteq cards.today
        /\ UNION {calendar(WholeCenter)[d] : d \in DOMAIN calendar(WholeCenter)} = rows
        /\ SumFunction([d \in DOMAIN byDay |-> byDay[d].count]) = Cardinality(rows)
        /\ SumFunction([d \in DOMAIN byDay |-> byDay[d].paid]) = customerRenewals(Cycles).ltv
        /\ cards.history = renewedIn(0, LastTick + 1)

NothingForgotten == TasksInSight /\ CyclesInSight /\ OrdersInSight /\ CenterAddsUp

\* Does not hold: a renewal due earlier the same day is both of today and late.
RenewalListedOnce == renewalsToday \cap overdueRenewals = {}

\* Does not hold: a section of the operation has more than it shows and says so.
MoreIsTold == operationalSections.overdueRenewals.hasMore = (Cardinality(overdueRenewals) > Limit)

\* Does not hold: a retry that was made and that succeeded is no longer listed as one
\* to be made; attempts keep their outcome.
RetriedIsDone == \A o \in Orders : order[o].status = "COMPLETED" => o \notin provisioningRetries

\* Does not hold: the rate of renewal counts a renewal once; one that is late and that
\* was given up is counted as both.
RateCountsOnce == renewalCards.rate[2] <= Cardinality(centerWhere(WholeCenter))
=============================================================================
