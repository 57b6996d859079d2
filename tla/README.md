# SuperFlash CRM: verification project

TLA+ models of the parts of SuperFlash CRM in which order, concurrency and
failure decide whether the business data is right: money on sales, recurring
charges, the transactional outbox and the automation engine behind it, messages
that arrive twice or late, the records that people edit at the same time, and
the figures and lists of work that are read from all of them.  TLC checks small
instances; TLAPS proves the properties that matter most for every value of the
constants.  `PROJECT.json` maps each definition to the lines it models and
lists every run, property, mutant, hazard and theorem.

Contents: 1 the system, 2 modules, 3 properties, 4 runs and bounds,
5 fairness, 6 proofs, 7 divergences, 8 abstractions, 9 what is not modelled,
10 plan.

## 1. The system

The repository is a monorepo: a NestJS API over PostgreSQL through Prisma
(`apps/api`), a React front end (`apps/web`), a read-only WhatsApp reader
(`apps/whatsapp-reader`) and shared packages.  The API holds the logic.

*How it runs.*  Several API processes may share one database.  A handler is
one PostgreSQL transaction at READ COMMITTED.  Some take `SELECT ... FOR UPDATE`
or advisory locks on the rows they decide about; many read first, outside any
lock, and write later, and the unique indexes and CHECK constraints of the
migrations stand behind them.  Each process also runs timers: the outbox every
second, the automation engine, the WhatsApp webhook processor, the reminders,
the exchange rates once a week.

*How the parts interact.*  Services call each other within a transaction
(a confirmed sale takes stock, writes a payment, opens a subscription); they
tell others by writing an `OutboxEvent` row in the same transaction; the outbox
delivers it to in-process listeners, of which the automation engine is the
main one; and the engine writes rows and further events.  Dashboards, agendas
and the inbox keep nothing: they are queries over the rows of the others.

| Component | State it keeps | Operations | What makes it correct |
|---|---|---|---|
| Sales | `Sale`, lines, status DRAFT, PENDING, CONFIRMED, FULFILLED, CANCELLED, soft delete | create, convert an opportunity, edit, confirm (with payment), fulfil, cancel, remove | never holds more than its total; money only on billable sales; amounts frozen under money |
| Payments | `Payment`, net and refunded amounts, idempotency key | create, confirm, fail, refund | one payment per key; settled history only grows |
| Commissions | fee table per method | update | fees fixed when the payment is written |
| Product stock | quantity, tracking switch, movements | adjust, switch, taken by a confirmation, returned by a removal | taken once; returned as taken |
| Subscriptions | status, current period | open with a sale or by request, activate, suspend, expire, cancel | an end is final; opened on a billable sale |
| Renewals | status, period, cycle key, source and generated sale | request, pay, mark due, cancel | charged once; the chain goes on; nothing to collect on a removed sale |
| Renewal center | workflow of a renewal, reminders, imported history | generate, deliver, import, set the workflow | a reminder delivered once; a cycle imported once |
| Outbox and event bus | `OutboxEvent`, status, claim time | enqueue, claim, dispatch, write outcome | at-least-once delivery; exclusive claims |
| Automation | rules with their actions, executions, action statuses, deadlines announced | edit a rule, scan deadlines, listener, claim, run, retry | one execution per rule and event, of one edition of the rule; one per date of a deadline; actions in order; tried to the end |
| WhatsApp Cloud API and reader | webhook events, messages, conversations | receive, claim, apply | no message left behind, each counted once |
| Conversation sync | checkpoint with a claim | claim, page, complete, fail, recover | one run at a time |
| Smart inbox | nothing of its own | list, panel, timeline, actions | no conversation with something to do is out of sight |
| Fulfillment, activations, providers | attempts, activation status | assign, start, provision, complete, fail, cancel | one live activation; attempts numbered; no late answer over a decision |
| Trials | period, status | request, approve, activate, expire, cancel, convert | periods of one contact and offer (product, plan, variant) never overlap |
| Exchange rates | rates, a lock row | refresh, enter, convert | a quiet week refreshes everybody once |
| Financial | expenses, categories, recurring templates | record, edit, archive, generate occurrences, reports | each occurrence once; figures reconcile |
| Opportunities and pipeline | stages, cards, interest and its history | create, move, edit, assign, archive, restore, reopen, purchase; stages in order | every category has a stage; a closed card is reopened only explicitly; the board loses no card |
| Follow-ups and my day | follow-ups | plan, complete, cancel, reschedule, archive; agendas | replaced once; nothing due is forgotten |
| Contacts, tags, customers | contact, phone, owner, stages of a prospect | create, edit, archive, restore, remove, lead, tag | a lead leaves its contact whole, with one original attribution; what was read is not believed |
| Catalog | price books, entries, history; categories, plans, variants | create, edit, activate, default, archive, resolve | the best match is found; what was charged is on record; an inline creation ends with a live category, or with one created switched off as asked |
| Marketing | campaigns, ad sets, spend, imports | create, record, attribute, import | a row of a file written once |
| Revenue, executive and operational dashboards, daily metrics | materialized view; daily metrics | read, refresh, enter, import | the figures of one day agree; an import is whole |
| Authentication and web session | refresh sessions; the page's token | login, rotate, logout, reset; call, renew | one live session per family; logged out only for a reason |
| Notifications and templates | their rows | create, edit, archive, render; read, archive | variables are those of the texts; what is archived is not used |
| Credentials, audit | their rows | edits under one transaction each | permissions, uniqueness |

*Which behaviours are hard.*  Decisions on rows read without a lock
(`payments.service.ts:99`, `subscriptions.service.ts:83`, every edit of the
catalog and of contacts); retries and double clicks on everything that charges
or creates; a unique violation caught inside a transaction that PostgreSQL has
already aborted; processes that die between an effect and the record of it, or
outlast their claim; listeners that run again for an event they handled; two
instances whose timers do the same work; and long sequences of legal calls
(confirm, cancel, remove; pay, edit the duration, pay again).  `hazards` in
`PROJECT.json` has each at its line.

## 2. Modules

| Module | Models | Extends |
|---|---|---|
| `SalesPayments` | sales, payments, commissions, stock | standard modules |
| `Billing` | subscriptions and renewals, composed with the above | `SalesPayments` |
| `EventDelivery` | abstract: at-least-once delivery of committed events | standard modules |
| `Outbox` | `OutboxService`, `OutboxProcessor`, `ApplicationEventBus` | standard modules; `EventDelivery` by `INSTANCE` |
| `Automation` | the engine, composed with the outbox that feeds it | `Outbox` |
| `AutomationRules` | rules and their editing, deadlines and their scans, executions by type of action, templates, notifications | standard modules |
| `WhatsAppInbound` | webhooks, the poller, the listener, the reader | standard modules |
| `RecurringExpenses`, `FxRefresh`, `ReadOnlySync`, `Provisioning`, `Trials`, `AuthSessions` | one component each | standard modules |
| `Pipeline`, `FollowUps`, `Opportunities` | stages; follow-ups; cards that move among stages and plan follow-ups | `Opportunities` extends the other two |
| `PriceBooks`, `CatalogItems`, `Contacts`, `Marketing`, `RenewalCenter` | one component each | standard modules |
| `WebSession` | the page over the sessions of the API | `AuthSessions` |
| `ReportRows` | the rows reports read and how handlers change them | standard modules |
| `ExecutiveReports`, `OperationsReports`, `FinancialReports`, `RevenueReports` | the queries of the dashboards, each over the modules before it | `ReportRows` and each other |
| `WorkLists`, `SmartInbox`, `PipelineBoard`, `DailyMetrics` | lists of work, inbox, board, metrics, each with the steps that change them | standard modules |
| `MC*` | instances for TLC; `MCAutomation`, `MCParts`, `MCRecords` and `MCReports` compose modules that share no row | their modules |
| `*Proofs` | theorems (section 6) | their modules and TLAPS |

**`SalesPayments`.**  `sale` and `payment` are the rows, `stock`, `tracked` and
`moved` the product and its movements, `fee` the commission table, `request`
the creation requests in flight.  A handler that locks what it decides about is
one action.  `PaymentsService.create` is not: `SubmitPayment` is its unlocked
reads of the sale, the commission and the key, `InsertPayment` the insert that
the unique index may refuse, `RecoverPayment` the catch of P2002 that reads the
winner.  `CreateRenewalSale` is the part of `RenewalsService.pay` that writes a
sale and its payment without going through either service.

**`Billing`.**  `sub` and `ren` are the subscription and the renewals of a
sale's line; `opening` holds the from-sale-item requests that read the status
of a sale without a lock (`SubmitOpening`, `InsertOpening`).  The handlers of
`SalesPayments` that also write subscriptions (confirm, sell, remove) are
conjoined here with that part, so `RemoveSale` is `Remove`, the closing of
renewals and the cancellation of the subscription in one step.  A renewal is
named by its subscription and the period start its `cycleKey` was built from;
the period on the row may move away from that name, as it does in the code.
An activation moves its subscription under the guards of `Activate` and
`Suspend`, so these two actions stand for it as well.

**`Outbox`.**  `event` has the status of each row and whether its time has come
(`availableAt` passed, or the claim is older than five minutes); `batch` is what
each process holds; `phase` is the place in the `try` of `dispatch`.  `Claim` is
the whole polling transaction.  The write of a success is inside the `try`
(`LoseWrite` when it fails), outcomes are written by id whatever the row says
(`Finish`), and `Abort` is both a crash and a failed write of a failure: the
rest of the batch stays PROCESSING.

**`Automation`.**  The listener is two steps, `ReadRules` and
`InsertExecutions`, inside the dispatch of an event; `Succeed` and `Throw` of
`Outbox` are conjoined with them.  A runner claims executions, loads one with
its statuses (`Load`), and for each action claims it (`StartAction`), performs
it in its own transaction (`Perform`, `Skip`, `ThrowAction`) and writes its
status in another (`Record`, `RecordFailure`).  It may die, or outlast its
claim, between any two of these.

**`AutomationRules`.**  `Automation` has rules that never change and all the
races of an execution; here one runner performs an action and writes its status
in one step, and what varies is what it is told.  An edit of a rule with its
actions is the start of its `deleteMany`, which fixes the actions it deletes
(`SeeActions`), and its commit (`CommitEdit`), which the foreign key of executions
or the unique (rule, order) may refuse.  The listener reads the context, the
rules, and their actions in three queries (`ReadContext`, `ReadActive`,
`ReadActions`) before it inserts.  A scan reads all deadlines and then enqueues
one event after the other, each in its own transaction (`Announce`).

**`WhatsAppInbound`.**  `hook` has the webhook rows, `batch` and `job` what a
poller or a listener holds.  A poller reads what is due and claims it by an
update; a listener claims nothing.  The transaction that stores a message is a
read and an insert that a unique index may refuse.  `post` is what the reader
sends once and forgets.

**The parts.** `RecurringExpenses` reads a template and commits its occurrence
in two steps; `FxRefresh` has the lock row that is read, then written, and
deleted by whoever ends; `ReadOnlySync` the claim of the checkpoint and the end
of a run in two steps (its outcome, then audit and event in the same `try`,
which may throw and write FAILED over the next claim); `Provisioning` the two
transactions around the call of an adapter; `Trials` the advisory lock of an
offer, which makes a request atomic but for its key; `AuthSessions` the rotation
that only takes a session not yet revoked. `Pipeline`'s administrators hold one
advisory lock while `Opportunities`' movers take none, and `FollowUps` change by
conditional updates.

**The records.**  Each request of `PriceBooks`, `CatalogItems`, `Contacts` and
`Marketing` is its read (`edit`, `bookEdit`, `quick`...) and its write, so that
whatever the read decided may be stale at the write.  `PriceBooks` has the
comparator of the code (`Beats`), and `BestMatchWins` the reference it must
agree with.  `Marketing` imports row by row, with a stop between any two.
`RenewalCenter` has two instances that generate the same reminders.
`WebSession` has calls in flight that all meet the 401 of one expired token.

**The reports.**  `ReportRows` changes rows in whole transactions, as their
handlers commit them; the modules over it are the queries, one operator per
figure, written from the WHERE and GROUP BY of each.  `WorkLists`, `SmartInbox`
and `PipelineBoard` do the same for lists, with cursors and limits kept.
`RevenueReports` adds the refresh of the materialized view, `DailyMetrics` the
transactions of its entries and imports.

## 3. Properties

Each module has one type invariant, proved for most of them.  The others:

*Money.*
* `PaidWithinTotal` (what settled payments bring to a sale is within its total,
  and what is refunded of a payment within its net), `MoneyOnlyOnBillable`,
  `PaidSaleFrozen`, `SettlementIsFinal`: where money may be and what may never
  be rewritten.
* `IdempotentCreation`: requests that share a key create one payment, and all
  that are not refused get that one, with what they asked for.
* `ChargedOnce`: each paid renewal has one sale of its own for its amount with a
  settled payment of it, and every such sale answers to one renewal.
* `ChainUnbroken`, `EndedIsFinal`: once paid, a renewal is followed by another;
  an ended subscription is neither revived nor charged.
* `OpenRenewalHasSource`, `OrphanedOnlyByRace`: a renewal that can be paid has a
  live sale behind it, or renews a subscription over a removed sale; only a
  from-sale-item request that inserts after the removal leaves such a one.

*Events.*
* `KeepsPromise`, `KeepsSafety`: the outbox refines `EventDelivery`, with
  `committed` the rows that exist and `closed` the PROCESSED ones.
* `ExclusiveUntilStale`, `EventuallyProcessed`.
* `ActionsInOrder`, `EmitsOnce`, `TriedToTheEnd`, `RedeliveryHarmless`.
* `RunsStand`: an execution has the actions its rule had at one moment and still
  has (`RunsWholeEdition`); a rule runs once for a date of a deadline
  (`OncePerDeadline`).
* `ProcessedIsStored`, `UnreadMatches`, `EventuallyStored`.

*Parts.* `ScheduleAhead` (a template is never behind an occurrence on record),
`QuietWeekRefreshes` (a week in which nobody interferes refreshes every
organisation), `OneOwner` (one run has the checkpoint, until one outlasts its
claim or one that had succeeded fails the claim of the next),
`NoOverlappingTrials` (of one offer), `FamilyHasOneLive`,
`EveryCategoryHasStage`, `ReopenedOnlyExplicitly`, `RescheduledOnce`.

*Records.*  `BestMatchWins` (a sort by five merits finds what narrowing down by
segment, country, default and priority finds), `ChargedOnRecord`,
`RowsWrittenOnce` (each row of a file of marketing), `LostOnlyByRace`,
`QuickEndsWithLiveOne` (with a live category, alone with its slug, or with the
one it inserted switched off as it was asked to), `ToldIsRecorded`,
`DeliveredOnce`.  `LeadsEndWhole` (a lead ends with a contact that has one
original attribution, a state and an opportunity, or with nothing) is proved and
named by no run: that two contacts never share a phone is the index alone, and
no property says it.

*Reports.*  `FiguresReconcile` (the parts of a figure add up to it, and no part
is counted twice; two tables leave something out, and the property says exactly
what: that of the sellers the sales of users switched off, the pages of the
customers those of removed contacts and of who bought more than the 100 sales a
page takes), `FiguresAgree` (two screens that speak of the same rows give
the same number; on what recurs these are revenue intelligence and the finances,
which bring an amount to a month by its billing cycle, and they differ by the
trials and nothing else), `WorkInSight` (nothing due, late, unread or open is on
no list, subscriptions that wait for their activation included), `ViewCountsOnce`,
`ImportWhole`.

## 4. Runs and bounds

| Run | Checks | Bounds | Why they are enough |
|---|---|---|---|
| `sales` | the safety of `SalesPayments`; its types are proved | 1 sale, 2 payments, 2 requests, 1 key, 1 product, amounts to 2 cents, fee 0 or 1 | two payments make an excess; two cents make a partial refund; two requests with one key race; a fee that changes separates net from gross |
| `billing_core` | charges, the chain of renewals and the end of subscriptions | 1 sold sale, the sales of 2 renewals, 2 payments, amounts to 1, periods to 2 | a second charge needs two renewal sales; period 2 is reached by paying twice or by a longer duration |
| `billing_opening` | removal and what it leaves open, with from-sale-item races | 1 sold sale, 1 renewal sale, 1 payment, 1 request | the race has two parties.  With this request the state space of `billing_core` is out of reach, so they are two runs |
| `outbox` | all of `Outbox` | 2 events, 2 processes, batches of 1 | there is more to do than a batch holds, and two processes overlap on a stale claim.  That a batch of several is safe is proved |
| `automation_runs` | the safety of `Automation` and of `AutomationRules` | engine: 1 event, 1 rule, 2 actions of which the second emits an event, 3 attempts, 2 runners; rules: 2 rules, 5 actions, one of each type, 2 events, 2 editors, 2 scans, 2 deadlines | two runners inside one execution, and a third attempt after both; two edits that see the same actions while a listener holds them; two scans of one deadline whose date moves between them |
| `automation_ends` | its liveness | as above with 1 action and 2 attempts | every way a runner can be lost is in one action |
| `inbound` | all of `WhatsAppInbound` | 2 webhooks that share a message, 3 messages with one invalid sender, 2 pollers, 1 listener; or 2 posts of the reader | the shared message is stored twice at once; a claim is lost and taken by another |
| `parts` | one property or more of each part | two actors and the fewest rows that two of them can fight over; `Parts.cfg` names them.  One follow-up is archived at a time; under moves there are two, of one user, with one rescheduling (`FewFollowUps`).  Trials, sessions and follow-ups are made in the order of their names (`InTurn`), which loses no behaviour but for a renaming | each hazard of these parts has two parties, and a third attempt, session or follow-up where it takes one to go wrong: two requests reschedule one follow-up with an id left for a second replacement |
| `records` | the records | 2 books of 3 scopes with 3 entries and 2 editors of them, 3 categories with 2 inline creations of one slug, 2 plans, 2 contacts and phones, 2 campaigns, files of 2 rows, 3 sessions with 2 calls; see `Records.cfg` | two editors read one entry and the later writes the old price back; a third category or entry is what a stale read falls on; a lost insert is looked for again in a later step, when the row that won may be archived or renamed (one of them is, `OneRenamed`) |
| `reports` | figures and lists | 2 sales of 3 lines, monthly, of 15 days and a trial; 2 sellers, one switched off and on; 2 payments, 2 buyers that come on the first day, 2 days of a month each, pages of 1 sale (`PageTake`), a log of 9 rows in a conversation, 3 cards; drafts on the day of their opportunity; see `Reports.cfg` and the parts of `MCReports` | a row and its twin in every group that a query forms; a customer with more sales than a page; a cycle that is not a month, and one that two figures weigh differently; today, tomorrow, in a week and after it |
| `billing_period_twice`, `automation_two_rules` | one claim each, refuted | the smallest in which it fails | section 7 |

`automation_runs`, `parts`, `records` and `reports` compose modules, or parts of
one, that share no row: a behaviour belongs to one part, chosen in the initial
state (`part`), and the other parts stay as they began. This is sound because no
action of a part reads another's variables. A property is then about the parts
whose actions move its variables.

Every bound is a constant in the `.cfg`: `MaxAmount`, `MaxQuantity` and
`MaxStock` for amounts and stock, `Horizon` for the period starts explored (a
handler that would leave it is not explored), `BatchLimit` for LIMIT 20 (and
`PageSize`, `Limit`, `Many`, `Few`, `Cut` for the page sizes of lists),
`MaxAttempts` for `MAX_EXECUTION_ATTEMPTS` (5), `ActionCount`, `LastDay`,
`LastWeek`, `LastTick` for the clocks.  Rows are model values and symmetric
where no temporal property with fairness is checked and where symmetry costs
less than it saves.  Deadlock is not checked: in each of these systems every row
may legitimately reach a final state with nothing left to do.

To run one: `tlc -config Sales.cfg MCSalesPayments.tla`.  `outbox` runs `Outbox`
itself; `automation_ends` and `automation_two_rules` run `Automation` itself.

## 5. Fairness

Safety runs assume none.  `FairOutboxSpec`, `FairAutomationSpec` and
`InboundFairness` assume what the timers and `await`s give:

* a process polls when there is something to claim (`setInterval` every
  second), and an awaited call returns, so a started step is finished: weak
  fairness of `Claim`, `MarkFailed`, and of the steps of a run or of a job;
* clocks advance: weak fairness of `Elapse`;
* a listener and the write of its success do not fail for ever: strong fairness
  of `Succeed` and `MarkProcessed`, since they may be interrupted by failures;
* processes stop dying at some point, and a batch that is not interrupted ends
  within its five minutes from some point on (no more `Overrun`).  Before that
  point both happen as often as they like.  Without the second assumption two
  processes can overwrite each other's outcome of the oldest event for ever,
  and a newer one is never reached.

The liveness results say that nothing but an eternal failure keeps an event or
a message from being processed; they do not say that a listener with a bug
recovers.  The parts, records and reports have no liveness property: what they
must do in the end is done by a person or by the next tick of a timer.

## 6. Proofs

TLAPS checks every theorem for all constants that satisfy the named
assumptions: finite sets of rows, bounds that are natural numbers, model values
that stand for "none" outside their sets, and the like.  An assumption is in the
module that declares the constant and TLC evaluates it on every run.

| Module | Proves | By the inductive invariant |
|---|---|---|
| `SalesPaymentsProofs` | `TypeOK`, `PaidWithinTotal`, `MoneyOnlyOnBillable`, `PaidSaleFrozen` | `MoneyInv` |
| | `IdempotentCreation`, `SettlementIsFinal` | `KeysInv` |
| `BillingProofs` | that each step is one of `SalesPayments`, and so `PaidWithinTotal` of the composition | `BillingTypeOK` |
| | `EndedIsFinal` | `EndInv` |
| | `ChargedOnce`, `ChainUnbroken` | `ChargeInv` |
| | `OpenRenewalHasSource` | `SourceInv` |
| | `OrphanedOnlyByRace` | `StandInv` |
| `OutboxProofs` | `ExclusiveUntilStale`, `KeepsSafety` | `OutboxInv` |
| | `OutboxSpec` of the automation engine, `ActionsInOrder`, `EmitsOnce` | `RunsInv` |
| | `RunsStand` | `EditionsInv` |
| `RecordsProofs` | `BestMatchWins` | none: it holds of every state |
| | `ChargedOnRecord` | `PricesInv` |
| | `QuickEndsWithLiveOne` | `QuickInv` |
| | `LeadsEndWhole` | `PhonesInv` and `LeadsInv` |
| | `RowsWrittenOnce` | `ImportsInv` |
| | `ToldIsRecorded` | `SpendInv` |
| | `DeliveredOnce` | `NotifiedAreDelivered` |
| `RequestProofs` | `FamilyHasOneLive`, `EndedStaysEnded` | `SessionsInv` |
| | `LostOnlyByRace` | `WebInv` |
| | `ProcessedIsStored`; `UnreadMatches` | `Held`; `CountsInv` |
| `ReportProofs` | `ImportWhole` | `MetricsInv` |
| | `WorkInSight`, from `NothingForgotten`, `InboxKeepsInSight` and `BoardIsWhole` | `CenterInv`; `InboxInv`; `BoardInv` and `ReaderInv` |
| | `FiguresReconcile`, from `ReportsReconcile` | `RowsInv` |
| | `FiguresAgree`, from `FrontsAgree` | `RowsInv` and `FinancesInv` |
| | `ViewCountsOnce` | `RowsInv` |
| `OpportunitiesProofs` | `EveryCategoryHasStage` | `StagesInv` |
| | `ReopenedOnlyExplicitly`, `RescheduledOnce` | `MovesInv`, `RowsInv` |
| `LockProofs` | `NoOverlappingTrials`; `OneOwner`; `QuietWeekRefreshes`; `ScheduleAhead`; `AttemptsNumberedOnce`, `ActivationOfCompleted` | `TrialsInv`; `SyncInv`; `FxInv`; `RecurringInv`; `NumbersInv` |

*Sales and payments.*  `PaidWithinTotal` is not inductive by itself.  `MoneyInv`
adds the types and `MoneyOnlyOnBillable`: a draft may be repriced and a
cancelled sale is left alone, so if either held money its total could fall
below it.  The money of a sale is a set of cents (`Cents`), so that the sum of a
column is a cardinality; `GainStep` and `NoGainStep` bound what one step can
add, and `StepMoney` has one step per action.  `KeysInv` adds `OneHolder` (the
unique index, kept by every way a payment is written) and `AnswersFit` (an
answered request was answered with a payment that exists, has its key and what
it asked for); it needs that nothing of a payment that an answer is compared
with ever changes, which is the lemma `PaymentsKept`, and from the same lemma
`SettlementIsFinal` follows.

*Billing.*  The lemma `BillingImplementsSales` maps each step of the composition to a
step of `SalesPayments` or a stutter, so every theorem above holds of it
(`BillingNeverOverpays`).  `BillingTypesHold` is proved beside it, because a
payment of a renewal is a step of `SalesPayments` only when the amount of the
renewal is well typed.  `EndInv` says that a request in flight holds the line of
a sale without a subscription, so that its insert can never overwrite one.
`ChargeInv` is about the table of renewals: rows need a subscription
(`RowsNeedSub`), a row is well shaped and one period further on there is another
if it is paid (`RowsShape`), a row with a sale has a settled payment of its
amount on it (`SalesSettle`), no two rows name one sale (`OneRowPerSale`) and no
sale of a renewal is without a row (`SalesAnswer`).  It rests on lemmas about
what a step may do to one row (`RowSteps`) and about what settles a charge
(`SettlesStays`: the payment, its amounts and the total stay, by the theorems
of `SalesPayments`).
A from-sale-item request can open a subscription over a sale removed since it
read it (`OpenedOnBillableSale`, section 7), whose renewals then have no live
source.  So `SourceInv` keeps `SubEntered`, that the sale of every subscription
was once confirmed or removed and is never a draft again: such a subscription
and its sale are then written by nothing that would take them away
(`OrphanStays`), and `OpenRenewalHasSource` names this case and no other.  With
the same facts `OrphanedOnlyByRace` says where the case comes from.

*Outbox and automation.*  `OutboxInv` strengthens `ExclusiveUntilStale` with
`FreshClaims` (a claim that never went stale is not yet due, so nobody else can
take it) and `Accounted` (who holds a success has delivered; what is closed was
delivered).  Every step of `Automation` is a step of `Outbox` or leaves its rows
alone (`AutomationImplementsOutbox`), so `KeepsSafety` is inherited.  Within an
execution, `RunsInv` says that an action with a final status was performed or
skipped by somebody (`SettledIsHandled`), and so were all the actions that a
runner loaded as done or has gone past (`RunnersInOrder`): a runner that
outlived its claim acts on a list that is stale but never ahead.
`EditionsInv` is why an execution stands: the actions of a rule are at every
moment one edition of it (`RulesWhole`), what a listener read of a rule is one
too (`HearingFits`), and an edit deletes only what it saw and what no execution
refers to, so the edition an execution was made of is never broken afterwards.
`OncePerDeadline` follows from `KeysOnce`, the unique key of the outbox.

*Inbound messages.*  A job knows which messages of its webhook it has passed
(`JobFits`), and a message once stored stays, so a webhook marked PROCESSED by
anybody, whoever holds its claim, has all of them.  The counts need only that a
row is inserted where the unique index finds none.

*Prices.*  The code sorts candidates by segment, country, default, priority and
age, and takes the first.  `Before` is shown to be a strict total order on
entries; a set of candidates that is not empty then has exactly one least
element, by well-foundedness of strict inclusion on the finite sets of entries
that come before a candidate; and that element is the one that narrowing down
by one merit after another leaves.  `PricesInv` is about charges: the price in
an entry, in a quote and in an edit under way was recorded in its history when
it was written.

*Records under edit.*  Each of these rests on a unique index and on what is
never taken away.  `QuickInv`: live categories have different slugs, and the
category an inline creation found is still there, deleted or not, when it
answers; a creation that lost its insert looks again in a step of its own, and
ends without a category when the one that won is gone.  `LeadsInv`: what a lead
saw its contact to have it still has, because no request takes an attribution
or a state away (`OriginsStay`), so what it adds is what was missing.
`ImportsInv`: an import is
written by one request, and it has not written the rows it has left.
`SpendInv` needs only the shape of a request; the rest is the step.
`NotifiedAreDelivered`: a notification and the delivery of its reminder are one
transaction, and a delivered reminder is never taken up again.

*Imports of metrics.*  A file is written row by row in one transaction, and
another request may be doing the same.  `MetricsInv`: what is committed is of
requests that ended; a request holds one row a key, its own or a committed one,
and one for each line of the file before the line it is at (`RowsInOrder`).  So when
it commits it commits them all, and until then none.

*The parts of the reports.*  A behaviour of `MCReports` is that of one part,
chosen at the start.  `PartsAreBehaviours` shows that it is a behaviour of the
specification of each module (a step of a part is a step of its module or leaves
its variables alone), so each theorem is proved of the module, where everything
moves at once, and holds of the run.

*Pages.* `WorkInSight` is three results. The lists of work are conditions on
rows and on the clock, so `CenterInv`, the shape of the rows and that a paid
renewal has the instant it was paid at, is all they need; the proof is the
arithmetic of days and of instants within them, and of the sums of the renewal
center. `InboxInv`: a conversation has counted its messages, and what was
planned for an opportunity while it was open waits only as long as it is; a
follow-up can be planned for a closed one too, by hand and with a note. A
message that is found late is inserted and not appended, so that one more is
counted needs a bijection (`StoredAddsOne`); that a page has the newest row
needs that a finite set of places has a last one (`LastExists`), by
well-foundedness as for the prices; and that the timeline has no hole in a kind
is that of the newest rows of a kind, cut again, all that are newer remain
(`NewestAreOf`). `BoardInv`: an edit under way is of a card on the board, only
such a card has a history, and each is told (`ToldOf`). An edit may write over a
row newer than the one it read, but it writes an amount with its currency, a
responsible with the activity that tells it, and into the history only an
interest that was resolved. `ReaderInv` is about who pages through a column:
whatever it has seen is not before its cursor, and a card that stayed in the
column since it began was seen or is still ahead of the cursor. A page is what
is ahead, cut at its size, so nothing comes twice and nothing that stayed is
passed over.

*Figures.*  The figures are sums over sets of rows, folds whose value for every
input looks like an induction over data.  It is avoided: `SumFunctionOnSet` is a
CHOOSE of the function that adds element by element (`SumIsAdded`), and a law of
sums that failed would fail on a smallest subset, which exists because strict
inclusion on finite sets is well-founded.  From that come `SumTakes` (a sum less
one of its elements), `SumPlus`, `SumSkips`, `SumOfGroups` (the groups of a
partition add up to the whole) and `CountOfGroups`.  A figure that is split by
day, month, country or seller is then a partition of its rows, and the proof
names its groups; that they cover the rows is what the
rows must provide.  `RowsInv` says what that is: a row that is there refers to
exactly one of each row it needs, so that no group misses it and no two share it;
a sale is never worth less than nothing, so that what campaigns brought is at
most the revenue; and a payment that is not wholly given back is of a sale that
is billed, so that the money by method is the money of the sales.  The last two
are about several rows and the order in which handlers let them change; TLC found
`RowsInv` true of every state of a run before it was proved.  What recurs is
counted in twelfths of a cent, so that a week, a month, a quarter, half a year and a
year come out whole; the KPIs add the twelfths of each subscription, and the
lemmas `MonthlyIs` and `TwelfthsAdd` say that the finances add the same and the
trials besides.  The table by seller and the pages are sums over part of the
rows, so what they lack is added on the other side (`SalesApart`, `LinesApart`).
`FinancesInv` adds that an
expense has one of the two currencies.  `ViewCountsOnce` is about the query of
the migration: its groups are by day, name of the product, country, seller and
provider, and a line is in one of them because its provider is that of its first
delivery.

*Sessions.*  `SessionsInv` adds that a refresh reads a session that was opened.
`WebInv` is a disjunction: the user left, or two calls asked to renew with one
cookie, or all is `Calm`: the cookie of the page is the one live session of its
family and each call that renews it fits that (`CallFits`).

*Pipeline.* `StagesInv` has that an administrator changes stages under the lock
(`ChangesUnderLock`), so that the other stage of the category it saw before it
archives one is still there when it writes (`AnotherRemains`). `MovesInv` has
that a mover in its transaction holds its card where it read it.

*The locks.* `TrialsInv`: a request that holds the lock and found no overlap
still finds none. `SyncInv`: until a run outlasts its claim, or one past its
success fails another's, whoever works is the only one that does and the claim
has not lapsed. `FxInv`: if nobody interferes, somebody has yet to refresh what
is not written. `RecurringInv`: a request that read a template read the date
after all those charged, and all requests on it read the same. `NumbersInv`: the
counter of attempts is ahead of them all.

*Only model-checked.*  What is temporal under fairness (`KeepsPromise`,
`EventuallyProcessed`, `TriedToTheEnd`, `RedeliveryHarmless`,
`EventuallyStored`): the prover has no ENABLED, although the safety part of the
first is proved (`KeepsSafety`).  Every other property of a passing run is a
theorem.

## 7. Divergences

Two runs refute a statement of the repository's documents; the counterexample is
a sequence of calls the API accepts.

1. `billing_period_twice`: editing the duration of a sale moves the periods of
   its open renewals but not their cycle keys, so one period is paid twice
   (`sales.service.ts:508`; `docs/ADR-012-renewal-cycle-identity.md:9`).
2. `automation_two_rules`: with two active rules for an event, an event delivered
   again fails on every delivery from then on, because the unique violation is
   caught inside an aborted transaction (`automation.service.ts:425`;
   `docs/automation-engine.md:20`).

*Divergences without a run.*  The following claims are stated as definitions of
the module they are about (or of its `MC` module, which says which configuration
refutes each): name one in a configuration to see the trace.

Money:
* `CreatedOnBillableSale`: a payment is inserted on a sale cancelled after the
  unlocked read of its status (`payments.service.ts:99`; `docs/payments.md:3`).
* `SamePayloadIsReused`: a retry is refused as a conflict when the commission
  changed in between (`payments.service.ts:86`; `docs/payments.md:23`).
* `RemovalReturnsTaken`: stock of a sale cancelled and then removed is never
  returned, and a sale a renewal created returns stock nobody took
  (`sales.service.ts:808`; the dialog of `sales-page.tsx:722`).
* `RemovalClosesRenewals`: the renewal that a payment scheduled stays open when
  the original sale is removed (`sales.service.ts:862`; the same dialog).
* `PaymentAdvancesPeriod` (`docs/renewals.md:24`), `PaidIsNotCancelled`
  (`docs/renewals.md:12`), `AlwaysRenewable` (`docs/renewals.md:7`),
  `RenewalIsPayable` (`docs/renewals.md:11`), `OpenedOnBillableSale`
  (`docs/subscriptions.md:3`).
* The CHECK `Sale_total_formula_chk` refuses totals that the service computes
  from line discounts when a draft is edited (`sales.service.ts:642`).

Events and integrations:
* `FoundRulesRun`: a violation on the last rule makes the COMMIT roll back
  without an error, and a rule that was found never runs
  (`automation.service.ts:425`; `docs/automation-engine.md:12-14`).
* `NotRepeated`: an action whose status was not written is performed again
  (`automation.service.ts:543`; `docs/automation-engine.md:17`).
* Rules: `EditReplaces` (of two edits at once the later leaves actions of both);
  `ActsOnWhatMatched` (an execution acts on the context of its run, whose
  conditions nobody asks again).  An edit of the actions of a rule that has
  executions fails with an unhandled foreign-key error, and a clash of two
  orders is reported as a name that exists.  A scan announces the date it read,
  which may have moved.
* Templates: `VariablesOfText`, `ArchivedIsOut`: an update writes over what was
  edited or archived since it read.
* WhatsApp: a webhook with an invalid phone fails for ever; a phone without `+`
  from the reader makes a second contact (`docs/contacts.md:21`); the reader's
  event is enqueued after its transaction.  `ActivityCovers`: a late message
  moves the last activity back (`docs/whatsapp-readonly.md:51`).
* `OneRefresher` (`fx-scheduler.service.ts:6`) and `BaselineOnlyWithoutRecord`
  (`exchange-rates.service.ts:21`).
* `SoleOwner` (`docs/synchronization.md`): `complete` and what follows it are in
  one `try`, so a run whose audit or event throws writes FAILED over the claim
  of a run that started meanwhile, and a third may claim; a run that outlasts its
  ten minutes does the same.
* `OneDemoAtATime` (`docs/trials.md`): the lock and the search name plan and
  variant, so one contact has a demo of each at once.
* Provisioning: a late answer turns a cancelled fulfillment COMPLETED; a
  provider switched off between read and write is still assigned.

CRM:
* `ReplacedStaysReplaced`: a follow-up rescheduled and then revived can be
  replaced twice (`docs/follow-ups.md:20`); a sync can undo a completion.
* A live card in an archived stage (`LiveIsOnBoard`, `docs/pipeline.md:15`);
  `StageOrderConsecutive`; `SummaryCountsTheColumn` (`docs/pipeline.md:9`);
  `ClaimedOnce` (`docs/opportunities.md`); `InterestFits`,
  `HistoryTellsInterest`: two stale edits.
* `RemovedHasNoSales` (`customers.service.ts:161`), `TagNamesDiffer`.
* `FailedLeftNothing` (`docs/commercial-imports.md`), `SpendBelongs`;
  `RepeatedCycleIsSkipped` (`docs/renewal-import.md`), `RemindedOfOpen`.

Catalog: `NewestIsInForce` (`docs/pricing.md`), `PricedPartsAgree`
(`docs/pricing.md`), `PricedPartsAreSold`.  A default can end INACTIVE since
`setDefault` reads before it waits for its lock, and activating another then
raises a raw P2002.

Web: `LeavesOnlyWhenEnded`, `StaysLoggedOut` (`docs/navigation.md:23`,
`docs/authentication.md:32`).

Recurring expenses and finances: `FinishedIsSettled`, `NothingPastEnd`
(`docs/recurring-expenses.md`), `PreviousProfitAgrees`, `UsdIsOfTheAmount`,
`ListedRateIsUsed`.

Reports and lists: `OneBalance` (`docs/domain-model.md:197`,
`docs/payments.md:19`), `ProductsReconcile`, `RecurringIsOne` (`docs/kpis.md`:
the executive dashboard and the page of a customer add amounts of any cycle as
they are; an active trial is nothing in the KPIs and its whole amount in the
finances), `NewAreNew` (`docs/kpis.md`), `AlwaysRefreshable` (two names of one
product break the unique index of the view, and the refresh of every view after
it), `AllAsked`, `RenewalListedOnce`, `MoreIsTold`, `RetriedIsDone`,
`RateCountsOnce`, `RenewalsViewCounts` (`docs/smart-inbox.md`),
`ActsOnTheShown`, `OpenIsActive`, `PlannedIsPending`, `DatedByTheNewest`,
`TimelineIsNewest`, `SoldChipMeansSold`, `OneCampaignPerName`, `ToldOwnFigures`,
`EnteredIsShown`.

## 8. Abstractions

* A handler that locks the rows it reads is one atomic step.  Deadlocks between
  two handlers that lock in opposite orders (a payment of a renewal and a
  request of one; a payment and a removal) abort one of them, which is the same
  as the step not being taken; the locks themselves are not modelled.
* One organisation, one currency unless a report compares two; permissions are
  taken as granted.
* A sale has one total and one cart; the arithmetic of lines, discounts, taxes
  and percentages is any total and any fee table.
* Dates are counted in a unit of the plan, in days or in half days; no guard
  depends on the wall clock for ever.  Time zones and month lengths are left out.
* Audit, activity and outbox rows that a handler writes in its transaction are
  committed with it or not at all, and are left out of the money models.
* Every sale of `Billing` has one recurring line.  In `Automation` the conditions
  of a rule hold; `AutomationRules` has conditions, with the paths of a context
  that the actions use.
* `Opportunities` leaves out its responsible user, amounts and the instants of
  closing (any user may be that of a follow-up it inserts); `PipelineBoard` has
  assignment, interest and amounts, and `Opportunities` the states and
  follow-ups.  One mover runs in `parts`; the theorems are for any number.
* Amounts that recur are counted in twelfths, in which only a cycle in days
  leaves a remainder; it is cut off in both reports, where the code keeps the
  fraction. A user is switched off in the database, since no handler of the
  repository does it; what the user had asked for by then may still be done.
* In `WorkLists` an order is a line with its subscription, its fulfillment, its
  activation and its credential, with one attempt to provision in the air at a
  time.
* Rows of `ReportRows` change as their handlers commit them: races inside a
  handler are the business of its own module, not of the reports.
* An aborted PostgreSQL transaction refuses every further statement, and its
  COMMIT rolls back without an error: this is modelled from how the code
  continues after P2002.

## 9. What is not modelled, and why

* Sending and delivery statuses of WhatsApp: `isReadOnly()` is always true.
* The renewals written by the import are in `RenewalCenter` only: they are PAID
  without a sale, as no handler of `Billing` does, so `ChargedOnce` and
  `ChainUnbroken` are about the renewals the program makes.
* The locks of rows themselves, and so PostgreSQL's choice of a victim.
* Slugs, previews and listings of templates, rules and notifications.
* Adapters of providers other than the manual and mock ones, which always
  succeed; the WhatsApp library; encryption of credentials.
* Forms and views of the front end; shared packages; deployment.
* Permissions, roles and validation of input: each handler's guard on them is
  taken as passed.
* Charts of one field, exports, text search.

## 10. Plan

Done, in this order: money (`SalesPayments`, `Billing`), events (`Outbox`,
`Automation`, `AutomationRules`, `WhatsAppInbound`), the parts, the records, the
reports; a theorem for each safety invariant and each action property that a run
checks.

Next, most important first:

1. Safety that is stated and has no theorem: what the definitions of
   `RenewalCenter`, `Opportunities` and `FollowUps` say that no run names.
2. Exclusion in the synchronisation after a claim went stale: what two runs at
   once may and may not write.
3. The reports under filters: `ReportsReconcile` and `FrontsAgree` compare the
   tables over all countries, sellers and products; the lemmas about groups are
   for any set of rows and carry over to a filter that both sides apply.
