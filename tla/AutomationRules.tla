--------------------------- MODULE AutomationRules ---------------------------
(***************************************************************************)
(* What the automation engine is told to do and what it then does: rules   *)
(* with their actions, edited while events arrive; deadlines, which        *)
(* overlapping scans announce as events; the executions a listener makes   *)
(* of an event, and what each type of action writes; the templates and the *)
(* notifications.  Automation has the claims, retries and races of one     *)
(* execution: here one runner performs an action and writes its status in  *)
(* a step, and a failed execution is tried again without end.              *)
(***************************************************************************)
EXTENDS Integers, Sequences, FiniteSets

CONSTANTS
  Automations,       \* rows of "AutomationRule"
  Actions,           \* rows of "AutomationAction", an id is never used again
  Place, Does,       \* the actionOrder and the type of an action
  Configured,        \* the userId of its config
  Drafts,            \* what a request may say of a rule: trigger, conditions, template, active
  Signals,           \* the events of the outbox with a trigger
  Hearers,           \* deliveries of events under way at a time
  Editors,           \* requests that update a rule with its actions, or a template
  People, Author,    \* users, and the one who made the rules
  Letters,           \* rows of "MessageTemplate"
  Texts, Needs,      \* what a subject or a body may be, and the paths each has tokens for
  Scans,             \* runs of enqueueScheduledTriggers under way at a time
  Deadlines,         \* trials and renewals
  Renewable, LastDate,  \* the renewals, and a bound on the dates of one
  Nobody, NoLetter, NoSignal, NoRule, NoKey

ASSUME AutomationRulesAssumption ==
  /\ Place \in [Actions -> Nat]
  /\ Does \in [Actions -> {"followUp", "notify", "activity", "emit", "hook"}]
  /\ Configured \in [Actions -> People \cup {Nobody}]
  /\ Author \in People /\ Nobody \notin People
  /\ NoSignal \notin Signals /\ NoRule \notin Automations /\ NoLetter \notin Letters
  /\ \A d \in Drafts : d.trigger # "none"   \* a request names its trigger
  /\ LastDate \in Nat /\ NoKey \notin Deadlines \X (0..LastDate)

VARIABLES
  automation,  \* the rules: NoDraft, or what was last written of one
  steps, past, \* the actions of a rule, and history: every set of them that was committed
  editor,      \* a request that replaces the actions of a rule, and those it deletes
  signal,      \* the events, with the key of one that was scheduled
  hearing,     \* the listener of a delivery, with what it has read
  runs,        \* executions, of a rule and an event
  worker,      \* the execution that runs, its context and its template
  wrote,       \* follow-ups and activities, each with its execution and its user
  notice,      \* rows of "Notification"
  letter, pen, \* the templates, and a request that updates one, with what it read
  owns, live,  \* who the opportunity and the contact belong to; it is not archived
  staff,       \* the users who are active
  deadline, scan \* the trials and renewals, and what a scan is left to announce

ruleVars     == <<automation, steps, past, editor>>
hearVars     == <<signal, hearing>>
workVars     == <<runs, worker, wrote>>
letterVars   == <<letter, pen>>
crmVars      == <<owns, live, staff>>
deadlineVars == <<deadline, scan>>
rulesVars    == <<automation, steps, past, editor, signal, hearing, runs, worker, wrote, notice,
                  letter, pen, owns, live, staff, deadline, scan>>

Dates == 0..LastDate
Keys  == Deadlines \X Dates
RuleRuns == Automations \X Signals

NoDraft  == [trigger |-> "none", conditions |-> [all |-> {}, any |-> {}], letter |-> NoLetter, active |-> FALSE]
NoEdit   == [rule |-> NoRule, draft |-> NoDraft, seen |-> {}, new |-> {}]
Unheard  == [st |-> "none", trigger |-> "none", about |-> "none", key |-> NoKey]
Contexts == [deal : BOOLEAN, contact : BOOLEAN, owner : People \cup {Nobody}]
Empty    == [deal |-> FALSE, contact |-> FALSE, owner |-> Nobody]
Deaf     == [at |-> "idle", signal |-> NoSignal, context |-> Empty, found |-> [r \in {} |-> NoDraft],
             steps |-> [r \in {} |-> {}]]
NoRun    == [st |-> "none", actions |-> {}, done |-> {}]
Resting  == [x |-> <<NoRule, NoSignal>>, context |-> Empty, letter |-> NoLetter]
Blank    == [status |-> "none", gone |-> FALSE, subject |-> Nobody, body |-> Nobody, tokens |-> {}]
NoPen    == [letter |-> NoLetter, was |-> Blank]

Written(r)  == automation[r] # NoDraft
Run(r, s)  == runs[<<r, s>>]
Spent      == (UNION {UNION past[r] : r \in Automations}) \cup (UNION {editor[e].new : e \in Editors})

----------------------------------------------------------------------------
(* Rules.                                                                  *)

\* validateActions: at least one, each in a place of its own.
Editions == {S \in SUBSET Actions : S # {} /\ \A a, b \in S : Place[a] = Place[b] => a = b}
Usable(l) == l # NoLetter => letter[l].status = "ACTIVE" /\ ~letter[l].gone
Commit(r, S) ==
  /\ steps' = [steps EXCEPT ![r] = S]
  /\ past' = [past EXCEPT ![r] = @ \cup {S}]

CreateRule(r) ==
  /\ ~Written(r)
  /\ \E d \in Drafts, S \in Editions :
       /\ S \cap Spent = {} /\ Usable(d.letter)
       /\ automation' = [automation EXCEPT ![r] = d]
       /\ Commit(r, S)
  /\ UNCHANGED editor

\* updateRule without actions, and toggle.
UpdateRule(r) ==
  /\ Written(r)
  /\ \E d \in Drafts : /\ d.letter # automation[r].letter => Usable(d.letter)
                       /\ automation' = [automation EXCEPT ![r] = d]
  /\ UNCHANGED <<steps, past, editor>>

\* updateRule with actions: its deleteMany starts, and sees the actions of now.  It
\* waits for those who delete or refer to them.
SeeActions(e, r) ==
  /\ editor[e] = NoEdit /\ Written(r)
  /\ \E d \in Drafts, S \in Editions :
       /\ S \cap Spent = {} /\ Usable(d.letter)
       /\ editor' = [editor EXCEPT ![e] = [rule |-> r, draft |-> d, seen |-> steps[r], new |-> S]]
  /\ UNCHANGED <<automation, steps, past>>

\* Mutant of Deletable: the action of an execution may go with its rule's.
DeletableAnyway(gone) == TRUE

\* "AutomationExecutionAction" refers to an action with ON DELETE RESTRICT.
Deletable(gone) == \A x \in RuleRuns : runs[x].actions \cap gone = {}

\* What was seen and is still there goes, and the new come, unless one that stays is
\* in their place.
CommitEdit(e) ==
  LET edit == editor[e]  r == edit.rule
      gone == edit.seen \cap steps[r]  stay == steps[r] \ gone
  IN  /\ edit # NoEdit
      /\ Deletable(gone)
      /\ stay \cup edit.new \in Editions
      /\ automation' = [automation EXCEPT ![r] = edit.draft]
      /\ Commit(r, stay \cup edit.new)
      /\ editor' = [editor EXCEPT ![e] = NoEdit]

\* A foreign key or the unique (rule, order) refuses it, or the connection fails.
AbortEdit(e) ==
  /\ editor[e] # NoEdit
  /\ editor' = [editor EXCEPT ![e] = NoEdit]
  /\ UNCHANGED <<automation, steps, past>>

EditingStep ==
  /\ \/ \E r \in Automations : CreateRule(r) \/ UpdateRule(r) \/ \E e \in Editors : SeeActions(e, r)
     \/ \E e \in Editors : CommitEdit(e) \/ AbortEdit(e)
  /\ UNCHANGED <<hearVars, workVars, notice, letterVars, crmVars, deadlineVars>>

----------------------------------------------------------------------------
(* Events and conditions.                                                  *)

Unused == {s \in Signals : signal[s] = Unheard}
Publish(trigger, about, key) ==
  \E s \in Unused : signal' = [signal EXCEPT ![s] = [st |-> "pending", trigger |-> trigger, about |-> about, key |-> key]]

\* buildContext: the row of the event, with its contact; a deal has an owner of its own.
CardContext == [deal |-> TRUE, contact |-> TRUE,
                owner |-> IF owns.deal # Nobody THEN owns.deal ELSE owns.contact]
DueContext  == [deal |-> FALSE, contact |-> TRUE, owner |-> owns.contact]

\* An event of an action has the execution for its aggregate, and no row.
ContextOf(s) ==
  CASE signal[s].about = "card" -> CardContext
    [] signal[s].about = "due" -> DueContext
    [] OTHER -> Empty

\* matchesCondition: the value of a path is one of those asked for.
Holds(item, context) == context[item.path] \in item.in
Matches(c, context) ==
  /\ \A i \in c.all : Holds(i, context)
  /\ c.any # {} => \E i \in c.any : Holds(i, context)

ReadContext(w, s) ==
  /\ hearing[w] = Deaf /\ signal[s].st = "pending"
  /\ \A v \in Hearers : hearing[v].signal # s
  /\ hearing' = [hearing EXCEPT ![w] = [Deaf EXCEPT !.at = "context", !.signal = s, !.context = ContextOf(s)]]
  /\ UNCHANGED signal

\* findMany reads the rules that are active ...
ReadActive(w) ==
  LET found == {r \in Automations : automation[r].active /\ automation[r].trigger = signal[hearing[w].signal].trigger}
  IN  /\ hearing[w].at = "context"
      /\ hearing' = [hearing EXCEPT ![w].at = "rules", ![w].found = [r \in found |-> automation[r]]]
      /\ UNCHANGED signal

\* ... and, in a query of its own, the actions of those it read.
ReadActions(w) ==
  /\ hearing[w].at = "rules"
  /\ hearing' = [hearing EXCEPT ![w].at = "actions", ![w].steps = [r \in DOMAIN hearing[w].found |-> steps[r]]]
  /\ UNCHANGED signal

Matched(w) == {r \in DOMAIN hearing[w].found : Matches(hearing[w].found[r].conditions, hearing[w].context)}
Again(w)   == {r \in Matched(w) : Run(r, hearing[w].signal) # NoRun}

InsertRuns(w) ==
  LET s == hearing[w].signal
  IN  /\ Again(w) = {} /\ \A r \in Matched(w) : hearing[w].steps[r] \subseteq steps[r]
      /\ runs' = [x \in RuleRuns |->
           IF x[2] = s /\ x[1] \in Matched(w)
             THEN [st |-> "queued", actions |-> hearing[w].steps[x[1]], done |-> {}]
             ELSE runs[x]]

Forget(w) == hearing' = [hearing EXCEPT ![w] = Deaf]
Handled(w) == signal' = [signal EXCEPT ![hearing[w].signal].st = "handled"]

\* One transaction for all.  What a unique violation in it leads to is in Automation:
\* nothing is inserted, and the event is handled or thrown.
ConcludeIntake(w) ==
  /\ hearing[w].at = "actions"
  /\ InsertRuns(w) \/ (Again(w) # {} /\ UNCHANGED runs)
  /\ Handled(w) /\ Forget(w)

\* It throws, its transaction committed or not, and the event is delivered again.
ThrowIntake(w) ==
  /\ hearing[w].at # "idle"
  /\ UNCHANGED runs \/ (hearing[w].at = "actions" /\ InsertRuns(w))
  /\ Forget(w) /\ UNCHANGED signal

HearStep ==
  /\ \E w \in Hearers : \/ (ReadActive(w) \/ ReadActions(w) \/ \E s \in Signals : ReadContext(w, s)) /\ UNCHANGED runs
                        \/ ConcludeIntake(w) \/ ThrowIntake(w)
  /\ UNCHANGED <<ruleVars, worker, wrote, notice, letterVars, crmVars, deadlineVars>>

----------------------------------------------------------------------------
(* Deadlines.                                                              *)

\* A trial is in its last day until it ends; a renewal is due until it is settled.
Near(d) == deadline[d] = [deadline[d] EXCEPT !.open = TRUE, !.at = "near"]

Approach(d) == /\ deadline[d].at = "ahead"
               /\ deadline' = [deadline EXCEPT ![d].at = "near"]
PassDeadline(d) == /\ Near(d) /\ d \notin Renewable
             /\ deadline' = [deadline EXCEPT ![d].at = "past"]
Settle(d) == /\ deadline[d].open
             /\ deadline' = [deadline EXCEPT ![d].open = FALSE]

\* A request moves the date of a renewal that is PENDING.
MoveDate(d) ==
  /\ d \in Renewable /\ deadline[d].open /\ deadline[d].date < LastDate
  /\ deadline' = [deadline EXCEPT ![d].date = @ + 1, ![d].at = "ahead"]

ReadDeadlines(h) ==
  LET due == {d \in Deadlines : Near(d)}
  IN  /\ scan[h] = {} /\ due # {}
      /\ scan' = [scan EXCEPT ![h] = {<<d, deadline[d].date>> : d \in due}]
      /\ UNCHANGED <<signal, deadline>>

Announced(key) == {s \in Signals : signal[s].key = key}

\* One enqueue after the other, each in a transaction of its own; a key that is there
\* is left as it is.
Announce(h, key) ==
  /\ key \in scan[h]
  /\ IF Announced(key) = {} THEN Publish("due", "due", key) ELSE UNCHANGED signal
  /\ scan' = [scan EXCEPT ![h] = @ \ {key}]
  /\ UNCHANGED deadline

FailScan(h) ==
  /\ scan[h] # {}
  /\ scan' = [scan EXCEPT ![h] = {}]
  /\ UNCHANGED <<signal, deadline>>

DeadlineStep ==
  /\ \/ /\ \E d \in Deadlines : Approach(d) \/ PassDeadline(d) \/ Settle(d) \/ MoveDate(d)
        /\ UNCHANGED <<signal, scan>>
     \/ \E h \in Scans : ReadDeadlines(h) \/ FailScan(h) \/ \E key \in Keys : Announce(h, key)
  /\ UNCHANGED <<ruleVars, hearing, workVars, notice, letterVars, crmVars>>

----------------------------------------------------------------------------
(* The run of an execution.                                                *)

\* runExecution builds the context again, and reads the template its rule has now.
LoadRun(x) ==
  /\ worker = Resting /\ runs[x].st \in {"queued", "failed"}
  /\ worker' = [x |-> x, context |-> ContextOf(x[2]), letter |-> automation[x[1]].letter]
  /\ UNCHANGED <<signal, runs, wrote, notice>>

Left(x) == runs[x].actions \ runs[x].done
Turn(a) == a \in Left(worker.x) /\ \A b \in Left(worker.x) : Place[a] <= Place[b]
MarkDone(a) == runs' = [runs EXCEPT ![worker.x].done = @ \cup {a}]
FailStep(a) == /\ runs' = [runs EXCEPT ![worker.x].st = "failed"]
           /\ worker' = Resting
           /\ UNCHANGED <<signal, wrote, notice>>

\* resolveUserId: the config, the context, the row, and at last who acts.
Recipient(a, fallback) ==
  Head(SelectSeq(<<Configured[a], worker.context.owner, fallback, Author>>, LAMBDA p : p # Nobody))

Put(a, to) ==
  /\ wrote' = wrote \cup {[x |-> worker.x, a |-> a, to |-> to, context |-> worker.context]}
  /\ MarkDone(a) /\ UNCHANGED <<signal, worker, notice>>
SkipAction(a) == MarkDone(a) /\ UNCHANGED <<signal, worker, wrote, notice>>

CreateFollowUpAction(a) ==
  /\ Does[a] = "followUp"
  /\ LET to == Recipient(a, owns.deal)
         at == worker.context.deal /\ live
     IN  \/ ~at /\ SkipAction(a)
         \/ at /\ to \in staff /\ Put(a, to)
         \/ at /\ to \notin staff /\ FailStep(a)

\* render: a path that is not in the context leaves nothing in its place.
Blanks(l) == (UNION {Needs[t] : t \in {letter[l].subject, letter[l].body} \ {Nobody}})
               \ {p \in {"deal", "contact"} : worker.context[p]}

CreateNotificationAction(a) ==
  LET to == Recipient(a, Nobody)  l == worker.letter
  IN  /\ Does[a] = "notify"
      /\ \/ /\ to \in staff /\ Usable(l)
            /\ notice' = notice \cup {[x |-> worker.x, a |-> a, to |-> to, st |-> "UNREAD",
                                       blanks |-> IF l = NoLetter THEN {} ELSE Blanks(l)]}
            /\ MarkDone(a) /\ UNCHANGED <<signal, worker, wrote>>
         \/ ~(to \in staff /\ Usable(l)) /\ FailStep(a)

CreateActivityAction(a) ==
  /\ Does[a] = "activity"
  /\ IF worker.context.deal \/ worker.context.contact THEN Put(a, Author) ELSE SkipAction(a)

EnqueueOutboxAction(a) ==
  /\ Does[a] = "emit"
  /\ Publish("card", "echo", NoKey)
  /\ MarkDone(a) /\ UNCHANGED <<worker, wrote, notice>>

InternalWebhook(a) == Does[a] = "hook" /\ SkipAction(a)

FinishRun ==
  /\ worker # Resting /\ Left(worker.x) = {}
  /\ runs' = [runs EXCEPT ![worker.x].st = "succeeded"]
  /\ worker' = Resting
  /\ UNCHANGED <<signal, wrote, notice>>

WorkingStep ==
  /\ \/ \E x \in RuleRuns : LoadRun(x)
     \/ /\ worker # Resting
        /\ \E a \in Actions : /\ Turn(a)
                              /\ \/ CreateFollowUpAction(a) \/ CreateNotificationAction(a)
                                 \/ CreateActivityAction(a) \/ EnqueueOutboxAction(a) \/ InternalWebhook(a)
     \/ FinishRun
  /\ UNCHANGED <<ruleVars, hearing, letterVars, crmVars, deadlineVars>>

\* What changes meanwhile: the stage of the opportunity, who the rows belong to, and who
\* works here.
PublishMove ==
  /\ Publish("card", "card", NoKey)
  /\ UNCHANGED <<ruleVars, hearing, workVars, notice, letterVars, crmVars, deadlineVars>>

CrmStep ==
  /\ \/ /\ \E k \in {"deal", "contact"}, p \in People \cup {Nobody} : owns' = [owns EXCEPT ![k] = p]
        /\ UNCHANGED <<live, staff>>
     \/ live' = ~live /\ UNCHANGED <<owns, staff>>
     \/ (\E p \in People : staff' = IF p \in staff THEN staff \ {p} ELSE staff \cup {p}) /\ UNCHANGED <<owns, live>>
  /\ UNCHANGED <<ruleVars, hearVars, workVars, notice, letterVars, deadlineVars>>

----------------------------------------------------------------------------
(* Templates and notifications.                                            *)

\* extractVariables.
Tokens(subject, body) == UNION {Needs[t] : t \in {subject, body} \ {Nobody}}

CreateLetter(l) ==
  /\ letter[l] = Blank
  /\ \E subject \in Texts \cup {Nobody}, body \in Texts :
       letter' = [letter EXCEPT ![l] = [status |-> "ACTIVE", gone |-> FALSE, subject |-> subject, body |-> body,
                                        tokens |-> Tokens(subject, body)]]
  /\ UNCHANGED pen

\* update reads the template outside its transaction ...
ReadLetter(e, l) ==
  /\ letter[l] # Blank /\ ~letter[l].gone /\ pen[e] = NoPen
  /\ pen' = [pen EXCEPT ![e] = [letter |-> l, was |-> letter[l]]]
  /\ UNCHANGED letter

\* ... and writes what the request says, and the variables of both texts, of which it
\* may have read one.
WriteLetter(e) ==
  LET l == pen[e].letter  was == pen[e].was
  IN  /\ pen[e] # NoPen
      /\ \E change \in SUBSET {"subject", "body", "status"}, subject \in Texts \cup {Nobody}, body \in Texts,
            status \in {"ACTIVE", "INACTIVE", "ARCHIVED"} :
           letter' = [letter EXCEPT
             ![l].subject = IF "subject" \in change THEN subject ELSE @,
             ![l].body = IF "body" \in change THEN body ELSE @,
             ![l].status = IF "status" \in change THEN status ELSE @,
             ![l].tokens = Tokens(IF "subject" \in change THEN subject ELSE was.subject,
                                  IF "body" \in change THEN body ELSE was.body)]
      /\ pen' = [pen EXCEPT ![e] = NoPen]

ArchiveLetter(l) ==
  /\ letter[l] # Blank /\ ~letter[l].gone
  /\ letter' = [letter EXCEPT ![l].gone = TRUE, ![l].status = "ARCHIVED"]
  /\ UNCHANGED pen

LetterStep ==
  /\ \/ \E l \in Letters : CreateLetter(l) \/ ArchiveLetter(l) \/ \E e \in Editors : ReadLetter(e, l)
     \/ \E e \in Editors : WriteLetter(e)
  /\ UNCHANGED <<ruleVars, hearVars, workVars, notice, crmVars, deadlineVars>>

Rewrite(rows, st) == (notice \ rows) \cup {[n EXCEPT !.st = st] : n \in rows}

ReadNotice(n) == n.st = "UNREAD" /\ notice' = Rewrite({n}, "READ")
ArchiveNotice(n) == n.st # "ARCHIVED" /\ notice' = Rewrite({n}, "ARCHIVED")
ReadAll(p) == LET unread == {n \in notice : n.to = p /\ n.st = "UNREAD"}
              IN  unread # {} /\ notice' = Rewrite(unread, "READ")

NoticeStep ==
  /\ \/ \E n \in notice : ReadNotice(n) \/ ArchiveNotice(n)
     \/ \E p \in People : ReadAll(p)
  /\ UNCHANGED <<ruleVars, hearVars, workVars, letterVars, crmVars, deadlineVars>>

----------------------------------------------------------------------------
RulesInit ==
  /\ automation = [r \in Automations |-> NoDraft]
  /\ steps = [r \in Automations |-> {}] /\ past = [r \in Automations |-> {}]
  /\ editor = [e \in Editors |-> NoEdit]
  /\ signal = [s \in Signals |-> Unheard] /\ hearing = [w \in Hearers |-> Deaf]
  /\ runs = [x \in RuleRuns |-> NoRun] /\ worker = Resting
  /\ wrote = {} /\ notice = {}
  /\ letter = [l \in Letters |-> Blank] /\ pen = [e \in Editors |-> NoPen]
  /\ owns = [k \in {"deal", "contact"} |-> Author] /\ live = TRUE /\ staff = People
  /\ deadline = [d \in Deadlines |-> [open |-> TRUE, at |-> "ahead", date |-> 0]]
  /\ scan = [h \in Scans |-> {}]

RulesNext ==
  \/ EditingStep \/ HearStep \/ DeadlineStep \/ WorkingStep \/ PublishMove \/ CrmStep
  \/ LetterStep \/ NoticeStep
RulesSpec == RulesInit /\ [][RulesNext]_rulesVars

Signal == [st : {"none", "pending", "handled"}, trigger : {"none", "card", "due"},
           about : {"none", "card", "due", "echo"}, key : Keys \cup {NoKey}]
RunRow == [st : {"none", "queued", "failed", "succeeded"}, actions : SUBSET Actions, done : SUBSET Actions]
Letter == [status : {"none", "ACTIVE", "INACTIVE", "ARCHIVED"}, gone : BOOLEAN, subject : Texts \cup {Nobody},
           body : Texts \cup {Nobody}, tokens : SUBSET {"deal", "contact"}]

RulesTypeOK ==
  /\ automation \in [Automations -> Drafts \cup {NoDraft}]
  /\ steps \in [Automations -> SUBSET Actions] /\ past \in [Automations -> SUBSET SUBSET Actions]
  /\ editor \in [Editors -> [rule : Automations \cup {NoRule}, draft : Drafts \cup {NoDraft},
                             seen : SUBSET Actions, new : SUBSET Actions]]
  /\ signal \in [Signals -> Signal]
  /\ \A w \in Hearers : /\ hearing[w].context \in Contexts
                        /\ DOMAIN hearing[w].found \subseteq Automations
  /\ runs \in [RuleRuns -> RunRow]
  /\ worker.context \in Contexts /\ worker.letter \in Letters \cup {NoLetter}
  /\ letter \in [Letters -> Letter] /\ pen \in [Editors -> [letter : Letters \cup {NoLetter}, was : Letter]]
  /\ deadline \in [Deadlines -> [open : BOOLEAN, at : {"ahead", "near", "past"}, date : Dates]]
  /\ scan \in [Scans -> SUBSET Keys]

\* An execution has the actions its rule had at one moment, none of an edit half seen,
\* and the rule has them still: the history of executions shows what the rule says.
RunsWholeEdition ==
  \A x \in RuleRuns :
    runs[x] # NoRun => runs[x].actions \in past[x[1]] \ {{}} /\ runs[x].actions \subseteq steps[x[1]]

\* However many scans see a deadline and however often its event is delivered, a rule
\* runs once for a date of it.
OncePerDeadline ==
  \A r \in Automations, s, t \in Signals :
    /\ s # t /\ signal[s].key # NoKey /\ signal[s].key = signal[t].key
    => Run(r, s) = NoRun \/ Run(r, t) = NoRun

RunsStand == RunsWholeEdition /\ OncePerDeadline

\* Not of this code: an edit leaves a rule with the actions it was sent and no other.
EditReplaces ==
  [][\A e \in Editors : editor[e] # NoEdit /\ past' # past /\ editor'[e] = NoEdit
       => steps'[editor[e].rule] = editor[e].new]_rulesVars

\* Not of this code: what an execution does, it does in the context that matched.
ActsOnWhatMatched ==
  \A n \in wrote : Matches(automation[n.x[1]].conditions, n.context)

\* Not of this code: the variables of a template are those of its texts.
VariablesOfText == \A l \in Letters : letter[l].tokens = Tokens(letter[l].subject, letter[l].body)

\* Not of this code: a template that was archived is ARCHIVED.
ArchivedIsOut == \A l \in Letters : letter[l].gone => letter[l].status = "ARCHIVED"
============================================================================
