----------------------------- MODULE Automation -----------------------------
(***************************************************************************)
(* The automation engine, composed with the outbox that feeds it.  Its     *)
(* listener turns a delivered event into one execution per active rule;    *)
(* every API process polls the executions, claims them as the outbox       *)
(* claims events, and runs their actions in order, each in a transaction   *)
(* of its own followed by a separate write of the action's status.         *)
(*                                                                         *)
(* Every event has a trigger and every rule's conditions hold.  A unique   *)
(* violation aborts a PostgreSQL transaction: the next statement fails,    *)
(* and a COMMIT rolls back without an error.                               *)
(***************************************************************************)
EXTENDS Outbox

CONSTANTS
  Rules,         \* rows of "AutomationRule" with the trigger of the events
  ActionCount,   \* actions of a rule, run in the order of actionOrder
  Deduplicated,  \* the actions that are ENQUEUE_OUTBOX
  MaxAttempts,   \* MAX_EXECUTION_ATTEMPTS
  Runners,       \* API processes, one automation loop each
  NoExecution    \* not an execution

ASSUME ActionsAssumption ==
  /\ ActionCount \in Nat
  /\ Deduplicated \subseteq 1..ActionCount
  /\ MaxAttempts \in Nat \ {0}
  /\ IsFiniteSet(Rules)
  /\ NoExecution \notin Events \X Rules

VARIABLES
  active,   \* the rules that are switched on
  found,    \* the rules a listener read and is about to execute
  exec,     \* the AutomationExecution rows
  act,      \* status of their actions
  job,      \* executions a runner claimed and has not begun
  task,     \* the execution a runner is in the middle of
  effects,  \* history: how many times an action took effect
  handled   \* history: actions that took effect or were skipped with reason

intakeVars     == <<active, found>>
runVars        == <<exec, act, job, task, effects, handled>>
automationVars == <<event, batch, phase, delivered, lapsed, active, found,
                    exec, act, job, task, effects, handled>>

Executions == Events \X Rules
Order      == 1..ActionCount

Permutation == UNION {{s \in [1..Cardinality(S) -> S] : \A r \in S : \E i \in 1..Cardinality(S) : s[i] = r} :
                        S \in SUBSET Rules}

ExecStatus   == {"NONE", "QUEUED", "RUNNING", "SUCCEEDED", "FAILED"}
ActionStatus == {"PENDING", "RUNNING", "SUCCEEDED", "FAILED", "SKIPPED"}
Step         == {"idle", "next", "act", "did", "skipped", "threw", "failed"}
Idle         == [x |-> NoExecution, at |-> "idle", pos |-> 1, seen |-> {}]

AutomationTypeOK ==
  /\ OutboxTypeOK
  /\ active \subseteq Rules
  /\ found \in [Processes -> Permutation]
  /\ exec \in [Executions -> [st : ExecStatus, ready : BOOLEAN, attempts : 0..MaxAttempts]]
  /\ act \in [Executions -> [Order -> ActionStatus]]
  /\ job \in [Runners -> SUBSET Executions]
  /\ task \in [Runners -> [x : Executions \cup {NoExecution}, at : Step,
                           pos : 1..ActionCount + 1, seen : SUBSET Order]]
  /\ effects \in [Executions -> [Order -> Nat]]
  /\ handled \in [Executions -> SUBSET Order]

----------------------------------------------------------------------------
(* From events to executions.                                              *)

ToggleRule(r) ==
  /\ active' = IF r \in active THEN active \ {r} ELSE active \cup {r}
  /\ UNCHANGED found /\ UNCHANGED runVars /\ UNCHANGED outboxVars

\* enqueueFromEvent reads the active rules, in no particular order ...
ReadRules(w, e) ==
  /\ First(w, e) /\ phase[w] = "publish"
  /\ found[w] = <<>> /\ active # {}
  /\ \E rules \in Permutation :
       /\ {rules[i] : i \in DOMAIN rules} = active
       /\ found' = [found EXCEPT ![w] = rules]
  /\ UNCHANGED active /\ UNCHANGED runVars /\ UNCHANGED outboxVars

\* No rule is active: there is nothing to insert.
NoRules(w, e) ==
  /\ found[w] = <<>> /\ active = {}
  /\ Succeed(w, e)
  /\ UNCHANGED intakeVars /\ UNCHANGED runVars

Duplicates(w, e) == {i \in DOMAIN found[w] : exec[<<e, found[w][i]>>].st # "NONE"}
Last(w)          == {i \in DOMAIN found[w] : i + 1 \notin DOMAIN found[w]}

CreateExecutions(w, e) ==
  exec' = [x \in Executions |->
    IF x[1] = e /\ \E i \in DOMAIN found[w] : x[2] = found[w][i]
      THEN [st |-> "QUEUED", ready |-> TRUE, attempts |-> 0]
      ELSE exec[x]]

\* Mutant of ToleratesDuplicate: the unique violation is not caught.
ToleratesNone(w, e) == FALSE

\* A violation is caught and swallowed; any statement after it fails.
ToleratesDuplicate(w, e) == Duplicates(w, e) = Last(w)

\* ... and inserts an execution for each of them in one transaction.
InsertExecutions(w, e) ==
  /\ found[w] # <<>>
  /\ \/ /\ Duplicates(w, e) = {}
        /\ CreateExecutions(w, e)
     \/ /\ Duplicates(w, e) # {}
        /\ ToleratesDuplicate(w, e)
        /\ UNCHANGED exec
  /\ Succeed(w, e)
  /\ found' = [found EXCEPT ![w] = <<>>]
  /\ UNCHANGED <<active, act, job, task, effects, handled>>

\* The listener throws: a statement or the commit failed, or the commit went
\* through and its answer was lost.
FailListener(w, e) ==
  /\ Throw(w, e)
  /\ \/ UNCHANGED exec
     \/ found[w] # <<>> /\ Duplicates(w, e) = {} /\ CreateExecutions(w, e)
  /\ found' = [found EXCEPT ![w] = <<>>]
  /\ UNCHANGED <<active, act, job, task, effects, handled>>

----------------------------------------------------------------------------
(* The queue of executions.                                                *)

ElapseExecution(x) ==
  /\ exec[x].st \in {"FAILED", "RUNNING"}
  /\ ~exec[x].ready
  /\ exec' = [exec EXCEPT ![x].ready = TRUE]
  /\ UNCHANGED <<act, job, task, effects, handled>>

\* Mutant of Runnable: the claim forgets processes that died.
RunnableUnclaimed ==
  {x \in Executions : /\ exec[x].st \in {"QUEUED", "FAILED"} /\ exec[x].ready
                      /\ exec[x].attempts < MaxAttempts}

Runnable ==
  {x \in Executions : /\ exec[x].st \in {"QUEUED", "FAILED", "RUNNING"} /\ exec[x].ready
                      /\ exec[x].attempts < MaxAttempts}

\* The LIMIT of ten executions is above what an instance can queue.
ClaimExecutions(r) ==
  /\ job[r] = {} /\ task[r] = Idle
  /\ Runnable # {}
  /\ job' = [job EXCEPT ![r] = Runnable]
  /\ exec' = [x \in Executions |->
       IF x \in Runnable THEN [st |-> "RUNNING", ready |-> FALSE, attempts |-> exec[x].attempts + 1]
                         ELSE exec[x]]
  /\ UNCHANGED <<act, task, effects, handled>>

----------------------------------------------------------------------------
(* One execution.                                                          *)

At(r, at) == task[r].at = at
Move(r, at, pos) == task' = [task EXCEPT ![r].at = at, ![r].pos = pos]
Settled(x, k) == act[x][k] \in {"SUCCEEDED", "SKIPPED"}

\* runExecution reads the execution with its actions, once.
Load(r, x) ==
  /\ At(r, "idle") /\ x \in job[r]
  /\ job' = [job EXCEPT ![r] = @ \ {x}]
  /\ task' = [task EXCEPT ![r] = [x |-> x, at |-> "next", pos |-> 1,
                                  seen |-> {k \in Order : Settled(x, k)}]]
  /\ UNCHANGED <<exec, act, effects, handled>>

SetAction(x, k, st) == act' = [act EXCEPT ![x][k] = st]

\* Mutant of Startable: an action somebody left RUNNING is not taken.
StartableIdle(x, k) == act[x][k] \in {"PENDING", "FAILED"}

\* The statuses the claim of an action accepts.
Startable(x, k) == act[x][k] \in {"PENDING", "RUNNING", "FAILED"}

\* The loop skips what the record it read says is settled, and what another
\* process has settled since.
SkipSettled(r) ==
  LET x == task[r].x  k == task[r].pos
  IN  /\ At(r, "next") /\ k \in Order
      /\ k \in task[r].seen \/ ~Startable(x, k)
      /\ Move(r, "next", k + 1)
      /\ UNCHANGED <<exec, act, job, effects, handled>>

StartAction(r) ==
  LET x == task[r].x  k == task[r].pos
  IN  /\ At(r, "next") /\ k \in Order \ task[r].seen
      /\ Startable(x, k)
      /\ SetAction(x, k, "RUNNING")
      /\ Move(r, "act", k)
      /\ UNCHANGED <<exec, job, effects, handled>>

\* Mutant of Accepts: the outbox event has no deduplication key.
AcceptsAgain(x, k) == TRUE

\* enqueueOutboxAction inserts under a key of its own, so a second insert
\* throws.
Accepts(x, k) == k \in Deduplicated => effects[x][k] = 0

\* The transaction of executeAction commits its effect ...
Perform(r) ==
  LET x == task[r].x  k == task[r].pos
  IN  /\ At(r, "act")
      /\ Accepts(x, k)
      /\ effects' = [effects EXCEPT ![x][k] = @ + 1]
      /\ handled' = [handled EXCEPT ![x] = @ \cup {k}]
      /\ Move(r, "did", k)
      /\ UNCHANGED <<exec, act, job>>

\* ... or finds nothing to act on ...
Skip(r) ==
  LET x == task[r].x  k == task[r].pos
  IN  /\ At(r, "act") /\ k \notin Deduplicated
      /\ handled' = [handled EXCEPT ![x] = @ \cup {k}]
      /\ Move(r, "skipped", k)
      /\ UNCHANGED <<exec, act, job, effects>>

\* ... or throws, as the write of a success may, inside the same try.
ThrowAction(r) ==
  /\ task[r].at \in {"act", "did", "skipped"}
  /\ Move(r, "threw", task[r].pos)
  /\ UNCHANGED <<exec, act, job, effects, handled>>

Record(r) ==
  /\ task[r].at \in {"did", "skipped"}
  /\ SetAction(task[r].x, task[r].pos, IF At(r, "did") THEN "SUCCEEDED" ELSE "SKIPPED")
  /\ Move(r, "next", task[r].pos + 1)
  /\ UNCHANGED <<exec, job, effects, handled>>

RecordFailure(r) ==
  /\ At(r, "threw")
  /\ SetAction(task[r].x, task[r].pos, "FAILED")
  /\ Move(r, "failed", task[r].pos)
  /\ UNCHANGED <<exec, job, effects, handled>>

\* The outcome of the execution, whatever its row says by then.
Conclude(r, st) ==
  /\ exec' = [exec EXCEPT ![task[r].x].st = st, ![task[r].x].ready = FALSE]
  /\ task' = [task EXCEPT ![r] = Idle]
  /\ UNCHANGED <<act, job, effects, handled>>

Complete(r)   == At(r, "next") /\ task[r].pos \notin Order /\ Conclude(r, "SUCCEEDED")
GiveUp(r)     == At(r, "failed") /\ Conclude(r, "FAILED")

\* The process dies and restarts, or a write outside the try throws.
AbortRun(r) ==
  /\ job[r] # {} \/ task[r] # Idle
  /\ job' = [job EXCEPT ![r] = {}]
  /\ task' = [task EXCEPT ![r] = Idle]
  /\ UNCHANGED <<exec, act, effects, handled>>

----------------------------------------------------------------------------
AutomationInit ==
  /\ OutboxInit
  /\ active = Rules
  /\ found = [w \in Processes |-> <<>>]
  /\ exec = [x \in Executions |-> [st |-> "NONE", ready |-> FALSE, attempts |-> 0]]
  /\ act = [x \in Executions |-> [k \in Order |-> "PENDING"]]
  /\ job = [r \in Runners |-> {}]
  /\ task = [r \in Runners |-> Idle]
  /\ effects = [x \in Executions |-> [k \in Order |-> 0]]
  /\ handled = [x \in Executions |-> {}]

\* Steps of the outbox outside the listener; a process that dies forgets
\* the rules it read.
OutboxStep ==
  /\ \/ /\ \/ \E e \in Events : Enqueue(e) \/ Elapse(e)
           \/ \E w \in Processes :
                \/ Claim(w) \/ LoseWrite(w)
                \/ \E e \in Events : MarkProcessed(w, e) \/ MarkFailed(w, e)
        /\ UNCHANGED found
     \/ \E w \in Processes : Abort(w) /\ found' = [found EXCEPT ![w] = <<>>]
  /\ UNCHANGED active /\ UNCHANGED runVars

ListenerStep ==
  \/ \E r \in Rules : ToggleRule(r)
  \/ \E w \in Processes, e \in Events :
       NoRules(w, e) \/ ReadRules(w, e) \/ InsertExecutions(w, e) \/ FailListener(w, e)

RunStep(r) ==
  \/ \E x \in Executions : Load(r, x)
  \/ SkipSettled(r) \/ StartAction(r) \/ Perform(r) \/ Skip(r) \/ ThrowAction(r)
  \/ Record(r) \/ RecordFailure(r) \/ Complete(r) \/ GiveUp(r)

QueueStep ==
  /\ \/ \E x \in Executions : ElapseExecution(x)
     \/ \E r \in Runners : ClaimExecutions(r) \/ RunStep(r) \/ AbortRun(r)
  /\ UNCHANGED intakeVars /\ UNCHANGED outboxVars

AutomationNext == OutboxStep \/ ListenerStep \/ QueueStep

AutomationSpec == AutomationInit /\ [][AutomationNext]_automationVars

\* The assumptions of the outbox, and the same ones of the automation loops:
\* timers fire, calls return, clocks advance, and nobody switches rules on and
\* off for ever; nothing is assumed of the outcome of an action nor of how
\* often a process dies in the middle of one.
AutomationFairness ==
  /\ \A w \in Processes : WF_automationVars(Claim(w) /\ UNCHANGED intakeVars /\ UNCHANGED runVars)
  /\ \A e \in Events : WF_automationVars(Elapse(e) /\ UNCHANGED intakeVars /\ UNCHANGED runVars)
  /\ \A w \in Processes, e \in Events :
       /\ SF_automationVars(ReadRules(w, e))
       /\ SF_automationVars(NoRules(w, e))
       /\ SF_automationVars(InsertExecutions(w, e))
       /\ WF_automationVars(FailListener(w, e) \/ InsertExecutions(w, e))
       /\ WF_automationVars(MarkFailed(w, e) /\ UNCHANGED intakeVars /\ UNCHANGED runVars)
       /\ SF_automationVars(MarkProcessed(w, e) /\ UNCHANGED intakeVars /\ UNCHANGED runVars)
  /\ <>[][(\A w \in Processes : ~Abort(w)) /\ UNCHANGED active]_automationVars
  /\ \A x \in Executions :
       WF_automationVars(ElapseExecution(x) /\ UNCHANGED intakeVars /\ UNCHANGED outboxVars)
  /\ \A r \in Runners :
       /\ WF_automationVars(ClaimExecutions(r) /\ UNCHANGED intakeVars /\ UNCHANGED outboxVars)
       /\ WF_automationVars(RunStep(r) /\ UNCHANGED intakeVars /\ UNCHANGED outboxVars)

FairAutomationSpec == AutomationSpec /\ AutomationFairness

----------------------------------------------------------------------------
(* Correctness.                                                            *)

\* Actions take effect in the order of the rule, and an execution reported
\* as a success went through all of them, however many processes ran it and
\* wherever they died.
ActionsInOrder ==
  \A x \in Executions :
    /\ exec[x].st = "SUCCEEDED" => handled[x] = Order
    /\ \A k \in handled[x] : 1..k \subseteq handled[x]

\* An event that an action emits is emitted once, whatever is retried.
EmitsOnce == \A x \in Executions, k \in Deduplicated : effects[x][k] <= 1

\* An execution is tried until it succeeds or has used up its attempts.
TriedToTheEnd ==
  \A x \in Executions :
    exec[x].st # "NONE" ~> exec[x].st = "SUCCEEDED" \/ exec[x].attempts = MaxAttempts

\* docs/automation-engine.md: the key of an execution makes a rule idempotent
\* when its event is delivered again: the event still ends up processed.
RedeliveryHarmless ==
  \A e \in Events : event[e].st # "NONE" ~> event[e].st = "PROCESSED"

----------------------------------------------------------------------------
(* What documents say of the program.                                      *)

\* docs/automation-engine.md: an execution is created for the active rules
\* that were found.
FoundRulesRun ==
  [][\A w \in Processes, e \in Events :
       First(w, e) /\ phase[w] = "publish" /\ phase'[w] = "ok" =>
         \A i \in DOMAIN found[w] : exec'[<<e, found[w][i]>>].st # "NONE"]_automationVars
============================================================================
