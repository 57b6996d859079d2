---------------------------- MODULE OutboxProofs ----------------------------
(***************************************************************************)
(* Proofs about Outbox, for any number of events and processes and any     *)
(* limit of a batch: two processes share an event only after its claim     *)
(* went stale, and the outbox implements the safety of EventDelivery.      *)
(* Then about Automation, for any number of rules, actions, attempts and   *)
(* runners: it implements the outbox, and actions take effect in order.    *)
(* Last about AutomationRules: executions stand whatever is edited.        *)
(***************************************************************************)
EXTENDS Automation, AutomationRules, FiniteSetTheorems, TLAPS

\* What a process holds was committed, and what it or the table says was
\* handled was delivered.
Accounted ==
  /\ \A w \in Processes, e \in Events :
       /\ e \in batch[w] => event[e].st # "NONE"
       /\ First(w, e) /\ phase[w] = "ok" => e \in delivered
  /\ \A e \in Events : event[e].st = "PROCESSED" => e \in delivered
  /\ \A e \in delivered : event[e].st # "NONE"

\* A claim that was never open for five minutes is not claimable.
FreshClaims == \A e \in Events \ lapsed : event[e].st = "PROCESSING" => ~event[e].ready

OutboxInv == OutboxTypeOK /\ ExclusiveUntilStale /\ FreshClaims /\ Accounted

\* The first of a batch is unique.
LEMMA FirstUnique ==
  ASSUME OutboxTypeOK, NEW w \in Processes, NEW e \in Events, NEW f \in Events,
         First(w, e), First(w, f)
  PROVE  e = f
<1>1. e \in Nat /\ f \in Nat /\ e <= f /\ f <= e
  BY EventsAssumption DEF EventsAssumption, First
<1> QED
  BY <1>1

LEMMA InitInv == OutboxInit => OutboxInv
  BY DEF OutboxInit, OutboxInv, OutboxTypeOK, ExclusiveUntilStale, FreshClaims, Accounted, Row,
         EventStatus, Phase, First

LEMMA StepType == OutboxInv /\ [OutboxNext]_outboxVars => OutboxTypeOK'
<1> SUFFICES ASSUME OutboxInv, [OutboxNext]_outboxVars PROVE OutboxTypeOK'
  OBVIOUS
<1> USE DEF OutboxInv, OutboxTypeOK, EventStatus, Phase, Row
<1>1. ASSUME NEW e \in Events, Enqueue(e) PROVE OutboxTypeOK'
  BY <1>1 DEF Enqueue
<1>2. ASSUME NEW e \in Events, Elapse(e) PROVE OutboxTypeOK'
  BY <1>2 DEF Elapse
<1>3. ASSUME NEW w \in Processes, Claim(w) PROVE OutboxTypeOK'
  <2>1. Oldest(Claimable) \subseteq Events
    BY DEF Oldest, Claimable
  <2> QED
    BY <1>3, <2>1 DEF Claim
<1>4. ASSUME NEW w \in Processes, LoseWrite(w) PROVE OutboxTypeOK'
  BY <1>4 DEF LoseWrite
<1>5. ASSUME NEW w \in Processes, Abort(w) PROVE OutboxTypeOK'
  BY <1>5 DEF Abort
<1>6. ASSUME NEW w \in Processes, NEW e \in Events, Succeed(w, e) \/ Throw(w, e)
      PROVE  OutboxTypeOK'
  BY <1>6 DEF Succeed, Throw, First
<1>7. ASSUME NEW w \in Processes, NEW e \in Events, MarkProcessed(w, e) \/ MarkFailed(w, e)
      PROVE  OutboxTypeOK'
  <2>1. PICK outcome \in {"PROCESSED", "FAILED"} : Finish(w, e, outcome)
    BY <1>7 DEF MarkProcessed, MarkFailed
  <2>2. event' \in [Events -> [st : EventStatus, ready : BOOLEAN]]
    BY <2>1 DEF Finish
  <2>3. batch' \in [Processes -> SUBSET Events] /\ phase' \in [Processes -> Phase]
    BY <2>1 DEF Finish
  <2> QED
    BY <2>1, <2>2, <2>3 DEF Finish
<1>8. CASE UNCHANGED outboxVars
  BY <1>8 DEF outboxVars
<1> QED
  BY <1>1, <1>2, <1>3, <1>4, <1>5, <1>6, <1>7, <1>8 DEF OutboxNext

LEMMA StepExclusive == OutboxInv /\ [OutboxNext]_outboxVars => ExclusiveUntilStale'
<1> SUFFICES ASSUME OutboxInv, [OutboxNext]_outboxVars PROVE ExclusiveUntilStale'
  OBVIOUS
<1> USE DEF OutboxInv, OutboxTypeOK, ExclusiveUntilStale, Row
<1>1. ASSUME NEW e \in Events, Enqueue(e) PROVE ExclusiveUntilStale'
  BY <1>1 DEF Enqueue, Accounted
<1>2. ASSUME NEW e \in Events, Elapse(e) PROVE ExclusiveUntilStale'
  BY <1>2 DEF Elapse
<1>3. ASSUME NEW w \in Processes, Claim(w) PROVE ExclusiveUntilStale'
  <2> DEFINE taken == Oldest(Claimable)
  <2>1. \A e \in taken : e \in Events /\ event[e].ready
                         /\ event[e].st \in {"PENDING", "FAILED", "PROCESSING"}
    BY DEF Oldest, Claimable
  <2>2. /\ batch' = [batch EXCEPT ![w] = taken]
        /\ event' = [e \in Events |-> IF e \in taken THEN [st |-> "PROCESSING", ready |-> FALSE]
                                                     ELSE event[e]]
        /\ lapsed' = lapsed /\ batch[w] = {}
    BY <1>3 DEF Claim
  <2> HIDE DEF taken
  <2> SUFFICES ASSUME NEW e \in Events \ lapsed, NEW v \in Processes, e \in batch'[v]
               PROVE  /\ event'[e].st = "PROCESSING"
                      /\ \A u \in Processes \ {v} : e \notin batch'[u]
    BY <2>2
  <2>3. CASE e \in taken
    <3>1. \A u \in Processes : e \notin batch[u]
      BY <2>1, <2>2, <2>3 DEF FreshClaims
    <3> QED
      BY <2>2, <2>3, <3>1
  <2>4. CASE e \notin taken
    BY <2>2, <2>4
  <2> QED
    BY <2>3, <2>4
<1>4. ASSUME NEW w \in Processes, LoseWrite(w) PROVE ExclusiveUntilStale'
  BY <1>4 DEF LoseWrite
<1>5. ASSUME NEW w \in Processes, Abort(w) PROVE ExclusiveUntilStale'
  BY <1>5 DEF Abort
<1>6. ASSUME NEW w \in Processes, NEW e \in Events, Succeed(w, e) \/ Throw(w, e)
      PROVE  ExclusiveUntilStale'
  BY <1>6 DEF Succeed, Throw
<1>7. ASSUME NEW w \in Processes, NEW e \in Events, MarkProcessed(w, e) \/ MarkFailed(w, e)
      PROVE  ExclusiveUntilStale'
  BY <1>7 DEF MarkProcessed, MarkFailed, Finish, First
<1>8. CASE UNCHANGED outboxVars
  BY <1>8 DEF outboxVars
<1> QED
  BY <1>1, <1>2, <1>3, <1>4, <1>5, <1>6, <1>7, <1>8 DEF OutboxNext

LEMMA StepFresh == OutboxInv /\ [OutboxNext]_outboxVars => FreshClaims'
<1> SUFFICES ASSUME OutboxInv, [OutboxNext]_outboxVars PROVE FreshClaims'
  OBVIOUS
<1> USE DEF OutboxInv, OutboxTypeOK, FreshClaims, Row
<1>1. ASSUME NEW e \in Events, Enqueue(e) \/ Elapse(e) PROVE FreshClaims'
  BY <1>1 DEF Enqueue, Elapse
<1>2. ASSUME NEW w \in Processes, Claim(w) PROVE FreshClaims'
  BY <1>2 DEF Claim
<1>3. ASSUME NEW w \in Processes, LoseWrite(w) \/ Abort(w) PROVE FreshClaims'
  BY <1>3 DEF LoseWrite, Abort
<1>4. ASSUME NEW w \in Processes, NEW e \in Events,
             Succeed(w, e) \/ Throw(w, e) \/ MarkProcessed(w, e) \/ MarkFailed(w, e)
      PROVE  FreshClaims'
  BY <1>4 DEF Succeed, Throw, MarkProcessed, MarkFailed, Finish
<1>5. CASE UNCHANGED outboxVars
  BY <1>5 DEF outboxVars
<1> QED
  BY <1>1, <1>2, <1>3, <1>4, <1>5 DEF OutboxNext

LEMMA StepAccounted == OutboxInv /\ [OutboxNext]_outboxVars => Accounted'
<1> SUFFICES ASSUME OutboxInv, [OutboxNext]_outboxVars PROVE Accounted'
  OBVIOUS
<1> USE DEF OutboxInv, OutboxTypeOK, Accounted, Row
<1>1. ASSUME NEW e \in Events, Enqueue(e) \/ Elapse(e) PROVE Accounted'
  BY <1>1 DEF Enqueue, Elapse, First
<1>2. ASSUME NEW w \in Processes, Claim(w) PROVE Accounted'
  <2>1. Oldest(Claimable) \subseteq Claimable /\ Claimable \subseteq Events
    BY DEF Oldest, Claimable
  <2>2. \A e \in Claimable : event[e].st # "NONE"
    BY DEF Claimable
  <2> QED
    BY <1>2, <2>1, <2>2 DEF Claim, First
<1>3. ASSUME NEW w \in Processes, LoseWrite(w) \/ Abort(w) PROVE Accounted'
  BY <1>3 DEF LoseWrite, Abort, First
<1>4. ASSUME NEW w \in Processes, NEW e \in Events, Succeed(w, e) PROVE Accounted'
  <2>1. \A f \in Events : First(w, f) => f = e
    BY <1>4, FirstUnique DEF Succeed
  <2> QED
    BY <1>4, <2>1 DEF Succeed, First
<1>5. ASSUME NEW w \in Processes, NEW e \in Events, Throw(w, e) PROVE Accounted'
  BY <1>5 DEF Throw, First
<1>6. ASSUME NEW w \in Processes, NEW e \in Events, MarkProcessed(w, e) \/ MarkFailed(w, e)
      PROVE  Accounted'
  <2>1. /\ First(w, e)
        /\ batch' = [batch EXCEPT ![w] = @ \ {e}]
        /\ phase' = [phase EXCEPT ![w] = "publish"]
        /\ delivered' = delivered
    BY <1>6 DEF MarkProcessed, MarkFailed, Finish
  <2>2. \/ event' = [event EXCEPT ![e] = [st |-> "FAILED", ready |-> FALSE]]
        \/ /\ event' = [event EXCEPT ![e] = [st |-> "PROCESSED", ready |-> FALSE]]
           /\ phase[w] = "ok"
    BY <1>6 DEF MarkProcessed, MarkFailed, Finish
  <2>3. \A f \in Events : event'[f].st \in {event[f].st, "FAILED", "PROCESSED"}
    BY <2>2 DEF OutboxTypeOK
  <2>4. \A f \in Events : event'[f].st = "PROCESSED" => event[f].st = "PROCESSED" \/ f \in delivered
    BY <2>1, <2>2
  <2>5. \A v \in Processes, f \in Events :
          /\ f \in batch'[v] => f \in batch[v]
          /\ First(v, f)' /\ phase'[v] = "ok" => First(v, f) /\ phase[v] = "ok"
    BY <2>1 DEF First, OutboxTypeOK
  <2> QED
    BY <2>1, <2>3, <2>4, <2>5
<1>7. CASE UNCHANGED outboxVars
  BY <1>7 DEF outboxVars, First
<1> QED
  BY <1>1, <1>2, <1>3, <1>4, <1>5, <1>6, <1>7 DEF OutboxNext

THEOREM OutboxInvariant == OutboxSpec => []OutboxInv
<1>1. OutboxInv /\ [OutboxNext]_outboxVars => OutboxInv'
  BY StepType, StepExclusive, StepFresh, StepAccounted DEF OutboxInv
<1> QED
  BY InitInv, <1>1, PTL DEF OutboxSpec

\* Rows, batches and phases keep their types, and a process without a batch
\* is at the start of an event.
THEOREM OutboxTypes == OutboxSpec => []OutboxTypeOK
  BY OutboxInvariant, PTL DEF OutboxInv

\* Two processes never hold the same event before its claim went stale.
THEOREM Exclusion == OutboxSpec => []ExclusiveUntilStale
  BY OutboxInvariant, PTL DEF OutboxInv

----------------------------------------------------------------------------
(* The outbox implements the safety of EventDelivery.                      *)

CommittedEvents == {e \in Events : event[e].st # "NONE"}
ClosedEvents    == {e \in Events : event[e].st = "PROCESSED"}

LEMMA StepMaps ==
  OutboxInv /\ [OutboxNext]_outboxVars =>
    [Promise!DeliveryNext]_<<CommittedEvents, delivered, ClosedEvents>>
<1> SUFFICES ASSUME OutboxInv, [OutboxNext]_outboxVars
             PROVE  Promise!DeliveryNext \/ UNCHANGED <<CommittedEvents, delivered, ClosedEvents>>
  OBVIOUS
<1> USE DEF OutboxInv, OutboxTypeOK, CommittedEvents, ClosedEvents
<1>1. ASSUME NEW e \in Events, Enqueue(e) PROVE Promise!Commit(e)
  <2>1. \A f \in Events : event'[f] = IF f = e THEN Row("PENDING", TRUE) ELSE event[f]
    BY <1>1 DEF Enqueue
  <2>2. event[e].st = "NONE" /\ delivered' = delivered
    BY <1>1 DEF Enqueue
  <2> QED
    BY <2>1, <2>2 DEF Promise!Commit, Row
<1>2. ASSUME NEW e \in Events, Elapse(e) PROVE UNCHANGED <<CommittedEvents, delivered, ClosedEvents>>
  <2>1. \A f \in Events : event'[f].st = event[f].st
    BY <1>2 DEF Elapse
  <2> QED
    BY <1>2, <2>1 DEF Elapse
<1>3. ASSUME NEW w \in Processes, Claim(w)
      PROVE  UNCHANGED <<CommittedEvents, delivered, ClosedEvents>>
  <2>1. \A f \in Oldest(Claimable) : event[f].st \notin {"NONE", "PROCESSED"}
    BY DEF Oldest, Claimable
  <2>2. \A f \in Events : event'[f].st # event[f].st => f \in Oldest(Claimable) /\ event'[f].st = "PROCESSING"
    BY <1>3 DEF Claim, Row
  <2> QED
    BY <1>3, <2>1, <2>2 DEF Claim
<1>4. ASSUME NEW w \in Processes, LoseWrite(w) \/ Abort(w)
      PROVE  UNCHANGED <<CommittedEvents, delivered, ClosedEvents>>
  BY <1>4 DEF LoseWrite, Abort
<1>5. ASSUME NEW w \in Processes, NEW e \in Events, Succeed(w, e)
      PROVE  Promise!Deliver(e) \/ UNCHANGED <<CommittedEvents, delivered, ClosedEvents>>
  <2>1. delivered' = delivered \cup {e} /\ event' = event
    BY <1>5 DEF Succeed
  <2>2. event[e].st # "NONE"
    BY <1>5 DEF Succeed, First, Accounted
  <2> QED
    BY <2>1, <2>2 DEF Promise!Deliver
<1>6. ASSUME NEW w \in Processes, NEW e \in Events, Throw(w, e)
      PROVE  UNCHANGED <<CommittedEvents, delivered, ClosedEvents>>
  BY <1>6 DEF Throw
<1>7. ASSUME NEW w \in Processes, NEW e \in Events, MarkProcessed(w, e)
      PROVE  Promise!Close(e)
  <2>1. e \in delivered /\ delivered' = delivered /\ event[e].st # "NONE"
    BY <1>7 DEF MarkProcessed, Finish, Accounted, First
  <2>2. \A f \in Events : event'[f] = IF f = e THEN Row("PROCESSED", FALSE) ELSE event[f]
    BY <1>7 DEF MarkProcessed, Finish
  <2> QED
    BY <2>1, <2>2 DEF Promise!Close, Row
<1>8. ASSUME NEW w \in Processes, NEW e \in Events, MarkFailed(w, e)
      PROVE  Promise!Reopen(e) \/ UNCHANGED <<CommittedEvents, delivered, ClosedEvents>>
  <2>1. delivered' = delivered /\ event[e].st # "NONE"
    BY <1>8 DEF MarkFailed, Finish, Accounted, First
  <2>2. \A f \in Events : event'[f] = IF f = e THEN Row("FAILED", FALSE) ELSE event[f]
    BY <1>8 DEF MarkFailed, Finish
  <2> QED
    BY <2>1, <2>2 DEF Promise!Reopen, Row
<1>9. CASE UNCHANGED outboxVars
  BY <1>9 DEF outboxVars
<1> QED
  BY <1>1, <1>2, <1>3, <1>4, <1>5, <1>6, <1>7, <1>8, <1>9 DEF OutboxNext, Promise!DeliveryNext

\* Only committed events are delivered, and none is put aside before every
\* listener has handled it.
THEOREM OutboxKeepsSafety == OutboxSpec => KeepsSafety
<1>1. OutboxInit => Promise!DeliveryInit
  BY DEF OutboxInit, Promise!DeliveryInit, Row
<1>2. OutboxInv /\ [OutboxNext]_outboxVars => [Promise!DeliveryNext]_Promise!deliveryVars
  BY StepMaps DEF CommittedEvents, ClosedEvents, Promise!deliveryVars
<1> QED
  BY <1>1, <1>2, OutboxInvariant, PTL
     DEF OutboxSpec, KeepsSafety, Promise!DeliverySafety
----------------------------------------------------------------------------
(* The automation engine takes no step of the outbox that the outbox does  *)
(* not take by itself, so what is proved above holds of it too.            *)

LEMMA AutomationStepMaps == [AutomationNext]_automationVars => [OutboxNext]_outboxVars
<1> SUFFICES ASSUME [AutomationNext]_automationVars PROVE OutboxNext \/ UNCHANGED outboxVars
  BY DEF outboxVars
<1>1. CASE OutboxStep
  BY <1>1 DEF OutboxStep, OutboxNext
<1>2. CASE ListenerStep
  <2>1. ASSUME NEW r \in Rules, ToggleRule(r) PROVE UNCHANGED outboxVars
    BY <2>1 DEF ToggleRule
  <2>2. ASSUME NEW w \in Processes, NEW e \in Events, ReadRules(w, e) PROVE UNCHANGED outboxVars
    BY <2>2 DEF ReadRules
  <2>3. ASSUME NEW w \in Processes, NEW e \in Events,
               NoRules(w, e) \/ InsertExecutions(w, e) \/ FailListener(w, e)
        PROVE  Succeed(w, e) \/ Throw(w, e)
    BY <2>3 DEF NoRules, InsertExecutions, FailListener
  <2> QED
    BY <1>2, <2>1, <2>2, <2>3 DEF ListenerStep, OutboxNext
<1>3. CASE QueueStep
  BY <1>3 DEF QueueStep
<1>4. CASE UNCHANGED automationVars
  BY <1>4 DEF automationVars, outboxVars
<1> QED
  BY <1>1, <1>2, <1>3, <1>4 DEF AutomationNext

\* The engine implements the outbox: whatever its listener and its runners
\* do, the events are delivered as if they were not there.
THEOREM AutomationImplementsOutbox == AutomationSpec => OutboxSpec
<1>1. AutomationInit => OutboxInit
  BY DEF AutomationInit
<1> QED
  BY <1>1, AutomationStepMaps, PTL DEF AutomationSpec, OutboxSpec

\* So the events that feed the rules are delivered only once committed, and
\* put aside only after the listener has handled them.
THEOREM AutomationKeepsSafety == AutomationSpec => KeepsSafety
  BY AutomationImplementsOutbox, OutboxKeepsSafety, PTL

----------------------------------------------------------------------------
(* Executions.                                                             *)

\* What the row of an action says is settled did take effect or was skipped.
SettledIsHandled == \A x \in Executions, k \in Order : Settled(x, k) => k \in handled[x]

\* A runner is past the actions that were handled, in their order.
RunnersInOrder ==
  \A r \in Runners : task[r].at # "idle" =>
    /\ task[r].x \in Executions
    /\ task[r].seen \subseteq handled[task[r].x]
    /\ \A k \in Order : k < task[r].pos => k \in handled[task[r].x]
    /\ task[r].at # "next" => task[r].pos \in Order
    /\ task[r].at \in {"did", "skipped"} => task[r].pos \in handled[task[r].x]

RunsTypeOK ==
  /\ active \subseteq Rules
  /\ found \in [Processes -> Permutation]
  /\ exec \in [Executions -> [st : ExecStatus, ready : BOOLEAN, attempts : 0..MaxAttempts]]
  /\ act \in [Executions -> [Order -> ActionStatus]]
  /\ job \in [Runners -> SUBSET Executions]
  /\ task \in [Runners -> [x : Executions \cup {NoExecution}, at : Step,
                           pos : 1..ActionCount + 1, seen : SUBSET Order]]
  /\ effects \in [Executions -> [Order -> Nat]]
  /\ handled \in [Executions -> SUBSET Order]

RunsInv == RunsTypeOK /\ SettledIsHandled /\ RunnersInOrder /\ ActionsInOrder /\ EmitsOnce

LEMMA NoRulesIsAPermutation == <<>> \in Permutation
<1>1. Cardinality({}) = 0
  BY FS_EmptySet
<1>2. <<>> \in {s \in [1..Cardinality({}) -> {}] : \A q \in {} : \E i \in 1..Cardinality({}) : s[i] = q}
  BY <1>1
<1> QED
  BY <1>2 DEF Permutation

LEMMA IdleType ==
  Idle \in [x : Executions \cup {NoExecution}, at : Step, pos : 1..ActionCount + 1, seen : SUBSET Order]
BY ActionsAssumption DEF Idle, Step, ActionsAssumption

LEMMA RunsStart == AutomationInit => RunsInv
<1> SUFFICES ASSUME AutomationInit PROVE RunsInv
  OBVIOUS
<1>1. RunsTypeOK
  BY NoRulesIsAPermutation, IdleType, ActionsAssumption
     DEF AutomationInit, RunsTypeOK, ExecStatus, ActionStatus, ActionsAssumption
<1>2. SettledIsHandled
  BY DEF AutomationInit, SettledIsHandled, Settled
<1>3. RunnersInOrder
  BY DEF AutomationInit, RunnersInOrder, Idle
<1>4. ActionsInOrder
  BY DEF AutomationInit, ActionsInOrder
<1>5. EmitsOnce
  BY ActionsAssumption DEF AutomationInit, EmitsOnce, Order, ActionsAssumption
<1> QED
  BY <1>1, <1>2, <1>3, <1>4, <1>5 DEF RunsInv

\* The listener and the rules touch no action and settle no execution.
LEMMA IntakeKeepsRuns ==
  ASSUME RunsInv, OutboxStep \/ ListenerStep
  PROVE  RunsInv'
<1> DEFINE ExecRow == [st : ExecStatus, ready : BOOLEAN, attempts : 0..MaxAttempts]
<1>1. ASSUME NEW w \in Processes, NEW e \in Events, CreateExecutions(w, e)
      PROVE  /\ exec' \in [Executions -> ExecRow]
             /\ \A x \in Executions : exec'[x].st = "SUCCEEDED" => exec[x].st = "SUCCEEDED"
  <2>1. [st |-> "QUEUED", ready |-> TRUE, attempts |-> 0] \in ExecRow
    BY ActionsAssumption DEF ExecStatus, ActionsAssumption
  <2> HIDE DEF ExecRow
  <2> QED
    BY <1>1, <2>1 DEF CreateExecutions, RunsInv, RunsTypeOK, ExecRow
<1>2. /\ UNCHANGED <<act, job, task, effects, handled>>
      /\ active' \subseteq Rules
      /\ found' \in [Processes -> Permutation]
      /\ UNCHANGED exec \/ \E w \in Processes, e \in Events : CreateExecutions(w, e)
  <2>0. active \subseteq Rules /\ found \in [Processes -> Permutation]
    BY DEF RunsInv, RunsTypeOK
  <2>1. CASE OutboxStep
    BY <2>0, <2>1, NoRulesIsAPermutation DEF OutboxStep, runVars
  <2>2. CASE ListenerStep
    <3>1. ASSUME NEW r \in Rules, ToggleRule(r)
          PROVE  UNCHANGED <<found, exec, act, job, task, effects, handled>> /\ active' \subseteq Rules
      BY <2>0, <3>1 DEF ToggleRule, runVars
    <3>2. ASSUME NEW w \in Processes, NEW e \in Events, NoRules(w, e)
          PROVE  UNCHANGED <<active, found, exec, act, job, task, effects, handled>>
      BY <3>2 DEF NoRules, runVars, intakeVars
    <3>3. ASSUME NEW w \in Processes, NEW e \in Events, ReadRules(w, e)
          PROVE  /\ UNCHANGED <<active, exec, act, job, task, effects, handled>>
                 /\ found' \in [Processes -> Permutation]
      BY <2>0, <3>3 DEF ReadRules, runVars
    <3>4. ASSUME NEW w \in Processes, NEW e \in Events, InsertExecutions(w, e) \/ FailListener(w, e)
          PROVE  /\ UNCHANGED <<active, act, job, task, effects, handled>>
                 /\ found' \in [Processes -> Permutation]
                 /\ UNCHANGED exec \/ CreateExecutions(w, e)
      BY <2>0, <3>4, NoRulesIsAPermutation DEF InsertExecutions, FailListener
    <3> QED
      BY <2>0, <2>2, <3>1, <3>2, <3>3, <3>4 DEF ListenerStep
  <2> QED
    BY <2>1, <2>2
<1>3. /\ exec' \in [Executions -> ExecRow]
      /\ \A x \in Executions : exec'[x].st = "SUCCEEDED" => exec[x].st = "SUCCEEDED"
  BY <1>1, <1>2 DEF RunsInv, RunsTypeOK
<1>4. RunsTypeOK'
  BY <1>2, <1>3 DEF RunsInv, RunsTypeOK
<1>5. SettledIsHandled' /\ RunnersInOrder' /\ EmitsOnce'
  BY <1>2 DEF RunsInv, SettledIsHandled, Settled, RunnersInOrder, EmitsOnce
<1>6. ActionsInOrder'
  BY <1>2, <1>3 DEF RunsInv, ActionsInOrder
<1> QED
  BY <1>4, <1>5, <1>6 DEF RunsInv

\* Nor do the clock and the claims of the queue.
LEMMA QueueKeepsRuns ==
  ASSUME RunsInv, UNCHANGED <<active, found>>,
         \/ \E x \in Executions : ElapseExecution(x)
         \/ \E r \in Runners : ClaimExecutions(r)
  PROVE  RunsInv'
<1> USE DEF RunsInv
<1> DEFINE Queued ==
      /\ UNCHANGED <<act, task, effects, handled>>
      /\ job' \in [Runners -> SUBSET Executions]
      /\ exec' \in [Executions -> [st : ExecStatus, ready : BOOLEAN, attempts : 0..MaxAttempts]]
      /\ \A x \in Executions : exec'[x].st = "SUCCEEDED" => exec[x].st = "SUCCEEDED"
<1>1. Queued
  <2>1. ASSUME NEW x \in Executions, ElapseExecution(x) PROVE Queued
    BY <2>1 DEF ElapseExecution, RunsTypeOK
  <2>2. ASSUME NEW r \in Runners, ClaimExecutions(r) PROVE Queued
    <3>1. Runnable \subseteq Executions
          /\ \A x \in Runnable : exec[x].attempts + 1 \in 0..MaxAttempts
      BY ActionsAssumption DEF Runnable, RunsTypeOK, ActionsAssumption
    <3>2. \A x \in Runnable :
            [st |-> "RUNNING", ready |-> FALSE, attempts |-> exec[x].attempts + 1]
              \in [st : ExecStatus, ready : BOOLEAN, attempts : 0..MaxAttempts]
      BY <3>1 DEF ExecStatus
    <3> QED
      BY <2>2, <3>1, <3>2 DEF ClaimExecutions, RunsTypeOK
  <2> QED
    BY <2>1, <2>2
<1>2. RunsTypeOK'
  BY <1>1 DEF RunsTypeOK
<1>3. SettledIsHandled' /\ RunnersInOrder' /\ EmitsOnce'
  BY <1>1 DEF SettledIsHandled, Settled, RunnersInOrder, EmitsOnce
<1>4. ActionsInOrder'
  BY <1>1 DEF ActionsInOrder
<1> QED
  BY <1>2, <1>3, <1>4

\* What moving a runner, writing the status of an action and handling one do
\* to the rows.
LEMMA MoveWrites ==
  ASSUME RunsTypeOK, NEW r \in Runners, NEW at \in Step, NEW pos \in 1..ActionCount + 1,
         Move(r, at, pos)
  PROVE  /\ task' \in [Runners -> [x : Executions \cup {NoExecution}, at : Step,
                                   pos : 1..ActionCount + 1, seen : SUBSET Order]]
         /\ task'[r] = [x |-> task[r].x, at |-> at, pos |-> pos, seen |-> task[r].seen]
         /\ \A q \in Runners \ {r} : task'[q] = task[q]
<1> DEFINE new == [x |-> task[r].x, at |-> at, pos |-> pos, seen |-> task[r].seen]
<1>1. task[r] \in [x : Executions \cup {NoExecution}, at : Step,
                   pos : 1..ActionCount + 1, seen : SUBSET Order]
  BY DEF RunsTypeOK
<1>2. task' = [task EXCEPT ![r] = new]
  <2>1. task' = [task EXCEPT ![r] = [task[r] EXCEPT !.at = at, !.pos = pos]]
    BY DEF Move, RunsTypeOK
  <2>2. [task[r] EXCEPT !.at = at, !.pos = pos] = new
    <3> DEFINE moved == [task[r] EXCEPT !.at = at]
    <3>1. moved = [x |-> task[r].x, at |-> at, pos |-> task[r].pos, seen |-> task[r].seen]
      BY <1>1
    <3>2. [task[r] EXCEPT !.at = at, !.pos = pos] = [moved EXCEPT !.pos = pos]
      OBVIOUS
    <3> HIDE DEF moved
    <3> QED
      BY <3>1, <3>2
  <2> QED
    BY <2>1, <2>2
<1>3. new \in [x : Executions \cup {NoExecution}, at : Step,
               pos : 1..ActionCount + 1, seen : SUBSET Order]
  BY <1>1
<1> HIDE DEF new
<1>4. task' \in [Runners -> [x : Executions \cup {NoExecution}, at : Step,
                             pos : 1..ActionCount + 1, seen : SUBSET Order]]
  BY <1>2, <1>3 DEF RunsTypeOK
<1>5. task'[r] = new /\ \A q \in Runners \ {r} : task'[q] = task[q]
  BY <1>2 DEF RunsTypeOK
<1> QED
  BY <1>4, <1>5 DEF new

LEMMA SetActionWrites ==
  ASSUME RunsTypeOK, NEW x \in Executions, NEW k \in Order, NEW st \in ActionStatus, SetAction(x, k, st)
  PROVE  /\ act' \in [Executions -> [Order -> ActionStatus]]
         /\ act'[x][k] = st
         /\ \A y \in Executions, j \in Order : y # x \/ j # k => act'[y][j] = act[y][j]
<1>1. act' = [act EXCEPT ![x] = [act[x] EXCEPT ![k] = st]]
  BY DEF SetAction
<1> QED
  BY <1>1 DEF RunsTypeOK

LEMMA ConcludeWrites ==
  ASSUME RunsTypeOK, NEW r \in Runners, task[r].x \in Executions, NEW st \in ExecStatus, Conclude(r, st)
  PROVE  /\ exec' \in [Executions -> [st : ExecStatus, ready : BOOLEAN, attempts : 0..MaxAttempts]]
         /\ exec'[task[r].x].st = st
         /\ \A y \in Executions \ {task[r].x} : exec'[y] = exec[y]
<1> DEFINE x == task[r].x
           new == [st |-> st, ready |-> FALSE, attempts |-> exec[x].attempts]
<1>1. exec[x] \in [st : ExecStatus, ready : BOOLEAN, attempts : 0..MaxAttempts]
  BY DEF RunsTypeOK
<1>2. exec' = [exec EXCEPT ![x] = new]
  <2>1. exec' = [exec EXCEPT ![x] = [exec[x] EXCEPT !.st = st, !.ready = FALSE]]
    BY DEF Conclude, RunsTypeOK
  <2>2. ASSUME NEW v
        PROVE  [exec[x] EXCEPT !.st = st, !.ready = v]
                 = [st |-> st, ready |-> v, attempts |-> exec[x].attempts]
    <3> DEFINE ended == [exec[x] EXCEPT !.st = st]
    <3>1. ended = [st |-> st, ready |-> exec[x].ready, attempts |-> exec[x].attempts]
      BY <1>1
    <3>2. [exec[x] EXCEPT !.st = st, !.ready = v] = [ended EXCEPT !.ready = v]
      OBVIOUS
    <3> HIDE DEF ended
    <3> QED
      BY <3>1, <3>2
  <2> QED
    BY <2>1, <2>2
<1>3. new \in [st : ExecStatus, ready : BOOLEAN, attempts : 0..MaxAttempts] /\ new.st = st
  BY <1>1
<1> HIDE DEF new, x
<1> QED
  BY <1>2, <1>3 DEF RunsTypeOK, x

LEMMA PerformWrites ==
  ASSUME RunsTypeOK, NEW x \in Executions, NEW k \in Order,
         effects' = [effects EXCEPT ![x][k] = @ + 1]
  PROVE  /\ effects' \in [Executions -> [Order -> Nat]]
         /\ effects'[x][k] = effects[x][k] + 1
         /\ \A y \in Executions, j \in Order : y # x \/ j # k => effects'[y][j] = effects[y][j]
<1>1. effects' = [effects EXCEPT ![x] = [effects[x] EXCEPT ![k] = effects[x][k] + 1]]
  OBVIOUS
<1>2. effects[x] \in [Order -> Nat] /\ effects[x][k] + 1 \in Nat
  BY DEF RunsTypeOK
<1> QED
  BY <1>1, <1>2 DEF RunsTypeOK

\* The steps of a runner within its execution.
LEMMA RunnerType ==
  ASSUME RunsInv, NEW r \in Runners, UNCHANGED <<active, found>>, RunStep(r) \/ AbortRun(r)
  PROVE  RunsTypeOK'
<1> USE DEF RunsInv, RunsTypeOK
<1> DEFINE TaskRow == [x : Executions \cup {NoExecution}, at : Step,
                       pos : 1..ActionCount + 1, seen : SUBSET Order]
<1>0. /\ ActionCount \in Nat
      /\ \A k \in Order : k \in 1..ActionCount + 1 /\ k + 1 \in 1..ActionCount + 1
      /\ task[r].at # "idle" => task[r].x \in Executions
      /\ task[r].at \notin {"idle", "next"} => task[r].pos \in Order
  BY ActionsAssumption DEF Order, RunnersInOrder, ActionsAssumption
<1>1. ASSUME NEW x \in Executions, Load(r, x) PROVE RunsTypeOK'
  <2>1. [x |-> x, at |-> "next", pos |-> 1, seen |-> {k \in Order : Settled(x, k)}] \in TaskRow
    BY <1>0 DEF Step
  <2> QED
    BY <1>1, <2>1 DEF Load
<1>2. CASE SkipSettled(r)
  BY <1>2, <1>0, MoveWrites DEF SkipSettled, Step
<1>3. CASE StartAction(r)
  <2>1. task[r].x \in Executions /\ task[r].pos \in Order
    BY <1>3, <1>0 DEF StartAction, At
  <2> QED
    BY <1>3, <1>0, <2>1, MoveWrites, SetActionWrites DEF StartAction, Step, ActionStatus
<1>4. CASE Perform(r) \/ Skip(r)
  <2>1. task[r].x \in Executions /\ task[r].pos \in Order
    BY <1>4, <1>0 DEF Perform, Skip, At
  <2>2. task' \in [Runners -> TaskRow]
    BY <1>4, <1>0, <2>1, MoveWrites DEF Perform, Skip, Step
  <2>3. handled' = [handled EXCEPT ![task[r].x] = @ \cup {task[r].pos}]
    BY <1>4 DEF Perform, Skip
  <2>4. effects' \in [Executions -> [Order -> Nat]]
    BY <1>4, <2>1, PerformWrites DEF Perform, Skip
  <2>5. handled' \in [Executions -> SUBSET Order]
    BY <2>1, <2>3
  <2> QED
    BY <1>4, <2>2, <2>4, <2>5 DEF Perform, Skip
<1>5. CASE ThrowAction(r) \/ RecordFailure(r) \/ Record(r)
  <2>1. task[r].x \in Executions /\ task[r].pos \in Order /\ task[r].pos + 1 \in 1..ActionCount + 1
    BY <1>5, <1>0 DEF ThrowAction, RecordFailure, Record, At
  <2>2. \E at \in Step, pos \in 1..ActionCount + 1 : Move(r, at, pos)
    BY <1>5, <1>0, <2>1 DEF ThrowAction, RecordFailure, Record, Step
  <2>3. act' = act \/ \E st \in ActionStatus : SetAction(task[r].x, task[r].pos, st)
    BY <1>5 DEF ThrowAction, RecordFailure, Record, ActionStatus
  <2>4. act' \in [Executions -> [Order -> ActionStatus]]
    BY <2>1, <2>3, SetActionWrites
  <2> QED
    BY <1>5, <2>2, <2>4, MoveWrites DEF ThrowAction, RecordFailure, Record
<1>6. CASE Complete(r) \/ GiveUp(r)
  <2>1. task[r].x \in Executions
    BY <1>6, <1>0 DEF Complete, GiveUp, At
  <2>2. PICK st \in ExecStatus : Conclude(r, st)
    BY <1>6 DEF Complete, GiveUp, ExecStatus
  <2> QED
    BY <2>1, <2>2, ConcludeWrites, IdleType DEF Conclude
<1>7. CASE AbortRun(r)
  BY <1>7, IdleType DEF AbortRun
<1> QED
  BY <1>1, <1>2, <1>3, <1>4, <1>5, <1>6, <1>7 DEF RunStep

\* What they do to the actions: nothing that was handled is undone, a row is
\* settled only after its action was handled, and at most the current action
\* of an execution is handled, once all before it were.
LEMMA RunnerHandles ==
  ASSUME RunsInv, NEW r \in Runners, RunStep(r) \/ AbortRun(r)
  PROVE  /\ \A x \in Executions : handled[x] \subseteq handled'[x]
         /\ \A x \in Executions, k \in Order : Settled(x, k)' => k \in handled'[x]
         /\ \A x \in Executions : \A k \in handled'[x] \ handled[x] :
              \A j \in Order : j < k => j \in handled[x]
<1> USE DEF RunsInv, RunsTypeOK
<1> DEFINE x == task[r].x
           k == task[r].pos
<1>1. CASE (\E y \in Executions : Load(r, y)) \/ SkipSettled(r) \/ ThrowAction(r)
           \/ Complete(r) \/ GiveUp(r) \/ AbortRun(r)
  <2>1. UNCHANGED <<act, handled>>
    BY <1>1 DEF Load, SkipSettled, ThrowAction, Complete, GiveUp, Conclude, AbortRun
  <2> QED
    BY <2>1 DEF SettledIsHandled, Settled
<1>2. CASE StartAction(r) \/ RecordFailure(r)
  <2>1. /\ handled' = handled /\ \E st \in {"RUNNING", "FAILED"} : SetAction(x, k, st)
        /\ x \in Executions
    BY <1>2 DEF StartAction, RecordFailure, At, RunnersInOrder
  <2>2. \A y \in Executions, j \in Order : Settled(y, j)' => Settled(y, j)
    BY <2>1 DEF SetAction, Settled
  <2> QED
    BY <2>1, <2>2 DEF SettledIsHandled
<1>3. CASE Perform(r) \/ Skip(r)
  <2>1. /\ act' = act /\ handled' = [handled EXCEPT ![x] = @ \cup {k}]
        /\ x \in Executions /\ k \in Order
        /\ \A j \in Order : j < k => j \in handled[x]
    BY <1>3 DEF Perform, Skip, At, RunnersInOrder
  <2> QED
    BY <2>1 DEF SettledIsHandled, Settled
<1>4. CASE Record(r)
  <2>1. /\ handled' = handled /\ k \in handled[x] /\ x \in Executions /\ k \in Order
        /\ \E st \in ActionStatus : SetAction(x, k, st)
    BY <1>4 DEF Record, RunnersInOrder, ActionStatus
  <2> QED
    BY <2>1 DEF SettledIsHandled, Settled, SetAction
<1> QED
  BY <1>1, <1>2, <1>3, <1>4 DEF RunStep

\* An order that handled actions respect is respected after such a step.
LEMMA RunnerKeepsOrder ==
  ASSUME RunsInv, NEW r \in Runners, UNCHANGED <<active, found>>, RunStep(r) \/ AbortRun(r)
  PROVE  ActionsInOrder' /\ SettledIsHandled'
<1>0. /\ \A x \in Executions : handled[x] \subseteq handled'[x] /\ handled'[x] \subseteq Order
      /\ SettledIsHandled'
      /\ \A x \in Executions : \A k \in handled'[x] \ handled[x] :
           \A j \in Order : j < k => j \in handled[x]
  BY RunnerHandles, RunnerType DEF SettledIsHandled, RunsTypeOK
<1>1. \A x \in Executions : exec'[x].st = "SUCCEEDED" => handled'[x] = Order
  <2>1. CASE Complete(r)
    <3>1. task[r].x \in Executions /\ Order \subseteq handled[task[r].x]
      BY <2>1, ActionsAssumption
         DEF Complete, At, RunsInv, RunsTypeOK, RunnersInOrder, Order, ActionsAssumption
    <3>2. \A x \in Executions : exec'[x].st = "SUCCEEDED" => exec[x].st = "SUCCEEDED" \/ x = task[r].x
      BY <2>1, <3>1, ConcludeWrites DEF Complete, ExecStatus, RunsInv
    <3> QED
      BY <1>0, <3>1, <3>2 DEF RunsInv, ActionsInOrder
  <2>2. CASE ~Complete(r)
    <3>1. CASE GiveUp(r)
      <4>1. task[r].x \in Executions /\ Conclude(r, "FAILED") /\ "FAILED" \in ExecStatus
        BY <3>1 DEF GiveUp, At, ExecStatus, RunsInv, RunnersInOrder
      <4>2. \A x \in Executions : exec'[x].st = "SUCCEEDED" => exec[x].st = "SUCCEEDED"
        BY <4>1, ConcludeWrites DEF RunsInv
      <4> QED
        BY <1>0, <4>2 DEF RunsInv, ActionsInOrder
    <3>2. CASE ~GiveUp(r)
      <4>1. exec' = exec
        BY <2>2, <3>2 DEF RunStep, Load, SkipSettled, StartAction, Perform, Skip, ThrowAction, Record,
                          RecordFailure, AbortRun
      <4> QED
        BY <1>0, <4>1 DEF RunsInv, ActionsInOrder
    <3> QED
      BY <3>1, <3>2
  <2> QED
    BY <2>1, <2>2
<1>2. ASSUME NEW x \in Executions, NEW k \in handled'[x]
      PROVE  1..k \subseteq handled'[x]
  <2>1. k \in Order /\ \A j \in 1..k : j \in Order /\ (j < k \/ j = k)
    BY <1>0, ActionsAssumption DEF Order, ActionsAssumption
  <2>2. CASE k \in handled[x]
    BY <1>0, <2>2 DEF RunsInv, ActionsInOrder
  <2>3. CASE k \notin handled[x]
    BY <1>0, <2>1, <2>3
  <2> QED
    BY <2>2, <2>3
<1> QED
  BY <1>0, <1>1, <1>2 DEF ActionsInOrder

LEMMA RunnerStaysInOrder ==
  ASSUME RunsInv, NEW r \in Runners, RunStep(r) \/ AbortRun(r)
  PROVE  RunnersInOrder'
<1>b. RunsTypeOK /\ SettledIsHandled /\ RunnersInOrder
  BY DEF RunsInv
<1> USE <1>b
<1>0. \A x \in Executions : handled[x] \subseteq handled'[x]
  BY RunnerHandles
<1>a. \A j, k \in Order : j < k + 1 => j < k \/ j = k
  BY ActionsAssumption DEF Order, ActionsAssumption
<1>1. \A q \in Runners \ {r} : task'[q] = task[q]
  BY DEF RunsTypeOK, RunStep, Load, SkipSettled, StartAction, Perform, Skip, ThrowAction, Record,
         RecordFailure, Complete, GiveUp, Conclude, AbortRun, Move
<1> DEFINE InOrder(t, h) ==
      t.at # "idle" =>
        /\ t.x \in Executions
        /\ t.seen \subseteq h[t.x]
        /\ \A k \in Order : k < t.pos => k \in h[t.x]
        /\ t.at # "next" => t.pos \in Order
        /\ t.at \in {"did", "skipped"} => t.pos \in h[t.x]
<1>2. InOrder(task'[r], handled')
  <2>1. ASSUME NEW x \in Executions, Load(r, x) PROVE InOrder(task'[r], handled')
    <3>1. task'[r] = [x |-> x, at |-> "next", pos |-> 1, seen |-> {k \in Order : Settled(x, k)}]
          /\ handled' = handled
      BY <2>1 DEF Load, RunsTypeOK
    <3>2. \A k \in Order : ~(k < 1)
      BY DEF Order
    <3> QED
      BY <3>1, <3>2 DEF SettledIsHandled
  <2>2. CASE SkipSettled(r)
    <3>1. /\ task[r].at = "next" /\ task[r].pos \in Order /\ task[r].x \in Executions
          /\ task[r].pos \in task[r].seen \/ Settled(task[r].x, task[r].pos)
      BY <2>2 DEF RunsTypeOK, SkipSettled, At, Startable, Settled, ActionStatus, RunnersInOrder
    <3>2. task[r].pos \in handled[task[r].x]
      BY <3>1 DEF RunnersInOrder, SettledIsHandled
    <3>3. handled' = handled /\ task'[r] = [task[r] EXCEPT !.at = "next", !.pos = task[r].pos + 1]
      BY <2>2 DEF SkipSettled, Move, RunsTypeOK
    <3>4. \A j \in Order : j < task[r].pos + 1 => j \in handled[task[r].x]
      BY <1>a, <3>1, <3>2 DEF RunnersInOrder
    <3> QED
      BY <3>1, <3>3, <3>4 DEF RunnersInOrder
  <2>3. CASE StartAction(r)
    BY <2>3 DEF RunsTypeOK, StartAction, Move, At, RunnersInOrder
  <2>4. CASE Perform(r) \/ Skip(r)
    <3>1. /\ task[r].at = "act" /\ task[r].x \in Executions /\ task[r].pos \in Order
          /\ task'[r].x = task[r].x /\ task'[r].pos = task[r].pos /\ task'[r].seen = task[r].seen
          /\ handled'[task[r].x] = handled[task[r].x] \cup {task[r].pos}
      <4>1. /\ task[r].at = "act" /\ task[r].x \in Executions /\ task[r].pos \in Order
            /\ task[r].pos \in 1..ActionCount + 1
            /\ \E at \in Step : Move(r, at, task[r].pos)
            /\ handled' = [handled EXCEPT ![task[r].x] = @ \cup {task[r].pos}]
        BY <2>4 DEF RunsTypeOK, Perform, Skip, At, Step, RunnersInOrder
      <4>2. PICK at \in Step : Move(r, at, task[r].pos)
        BY <4>1
      <4>3. task'[r] = [x |-> task[r].x, at |-> at, pos |-> task[r].pos, seen |-> task[r].seen]
        BY <4>1, <4>2, MoveWrites
      <4> QED
        BY <4>1, <4>3 DEF RunsTypeOK
    <3> QED
      BY <3>1 DEF RunnersInOrder
  <2>5. CASE ThrowAction(r) \/ RecordFailure(r)
    <3>1. /\ task[r].at \in {"act", "did", "skipped", "threw"} /\ handled' = handled
          /\ task[r].pos \in 1..ActionCount + 1
          /\ \E at \in {"threw", "failed"} : Move(r, at, task[r].pos)
      BY <2>5 DEF RunsTypeOK, ThrowAction, RecordFailure, At
    <3>2. /\ task'[r].x = task[r].x /\ task'[r].pos = task[r].pos /\ task'[r].seen = task[r].seen
          /\ task'[r].at \in {"threw", "failed"}
      <4>1. PICK at \in {"threw", "failed"} : Move(r, at, task[r].pos)
        BY <3>1
      <4>2. at \in Step
        BY DEF Step
      <4>3. task'[r] = [x |-> task[r].x, at |-> at, pos |-> task[r].pos, seen |-> task[r].seen]
        BY <3>1, <4>1, <4>2, MoveWrites
      <4> QED
        BY <4>3
    <3> QED
      BY <3>1, <3>2 DEF RunnersInOrder
  <2>6. CASE Record(r)
    <3>1. /\ task[r].at \in {"did", "skipped"} /\ handled' = handled
          /\ task'[r] = [task[r] EXCEPT !.at = "next", !.pos = task[r].pos + 1]
      BY <2>6 DEF RunsTypeOK, Record, Move
    <3>2. task[r].pos \in Order /\ task[r].pos \in handled[task[r].x]
      BY <3>1 DEF RunnersInOrder
    <3>3. \A j \in Order : j < task[r].pos + 1 => j \in handled[task[r].x]
      BY <1>a, <3>1, <3>2 DEF RunnersInOrder
    <3> QED
      BY <3>1, <3>3 DEF RunnersInOrder
  <2>7. CASE Complete(r) \/ GiveUp(r) \/ AbortRun(r)
    BY <2>7 DEF RunsTypeOK, Complete, GiveUp, Conclude, AbortRun, Idle
  <2> QED
    BY <2>1, <2>2, <2>3, <2>4, <2>5, <2>6, <2>7 DEF RunStep
<1>3. \A q \in Runners \ {r} : InOrder(task'[q], handled')
  BY <1>0, <1>1 DEF RunnersInOrder
<1> QED
  BY <1>2, <1>3 DEF RunnersInOrder

LEMMA RunnerEmitsOnce ==
  ASSUME RunsInv, NEW r \in Runners, RunStep(r) \/ AbortRun(r)
  PROVE  EmitsOnce'
<1> USE DEF RunsInv, RunsTypeOK
<1>1. CASE Perform(r)
  <2>1. /\ task[r].x \in Executions /\ task[r].pos \in Order
        /\ task[r].pos \in Deduplicated => effects[task[r].x][task[r].pos] = 0
        /\ effects' = [effects EXCEPT ![task[r].x][task[r].pos] = @ + 1]
    BY <1>1 DEF Perform, Accepts, At, RunnersInOrder
  <2>2. Deduplicated \subseteq Order
    BY ActionsAssumption DEF ActionsAssumption, Order
  <2> QED
    BY <2>1, <2>2 DEF EmitsOnce
<1>2. CASE ~Perform(r)
  <2>1. effects' = effects
    BY <1>2 DEF RunStep, Load, SkipSettled, StartAction, Skip, ThrowAction, Record,
                RecordFailure, Complete, GiveUp, Conclude, AbortRun
  <2> QED
    BY <2>1 DEF EmitsOnce
<1> QED
  BY <1>1, <1>2

LEMMA RunsStep == RunsInv /\ [AutomationNext]_automationVars => RunsInv'
<1> SUFFICES ASSUME RunsInv, [AutomationNext]_automationVars PROVE RunsInv'
  OBVIOUS
<1>1. CASE OutboxStep \/ ListenerStep
  BY <1>1, IntakeKeepsRuns
<1>2. CASE QueueStep
  <2>1. UNCHANGED <<active, found>>
    BY <1>2 DEF QueueStep, intakeVars
  <2>2. ASSUME NEW r \in Runners, RunStep(r) \/ AbortRun(r) PROVE RunsInv'
    BY <2>1, <2>2, RunnerType, RunnerKeepsOrder, RunnerStaysInOrder, RunnerEmitsOnce DEF RunsInv
  <2> QED
    BY <1>2, <2>1, <2>2, QueueKeepsRuns DEF QueueStep
<1>3. CASE UNCHANGED automationVars
  BY <1>3 DEF automationVars, RunsInv, RunsTypeOK, SettledIsHandled, Settled, RunnersInOrder,
              ActionsInOrder, EmitsOnce
<1> QED
  BY <1>1, <1>2, <1>3 DEF AutomationNext

THEOREM RunsInvariant == AutomationSpec => []RunsInv
  BY RunsStart, RunsStep, PTL DEF AutomationSpec

\* Executions, their actions and the runners keep their types, and so does
\* the outbox under them.
THEOREM AutomationTypes == AutomationSpec => []AutomationTypeOK
<1>1. RunsInv /\ OutboxTypeOK => AutomationTypeOK
  BY DEF RunsInv, RunsTypeOK, AutomationTypeOK
<1> QED
  BY <1>1, RunsInvariant, AutomationImplementsOutbox, OutboxTypes, PTL

\* Actions are handled in the order of their rule, and an execution that is
\* reported as a success went through all of them, for any number of runners
\* that share it and wherever they die.
THEOREM OrderOfActions == AutomationSpec => []ActionsInOrder
  BY RunsInvariant, PTL DEF RunsInv

\* An event that an action emits is emitted once, for any number of attempts.
THEOREM EmittedOnce == AutomationSpec => []EmitsOnce
  BY RunsInvariant, PTL DEF RunsInv

----------------------------------------------------------------------------
(* What the engine is told to do, for any number of rules, edits, events and *)
(* deadlines.                                                                *)

EditRow == [rule : Automations \cup {NoRule}, draft : Drafts \cup {NoDraft},
            seen : SUBSET Actions, new : SUBSET Actions]
FoundRules == UNION {[S -> Drafts] : S \in SUBSET Automations}
FoundSteps == UNION {[S -> SUBSET Actions] : S \in SUBSET Automations}
HearRow == [at : {"idle", "context", "rules", "actions"}, signal : Signals \cup {NoSignal},
            context : Contexts, found : FoundRules, steps : FoundSteps]

RuleTypes ==
  /\ automation \in [Automations -> Drafts \cup {NoDraft}]
  /\ steps \in [Automations -> SUBSET Actions]
  /\ past \in [Automations -> SUBSET SUBSET Actions]
  /\ editor \in [Editors -> EditRow]
  /\ signal \in [Signals -> Signal]
  /\ hearing \in [Hearers -> HearRow]
  /\ runs \in [RuleRuns -> RunRow]
  /\ owns \in [{"deal", "contact"} -> People \cup {Nobody}]

EditsFit == \A e \in Editors : editor[e] # NoEdit => editor[e].rule \in Automations /\ editor[e].draft \in Drafts

\* A rule was made with a whole set of actions; before that it has no execution.
RulesWhole ==
  \A r \in Automations : /\ Written(r) => steps[r] \in past[r] \ {{}}
                         /\ ~Written(r) => \A s \in Signals : Run(r, s) = NoRun

\* What a listener read of a rule was written by one edit or another.
HearingFits ==
  \A w \in Hearers : \A r \in DOMAIN hearing[w].found :
    /\ r \in Automations /\ Written(r)
    /\ hearing[w].at = "actions" => hearing[w].steps[r] \in past[r] \ {{}}

WorkFits == worker # Resting => worker.x \in RuleRuns /\ runs[worker.x] # NoRun

\* The unique key of the outbox.
KeysOnce ==
  \A s, t \in Signals : s # t /\ signal[s].key # NoKey => signal[s].key # signal[t].key

EditionsInv ==
  /\ RuleTypes /\ EditsFit /\ RulesWhole /\ HearingFits /\ WorkFits /\ KeysOnce
  /\ RunsWholeEdition

LEMMA DraftsAreRules == NoDraft \notin Drafts
  BY AutomationRulesAssumption DEF AutomationRulesAssumption, NoDraft

LEMMA DeafIsRow == Deaf \in HearRow
<1>1. [r \in {} |-> NoDraft] \in FoundRules
  <2>1. [r \in {} |-> NoDraft] \in [{} -> Drafts]
    OBVIOUS
  <2>. QED BY <2>1 DEF FoundRules
<1>2. [r \in {} |-> {}] \in FoundSteps
  <2>1. [r \in {} |-> {}] \in [{} -> SUBSET Actions]
    OBVIOUS
  <2>. QED BY <2>1 DEF FoundSteps
<1>3. Empty \in Contexts
  BY DEF Empty, Contexts
<1>. QED BY <1>1, <1>2, <1>3 DEF Deaf, HearRow

LEMMA EditionsStart == RulesInit => EditionsInv
<1>. SUFFICES ASSUME RulesInit PROVE EditionsInv
  OBVIOUS
<1>1. RuleTypes
  <2>1. NoEdit \in EditRow
    BY DEF NoEdit, EditRow
  <2>2. Unheard \in Signal
    BY DEF Unheard, Signal
  <2>3. NoRun \in RunRow
    BY DEF NoRun, RunRow
  <2>. QED BY <2>1, <2>2, <2>3, DeafIsRow, AutomationRulesAssumption
         DEF RulesInit, RuleTypes, AutomationRulesAssumption
<1>2. EditsFit /\ WorkFits
  BY DEF RulesInit, EditsFit, WorkFits
<1>3. RulesWhole /\ RunsWholeEdition
  BY DEF RulesInit, RulesWhole, RunsWholeEdition, Written, Run, RuleRuns
<1>4. HearingFits
  BY DEF RulesInit, HearingFits, Deaf
<1>5. KeysOnce
  BY DEF RulesInit, KeysOnce, Unheard
<1>. QED BY <1>1, <1>2, <1>3, <1>4, <1>5 DEF EditionsInv

----------------------------------------------------------------------------
\* A rule gets a set of actions that has all those of its executions.
LEMMA CommitKeeps ==
  ASSUME EditionsInv, NEW r \in Automations, NEW d \in Drafts, NEW S \in SUBSET Actions,
         S # {}, \A s \in Signals : Run(r, s).actions \subseteq S,
         automation' = [automation EXCEPT ![r] = d], Commit(r, S),
         editor' \in [Editors -> EditRow], EditsFit',
         UNCHANGED <<signal, hearing, runs, worker, owns>>
  PROVE  EditionsInv'
<1>1. /\ steps' = [steps EXCEPT ![r] = S] /\ past' = [past EXCEPT ![r] = @ \cup {S}]
  BY DEF Commit
<1>2. RuleTypes'
  BY <1>1 DEF EditionsInv, RuleTypes
<1>3. \A q \in Automations : Written(q) => Written(q)'
  BY DraftsAreRules DEF Written, EditionsInv, RuleTypes
<1>4. Written(r)'
  BY DraftsAreRules DEF Written, EditionsInv, RuleTypes
<1>5. \A q \in Automations : past[q] \subseteq past'[q] /\ (q # r => steps'[q] = steps[q])
  BY <1>1 DEF EditionsInv, RuleTypes
<1>6. steps'[r] = S /\ S \in past'[r]
  BY <1>1 DEF EditionsInv, RuleTypes
<1>7. RulesWhole'
  <2>. SUFFICES ASSUME NEW q \in Automations
                PROVE  /\ Written(q)' => steps'[q] \in past'[q] \ {{}}
                       /\ ~Written(q)' => \A s \in Signals : Run(q, s)' = NoRun
    BY DEF RulesWhole
  <2>1. CASE q = r
    BY <2>1, <1>4, <1>6
  <2>2. CASE q # r
    <3>1. Written(q)' <=> Written(q)
      BY <2>2 DEF Written, EditionsInv, RuleTypes
    <3>. QED BY <2>2, <3>1, <1>5 DEF EditionsInv, RulesWhole, Run
  <2>. QED BY <2>1, <2>2
<1>8. HearingFits'
  BY <1>3, <1>5 DEF EditionsInv, HearingFits
<1>9. RunsWholeEdition'
  <2>. SUFFICES ASSUME NEW x \in RuleRuns, runs[x] # NoRun
                PROVE  runs[x].actions \in past'[x[1]] \ {{}} /\ runs[x].actions \subseteq steps'[x[1]]
    BY DEF RunsWholeEdition
  <2>1. x[1] \in Automations /\ x[2] \in Signals /\ x = <<x[1], x[2]>>
    BY DEF RuleRuns
  <2>2. runs[x].actions \in past[x[1]] \ {{}} /\ runs[x].actions \subseteq steps[x[1]]
    BY DEF EditionsInv, RunsWholeEdition
  <2>3. CASE x[1] = r
    BY <2>1, <2>2, <2>3, <1>5, <1>6 DEF Run
  <2>4. CASE x[1] # r
    BY <2>1, <2>2, <2>4, <1>5
  <2>. QED BY <2>3, <2>4
<1>. QED BY <1>2, <1>7, <1>8, <1>9 DEF EditionsInv, WorkFits, KeysOnce

LEMMA EditingKeeps ==
  ASSUME EditionsInv, EditingStep
  PROVE  EditionsInv'
<1>1. UNCHANGED <<signal, hearing, runs, worker, owns>>
  BY DEF EditingStep, hearVars, workVars, crmVars
<1>2. ASSUME NEW r \in Automations, CreateRule(r) PROVE EditionsInv'
  <2>1. PICK d \in Drafts, S \in Editions : automation' = [automation EXCEPT ![r] = d] /\ Commit(r, S)
    BY <1>2 DEF CreateRule
  <2>2. ~Written(r) /\ editor' = editor
    BY <1>2 DEF CreateRule
  <2>3. S \in SUBSET Actions /\ S # {}
    BY DEF Editions
  <2>4. \A s \in Signals : Run(r, s).actions \subseteq S
    BY <2>2 DEF EditionsInv, RulesWhole, NoRun
  <2>5. editor' \in [Editors -> EditRow] /\ EditsFit'
    BY <2>2 DEF EditionsInv, RuleTypes, EditsFit
  <2>. QED BY <1>1, <2>1, <2>3, <2>4, <2>5, CommitKeeps
<1>3. ASSUME NEW r \in Automations, UpdateRule(r) PROVE EditionsInv'
  <2>1. PICK d \in Drafts : automation' = [automation EXCEPT ![r] = d]
    BY <1>3 DEF UpdateRule
  <2>2. Written(r) /\ UNCHANGED <<steps, past, editor>>
    BY <1>3 DEF UpdateRule
  <2>3. RuleTypes' /\ EditsFit'
    BY <1>1, <2>1, <2>2 DEF EditionsInv, RuleTypes, EditsFit
  <2>4. \A q \in Automations : Written(q)' <=> Written(q)
    BY <2>1, <2>2, DraftsAreRules DEF EditionsInv, RuleTypes, Written
  <2>5. RulesWhole' /\ RunsWholeEdition'
    BY <1>1, <2>2, <2>4 DEF EditionsInv, RulesWhole, RunsWholeEdition, Run
  <2>6. HearingFits'
    BY <1>1, <2>2, <2>4 DEF EditionsInv, HearingFits
  <2>. QED BY <1>1, <2>3, <2>5, <2>6 DEF EditionsInv, WorkFits, KeysOnce
<1>4. ASSUME NEW e \in Editors, UNCHANGED <<automation, steps, past>>,
             editor' \in [Editors -> EditRow], EditsFit'
      PROVE  EditionsInv'
  BY <1>1, <1>4 DEF EditionsInv, RuleTypes, RulesWhole, HearingFits, RunsWholeEdition, Run, Written,
                    WorkFits, KeysOnce
<1>5. ASSUME NEW r \in Automations, NEW e \in Editors, SeeActions(e, r) PROVE EditionsInv'
  <2>1. PICK d \in Drafts, S \in Editions :
          editor' = [editor EXCEPT ![e] = [rule |-> r, draft |-> d, seen |-> steps[r], new |-> S]]
    BY <1>5 DEF SeeActions
  <2>2. UNCHANGED <<automation, steps, past>>
    BY <1>5 DEF SeeActions
  <2>. DEFINE row == [rule |-> r, draft |-> d, seen |-> steps[r], new |-> S]
  <2>3. row \in EditRow /\ row.rule \in Automations /\ row.draft \in Drafts
    BY DEF EditionsInv, RuleTypes, EditRow, Editions
  <2>4. editor' = [editor EXCEPT ![e] = row]
    BY <2>1
  <2>. HIDE DEF row
  <2>5. editor' \in [Editors -> EditRow] /\ EditsFit'
    BY <2>3, <2>4 DEF EditionsInv, RuleTypes, EditsFit
  <2>. QED BY <2>2, <2>5, <1>4
<1>6. ASSUME NEW e \in Editors, editor' = [editor EXCEPT ![e] = NoEdit]
      PROVE  editor' \in [Editors -> EditRow] /\ EditsFit'
  <2>1. NoEdit \in EditRow
    BY DEF NoEdit, EditRow
  <2>. QED BY <2>1, <1>6 DEF EditionsInv, RuleTypes, EditsFit
<1>7. ASSUME NEW e \in Editors, CommitEdit(e) PROVE EditionsInv'
  <2>. DEFINE r == editor[e].rule
              gone == editor[e].seen \cap steps[r]
              S == (steps[r] \ gone) \cup editor[e].new
  <2>1. /\ editor[e] # NoEdit /\ Deletable(gone) /\ S \in Editions
        /\ automation' = [automation EXCEPT ![r] = editor[e].draft]
        /\ Commit(r, S)
        /\ editor' = [editor EXCEPT ![e] = NoEdit]
    BY <1>7 DEF CommitEdit
  <2>2. r \in Automations /\ editor[e].draft \in Drafts
    BY <2>1 DEF EditionsInv, EditsFit
  <2>3. S \in SUBSET Actions /\ S # {}
    BY <2>1 DEF Editions
  <2>4. \A s \in Signals : Run(r, s).actions \subseteq S
    <3>. SUFFICES ASSUME NEW s \in Signals PROVE Run(r, s).actions \subseteq S
      OBVIOUS
    <3>1. <<r, s>> \in RuleRuns /\ <<r, s>>[1] = r
      BY <2>2 DEF RuleRuns
    <3>2. CASE Run(r, s) = NoRun
      BY <3>2 DEF NoRun
    <3>3. CASE Run(r, s) # NoRun
      <4>1. runs[<<r, s>>].actions \subseteq steps[r]
        BY <3>1, <3>3 DEF EditionsInv, RunsWholeEdition, Run
      <4>2. runs[<<r, s>>].actions \cap gone = {}
        BY <2>1, <3>1 DEF Deletable
      <4>. QED BY <4>1, <4>2 DEF Run
    <3>. QED BY <3>2, <3>3
  <2>5. editor' \in [Editors -> EditRow] /\ EditsFit'
    BY <1>6, <2>1
  <2>. HIDE DEF r, S
  <2>. QED BY <1>1, <2>1, <2>2, <2>3, <2>4, <2>5, CommitKeeps
<1>8. ASSUME NEW e \in Editors, AbortEdit(e) PROVE EditionsInv'
  BY <1>4, <1>6, <1>8 DEF AbortEdit
<1>. QED BY <1>2, <1>3, <1>5, <1>7, <1>8 DEF EditingStep

----------------------------------------------------------------------------
LEMMA ContextType ==
  ASSUME RuleTypes, NEW s PROVE ContextOf(s) \in Contexts
<1>. DEFINE deal == owns.deal
            contact == owns.contact
<1>1. deal \in People \cup {Nobody} /\ contact \in People \cup {Nobody}
  BY DEF RuleTypes
<1>2. CardContext \in Contexts /\ DueContext \in Contexts /\ Empty \in Contexts
  BY <1>1 DEF CardContext, DueContext, Empty, Contexts
<1>. QED BY <1>2 DEF ContextOf

\* Executions are inserted of what a listener read, if it is still there.
LEMMA InsertKeeps ==
  ASSUME EditionsInv, NEW w \in Hearers, hearing[w].at = "actions", InsertRuns(w),
         UNCHANGED <<automation, steps, past, worker>>
  PROVE  /\ runs' \in [RuleRuns -> RunRow] /\ RulesWhole' /\ RunsWholeEdition'
         /\ WorkFits'
<1>. DEFINE s == hearing[w].signal
            row(r) == [st |-> "queued", actions |-> hearing[w].steps[r], done |-> {}]
<1>1. /\ \A r \in Matched(w) : hearing[w].steps[r] \subseteq steps[r]
      /\ runs' = [x \in RuleRuns |-> IF x[2] = s /\ x[1] \in Matched(w) THEN row(x[1]) ELSE runs[x]]
  BY DEF InsertRuns
<1>2. \A r \in Matched(w) : r \in Automations /\ Written(r) /\ hearing[w].steps[r] \in past[r] \ {{}}
  BY DEF Matched, EditionsInv, HearingFits
<1>3. \A r \in Matched(w) : /\ row(r) \in RunRow /\ row(r).actions = hearing[w].steps[r]
                            /\ row(r) # NoRun
  BY <1>2 DEF EditionsInv, RuleTypes, RunRow, NoRun
<1>. HIDE DEF row
<1>4. runs' \in [RuleRuns -> RunRow]
  BY <1>1, <1>3 DEF EditionsInv, RuleTypes
<1>5. RulesWhole'
  <2>. SUFFICES ASSUME NEW r \in Automations, ~Written(r), NEW t \in Signals
                PROVE  runs'[<<r, t>>] = NoRun
    BY DEF EditionsInv, RulesWhole, Run, Written
  <2>1. r \notin Matched(w) /\ <<r, t>> \in RuleRuns
    BY <1>2 DEF RuleRuns
  <2>2. runs'[<<r, t>>] = runs[<<r, t>>]
    BY <2>1, <1>1
  <2>. QED BY <2>2 DEF EditionsInv, RulesWhole, Run
<1>6. RunsWholeEdition'
  <2>. SUFFICES ASSUME NEW x \in RuleRuns, runs'[x] # NoRun
                PROVE  runs'[x].actions \in past[x[1]] \ {{}} /\ runs'[x].actions \subseteq steps[x[1]]
    BY DEF RunsWholeEdition
  <2>1. CASE x[2] = s /\ x[1] \in Matched(w)
    BY <2>1, <1>1, <1>2, <1>3
  <2>2. CASE ~(x[2] = s /\ x[1] \in Matched(w))
    BY <2>2, <1>1 DEF EditionsInv, RunsWholeEdition
  <2>. QED BY <2>1, <2>2
<1>7. WorkFits'
  BY <1>1, <1>3 DEF EditionsInv, WorkFits
<1>. QED BY <1>4, <1>5, <1>6, <1>7

LEMMA HearingKeeps ==
  ASSUME EditionsInv, HearStep
  PROVE  EditionsInv'
<1>1. UNCHANGED <<automation, steps, past, editor, worker, owns>>
  BY DEF HearStep, ruleVars, crmVars
<1>2. PICK w \in Hearers :
        \/ (ReadActive(w) \/ ReadActions(w) \/ \E s \in Signals : ReadContext(w, s)) /\ UNCHANGED runs
        \/ ConcludeIntake(w) \/ ThrowIntake(w)
  BY DEF HearStep
<1>3. hearing[w] \in HearRow
  BY DEF EditionsInv, RuleTypes
\* The listener goes on, and nothing else happens.
<1>4. ASSUME UNCHANGED <<runs, signal>>, NEW row \in HearRow, hearing' = [hearing EXCEPT ![w] = row],
             \A r \in DOMAIN row.found :
               /\ r \in Automations /\ Written(r)
               /\ row.at = "actions" => row.steps[r] \in past[r] \ {{}}
      PROVE  EditionsInv'
  <2>1. RuleTypes'
    BY <1>1, <1>4 DEF EditionsInv, RuleTypes
  <2>2. HearingFits'
    BY <1>1, <1>4 DEF EditionsInv, RuleTypes, HearingFits, Written
  <2>. QED BY <1>1, <1>4, <2>1, <2>2
         DEF EditionsInv, EditsFit, RulesWhole, Written, Run, WorkFits, KeysOnce, RunsWholeEdition
<1>5. ASSUME NEW s \in Signals, ReadContext(w, s), UNCHANGED runs PROVE EditionsInv'
  <2>. DEFINE row == [Deaf EXCEPT !.at = "context", !.signal = s, !.context = ContextOf(s)]
  <2>2. ContextOf(s) \in Contexts
    BY ContextType DEF EditionsInv
  <2>3. row \in HearRow /\ row.found = Deaf.found
    BY <2>2, DeafIsRow DEF HearRow
  <2>4. DOMAIN row.found = {}
    <3>1. DOMAIN Deaf.found = {}
      BY DEF Deaf
    <3>. QED BY <2>3, <3>1
  <2>5. hearing' = [hearing EXCEPT ![w] = row] /\ signal' = signal
    BY <1>5 DEF ReadContext
  <2>. HIDE DEF row
  <2>. QED BY <1>4, <1>5, <2>3, <2>4, <2>5
<1>6. ASSUME ReadActive(w), UNCHANGED runs PROVE EditionsInv'
  <2>. DEFINE S == {r \in Automations : automation[r].active /\ automation[r].trigger = signal[hearing[w].signal].trigger}
              F == [r \in S |-> automation[r]]
              row == [hearing[w] EXCEPT !.at = "rules", !.found = F]
  <2>1. \A r \in S : Written(r)
    BY DEF Written, NoDraft
  <2>2. F \in FoundRules /\ DOMAIN F = S
    <3>1. \A r \in S : automation[r] \in Drafts
      BY <2>1 DEF Written, EditionsInv, RuleTypes
    <3>2. F \in [S -> Drafts] /\ S \in SUBSET Automations
      BY <3>1
    <3>. QED BY <3>2 DEF FoundRules
  <2>3. hearing' = [hearing EXCEPT ![w] = row] /\ signal' = signal
    BY <1>6 DEF ReadActive
  <2>. HIDE DEF F
  <2>4. row \in HearRow /\ row.found = F /\ row.at = "rules"
    BY <1>3, <2>2 DEF HearRow
  <2>. HIDE DEF row
  <2>. QED BY <1>4, <1>6, <2>1, <2>2, <2>3, <2>4
<1>7. ASSUME ReadActions(w), UNCHANGED runs PROVE EditionsInv'
  <2>. DEFINE S == DOMAIN hearing[w].found
              F == [r \in S |-> steps[r]]
              row == [hearing[w] EXCEPT !.at = "actions", !.steps = F]
  <2>1. \A r \in S : r \in Automations /\ Written(r)
    BY DEF EditionsInv, HearingFits
  <2>2. F \in FoundSteps
    <3>1. F \in [S -> SUBSET Actions] /\ S \in SUBSET Automations
      BY <2>1 DEF EditionsInv, RuleTypes
    <3>. QED BY <3>1 DEF FoundSteps
  <2>3. \A r \in S : F[r] \in past[r] \ {{}}
    BY <2>1 DEF EditionsInv, RulesWhole
  <2>4. hearing' = [hearing EXCEPT ![w] = row] /\ signal' = signal
    BY <1>7 DEF ReadActions
  <2>. HIDE DEF F
  <2>5. row \in HearRow /\ row.steps = F /\ row.found = hearing[w].found
    BY <1>3, <2>2 DEF HearRow
  <2>. HIDE DEF row
  <2>. QED BY <1>4, <1>7, <2>1, <2>3, <2>4, <2>5
\* It ends, whatever it inserted; keys stay as they are.
<1>8. ASSUME signal' \in [Signals -> Signal], \A s \in Signals : signal'[s].key = signal[s].key,
             Forget(w),
             \/ UNCHANGED runs
             \/ hearing[w].at = "actions" /\ InsertRuns(w)
      PROVE  EditionsInv'
  <2>1. runs' \in [RuleRuns -> RunRow] /\ RulesWhole' /\ RunsWholeEdition' /\ WorkFits'
    <3>1. CASE UNCHANGED runs
      BY <1>1, <3>1 DEF EditionsInv, RuleTypes, RulesWhole, RunsWholeEdition, WorkFits, Written, Run
    <3>2. CASE hearing[w].at = "actions" /\ InsertRuns(w)
      BY <1>1, <3>2, InsertKeeps
    <3>. QED BY <1>8, <3>1, <3>2
  <2>2. hearing' = [hearing EXCEPT ![w] = Deaf]
    BY <1>8 DEF Forget
  <2>3. RuleTypes'
    BY <1>1, <1>8, <2>1, <2>2, DeafIsRow DEF EditionsInv, RuleTypes
  <2>4. HearingFits'
    <3>1. DOMAIN Deaf.found = {}
      BY DEF Deaf
    <3>. QED BY <1>1, <2>2, <3>1 DEF EditionsInv, RuleTypes, HearingFits, Written
  <2>5. EditsFit' /\ KeysOnce'
    BY <1>1, <1>8 DEF EditionsInv, EditsFit, KeysOnce
  <2>. QED BY <2>1, <2>3, <2>4, <2>5 DEF EditionsInv
<1>9. ASSUME ConcludeIntake(w) PROVE EditionsInv'
  <2>. DEFINE t == hearing[w].signal
  <2>1. signal' = [signal EXCEPT ![t].st = "handled"]
    BY <1>9 DEF ConcludeIntake, Handled
  <2>. HIDE DEF t
  <2>2. signal' \in [Signals -> Signal] /\ \A s \in Signals : signal'[s].key = signal[s].key
    BY <2>1 DEF EditionsInv, RuleTypes, Signal
  <2>. QED BY <1>8, <1>9, <2>2 DEF ConcludeIntake
<1>10. ASSUME ThrowIntake(w) PROVE EditionsInv'
  <2>1. signal' \in [Signals -> Signal] /\ \A s \in Signals : signal'[s].key = signal[s].key
    BY <1>10 DEF ThrowIntake, EditionsInv, RuleTypes
  <2>. QED BY <1>8, <1>10, <2>1 DEF ThrowIntake
<1>. QED BY <1>2, <1>5, <1>6, <1>7, <1>9, <1>10

----------------------------------------------------------------------------
\* An event is new, and so is its key.
LEMMA PublishKeeps ==
  ASSUME RuleTypes, KeysOnce, NEW trigger \in {"card", "due"}, NEW about \in {"card", "due", "echo"},
         NEW key \in Keys \cup {NoKey}, key # NoKey => Announced(key) = {},
         Publish(trigger, about, key)
  PROVE  signal' \in [Signals -> Signal] /\ KeysOnce'
<1>. DEFINE row == [st |-> "pending", trigger |-> trigger, about |-> about, key |-> key]
<1>1. PICK s \in Unused : signal' = [signal EXCEPT ![s] = row]
  BY DEF Publish
<1>2. s \in Signals /\ row \in Signal /\ row.key = key
  BY DEF Unused, Signal
<1>. HIDE DEF row
<1>3. signal' \in [Signals -> Signal]
  BY <1>1, <1>2 DEF RuleTypes
<1>4. KeysOnce'
  <2>. SUFFICES ASSUME NEW u \in Signals, NEW t \in Signals, u # t, signal'[u].key # NoKey
                PROVE  signal'[u].key # signal'[t].key
    BY DEF KeysOnce
  <2>1. \A v \in Signals : signal'[v] = IF v = s THEN row ELSE signal[v]
    BY <1>1 DEF RuleTypes
  <2>2. key # NoKey => \A v \in Signals : signal[v].key # key
    BY DEF Announced
  <2>3. CASE u = s
    BY <1>2, <2>1, <2>2, <2>3
  <2>4. CASE t = s
    BY <1>2, <2>1, <2>2, <2>4
  <2>5. CASE u # s /\ t # s
    BY <2>1, <2>5 DEF KeysOnce
  <2>. QED BY <2>3, <2>4, <2>5
<1>. QED BY <1>3, <1>4

LEMMA DeadlinesKeep ==
  ASSUME EditionsInv, DeadlineStep
  PROVE  EditionsInv'
<1>1. UNCHANGED <<automation, steps, past, editor, hearing, runs, worker, owns>>
  BY DEF DeadlineStep, ruleVars, workVars, crmVars
<1>2. signal' \in [Signals -> Signal] /\ KeysOnce'
  <2>1. CASE UNCHANGED signal
    BY <2>1 DEF EditionsInv, RuleTypes, KeysOnce
  <2>2. ASSUME NEW h \in Scans, NEW key \in Keys, Announce(h, key)
        PROVE  signal' \in [Signals -> Signal] /\ KeysOnce'
    <3>1. CASE Announced(key) = {} /\ Publish("due", "due", key)
      BY <3>1, PublishKeeps DEF EditionsInv
    <3>. QED BY <2>1, <2>2, <3>1 DEF Announce
  <2>. QED BY <2>1, <2>2 DEF DeadlineStep, ReadDeadlines, FailScan
<1>. QED BY <1>1, <1>2 DEF EditionsInv, RuleTypes, EditsFit, RulesWhole, HearingFits, Written, Run, WorkFits,
                        RunsWholeEdition

\* An execution keeps its actions while it runs.
LEMMA WorkingKeeps ==
  ASSUME EditionsInv, WorkingStep
  PROVE  EditionsInv'
<1>1. UNCHANGED <<automation, steps, past, editor, hearing, owns>>
  BY DEF WorkingStep, ruleVars, crmVars
<1>2. ASSUME signal' \in [Signals -> Signal], KeysOnce', runs' \in [RuleRuns -> RunRow],
             \A x \in RuleRuns : /\ runs[x] = NoRun => runs'[x] = NoRun
                                 /\ runs'[x].actions = runs[x].actions,
             worker' # Resting => worker'.x \in RuleRuns /\ runs[worker'.x] # NoRun
      PROVE  EditionsInv'
  <2>1. \A x \in RuleRuns : runs[x] # NoRun => runs'[x] # NoRun
    BY <1>2 DEF EditionsInv, RunsWholeEdition, NoRun
  <2>2. RulesWhole'
    <3>1. \A r \in Automations, s \in Signals : <<r, s>> \in RuleRuns
      BY DEF RuleRuns
    <3>. QED BY <1>1, <1>2, <3>1 DEF EditionsInv, RulesWhole, Run, Written
  <2>3. RunsWholeEdition'
    BY <1>1, <1>2 DEF EditionsInv, RunsWholeEdition
  <2>4. WorkFits'
    BY <1>2, <2>1 DEF WorkFits
  <2>5. RuleTypes' /\ EditsFit' /\ HearingFits'
    BY <1>1, <1>2 DEF EditionsInv, RuleTypes, EditsFit, HearingFits, Written
  <2>. QED BY <1>2, <2>2, <2>3, <2>4, <2>5 DEF EditionsInv
<1>3. signal' = signal => signal' \in [Signals -> Signal] /\ KeysOnce'
  BY DEF EditionsInv, RuleTypes, KeysOnce
<1>4. ASSUME NEW x \in RuleRuns, LoadRun(x) PROVE EditionsInv'
  <2>1. worker'.x = x /\ runs[x] # NoRun /\ UNCHANGED <<signal, runs>>
    BY <1>4 DEF LoadRun, NoRun
  <2>. QED BY <1>2, <1>3, <2>1 DEF EditionsInv, RuleTypes
<1>5. ASSUME worker # Resting, NEW a \in Actions, Turn(a), worker' = worker, MarkDone(a),
             signal' \in [Signals -> Signal], KeysOnce'
      PROVE  EditionsInv'
  <2>. DEFINE y == worker.x
  <2>1. y \in RuleRuns /\ runs[y] # NoRun
    BY <1>5 DEF EditionsInv, WorkFits
  <2>2. runs' = [runs EXCEPT ![y].done = @ \cup {a}]
    BY <1>5 DEF MarkDone
  <2>. HIDE DEF y
  <2>3. runs' \in [RuleRuns -> RunRow]
    BY <2>1, <2>2 DEF EditionsInv, RuleTypes, RunRow
  <2>4. \A x \in RuleRuns : /\ runs[x] = NoRun => runs'[x] = NoRun
                            /\ runs'[x].actions = runs[x].actions
    BY <2>1, <2>2 DEF EditionsInv, RuleTypes, RunRow
  <2>. QED BY <1>2, <1>5, <2>1, <2>3, <2>4 DEF y
<1>6. ASSUME worker # Resting, NEW st \in {"failed", "succeeded"}, worker' = Resting,
             runs' = [runs EXCEPT ![worker.x].st = st], UNCHANGED signal
      PROVE  EditionsInv'
  <2>. DEFINE y == worker.x
  <2>1. y \in RuleRuns /\ runs[y] # NoRun
    BY <1>6 DEF EditionsInv, WorkFits
  <2>2. runs' = [runs EXCEPT ![y].st = st]
    BY <1>6
  <2>. HIDE DEF y
  <2>3. runs' \in [RuleRuns -> RunRow]
    BY <2>1, <2>2 DEF EditionsInv, RuleTypes, RunRow
  <2>4. \A x \in RuleRuns : /\ runs[x] = NoRun => runs'[x] = NoRun
                            /\ runs'[x].actions = runs[x].actions
    BY <2>1, <2>2 DEF EditionsInv, RuleTypes, RunRow
  <2>. QED BY <1>2, <1>3, <1>6, <2>3, <2>4
<1>7. ASSUME worker # Resting, NEW a \in Actions, Turn(a),
             \/ CreateFollowUpAction(a) \/ CreateNotificationAction(a)
             \/ CreateActivityAction(a) \/ EnqueueOutboxAction(a) \/ InternalWebhook(a)
      PROVE  EditionsInv'
  <2>1. ASSUME FailStep(a) PROVE EditionsInv'
    BY <1>6, <1>7, <2>1 DEF FailStep
  <2>2. ASSUME MarkDone(a), UNCHANGED <<signal, worker>> PROVE EditionsInv'
    BY <1>3, <1>5, <1>7, <2>2
  <2>3. CASE CreateFollowUpAction(a)
    BY <2>1, <2>2, <2>3 DEF CreateFollowUpAction, Put, SkipAction
  <2>4. CASE CreateNotificationAction(a)
    BY <2>1, <2>2, <2>4 DEF CreateNotificationAction
  <2>5. CASE CreateActivityAction(a) \/ InternalWebhook(a)
    BY <2>2, <2>5 DEF CreateActivityAction, InternalWebhook, Put, SkipAction
  <2>6. CASE EnqueueOutboxAction(a)
    <3>1. signal' \in [Signals -> Signal] /\ KeysOnce'
      BY <2>6, PublishKeeps DEF EnqueueOutboxAction, EditionsInv
    <3>. QED BY <1>5, <1>7, <2>6, <3>1 DEF EnqueueOutboxAction
  <2>. QED BY <1>7, <2>3, <2>4, <2>5, <2>6
<1>8. ASSUME FinishRun PROVE EditionsInv'
  BY <1>6, <1>8 DEF FinishRun
<1>. QED BY <1>4, <1>7, <1>8 DEF WorkingStep

LEMMA EditionsStep == EditionsInv /\ [RulesNext]_rulesVars => EditionsInv'
<1>. SUFFICES ASSUME EditionsInv, [RulesNext]_rulesVars PROVE EditionsInv'
  OBVIOUS
<1>1. ASSUME UNCHANGED <<automation, steps, past, editor, hearing, runs, worker>>,
             signal' \in [Signals -> Signal], KeysOnce',
             owns' \in [{"deal", "contact"} -> People \cup {Nobody}]
      PROVE  EditionsInv'
  BY <1>1 DEF EditionsInv, RuleTypes, EditsFit, RulesWhole, HearingFits, Written, Run, WorkFits,
              RunsWholeEdition
<1>2. signal' = signal => signal' \in [Signals -> Signal] /\ KeysOnce'
  BY DEF EditionsInv, RuleTypes, KeysOnce
<1>3. owns' = owns => owns' \in [{"deal", "contact"} -> People \cup {Nobody}]
  BY DEF EditionsInv, RuleTypes
<1>4. CASE PublishMove
  <2>1. signal' \in [Signals -> Signal] /\ KeysOnce'
    BY <1>4, PublishKeeps DEF PublishMove, EditionsInv
  <2>. QED BY <1>1, <1>3, <1>4, <2>1 DEF PublishMove, ruleVars, workVars, crmVars
<1>5. CASE CrmStep
  <2>1. owns' \in [{"deal", "contact"} -> People \cup {Nobody}]
    BY <1>5 DEF CrmStep, EditionsInv, RuleTypes
  <2>. QED BY <1>1, <1>2, <1>5, <2>1 DEF CrmStep, ruleVars, hearVars, workVars
<1>6. CASE LetterStep
  BY <1>1, <1>2, <1>3, <1>6 DEF LetterStep, ruleVars, hearVars, workVars, crmVars
<1>7. CASE NoticeStep
  BY <1>1, <1>2, <1>3, <1>7 DEF NoticeStep, ruleVars, hearVars, workVars, crmVars
<1>8. CASE UNCHANGED rulesVars
  BY <1>1, <1>2, <1>3, <1>8 DEF rulesVars
<1>. QED BY <1>4, <1>5, <1>6, <1>7, <1>8, EditingKeeps, HearingKeeps, DeadlinesKeep, WorkingKeeps DEF RulesNext

\* However edits of rules, scans of deadlines and deliveries of events overlap, an
\* execution has the actions that its rule had at one moment and still has, and a rule
\* runs once for a date of a deadline (updateRule, createExecutionsForEvent and
\* enqueueScheduledTriggers).
THEOREM ExecutionsStand == RulesSpec => []RunsStand
<1>1. EditionsInv => RunsStand
  BY DEF EditionsInv, RunsStand, KeysOnce, OncePerDeadline
<1>. QED BY <1>1, EditionsStart, EditionsStep, PTL DEF RulesSpec
=============================================================================
