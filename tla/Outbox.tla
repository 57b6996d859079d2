------------------------------- MODULE Outbox -------------------------------
(***************************************************************************)
(* The transactional outbox.  A business transaction inserts its event in  *)
(* the table it commits with; every API process polls the table, claims a  *)
(* batch with FOR UPDATE SKIP LOCKED, calls the listeners one event at a   *)
(* time outside any transaction, and writes the outcome.  A claim has no   *)
(* owner and no token: after five minutes another process takes the row    *)
(* again, and the first one still writes its outcome when it finishes.     *)
(*                                                                         *)
(* Events are numbered by createdAt.  Clocks are reduced to one bit per    *)
(* row: whether availableAt, or processingAt plus five minutes, is past.   *)
(***************************************************************************)
EXTENDS Naturals, FiniteSets

CONSTANTS
  Events,      \* rows of "OutboxEvent", numbered in the order of createdAt
  Processes,   \* API processes, one OutboxProcessor each
  BatchLimit   \* LIMIT of the claim

ASSUME EventsAssumption ==
  /\ Events \subseteq Nat
  /\ BatchLimit \in Nat \ {0}

VARIABLES
  event,      \* the rows: status, and whether the row's time has come
  batch,      \* events a process claimed and has not finished with
  phase,      \* where the process is with the first of them
  delivered,  \* history: events whose listeners all returned at least once
  lapsed      \* history: events whose claim was open for five minutes

outboxVars == <<event, batch, phase, delivered, lapsed>>

EventStatus == {"NONE", "PENDING", "PROCESSING", "PROCESSED", "FAILED"}
Phase == {"publish", "ok", "error"}

OutboxTypeOK ==
  /\ event \in [Events -> [st : EventStatus, ready : BOOLEAN]]
  /\ batch \in [Processes -> SUBSET Events]
  /\ phase \in [Processes -> Phase]
  /\ delivered \subseteq Events
  /\ lapsed \subseteq Events
  /\ \A w \in Processes : batch[w] = {} => phase[w] = "publish"

----------------------------------------------------------------------------
Row(st, ready) == [st |-> st, ready |-> ready]

\* Mutant of Claimable: the claim forgets processes that died.
ClaimableUnclaimed ==
  {e \in Events : event[e].ready /\ event[e].st \in {"PENDING", "FAILED"}}

\* Mutant of Claimable: the claim does not wait for a claim to go stale.
ClaimableAtOnce ==
  {e \in Events : event[e].ready \/ event[e].st = "PROCESSING"}

\* Mutant of Claimable: an event that failed once is not tried again.
ClaimablePending ==
  {e \in Events : event[e].ready /\ event[e].st \in {"PENDING", "PROCESSING"}}

\* The WHERE of the claim: ready is availableAt <= now for the first two
\* statuses and processingAt < now - 5 min for the third.
Claimable ==
  {e \in Events : event[e].ready /\ event[e].st \in {"PENDING", "FAILED", "PROCESSING"}}

Oldest(S) == {e \in S : Cardinality({f \in S : f < e}) < BatchLimit}

\* The event process w is dispatching: rows come in the order of createdAt.
First(w, e) == e \in batch[w] /\ \A f \in batch[w] : e <= f

----------------------------------------------------------------------------
Enqueue(e) ==
  /\ event[e].st = "NONE"
  /\ event' = [event EXCEPT ![e] = Row("PENDING", TRUE)]
  /\ UNCHANGED <<batch, phase, delivered, lapsed>>

\* The clock: a retry delay, or the five minutes of a claim, are over.
Elapse(e) ==
  /\ event[e].st \in {"FAILED", "PROCESSING"}
  /\ ~event[e].ready
  /\ event' = [event EXCEPT ![e].ready = TRUE]
  /\ lapsed' = IF event[e].st = "PROCESSING" THEN lapsed \cup {e} ELSE lapsed
  /\ UNCHANGED <<batch, phase, delivered>>

\* One poll of process w: the running flag keeps it out while a batch is open.
Claim(w) ==
  /\ batch[w] = {}
  /\ Claimable # {}
  /\ batch' = [batch EXCEPT ![w] = Oldest(Claimable)]
  /\ phase' = [phase EXCEPT ![w] = "publish"]
  /\ event' = [e \in Events |-> IF e \in Oldest(Claimable) THEN Row("PROCESSING", FALSE)
                                                           ELSE event[e]]
  /\ UNCHANGED <<delivered, lapsed>>

\* publishAsync: the listeners run one after the other and the first that
\* throws ends the delivery.
Succeed(w, e) ==
  /\ First(w, e)
  /\ phase[w] = "publish"
  /\ phase' = [phase EXCEPT ![w] = "ok"]
  /\ delivered' = delivered \cup {e}
  /\ UNCHANGED <<event, batch, lapsed>>

Throw(w, e) ==
  /\ First(w, e)
  /\ phase[w] = "publish"
  /\ phase' = [phase EXCEPT ![w] = "error"]
  /\ UNCHANGED <<event, batch, delivered, lapsed>>

\* The write of a success is in the same try as the listeners.
LoseWrite(w) ==
  /\ phase[w] = "ok"
  /\ phase' = [phase EXCEPT ![w] = "error"]
  /\ UNCHANGED <<event, batch, delivered, lapsed>>

\* The outcome of e is written whatever the row says by then.
Finish(w, e, outcome) ==
  /\ First(w, e)
  /\ event' = [event EXCEPT ![e] = Row(outcome, FALSE)]
  /\ batch' = [batch EXCEPT ![w] = @ \ {e}]
  /\ phase' = [phase EXCEPT ![w] = "publish"]
  /\ UNCHANGED <<delivered, lapsed>>

MarkProcessed(w, e) == phase[w] = "ok" /\ Finish(w, e, "PROCESSED")

MarkFailed(w, e) == phase[w] = "error" /\ Finish(w, e, "FAILED")

\* The process dies and restarts, or the write of a failure throws and ends
\* the batch: the rest of it stays PROCESSING.
Abort(w) ==
  /\ batch[w] # {}
  /\ batch' = [batch EXCEPT ![w] = {}]
  /\ phase' = [phase EXCEPT ![w] = "publish"]
  /\ UNCHANGED <<event, delivered, lapsed>>

----------------------------------------------------------------------------
OutboxInit ==
  /\ event = [e \in Events |-> Row("NONE", FALSE)]
  /\ batch = [w \in Processes |-> {}]
  /\ phase = [w \in Processes |-> "publish"]
  /\ delivered = {}
  /\ lapsed = {}

OutboxNext ==
  \/ \E e \in Events : Enqueue(e) \/ Elapse(e)
  \/ \E w \in Processes :
       \/ Claim(w) \/ LoseWrite(w) \/ Abort(w)
       \/ \E e \in Events : Succeed(w, e) \/ Throw(w, e) \/ MarkProcessed(w, e) \/ MarkFailed(w, e)

OutboxSpec == OutboxInit /\ [][OutboxNext]_outboxVars

\* The five minutes of a claim pass while a process still works on its batch.
Overrun(e) == Elapse(e) /\ \E w \in Processes : e \in batch[w]

\* The timer of each process fires every second, an awaited call returns,
\* clocks advance, processes stop dying and outlasting their claims at some
\* point, and neither the listeners nor the write of their success fail for
\* ever.
OutboxFairness ==
  /\ \A w \in Processes : WF_outboxVars(Claim(w))
  /\ \A e \in Events : WF_outboxVars(Elapse(e))
  /\ \A w \in Processes, e \in Events :
       /\ WF_outboxVars(MarkFailed(w, e))
       /\ SF_outboxVars(Succeed(w, e))
       /\ SF_outboxVars(MarkProcessed(w, e))
  /\ <>[][\A w \in Processes : ~Abort(w)]_outboxVars
  /\ <>[][\A e \in Events : ~Overrun(e)]_outboxVars

FairOutboxSpec == OutboxSpec /\ OutboxFairness

----------------------------------------------------------------------------
(* Correctness.                                                            *)

Promise == INSTANCE EventDelivery WITH
  committed <- {e \in Events : event[e].st # "NONE"},
  closed    <- {e \in Events : event[e].st = "PROCESSED"}

\* The outbox keeps the promise of EventDelivery: only committed events are
\* delivered, each of them is, and none is put aside before it was.
KeepsPromise == Promise!DeliverySpec

\* The promise without its liveness: nothing is delivered that was not
\* committed, nothing is put aside that was not delivered.
KeepsSafety == Promise!DeliverySafety

\* Two processes work on the same event only if its claim had been open for
\* five minutes, and until then nobody else writes its row.
ExclusiveUntilStale ==
  \A e \in Events \ lapsed, w \in Processes :
    e \in batch[w] => /\ event[e].st = "PROCESSING"
                      /\ \A v \in Processes \ {w} : e \notin batch[v]

\* An event that was committed ends up processed, even if processes die in
\* the middle of a batch or slow ones overwrite its outcome.
EventuallyProcessed ==
  \A e \in Events : event[e].st # "NONE" ~> event[e].st = "PROCESSED"
============================================================================
