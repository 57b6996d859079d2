------------------------------ MODULE Pipeline ------------------------------
(***************************************************************************)
(* The stages of the sales pipeline of an organisation, and their          *)
(* administration.  Creating, reordering, archiving and restoring a stage  *)
(* are transactions that take one advisory lock, read the stages, and      *)
(* write what they worked out from the read.  Opportunities are moved      *)
(* among the stages without that lock.                                     *)
(***************************************************************************)
EXTENDS Naturals, FiniteSets

CONSTANTS
  Stages,
  Category, \* of each stage: never written after its creation
  Admins,   \* requests to change the stages
  NoAdmin

Categories == {"OPEN", "WON", "LOST"}

ASSUME PipelineAssumption ==
  /\ IsFiniteSet(Stages)
  /\ Category \in [Stages -> Categories]
  /\ NoAdmin \notin Admins

VARIABLES
  order,  \* "order" of each stage; 0: there is no such stage yet
  active, \* the stages in use
  change, \* per request: what it asked for, and the position of each stage it read
  stageLock \* the request that holds the advisory lock

stageVars == <<order, active, change, stageLock>>

Listed == [Stages -> 0 .. Cardinality(Stages)]
Unread == [s \in Stages |-> 0]
NoChange == [op |-> "none", stages |-> {}, at |-> 0, listed |-> Unread]

PipelineTypeOK ==
  /\ order \in [Stages -> Nat]
  /\ active \subseteq Stages
  /\ change \in [Admins -> [op : {"none", "create", "reorder", "archive", "restore"},
                            stages : SUBSET Stages, at : Nat, listed : Listed]]
  /\ stageLock \in Admins \cup {NoAdmin}

Existing == {s \in Stages : order[s] # 0}
ActiveOf(c) == {s \in active : Category[s] = c}

\* findMany ordered by order: the position of each stage in the list.
InOrder ==
  [s \in Stages |-> IF s \in Existing THEN Cardinality({t \in Existing : order[t] <= order[s]})
                                      ELSE 0]

CountOf(listed) == Cardinality({s \in Stages : listed[s] # 0})

\* The index on the order of an organisation refuses two stages with the same.
OrdersUnique(o) == \A s, t \in Stages : o[s] = o[t] /\ o[s] # 0 => s = t

----------------------------------------------------------------------------
(* The first half of a transaction: the lock, and what is read under it.   *)

\* Mutant of StageLockFree: the lock is not waited for.
StageLockIgnored == TRUE

\* pg_advisory_xact_lock waits for the holder to commit or roll back.
StageLockFree == stageLock = NoAdmin

Begin(a, op, s, n) ==
  /\ change[a] = NoChange
  /\ StageLockFree
  /\ stageLock' = a
  /\ change' = [change EXCEPT ![a] = [op |-> op, stages |-> {s}, at |-> n, listed |-> InOrder]]
  /\ UNCHANGED <<order, active>>

BeginCreateStage(a, s, n) ==
  /\ s \notin Existing
  /\ n \in 1 .. Cardinality(Existing) + 1
  /\ Begin(a, "create", s, n)

BeginReorderStage(a, s, n) ==
  /\ s \in Existing
  /\ n \in 1 .. Cardinality(Existing)
  /\ Begin(a, "reorder", s, n)

\* The stage is not the last one in use of its category.
MayRetire(s) == Cardinality(ActiveOf(Category[s])) > 1

\* inUse: the opportunities of the stage that are not archived.
BeginArchiveStage(a, s, inUse) ==
  /\ s \in active
  /\ inUse = {}
  /\ MayRetire(s)
  /\ Begin(a, "archive", s, 0)

BeginRestoreStage(a, s) ==
  /\ s \in Existing \ active
  /\ Begin(a, "restore", s, 0)

----------------------------------------------------------------------------
(* The second half: what is written, and the end of the transaction.       *)

EndChange(a) ==
  /\ change' = [change EXCEPT ![a] = NoChange]
  /\ stageLock' = NoAdmin

Raised(o, from, by) == [s \in Stages |-> IF o[s] >= from THEN o[s] + by ELSE o[s]]

Lowered(o, from, by) == [s \in Stages |-> IF o[s] >= from THEN o[s] - by ELSE o[s]]

\* The stages from the place on go past every order and come back one further.
CreateStage(a, s) ==
  LET n == change[a].at
      offset == CountOf(change[a].listed) + 1
  IN
  /\ change[a].op = "create"
  /\ s \in change[a].stages
  /\ order' = [Lowered(Raised(order, n, offset), n + offset, offset - 1) EXCEPT ![s] = n]
  /\ OrdersUnique(order')
  /\ active' = active \cup {s}
  /\ EndChange(a)

\* The stages past every order, and those that were listed each to its place.
Renumbered(listed, place) ==
  LET raised == Raised(order, 1, CountOf(listed) + 1)
  IN [s \in Stages |-> IF listed[s] # 0 THEN place[s] ELSE raised[s]]

\* The list with stage s taken out of it and put back in at place n.
Spliced(listed, s, n) ==
  [t \in Stages |->
    IF t = s THEN n
    ELSE IF listed[s] < listed[t] /\ listed[t] <= n THEN listed[t] - 1
    ELSE IF n <= listed[t] /\ listed[t] < listed[s] THEN listed[t] + 1
    ELSE listed[t]]

ReorderStage(a, s) ==
  LET listed == change[a].listed IN
  /\ change[a].op = "reorder"
  /\ s \in change[a].stages
  /\ order' = Renumbered(listed, Spliced(listed, s, change[a].at))
  /\ OrdersUnique(order')
  /\ UNCHANGED active
  /\ EndChange(a)

ArchiveStage(a, s) ==
  /\ change[a].op = "archive"
  /\ s \in change[a].stages
  /\ active' = active \ {s}
  /\ UNCHANGED order
  /\ EndChange(a)

RestoreStage(a, s) ==
  LET listed == change[a].listed IN
  /\ change[a].op = "restore"
  /\ s \in change[a].stages
  /\ order' = Renumbered(listed, listed)
  /\ OrdersUnique(order')
  /\ active' = active \cup {s}
  /\ EndChange(a)

\* A statement fails, or the process dies.
RollBackStages(a) ==
  /\ change[a] # NoChange
  /\ EndChange(a)
  /\ UNCHANGED <<order, active>>

----------------------------------------------------------------------------
Consecutive(o) == {o[s] : s \in {t \in Stages : o[t] # 0}} = 1 .. Cardinality({t \in Stages : o[t] # 0})

\* The seed gives an organisation stages of every category.
PipelineInit ==
  /\ order \in {o \in Listed : Consecutive(o)}
  /\ active = Existing
  /\ \A c \in Categories : ActiveOf(c) # {}
  /\ change = [a \in Admins |-> NoChange]
  /\ stageLock = NoAdmin

BeginChange(a, s, inUse) ==
  \/ \E n \in 1 .. Cardinality(Stages) : BeginCreateStage(a, s, n) \/ BeginReorderStage(a, s, n)
  \/ BeginArchiveStage(a, s, inUse)
  \/ BeginRestoreStage(a, s)

WriteChange(a, s) ==
  CreateStage(a, s) \/ ReorderStage(a, s) \/ ArchiveStage(a, s) \/ RestoreStage(a, s)

----------------------------------------------------------------------------
(* Correctness.                                                            *)

\* The organisation is never left without a stage in use of a category,
\* whatever stages are archived at once (docs/pipeline.md: "ni dejar al tenant
\* sin una etapa activa de una categoría"): without one OPEN no opportunity
\* could be created, without one WON no sale could close its own.
EveryCategoryHasStage == \A c \in Categories : ActiveOf(c) # {}

\* The orders of the stages are one to as many as there are, with no gap and
\* no repetition, through every creation, move and restoration and the
\* temporary range each of them passes through (docs/pipeline.md: "órdenes
\* positivos, únicos y consecutivos").
StageOrderConsecutive == Consecutive(order)
=============================================================================
