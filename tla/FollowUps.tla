----------------------------- MODULE FollowUps ------------------------------
(***************************************************************************)
(* The follow-ups of opportunities: what a seller is to do and by when.    *)
(* Each operation reads the follow-up outside its transaction and then     *)
(* changes it by an update conditional on it being pending and not         *)
(* archived.  A follow-up that is rescheduled stays as the record of what  *)
(* was due, and another replaces it, for the responsible user that was     *)
(* read.  The texts, the priority and the reminder are left out, and so is *)
(* the operation that writes nothing else (update).                        *)
(***************************************************************************)
EXTENDS Naturals, FiniteSets

CONSTANTS
  FollowUpIds,
  Opportunities,
  Assignees,  \* users that may be responsible
  Schedulers, \* requests to reschedule
  LastDue,    \* bound: follow-ups are due at 1 .. LastDue
  NoFollowUp,
  NoOpportunity,
  NoAssignee

ASSUME FollowUpsAssumption ==
  /\ LastDue \in Nat
  /\ IsFiniteSet(FollowUpIds) /\ NoFollowUp \notin FollowUpIds
  /\ NoOpportunity \notin Opportunities

VARIABLES
  followUp,   \* the rows of "FollowUp"; auto: autoSuggested; from: rescheduledFromId
  scheduler   \* per request: the follow-up it read, its user, and when it is to be due

followUpVars == <<followUp, scheduler>>

FollowUpStatus == {"none", "PENDING", "COMPLETED", "CANCELLED", "RESCHEDULED"}
DueTimes == 1 .. LastDue
NoDue == 0
NoRow == [status |-> "none", archived |-> FALSE, opportunity |-> NoOpportunity,
          user |-> NoAssignee, due |-> NoDue, auto |-> FALSE, from |-> NoFollowUp]
IdleScheduler == [followUp |-> NoFollowUp, user |-> NoAssignee, due |-> NoDue]

FollowUpsTypeOK ==
  /\ followUp \in [FollowUpIds ->
       [status : FollowUpStatus, archived : BOOLEAN, opportunity : Opportunities \cup {NoOpportunity},
        user : Assignees \cup {NoAssignee}, due : DueTimes \cup {NoDue}, auto : BOOLEAN,
        from : FollowUpIds \cup {NoFollowUp}]]
  /\ scheduler \in [Schedulers -> [followUp : FollowUpIds \cup {NoFollowUp},
                                   user : Assignees \cup {NoAssignee}, due : DueTimes \cup {NoDue}]]

Absent(f) == followUp[f].status = "none"
Replacements(f) == {g \in FollowUpIds : followUp[g].from = f}

\* Mutant of Pending: whether it still is is not asked in the update.
NotArchived(f) == followUp[f].status # "none" /\ ~followUp[f].archived

\* WHERE of every conditional update.
Pending(f) == followUp[f].status = "PENDING" /\ ~followUp[f].archived

\* FollowUp_active_duplicate_key: one pending follow-up per opportunity, user and time.
DueUnique(rows) ==
  LET Indexed(f) == rows[f].status = "PENDING" /\ ~rows[f].archived
  IN \A f, g \in FollowUpIds :
       /\ Indexed(f) /\ Indexed(g)
       /\ rows[f].opportunity = rows[g].opportunity
       /\ rows[f].user = rows[g].user /\ rows[f].due = rows[g].due
       => f = g

\* An insertion of a pending follow-up, within a longer transaction.
Inserted(o, u, d, auto, from) ==
  [status |-> "PENDING", archived |-> FALSE, opportunity |-> o, user |-> u, due |-> d, auto |-> auto,
   from |-> from]

----------------------------------------------------------------------------
\* available: the opportunity and its contact are there, and it is not archived.
CreateFollowUp(f, o, u, d, available) ==
  /\ Absent(f)
  /\ available
  /\ followUp' = [followUp EXCEPT ![f] = Inserted(o, u, d, FALSE, NoFollowUp)]
  /\ DueUnique(followUp')
  /\ UNCHANGED scheduler

\* Given to another user, in the transaction of a conditional update.
AssignFollowUp(f, u) ==
  /\ Pending(f)
  /\ u # followUp[f].user
  /\ followUp' = [followUp EXCEPT ![f].user = u]
  /\ DueUnique(followUp')
  /\ UNCHANGED scheduler

\* What is completed, or cancelled, is given as it is when asked for again.
CompleteFollowUp(f) ==
  /\ Pending(f)
  /\ followUp' = [followUp EXCEPT ![f].status = "COMPLETED"]
  /\ UNCHANGED scheduler

CancelFollowUp(f) ==
  /\ Pending(f)
  /\ followUp' = [followUp EXCEPT ![f].status = "CANCELLED"]
  /\ UNCHANGED scheduler

\* reschedule, outside the transaction: pending, and another time.
ReadFollowUp(r, f, d) ==
  /\ scheduler[r] = IdleScheduler
  /\ Pending(f)
  /\ d # followUp[f].due
  /\ scheduler' = [scheduler EXCEPT ![r] = [followUp |-> f, user |-> followUp[f].user, due |-> d]]
  /\ UNCHANGED followUp

\* reschedule, in the transaction: the original marked, its replacement inserted.
RescheduleFollowUp(r, f, g) ==
  LET o == followUp[f].opportunity
      u == scheduler[r].user
      d == scheduler[r].due
  IN
  /\ scheduler[r].followUp = f
  /\ Pending(f)
  /\ Absent(g)
  /\ followUp' = [followUp EXCEPT ![f].status = "RESCHEDULED", ![g] = Inserted(o, u, d, FALSE, f)]
  /\ DueUnique(followUp')
  /\ scheduler' = [scheduler EXCEPT ![r] = IdleScheduler]

\* Not pending any more, a duplicate, a failure or a crash.
RefuseReschedule(r) ==
  /\ scheduler[r] # IdleScheduler
  /\ scheduler' = [scheduler EXCEPT ![r] = IdleScheduler]
  /\ UNCHANGED followUp

ArchiveFollowUp(f) ==
  /\ NotArchived(f)
  /\ followUp' = [followUp EXCEPT ![f].archived = TRUE]
  /\ UNCHANGED scheduler

\* A pending one comes back only where no other is due at the same time.
RestoreFollowUp(f) ==
  /\ followUp[f].archived
  /\ followUp' = [followUp EXCEPT ![f].archived = FALSE]
  /\ DueUnique(followUp')
  /\ UNCHANGED scheduler

----------------------------------------------------------------------------
(* What the service of opportunities does to them.                         *)

\* The first that is pending or rescheduled: those a person set come first,
\* then the one due first; NoFollowUp when there is none.
Operational(o) ==
  LET candidates == {f \in FollowUpIds : /\ followUp[f].opportunity = o
                                         /\ followUp[f].status \in {"PENDING", "RESCHEDULED"}
                                         /\ ~followUp[f].archived}
      Before(f, g) == \/ ~followUp[f].auto /\ followUp[g].auto
                      \/ followUp[f].auto = followUp[g].auto /\ followUp[f].due < followUp[g].due
  IN IF candidates = {} THEN {NoFollowUp}
     ELSE {f \in candidates : \A g \in candidates : ~Before(g, f)}

\* syncOperationalFollowUp found e and its opportunity is not followed up any more.
CancelledByStage(e) ==
  IF e = NoFollowUp THEN followUp
  ELSE [followUp EXCEPT ![e].status = "CANCELLED", ![e].auto = TRUE]

\* It is to be followed up at d, and e was found.
Redated(e, d, auto) ==
  IF followUp[e].due = d /\ followUp[e].auto = auto THEN followUp
  ELSE [followUp EXCEPT ![e].status = "PENDING", ![e].due = d, ![e].auto = auto]

\* A sale closes the opportunity: its pending follow-ups, archived ones too.
CancelledBySale(o) ==
  [f \in FollowUpIds |->
    IF followUp[f].opportunity = o /\ followUp[f].status = "PENDING"
    THEN [followUp[f] EXCEPT !.status = "CANCELLED"] ELSE followUp[f]]

----------------------------------------------------------------------------
FollowUpsInit ==
  /\ followUp = [f \in FollowUpIds |-> NoRow]
  /\ scheduler = [r \in Schedulers |-> IdleScheduler]

FollowUpsNext(available) ==
  \/ \E f \in FollowUpIds :
       \/ \E o \in Opportunities, u \in Assignees, d \in DueTimes :
            CreateFollowUp(f, o, u, d, available[o])
       \/ \E u \in Assignees : AssignFollowUp(f, u)
       \/ CompleteFollowUp(f) \/ CancelFollowUp(f) \/ ArchiveFollowUp(f) \/ RestoreFollowUp(f)
  \/ \E r \in Schedulers :
       \/ \E f \in FollowUpIds, d \in DueTimes : ReadFollowUp(r, f, d)
       \/ \E f, g \in FollowUpIds : RescheduleFollowUp(r, f, g)
       \/ RefuseReschedule(r)

----------------------------------------------------------------------------
(* Correctness.                                                            *)

\* A follow-up gets a replacement exactly when it goes from pending to
\* rescheduled, and one only, whatever requests to reschedule, complete or
\* cancel it race (docs/follow-ups.md: "Si dos solicitudes compiten, solo una
\* puede actualizar el original y crear reemplazo").
RescheduledOnce ==
  [][\A f \in FollowUpIds :
       LET now == followUp[f].status = "PENDING" /\ followUp'[f].status = "RESCHEDULED"
       IN Cardinality(Replacements(f)') = Cardinality(Replacements(f)) + (IF now THEN 1 ELSE 0)
    ]_followUpVars

\* Contradicted: a rescheduled follow-up is the record of what was replaced and
\* stays so (docs/follow-ups.md: "`RESCHEDULED` el registro original reemplazado").
ReplacedStaysReplaced ==
  [][\A f \in FollowUpIds :
       followUp[f].status = "RESCHEDULED" => followUp'[f].status = "RESCHEDULED"]_followUpVars
=============================================================================
