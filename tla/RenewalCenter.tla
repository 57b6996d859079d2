---------------------------- MODULE RenewalCenter ----------------------------
(***************************************************************************)
(* The renewal center: the reminders of the renewals that fall due, the    *)
(* state of the work on each renewal, and the import of past renewals.     *)
(* Every instance of the API generates the reminders once a minute, and so *)
(* does a person who asks: the renewals are read first and the reminders   *)
(* written later, in one transaction.                                      *)
(*                                                                         *)
(* One subscription stands for all.  A renewal is named by its cycle, the  *)
(* key of a unique index that no removal frees.                            *)
(***************************************************************************)
EXTENDS Integers, Sequences

CONSTANTS
  Cycles,     \* cycles of the subscription
  Kinds,      \* "RenewalReminderKind"
  Offset,     \* kind: the days from the due date to the reminder
  Back,       \* days a renewal stays in the window after it was due
  Ahead,      \* days before it is due that it enters the window
  LastDay,    \* bound: the last day
  Generators, \* instances and people that generate reminders
  Imports     \* imports of a file

ASSUME RenewalCenterAssumption ==
  /\ Offset \in [Kinds -> Int]
  /\ Back \in Nat /\ Ahead \in Nat /\ LastDay \in Nat

VARIABLES
  renewal,    \* "Renewal"
  reminder,   \* "RenewalReminder", by renewal and kind
  notified,   \* keys of the "Notification" rows of reminders
  generating, \* generator: what it read
  importing,  \* import: where it is
  day

centerVars == <<renewal, reminder, notified, generating, importing, day>>

Days == 0..LastDay
Files == {<<c, d>> : c, d \in Cycles}
WorkflowStatus == {"PENDING", "RENEWED", "CANCELLED", "LOST"}
OpenStatus == {"PENDING", "DUE", "OVERDUE"}

NoRenewal == [status |-> "none", work |-> "PENDING", due |-> 0, owned |-> FALSE]
NoReminder == [status |-> "none", on |-> 0]
Idle == [found |-> {}, due |-> [c \in Cycles |-> 0], owned |-> {},
         at |-> 0, busy |-> FALSE]
NoImport == [phase |-> "none", rows |-> <<>>, made |-> {}]

CenterTypeOK ==
  /\ renewal \in [Cycles -> [status : {"none", "PAID", "CANCELLED"} \cup OpenStatus,
                             work : WorkflowStatus, due : Days, owned : BOOLEAN]]
  /\ reminder \in [Cycles -> [Kinds -> [status : {"none", "PENDING", "DELIVERED"}, on : Days]]]
  /\ notified \in SUBSET (Cycles \X Kinds)
  /\ generating \in [Generators -> [found : SUBSET Cycles, due : [Cycles -> Days],
                                    owned : SUBSET Cycles, at : Days, busy : BOOLEAN]]
  /\ \A i \in Imports : /\ importing[i].phase \in {"none", "row", "insert", "done", "failed"}
                        /\ importing[i].made \subseteq Cycles
  /\ day \in Days

Exists(c) == renewal[c].status # "none"

----------------------------------------------------------------------------
(* The renewals, written elsewhere: by a sale, by the payment of the       *)
(* renewal before, by a request to renew or to cancel.                     *)

\* A row that another transaction inserted and has not committed yet.
Held(c) == \E i \in Imports : c \in importing[i].made

CreateRenewal(c, due, owned) ==
  /\ ~Exists(c) /\ ~Held(c)
  /\ renewal' = [renewal EXCEPT ![c] = [status |-> "PENDING", work |-> "PENDING",
                                        due |-> due, owned |-> owned]]
  /\ UNCHANGED <<reminder, notified, generating, importing, day>>

MoveDue(c, due) ==
  /\ renewal[c].status = "PENDING"
  /\ renewal' = [renewal EXCEPT ![c].due = due]
  /\ UNCHANGED <<reminder, notified, generating, importing, day>>

MarkDue(c) ==
  /\ renewal[c].status \in {"PENDING", "OVERDUE"} /\ renewal[c].due <= day
  /\ renewal' = [renewal EXCEPT ![c].status = "DUE"]
  /\ UNCHANGED <<reminder, notified, generating, importing, day>>

PayRenewal(c) ==
  /\ renewal[c].status \in OpenStatus
  /\ renewal' = [renewal EXCEPT ![c].status = "PAID", ![c].work = "RENEWED"]
  /\ UNCHANGED <<reminder, notified, generating, importing, day>>

CancelRenewal(c) ==
  /\ renewal[c].status \in OpenStatus
  /\ renewal' = [renewal EXCEPT ![c].status = "CANCELLED"]
  /\ UNCHANGED <<reminder, notified, generating, importing, day>>

\* updateWorkflow sets any state of the work, whatever the status.
UpdateWorkflow(c, work) ==
  /\ Exists(c)
  /\ renewal' = [renewal EXCEPT ![c].work = work]
  /\ UNCHANGED <<reminder, notified, generating, importing, day>>

----------------------------------------------------------------------------
(* generateReminders.                                                      *)

InWindow(c) == day - Back <= renewal[c].due /\ renewal[c].due < day + Ahead

ToRemind(c) ==
  /\ renewal[c].status \in OpenStatus
  /\ renewal[c].work \notin {"RENEWED", "CANCELLED"}
  /\ InWindow(c)

ReadRenewals(g) ==
  /\ ~generating[g].busy
  /\ generating' = [generating EXCEPT ![g] =
       [found |-> {c \in Cycles : ToRemind(c)}, due |-> [c \in Cycles |-> renewal[c].due],
        owned |-> {c \in Cycles : renewal[c].owned}, at |-> day, busy |-> TRUE]]
  /\ UNCHANGED <<renewal, reminder, notified, importing, day>>

\* Mutant of Delivers: a reminder already delivered is delivered again.
DeliversAgain(g, c, k) ==
  /\ c \in generating[g].found \cap generating[g].owned
  /\ generating[g].due[c] + Offset[k] <= generating[g].at

Delivers(g, c, k) ==
  /\ c \in generating[g].found \cap generating[g].owned
  /\ generating[g].due[c] + Offset[k] <= generating[g].at
  /\ reminder[c][k].status # "DELIVERED"

\* The upsert of the reminder, of its notification and the update that marks it.
Reminded(g, c, k) ==
  IF Delivers(g, c, k) THEN [status |-> "DELIVERED", on |-> generating[g].at]
  ELSE IF c \in generating[g].found /\ reminder[c][k].status = "none"
       THEN [status |-> "PENDING", on |-> 0]
       ELSE reminder[c][k]

WriteReminders(g) ==
  /\ generating[g].busy
  /\ reminder' = [c \in Cycles |-> [k \in Kinds |-> Reminded(g, c, k)]]
  /\ notified' = notified \cup {x \in Cycles \X Kinds : Delivers(g, x[1], x[2])}
  /\ generating' = [generating EXCEPT ![g] = Idle]
  /\ UNCHANGED <<renewal, importing, day>>

\* A statement fails or the process stops.
AbortGeneration(g) ==
  /\ generating[g].busy
  /\ generating' = [generating EXCEPT ![g] = Idle]
  /\ UNCHANGED <<renewal, reminder, notified, importing, day>>

NextDay ==
  /\ day < LastDay
  /\ day' = day + 1
  /\ UNCHANGED <<renewal, reminder, notified, generating, importing>>

----------------------------------------------------------------------------
(* importCsv: one transaction writes the valid rows of a file; a row is    *)
(* looked up by its cycle and inserted if it is not found.                 *)

BeginImport(i, rows) ==
  /\ importing[i] = NoImport
  /\ importing' = [importing EXCEPT ![i] = [phase |-> "row", rows |-> rows, made |-> {}]]
  /\ UNCHANGED <<renewal, reminder, notified, generating, day>>

RowOf(i) == Head(importing[i].rows)

FindCycle(i) ==
  /\ importing[i].phase = "row" /\ importing[i].rows # <<>>
  /\ importing' = IF Exists(RowOf(i)) \/ RowOf(i) \in importing[i].made
                  THEN [importing EXCEPT ![i].rows = Tail(@)]
                  ELSE [importing EXCEPT ![i].phase = "insert"]
  /\ UNCHANGED <<renewal, reminder, notified, generating, day>>

\* An insertion waits for the transaction that inserted the same key.
InsertRow(i) ==
  /\ importing[i].phase = "insert"
  /\ ~Held(RowOf(i)) /\ ~Exists(RowOf(i))
  /\ importing' = [importing EXCEPT ![i] = [phase |-> "row", rows |-> Tail(@.rows),
                                            made |-> @.made \cup {RowOf(i)}]]
  /\ UNCHANGED <<renewal, reminder, notified, generating, day>>

\* The unique index refuses the row and the transaction fails.
FailImport(i) ==
  /\ importing[i].phase = "insert"
  /\ Exists(RowOf(i))
  /\ importing' = [importing EXCEPT ![i] = [phase |-> "failed", rows |-> <<>>, made |-> {}]]
  /\ UNCHANGED <<renewal, reminder, notified, generating, day>>

\* Two imports of the same rows in another order wait for each other: the
\* database ends one of them.
BreakDeadlock(i) ==
  /\ importing[i].phase = "insert"
  /\ \E j \in Imports \ {i} :
       /\ RowOf(i) \in importing[j].made
       /\ importing[j].phase = "insert" /\ RowOf(j) \in importing[i].made
  /\ importing' = [importing EXCEPT ![i] = [phase |-> "failed", rows |-> <<>>, made |-> {}]]
  /\ UNCHANGED <<renewal, reminder, notified, generating, day>>

\* The state named in the row gives the status.
ImportedAs(work, due) ==
  [work |-> work, due |-> due, owned |-> TRUE,
   status |-> CASE work = "CANCELLED" -> "CANCELLED"
                [] work = "RENEWED" -> "PAID"
                [] OTHER -> IF due <= day THEN "OVERDUE" ELSE "PENDING"]

CommitImport(i, work, due) ==
  /\ importing[i].phase = "row" /\ importing[i].rows = <<>>
  /\ renewal' = [c \in Cycles |-> IF c \in importing[i].made THEN ImportedAs(work, due) ELSE renewal[c]]
  /\ importing' = [importing EXCEPT ![i] = [phase |-> "done", rows |-> <<>>, made |-> {}]]
  /\ UNCHANGED <<reminder, notified, generating, day>>

----------------------------------------------------------------------------
CenterInit ==
  /\ renewal = [c \in Cycles |-> NoRenewal]
  /\ reminder = [c \in Cycles |-> [k \in Kinds |-> NoReminder]]
  /\ notified = {}
  /\ generating = [g \in Generators |-> Idle]
  /\ importing = [i \in Imports |-> NoImport]
  /\ day = 0

RenewalsStep ==
  \/ \E c \in Cycles :
       \/ \E due \in Days : CreateRenewal(c, due, TRUE) \/ CreateRenewal(c, due, FALSE) \/ MoveDue(c, due)
       \/ MarkDue(c) \/ PayRenewal(c) \/ CancelRenewal(c)
       \/ \E work \in WorkflowStatus : UpdateWorkflow(c, work)
  \/ NextDay

GenerationStep == \E g \in Generators : ReadRenewals(g) \/ WriteReminders(g) \/ AbortGeneration(g)

ImportStep ==
  \E i \in Imports :
    \/ \E rows \in Files : BeginImport(i, rows)
    \/ FindCycle(i) \/ InsertRow(i) \/ FailImport(i) \/ BreakDeadlock(i)
    \/ \E work \in WorkflowStatus, due \in Days : CommitImport(i, work, due)

CenterNext == RenewalsStep \/ GenerationStep \/ ImportStep

CenterSpec == CenterInit /\ [][CenterNext]_centerVars

----------------------------------------------------------------------------
(* Correctness.                                                            *)

\* A reminder is delivered once, and with a notification, however many instances and
\* people generate reminders from the same renewals, and although its renewal may
\* fall due on another day afterwards ("recordatorios internos idempotentes").
DeliveredOnce ==
  [][\A c \in Cycles, k \in Kinds :
       /\ reminder[c][k].status = "DELIVERED" => reminder'[c][k] = reminder[c][k]
       /\ reminder'[c][k].status = "DELIVERED" <=> <<c, k>> \in notified']_centerVars

\* Divergence: nobody is reminded of a renewal already paid or cancelled.
RemindedOfOpen ==
  [][\A c \in Cycles, k \in Kinds :
       reminder[c][k].status # "DELIVERED" /\ reminder'[c][k].status = "DELIVERED"
         => renewal[c].status \in OpenStatus]_centerVars

\* Divergence: a cycle that exists is left out of an import and fails none
\* (docs/renewal-import.md).
RepeatedCycleIsSkipped == \A i \in Imports : importing[i].phase # "failed"
=============================================================================
