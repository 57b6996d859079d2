-------------------------- MODULE RecurringExpenses --------------------------
(***************************************************************************)
(* Recurring expenses of the financial module.  A template says when its   *)
(* next occurrence is due; a request to generate what is due inserts an    *)
(* expense for that date and moves the template on, in one transaction per *)
(* template, with nothing locked between the read of the template and the  *)
(* commit.  The unique key of an occurrence refuses the second expense of  *)
(* a date, and a refused transaction ends the whole request.               *)
(*                                                                         *)
(* Dates are numbers; a frequency adds its period to a date (nextDate).    *)
(***************************************************************************)
EXTENDS Naturals, Sequences

CONSTANTS
  Templates,
  Generators,   \* requests to generate, each may be repeated
  Frequencies,
  Period,       \* how far apart the occurrences of a frequency are
  LastDay,      \* bound of the clock
  NoDate,
  NoTemplate

ASSUME RecurringAssumption ==
  /\ Frequencies # {}
  /\ Period \in [Frequencies -> Nat \ {0}]
  /\ LastDay \in Nat
  /\ NoDate \notin Nat
  /\ NoTemplate \notin Templates

VARIABLES
  today,
  template,  \* "RecurringExpense"
  charged,   \* "Expense": the dates charged for each template, as they came
  generator  \* generateDueRecurring: templates left, the one read and its row

recurringVars == <<today, template, charged, generator>>

Row == [exists : BOOLEAN, starts : Nat, next : Nat \cup {NoDate}, ends : Nat \cup {NoDate},
        frequency : Frequencies, active : BOOLEAN, finished : BOOLEAN]

BlankRow == [exists |-> FALSE, starts |-> 0, next |-> NoDate, ends |-> NoDate, active |-> FALSE,
             finished |-> FALSE, frequency |-> CHOOSE f \in Frequencies : TRUE]

IdleGenerator == [todo |-> {}, on |-> NoTemplate, row |-> BlankRow]

RecurringTypeOK ==
  /\ today \in 0 .. LastDay
  /\ template \in [Templates -> Row]
  /\ charged \in [Templates -> Seq(Nat)]
  /\ generator \in [Generators -> [todo : SUBSET Templates, on : Templates \cup {NoTemplate},
                                   row : Row]]
  /\ \A g \in Generators : generator[g].on # NoTemplate => generator[g].row.next # NoDate

----------------------------------------------------------------------------
(* Templates.                                                              *)

PassDay ==
  /\ today < LastDay
  /\ today' = today + 1
  /\ UNCHANGED <<template, charged, generator>>

Exists(t) == template[t].exists

CreateRecurring(t, starts, ends, f) ==
  /\ ~Exists(t)
  /\ ends # NoDate => ends > starts
  /\ template' = [template EXCEPT ![t] = [exists |-> TRUE, starts |-> starts, next |-> starts, ends |-> ends,
                                         frequency |-> f, active |-> TRUE, finished |-> FALSE]]
  /\ UNCHANGED <<today, charged, generator>>

\* What updateRecurring may be asked to do with the cycle.
Switches == {"keep", "pause", "finish", "on", "off"}

Finished(row) == [row EXCEPT !.active = FALSE, !.finished = TRUE, !.next = NoDate]

\* endsOn can be moved, never cleared; a cycle switched on again is not given
\* the date it lost when it was finished.
Switched(row, switch) ==
  CASE switch = "keep" -> row
    [] switch \in {"pause", "off"} -> [row EXCEPT !.active = FALSE]
    [] switch = "finish" -> Finished(row)
    [] switch = "on" -> [row EXCEPT !.active = TRUE, !.finished = FALSE]

Edited(row, f, ends) == [row EXCEPT !.frequency = f, !.ends = IF ends = NoDate THEN row.ends ELSE ends]

UpdateRecurring(t, f, ends, switch) ==
  /\ Exists(t)
  /\ ends # NoDate => ends > template[t].starts
  /\ template' = [template EXCEPT ![t] =
       Switched(Edited(@, f, ends), switch)]
  /\ UNCHANGED <<today, charged, generator>>

----------------------------------------------------------------------------
(* generateDueRecurring.                                                   *)

IsDue(t) == template[t].active /\ template[t].next # NoDate /\ template[t].next <= today

ListDue(g) ==
  /\ generator[g] = IdleGenerator
  /\ generator' = [generator EXCEPT ![g].todo = {t \in Templates : IsDue(t)}]
  /\ UNCHANGED <<today, template, charged>>

\* The transaction of a template reads it again; no longer due: passed over.
ReadTemplate(g, t) ==
  /\ generator[g].on = NoTemplate /\ t \in generator[g].todo
  /\ generator' = IF IsDue(t) THEN [generator EXCEPT ![g].on = t, ![g].row = template[t]]
                  ELSE [generator EXCEPT ![g].todo = @ \ {t}]
  /\ UNCHANGED <<today, template, charged>>

\* Mutant of KeyFree: an occurrence has no key.
KeyIgnored(t, d) == TRUE

\* The unique key (organizationId, recurringExpenseId, occurrenceKey).
KeyFree(t, d) == \A i \in DOMAIN charged[t] : charged[t][i] # d

\* What the update of the template writes: the next date after the one that
\* was read, by the frequency and the end that were read.
MovedOn(row, read) ==
  LET next == read.next + Period[read.frequency] IN
  IF read.ends # NoDate /\ next > read.ends
  THEN Finished(row)
  ELSE [row EXCEPT !.next = next]

ChargeOccurrence(g, t) ==
  LET read == generator[g].row IN
  /\ generator[g].on = t
  /\ KeyFree(t, read.next)
  /\ charged' = [charged EXCEPT ![t] = Append(@, read.next)]
  /\ template' = [template EXCEPT ![t] = MovedOn(@, read)]
  /\ generator' = [generator EXCEPT ![g] = [IdleGenerator EXCEPT !.todo = generator[g].todo \ {t}]]
  /\ UNCHANGED today

\* The insert is refused and, although the code catches the error, so is the
\* update after it; or another statement fails: the request ends there.
EndGeneration(g) ==
  /\ generator[g] # IdleGenerator
  /\ generator' = [generator EXCEPT ![g] = IdleGenerator]
  /\ UNCHANGED <<today, template, charged>>

----------------------------------------------------------------------------
RecurringInit ==
  /\ today = 0
  /\ template = [t \in Templates |-> BlankRow]
  /\ charged = [t \in Templates |-> <<>>]
  /\ generator = [g \in Generators |-> IdleGenerator]

RecurringNext ==
  \/ PassDay
  \/ \E t \in Templates, f \in Frequencies, ends \in 0 .. LastDay \cup {NoDate} :
       \/ \E starts \in 0 .. LastDay : CreateRecurring(t, starts, ends, f)
       \/ \E switch \in Switches : UpdateRecurring(t, f, ends, switch)
  \/ \E g \in Generators : \/ ListDue(g) \/ EndGeneration(g)
                           \/ \E t \in Templates : ReadTemplate(g, t) \/ ChargeOccurrence(g, t)

RecurringSpec == RecurringInit /\ [][RecurringNext]_recurringVars

----------------------------------------------------------------------------
(* Correctness.                                                            *)

\* The occurrences of a template are charged in order and once each, and its
\* schedule is always past what was charged, however its requests overlap.
\* So no template comes back to a date whose expense the key would refuse.
ScheduleAhead ==
  \A t \in Templates :
    /\ \A i, j \in DOMAIN charged[t] : i < j => charged[t][i] < charged[t][j]
    /\ template[t].next # NoDate =>
         \A i \in DOMAIN charged[t] : charged[t][i] < template[t].next

\* A finished template has no next date (docs/recurring-expenses.md: to
\* finish "fija el ciclo").  False of the code: a generation that read the
\* template before sets a date after.
FinishedIsSettled == \A t \in Templates : template[t].finished => template[t].next = NoDate

\* Nothing is charged after the end of a template.  False of the code: the end
\* is compared with the date after the one charged, and can be moved before it.
NothingPastEnd ==
  \A t \in Templates : template[t].ends # NoDate =>
    \A i \in DOMAIN charged[t] : charged[t][i] <= template[t].ends
============================================================================
