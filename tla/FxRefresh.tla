------------------------------ MODULE FxRefresh ------------------------------
(***************************************************************************)
(* Exchange rates of the organisations.  Every Monday each instance of the *)
(* API tries to take a lock kept in a table and, with it, asks the         *)
(* provider for rates once per organisation and writes what it got, or the *)
(* emergency baseline when the provider does not answer.  The lock is read *)
(* and then written, lapses after ten minutes, and is released by deleting *)
(* its row, whoever wrote it.  A user can refresh an organisation or enter *)
(* a rate by hand; an instance that starts fills organisations that have   *)
(* no rates.  One currency stands for all.                                 *)
(***************************************************************************)
EXTENDS Naturals

CONSTANTS
  Instances,
  Orgs,
  LastWeek,  \* bound of the clock
  NoOrg

ASSUME FxAssumption == LastWeek \in Nat /\ NoOrg \notin Orgs

VARIABLES
  week,
  lock,      \* "FxSchedulerLock": "free", "held", or "lapsed" (expiresAt passed)
  due,       \* instances whose timer has fired this week
  fx,        \* where an instance is in weeklyRefresh or in its start
  rate,      \* "ExchangeRate": where the rate of an organisation came from
  refreshed, \* history: organisations the weekly refresh wrote this week
  troubled   \* history: an instance died or a statement failed this week

fxVars == <<week, lock, due, fx, rate, refreshed, troubled>>

Sources == {"none", "live", "baseline", "manual"}
FxPhase == {"idle", "acquire", "refresh", "seed", "down"}
IdleFx == [phase |-> "idle", todo |-> {}, org |-> NoOrg, answer |-> "none"]

FxTypeOK ==
  /\ week \in 0 .. LastWeek
  /\ lock \in {"free", "held", "lapsed"}
  /\ due \subseteq Instances
  /\ fx \in [Instances -> [phase : FxPhase, todo : SUBSET Orgs, org : Orgs \cup {NoOrg},
                           answer : {"none", "live", "baseline"}]]
  /\ rate \in [Orgs -> Sources]
  /\ refreshed \subseteq Orgs
  /\ troubled \in BOOLEAN

----------------------------------------------------------------------------
(* The weekly run and its lock.                                            *)

\* Monday 03:00: by then no run of the week before is left.
Monday ==
  /\ week < LastWeek
  /\ due = {}
  /\ \A i \in Instances : fx[i].phase \in {"idle", "down"}
  /\ week' = week + 1
  /\ due' = {i \in Instances : fx[i].phase = "idle"}
  /\ lock' = IF lock = "held" THEN "lapsed" ELSE lock
  /\ refreshed' = {}
  /\ troubled' = (due' = {})
  /\ UNCHANGED <<fx, rate>>

\* Ten minutes pass.
LapseLock ==
  /\ lock = "held"
  /\ lock' = "lapsed"
  /\ UNCHANGED <<week, due, fx, rate, refreshed, troubled>>

\* Mutant of Takeable: a lock that lapsed is not taken over.
TakeableFree == lock = "free"

Takeable == lock # "held"

ReadLock(i) ==
  /\ i \in due /\ fx[i] = IdleFx
  /\ due' = due \ {i}
  /\ fx' = IF Takeable THEN [fx EXCEPT ![i].phase = "acquire"] ELSE fx
  /\ UNCHANGED <<week, lock, rate, refreshed, troubled>>

WriteLock(i) ==
  /\ fx[i].phase = "acquire"
  /\ lock' = "held"
  /\ fx' = [fx EXCEPT ![i].phase = "refresh", ![i].todo = Orgs]
  /\ UNCHANGED <<week, due, rate, refreshed, troubled>>

\* The finally of weeklyRefresh.
ReleaseLock(i) ==
  /\ fx[i].phase = "refresh" /\ fx[i].todo = {}
  /\ lock' = "free"
  /\ fx' = [fx EXCEPT ![i] = IdleFx]
  /\ UNCHANGED <<week, due, rate, refreshed, troubled>>

----------------------------------------------------------------------------
(* Rates.                                                                  *)

\* refreshRates asks the provider, for each organisation anew.
FetchRates(i, o, answer) ==
  /\ fx[i].phase = "refresh" /\ fx[i].org = NoOrg
  /\ o \in fx[i].todo
  /\ fx' = [fx EXCEPT ![i].org = o, ![i].answer = answer]
  /\ UNCHANGED <<week, lock, due, rate, refreshed, troubled>>

WriteRates(i) ==
  /\ fx[i].org # NoOrg
  /\ rate' = [rate EXCEPT ![fx[i].org] = fx[i].answer]
  /\ refreshed' = IF fx[i].phase = "refresh" THEN refreshed \cup {fx[i].org} ELSE refreshed
  /\ fx' = [fx EXCEPT ![i].todo = @ \ {fx[i].org}, ![i].org = NoOrg, ![i].answer = "none"]
  /\ UNCHANGED <<week, lock, due, troubled>>

\* An organisation whose refresh throws is passed over; a failed read or
\* write of the lock skips the week.
FailStatement(i) ==
  /\ fx[i].phase \in {"acquire", "refresh"}
  /\ fx' = IF fx[i].phase = "acquire" THEN [fx EXCEPT ![i] = IdleFx]
           ELSE [fx EXCEPT ![i].todo = @ \ {fx[i].org}, ![i].org = NoOrg, ![i].answer = "none"]
  /\ troubled' = TRUE
  /\ UNCHANGED <<week, lock, due, rate, refreshed>>

UserRefresh(o, answer) ==
  /\ rate' = [rate EXCEPT ![o] = answer]
  /\ UNCHANGED <<week, lock, due, fx, refreshed, troubled>>

UpdateRate(o) ==
  /\ rate' = [rate EXCEPT ![o] = "manual"]
  /\ UNCHANGED <<week, lock, due, fx, refreshed, troubled>>

----------------------------------------------------------------------------
(* Instances.                                                              *)

Die(i) ==
  /\ fx[i].phase # "down"
  /\ fx' = [fx EXCEPT ![i] = [IdleFx EXCEPT !.phase = "down"]]
  /\ due' = due \ {i}
  /\ troubled' = TRUE
  /\ UNCHANGED <<week, lock, rate, refreshed>>

\* bootstrapLiveRates lists the organisations without rates; without an answer
\* of the provider it seeds nothing.
Start(i) ==
  /\ fx[i].phase = "down"
  /\ fx' = [fx EXCEPT ![i].phase = "seed", ![i].todo = {o \in Orgs : rate[o] = "none"}]
  /\ UNCHANGED <<week, lock, due, rate, refreshed, troubled>>

SeedOrg(i, o) ==
  /\ fx[i].phase = "seed" /\ o \in fx[i].todo
  /\ rate' = [rate EXCEPT ![o] = "live"]
  /\ fx' = [fx EXCEPT ![i].todo = @ \ {o}]
  /\ UNCHANGED <<week, lock, due, refreshed, troubled>>

EndStart(i) ==
  /\ fx[i].phase = "seed"
  /\ fx' = [fx EXCEPT ![i] = IdleFx]
  /\ UNCHANGED <<week, lock, due, rate, refreshed, troubled>>

----------------------------------------------------------------------------
FxInit ==
  /\ week = 0
  /\ lock = "free"
  /\ due = {}
  /\ fx = [i \in Instances |-> IdleFx]
  /\ rate = [o \in Orgs |-> "none"]
  /\ refreshed = {}
  /\ troubled = FALSE

FxNext ==
  \/ Monday \/ LapseLock
  \/ \E i \in Instances :
       \/ ReadLock(i) \/ WriteLock(i) \/ ReleaseLock(i) \/ WriteRates(i) \/ FailStatement(i)
       \/ Die(i) \/ Start(i) \/ EndStart(i)
       \/ \E o \in Orgs : \/ SeedOrg(i, o)
                          \/ \E answer \in {"live", "baseline"} : FetchRates(i, o, answer)
  \/ \E o \in Orgs : \/ UpdateRate(o)
                     \/ \E answer \in {"live", "baseline"} : UserRefresh(o, answer)

FxSpec == FxInit /\ [][FxNext]_fxVars

----------------------------------------------------------------------------
(* Correctness.                                                            *)

\* A week in which no instance died and no statement failed leaves no
\* organisation without its refresh, whatever became of the lock in the weeks
\* before and however many instances take it now.
QuietWeekRefreshes ==
  week > 0 /\ due = {} /\ ~troubled /\ (\A i \in Instances : fx[i].phase \in {"idle", "down"})
    => refreshed = Orgs

\* "Prevents duplicate execution across multiple API instances"
\* (fx-scheduler.service.ts:6).  False of the code: two instances read the
\* lock before either writes it.
OneRefresher ==
  \A i, j \in Instances :
    fx[i].phase = "refresh" /\ fx[j].phase = "refresh" /\ lock = "held" => i = j

\* The emergency baseline is "used ONLY when the live provider is unavailable
\* AND the DB has no record" (exchange-rates.service.ts:21).  False of the
\* code: a refresh without an answer writes it over any rate.
BaselineOnlyWithoutRecord ==
  [][\A o \in Orgs : rate[o] \in {"live", "manual"} => rate'[o] # "baseline"]_fxVars
============================================================================
