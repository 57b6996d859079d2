------------------------------- MODULE MCParts -------------------------------
(* Bounded instances of the parts that share no row: recurring expenses,    *)
(* the refresh of exchange rates, the synchronisation of conversations, the *)
(* delivery of a sale, trials, the sessions of a user, the stages of the    *)
(* pipeline, the opportunities in them and their follow-ups (with the moves *)
(* and by themselves).  A behaviour is that of one of them.                 *)
EXTENDS RecurringExpenses, FxRefresh, ReadOnlySync, Provisioning, Trials, AuthSessions, Opportunities, TLC

CONSTANTS weekly, monthly, s_talk, s_seen, s_paid, s_lost, j1

MCPeriod == weekly :> 1 @@ monthly :> 2

\* Stages: one that asks for a date, one of before the states of today, the one of sales, the lost.
MCCategory == s_talk :> "OPEN" @@ s_seen :> "OPEN" @@ s_paid :> "WON" @@ s_lost :> "LOST"
MCKind == s_talk :> "manual" @@ s_seen :> "legacy" @@ s_paid :> "purchased" @@ s_lost :> "plain"

Alike == Permutations(Schedulers)

\* Rows that differ in their names alone are made in the order of these: what the
\* symmetry of so many parts in one state would cost more to find.
Turn(S) == CHOOSE f \in [S -> 1 .. Cardinality(S)] : \A x, y \in S : f[x] = f[y] => x = y
TrialTurn == Turn(TrialIds)
OfferTurn == Turn(Offers)
SessionTurn == Turn(Sessions)
FollowUpTurn == Turn(FollowUpIds)
InTurn(there, turn) == \A x \in there : \A y \in DOMAIN turn : turn[y] < turn[x] => y \in there

TrialsInTurn ==
  LET there == {t \in TrialIds : trial[t].status # "none"}
  IN InTurn(there, TrialTurn) /\ InTurn({trial[t].slot.offer : t \in there}, OfferTurn)
SessionsInTurn == InTurn({s \in Sessions : Opened(s)}, SessionTurn)
FollowUpsInTurn == InTurn({f \in FollowUpIds : ~Absent(f)}, FollowUpTurn)

OneArchived == Cardinality({f \in FollowUpIds : followUp[f].archived}) <= 1

\* Bound of the follow-ups under moves: few, of one user, rescheduled by one request.
FewFollowUps ==
  LET there == {f \in FollowUpIds : ~Absent(f)}
  IN /\ Cardinality(there) <= 2
     /\ \A f \in there : followUp[f].user = j1
     /\ \E r \in Schedulers : \A q \in Schedulers \ {r} : scheduler[q] = IdleScheduler
     /\ OneArchived

VARIABLE part

mcVars == <<recurringVars, fxVars, syncVars, provisioningVars, trialsVars, sessionVars,
            opportunityVars, part>>

MCPartsInit ==
  /\ RecurringInit /\ FxInit /\ SyncInit /\ ProvisioningInit /\ TrialsInit /\ SessionsInit
  /\ OpportunitiesInit
  /\ part \in {"recurring", "fx", "sync", "delivery", "trials", "sessions", "stages", "crm", "followups"}
  /\ part = "delivery" \/ subscription = [f \in Fulfillments |-> "none"]
  /\ part = "stages" \/ order = s_talk :> 1 @@ s_seen :> 2 @@ s_paid :> 3 @@ s_lost :> 4

MCPartsNext ==
  /\ UNCHANGED part
  /\ \/ /\ part = "recurring" /\ RecurringNext
        /\ UNCHANGED <<fxVars, syncVars, provisioningVars, trialsVars, sessionVars, opportunityVars>>
     \/ /\ part = "fx" /\ FxNext
        /\ UNCHANGED <<recurringVars, syncVars, provisioningVars, trialsVars, sessionVars, opportunityVars>>
     \/ /\ part = "sync" /\ SyncNext
        /\ UNCHANGED <<recurringVars, fxVars, provisioningVars, trialsVars, sessionVars, opportunityVars>>
     \/ /\ part = "delivery" /\ ProvisioningNext
        /\ UNCHANGED <<recurringVars, fxVars, syncVars, trialsVars, sessionVars, opportunityVars>>
     \/ /\ part = "trials" /\ TrialsNext /\ TrialsInTurn'
        /\ UNCHANGED <<recurringVars, fxVars, syncVars, provisioningVars, sessionVars, opportunityVars>>
     \/ /\ part = "sessions" /\ SessionsNext /\ SessionsInTurn'
        /\ UNCHANGED <<recurringVars, fxVars, syncVars, provisioningVars, trialsVars, opportunityVars>>
     \/ /\ part = "stages"
        /\ StagesStep \/ OpportunityStep \/ \E o \in Opportunities : CreateWithContact(o)
        /\ UNCHANGED <<recurringVars, fxVars, syncVars, provisioningVars, trialsVars, sessionVars>>
     \/ /\ part = "crm"
        /\ FollowUpStep \/ CreationStep \/ MoveStep \/ OpportunityStep
        /\ FewFollowUps' /\ FollowUpsInTurn'
        /\ UNCHANGED <<recurringVars, fxVars, syncVars, provisioningVars, trialsVars, sessionVars>>
     \/ /\ part = "followups"
        /\ FollowUpStep \/ \E o \in Opportunities : CreateWithContact(o)
        /\ OneArchived' /\ FollowUpsInTurn'
        /\ UNCHANGED <<recurringVars, fxVars, syncVars, provisioningVars, trialsVars, sessionVars>>

MCPartsSpec == MCPartsInit /\ [][MCPartsNext]_mcVars

\* The types of the modules, each in the behaviours of its part.
PartsTypeOK ==
  /\ part = "recurring" => RecurringTypeOK
  /\ part = "fx" => FxTypeOK
  /\ part = "sync" => SyncTypeOK
  /\ part = "delivery" => ProvisioningTypeOK
  /\ part = "trials" => TrialsTypeOK
  /\ part = "sessions" => SessionsTypeOK
  /\ part \in {"stages", "crm", "followups"} => OpportunitiesTypeOK
=============================================================================
