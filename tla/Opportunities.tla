---------------------------- MODULE Opportunities ---------------------------
(***************************************************************************)
(* Opportunities of the contacts of an organisation.  To move or reopen    *)
(* one reads it and the stage asked for outside any transaction, judges    *)
(* them, and in a transaction updates the opportunity where it still is    *)
(* where it was read, looks for its follow-up and adapts it to the new     *)
(* stage.  A confirmed sale closes its opportunity whatever its stage, and *)
(* people archive, restore and follow it up meanwhile.  Whether an         *)
(* opportunity is closed is the category of its stage; the instants and    *)
(* reasons of closing, its responsible user (any may be that of a          *)
(* follow-up it inserts) and the amounts are left out, and so are the      *)
(* operations that write nothing else (update, assign).                    *)
(***************************************************************************)
EXTENDS Pipeline, FollowUps

CONSTANTS
  Kind,    \* of each stage, what its system key means for the follow-up
  Movers   \* requests to move or reopen

\* timed: followed up after some days; legacy: so too, and a date set by hand
\* is kept on leaving it; manual: a date is to be given; plain: never;
\* purchased: the stage of confirmed sales.
ASSUME OpportunitiesAssumption ==
  Kind \in [Stages -> {"timed", "legacy", "manual", "plain", "purchased"}]

VARIABLES
  opportunity, \* "Opportunity": is it there, live or archived, and its stage
  mover        \* per request: what it read, and once past its update, the follow-up it found

opportunityVars == <<stageVars, followUpVars, opportunity, mover>>

NoMove == [op |-> "none", opportunities |-> {}, from |-> {}, to |-> {}, found |-> {}]

OpportunitiesTypeOK ==
  /\ PipelineTypeOK
  /\ FollowUpsTypeOK
  /\ opportunity \in [Opportunities -> [state : {"none", "live", "archived"}, stage : SUBSET Stages]]
  /\ mover \in [Movers -> [op : {"none", "move", "reopen"}, opportunities : SUBSET Opportunities,
                           from : SUBSET Stages, to : SUBSET Stages,
                           found : SUBSET (FollowUpIds \cup {NoFollowUp})]]

Stays == UNCHANGED stageVars
IsLive(o) == opportunity[o].state = "live"
InStage(o, s) == opportunity[o].stage = {s}
InCategory(o, c) == \E s \in opportunity[o].stage : Category[s] = c
IsOpen(o) == InCategory(o, "OPEN")
InUse(s) == {o \in Opportunities : IsLive(o) /\ InStage(o, s)}
Available == [o \in Opportunities |-> IsLive(o)]

\* Between the update of an opportunity and its commit others wait to write it.
RowFree(o) == \A r \in Movers : mover[r].found # {} => o \notin mover[r].opportunities

\* The first stage in use and open, for who names none.
FirstOpen == {s \in ActiveOf("OPEN") : \A t \in ActiveOf("OPEN") : order[s] <= order[t]}

----------------------------------------------------------------------------
(* Creation.                                                               *)

OpenedIn(o, s) == [opportunity EXCEPT ![o] = [state |-> "live", stage |-> {s}]]

\* With a date given by hand, the suggested one, or none; never in the stage of sales.
FirstFollowUp(o, s) ==
  \/ /\ Kind[s] # "purchased"
     /\ \E f \in FollowUpIds, u \in Assignees, d \in DueTimes, auto \in BOOLEAN :
          /\ auto => Kind[s] \in {"timed", "legacy"}
          /\ Absent(f)
          /\ followUp' = [followUp EXCEPT ![f] = Inserted(o, u, d, auto, NoFollowUp)]
  \/ /\ Kind[s] \in {"plain", "purchased"}
     /\ UNCHANGED followUp

CreateIn(o, s) ==
  /\ opportunity[o].state = "none"
  /\ s \in active
  /\ opportunity' = OpenedIn(o, s)
  /\ FirstFollowUp(o, s)
  /\ Stays
  /\ UNCHANGED <<scheduler, mover>>

\* create of opportunities: in an open stage.
CreateOpportunity(o, s) == Category[s] = "OPEN" /\ CreateIn(o, s)

\* createLead of contacts: in any that is in use.
CreateLead(o, s) == CreateIn(o, s)

\* create of contacts: in the first open stage, and without a follow-up.
CreateWithContact(o) ==
  /\ opportunity[o].state = "none"
  /\ \E s \in FirstOpen : opportunity' = OpenedIn(o, s)
  /\ Stays
  /\ UNCHANGED <<followUpVars, mover>>

----------------------------------------------------------------------------
(* move and reopen.                                                        *)

Reads(r, op, o, s) ==
  /\ mover[r] = NoMove
  /\ IsLive(o)
  /\ s \in active
  /\ mover' = [mover EXCEPT ![r] = [op |-> op, opportunities |-> {o}, from |-> opportunity[o].stage,
                                    to |-> {s}, found |-> {}]]
  /\ Stays
  /\ UNCHANGED <<followUpVars, opportunity>>

\* What is closed is not opened by a move.
MayMoveTo(o, s) == ~InStage(o, s) /\ (IsOpen(o) \/ Category[s] # "OPEN")

ReadForMove(r, o, s) ==
  /\ MayMoveTo(o, s)
  /\ Reads(r, "move", o, s)

\* An active sale of the opportunity may still refuse it.
ReadForReopen(r, o, s) ==
  /\ ~IsOpen(o)
  /\ Category[s] = "OPEN"
  /\ Reads(r, "reopen", o, s)

\* Mutant of StillThere: the update does not ask for the stage that was read.
StillLive(o, from) == IsLive(o)

\* WHERE of the update.
StillThere(o, from) == IsLive(o) /\ opportunity[o].stage = from

\* The update, not committed yet, and the look for the follow-up.
UpdateOpportunity(r, o, e) ==
  /\ mover[r].op # "none" /\ mover[r].found = {}
  /\ o \in mover[r].opportunities
  /\ RowFree(o)
  /\ StillThere(o, mover[r].from)
  /\ e \in Operational(o)
  /\ mover' = [mover EXCEPT ![r].found = {e}]
  /\ Stays
  /\ UNCHANGED <<followUpVars, opportunity>>

\* What the new stage s asks of the follow-up e found, when moving from stages from,
\* with a date given by hand, the suggested one, or none.
SyncFollowUp(op, o, from, s, e) ==
  \/ /\ op = "move" /\ e # NoFollowUp
     /\ ~followUp[e].auto
     /\ \E t \in from : Kind[t] = "legacy"
     /\ Kind[s] # "manual"
     /\ UNCHANGED followUp
  \/ /\ Kind[s] \in {"plain", "purchased"}
     /\ followUp' = CancelledByStage(e)
  \/ \E d \in DueTimes, auto \in BOOLEAN :
       /\ auto => Kind[s] \in {"timed", "legacy"}
       /\ \/ e # NoFollowUp /\ followUp' = Redated(e, d, auto)
          \/ /\ e = NoFollowUp
             /\ \E f \in FollowUpIds, u \in Assignees :
                  /\ Absent(f)
                  /\ followUp' = [followUp EXCEPT ![f] = Inserted(o, u, d, auto, NoFollowUp)]
       /\ DueUnique(followUp')

CommitMove(r, o, s, e) ==
  /\ mover[r].found = {e}
  /\ o \in mover[r].opportunities
  /\ s \in mover[r].to
  /\ opportunity' = [opportunity EXCEPT ![o].stage = {s}]
  /\ SyncFollowUp(mover[r].op, o, mover[r].from, s, e)
  /\ mover' = [mover EXCEPT ![r] = NoMove]
  /\ Stays
  /\ UNCHANGED scheduler

\* It changed meanwhile, the follow-up would be a duplicate, a failure or a crash.
RefuseMove(r) ==
  /\ mover[r] # NoMove
  /\ mover' = [mover EXCEPT ![r] = NoMove]
  /\ Stays
  /\ UNCHANGED <<followUpVars, opportunity>>

----------------------------------------------------------------------------
\* Updated by id, wherever it is by then.
ArchiveOpportunity(o) ==
  /\ IsLive(o)
  /\ RowFree(o)
  /\ opportunity' = [opportunity EXCEPT ![o].state = "archived"]
  /\ Stays
  /\ UNCHANGED <<followUpVars, mover>>

\* Its stage may be out of use by then.
RestoreOpportunity(o) ==
  /\ opportunity[o].state = "archived"
  /\ RowFree(o)
  /\ opportunity' = [opportunity EXCEPT ![o].state = "live"]
  /\ Stays
  /\ UNCHANGED <<followUpVars, mover>>

\* A sale of it is confirmed: it goes to the stage of sales if that is in use,
\* archived or not, and its pending follow-ups are cancelled.
MarkPurchased(o, s) ==
  /\ opportunity[o].state # "none"
  /\ s \in active /\ Kind[s] = "purchased" /\ Category[s] = "WON"
  /\ ~InStage(o, s)
  /\ RowFree(o)
  /\ opportunity' = [opportunity EXCEPT ![o].stage = {s}]
  /\ followUp' = CancelledBySale(o)
  /\ Stays
  /\ UNCHANGED <<scheduler, mover>>

----------------------------------------------------------------------------
OpportunitiesInit ==
  /\ PipelineInit
  /\ FollowUpsInit
  /\ opportunity = [o \in Opportunities |-> [state |-> "none", stage |-> {}]]
  /\ mover = [r \in Movers |-> NoMove]

StagesStep ==
  /\ \E a \in Admins :
       \/ \E s \in Stages : BeginChange(a, s, InUse(s)) \/ WriteChange(a, s)
       \/ RollBackStages(a)
  /\ UNCHANGED <<followUpVars, opportunity, mover>>

FollowUpStep ==
  /\ FollowUpsNext(Available)
  /\ Stays
  /\ UNCHANGED <<opportunity, mover>>

CreationStep ==
  \E o \in Opportunities :
    \/ \E s \in Stages : CreateOpportunity(o, s) \/ CreateLead(o, s)
    \/ CreateWithContact(o)

MoveStep ==
  \E r \in Movers :
    \/ \E o \in Opportunities, s \in Stages : ReadForMove(r, o, s) \/ ReadForReopen(r, o, s)
    \/ \E o \in mover[r].opportunities, e \in FollowUpIds \cup {NoFollowUp} :
         UpdateOpportunity(r, o, e)
    \/ \E o \in mover[r].opportunities, s \in mover[r].to, e \in mover[r].found :
         CommitMove(r, o, s, e)
    \/ RefuseMove(r)

OpportunityStep ==
  \E o \in Opportunities :
    \/ ArchiveOpportunity(o) \/ RestoreOpportunity(o)
    \/ \E s \in Stages : MarkPurchased(o, s)

OpportunitiesNext == StagesStep \/ FollowUpStep \/ CreationStep \/ MoveStep \/ OpportunityStep

OpportunitiesSpec == OpportunitiesInit /\ [][OpportunitiesNext]_opportunityVars

----------------------------------------------------------------------------
(* Correctness.                                                            *)

\* A closed opportunity is opened by nothing but a request to reopen it,
\* however moves, sales and archiving interleave with the read a move was
\* judged on (opportunities.service.ts: "Una oportunidad cerrada debe reabrirse
\* explícitamente").
ReopenedOnlyExplicitly ==
  [][\A o \in Opportunities :
       opportunity[o].state # "none" /\ ~IsOpen(o) /\ IsOpen(o)' =>
         \E r \in Movers : /\ mover[r].op = "reopen" /\ o \in mover[r].opportunities
                           /\ mover'[r] = NoMove]_opportunityVars
=============================================================================
