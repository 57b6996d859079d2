------------------------- MODULE OpportunitiesProofs -------------------------
(* What TLAPS proves of the pipeline, the follow-ups and the opportunities,  *)
(* for any stages, requests, follow-ups and opportunities.                   *)
EXTENDS Opportunities, FiniteSetTheorems, TLAPS

----------------------------------------------------------------------------
(* The stages.                                                              *)

\* Whoever has a change under way holds the lock.
ChangesUnderLock == \A a \in Admins : change[a] # NoChange => stageLock = a

\* What is about to be archived is not the last in use of its category.
AnotherRemains ==
  \A a \in Admins : change[a].op = "archive" =>
    \A s \in change[a].stages : \E t \in active : t # s /\ Category[t] = Category[s]

StagesInv == PipelineTypeOK /\ ChangesUnderLock /\ AnotherRemains /\ EveryCategoryHasStage

LEMMA ManyMeansAnother ==
  ASSUME NEW S, NEW s, Cardinality(S) > 1
  PROVE  \E t \in S : t # s
<1>1. SUFFICES ASSUME S \subseteq {s} PROVE FALSE OBVIOUS
<1>2. S = {} \/ S = {s} BY <1>1
<1>3. Cardinality(S) \in {0, 1} BY <1>2, FS_EmptySet, FS_Singleton
<1> QED BY <1>3

LEMMA CountsAreNumbers ==
  ASSUME NEW S, S \subseteq Stages
  PROVE  Cardinality(S) \in 0 .. Cardinality(Stages)
BY PipelineAssumption, FS_Subset, FS_CardinalityType

LEMMA PositionsListed == InOrder \in Listed
BY CountsAreNumbers, PipelineAssumption, FS_CardinalityType DEF InOrder, Listed, Existing

\* The arithmetic of orders stays within the naturals.
LEMMA ShiftsAreNatural ==
  ASSUME order \in [Stages -> Nat], NEW listed \in Listed, NEW n \in Nat
  PROVE  LET offset == CountOf(listed) + 1 IN
           /\ Raised(order, n, offset) \in [Stages -> Nat]
           /\ Lowered(Raised(order, n, offset), n + offset, offset - 1) \in [Stages -> Nat]
<1> DEFINE k == CountOf(listed)
<1>1. k \in Nat BY CountsAreNumbers, PipelineAssumption, FS_CardinalityType DEF CountOf
<1> HIDE DEF k
<1>2. Raised(order, n, k + 1) \in [Stages -> Nat] BY <1>1 DEF Raised
<1> DEFINE raised == Raised(order, n, k + 1)
<1> HIDE DEF raised
<1>3. raised \in [Stages -> Nat] BY <1>2 DEF raised
<1>4. Lowered(raised, n + (k + 1), (k + 1) - 1) \in [Stages -> Nat] BY <1>1, <1>3 DEF Lowered
<1> QED BY <1>2, <1>4 DEF k, raised

LEMMA RenumberedNatural ==
  ASSUME order \in [Stages -> Nat], NEW listed \in Listed, NEW place \in [Stages -> Nat]
  PROVE  Renumbered(listed, place) \in [Stages -> Nat]
BY ShiftsAreNatural DEF Renumbered

LEMMA SplicedNatural ==
  ASSUME NEW listed \in Listed, NEW s \in Stages, NEW n \in Nat
  PROVE  Spliced(listed, s, n) \in [Stages -> Nat]
BY CountsAreNumbers, PipelineAssumption, FS_CardinalityType DEF Spliced, Listed

LEMMA PipelineStarts == PipelineInit => StagesInv
<1> SUFFICES ASSUME PipelineInit PROVE StagesInv OBVIOUS
<1>1. NoChange \in [op : {"none", "create", "reorder", "archive", "restore"},
                    stages : SUBSET Stages, at : Nat, listed : Listed]
  BY PipelineAssumption, FS_CardinalityType DEF NoChange, Unread, Listed
<1>2. PipelineTypeOK
  BY <1>1, PipelineAssumption, FS_CardinalityType DEF PipelineInit, PipelineTypeOK, Listed, Existing
<1>3. ChangesUnderLock /\ AnotherRemains /\ EveryCategoryHasStage
  BY DEF PipelineInit, ChangesUnderLock, AnotherRemains, EveryCategoryHasStage, NoChange
<1> QED BY <1>2, <1>3 DEF StagesInv

LEMMA BeginKeeps ==
  ASSUME StagesInv, NEW a \in Admins, NEW s \in Stages, NEW n \in Nat,
         NEW op \in {"create", "reorder", "archive", "restore"}, Begin(a, op, s, n),
         op = "archive" => MayRetire(s)
  PROVE  StagesInv'
<1> USE DEF StagesInv
<1>1. /\ change'[a] = [op |-> op, stages |-> {s}, at |-> n, listed |-> InOrder]
      /\ \A b \in Admins \ {a} : change'[b] = change[b] /\ change[b] = NoChange
      /\ stageLock' = a /\ UNCHANGED <<order, active>>
  BY PipelineAssumption DEF Begin, StageLockFree, ChangesUnderLock, PipelineTypeOK
<1>2. PipelineTypeOK' BY PositionsListed DEF Begin, PipelineTypeOK
<1>3. ChangesUnderLock' BY <1>1 DEF ChangesUnderLock, NoChange
<1>4. AnotherRemains'
  <2>1. op = "archive" => \E t \in active : t # s /\ Category[t] = Category[s]
    BY ManyMeansAnother DEF MayRetire, ActiveOf
  <2> QED BY <1>1, <2>1 DEF AnotherRemains, NoChange
<1>5. EveryCategoryHasStage' BY <1>1 DEF EveryCategoryHasStage, ActiveOf
<1> QED BY <1>2, <1>3, <1>4, <1>5

LEMMA EndKeeps ==
  ASSUME StagesInv, NEW a \in Admins, EndChange(a), change[a] # NoChange,
         order' \in [Stages -> Nat], active' \subseteq Stages,
         \/ active \subseteq active'
         \/ change[a].op = "archive" /\ \E s \in change[a].stages : active' = active \ {s}
  PROVE  StagesInv'
<1> USE DEF StagesInv
<1>1. NoChange \in [op : {"none", "create", "reorder", "archive", "restore"},
                    stages : SUBSET Stages, at : Nat, listed : Listed]
  BY PipelineAssumption, FS_CardinalityType DEF NoChange, Unread, Listed
<1>2. PipelineTypeOK' BY <1>1 DEF EndChange, PipelineTypeOK
<1>3. \A b \in Admins : change'[b] = NoChange
  BY DEF EndChange, ChangesUnderLock, PipelineTypeOK
<1>4. ChangesUnderLock' /\ AnotherRemains'
  <2>1. ChangesUnderLock' BY <1>3 DEF ChangesUnderLock
  <2>2. NoChange.op = "none" BY DEF NoChange
  <2>3. AnotherRemains' BY <1>3, <2>2 DEF AnotherRemains
  <2> QED BY <2>1, <2>3
<1>5. EveryCategoryHasStage'
  <2>1. CASE active \subseteq active' BY <2>1 DEF EveryCategoryHasStage, ActiveOf
  <2>2. ASSUME change[a].op = "archive", NEW s \in change[a].stages, active' = active \ {s}
        PROVE  EveryCategoryHasStage'
    BY <2>2 DEF EveryCategoryHasStage, ActiveOf, AnotherRemains
  <2> QED BY <2>1, <2>2
<1> QED BY <1>2, <1>4, <1>5

LEMMA StagesStepKeeps ==
  ASSUME StagesInv, [OpportunitiesNext]_opportunityVars
  PROVE  StagesInv'
<1>0. PipelineTypeOK BY DEF StagesInv
<1>1. ASSUME UNCHANGED stageVars PROVE StagesInv'
  BY <1>1 DEF stageVars, StagesInv, PipelineTypeOK, ChangesUnderLock, AnotherRemains, EveryCategoryHasStage,
              ActiveOf
<1>2. ASSUME NEW a \in Admins, NEW s \in Stages, BeginChange(a, s, InUse(s)) PROVE StagesInv'
  <2>1. ASSUME NEW n \in 1 .. Cardinality(Stages), BeginCreateStage(a, s, n) \/ BeginReorderStage(a, s, n)
        PROVE  StagesInv'
    <3>1. n \in Nat BY PipelineAssumption, FS_CardinalityType
    <3> QED BY <2>1, <3>1, BeginKeeps DEF BeginCreateStage, BeginReorderStage
  <2>2. CASE BeginArchiveStage(a, s, InUse(s)) BY <2>2, BeginKeeps DEF BeginArchiveStage
  <2>3. CASE BeginRestoreStage(a, s) BY <2>3, BeginKeeps DEF BeginRestoreStage
  <2> QED BY <1>2, <2>1, <2>2, <2>3 DEF BeginChange
<1>3. ASSUME NEW a \in Admins, NEW s \in Stages, WriteChange(a, s) PROVE StagesInv'
  <2>0. /\ order \in [Stages -> Nat] /\ active \subseteq Stages
        /\ change[a].listed \in Listed /\ change[a].at \in Nat
    BY <1>0 DEF PipelineTypeOK
  <2>1. CASE CreateStage(a, s)
    <3>1. order' \in [Stages -> Nat]
      <4> DEFINE k == CountOf(change[a].listed) + 1
                 low == Lowered(Raised(order, change[a].at, k), change[a].at + k, k - 1)
      <4>1. low \in [Stages -> Nat] BY <2>0, ShiftsAreNatural
      <4>2. order' = [low EXCEPT ![s] = change[a].at] BY <2>1 DEF CreateStage
      <4> HIDE DEF low
      <4> QED BY <2>0, <4>1, <4>2
    <3>2. EndChange(a) /\ change[a] # NoChange /\ active' = active \cup {s}
      BY <2>1 DEF CreateStage, NoChange
    <3> QED BY <2>0, <3>1, <3>2, EndKeeps
  <2>2. CASE ReorderStage(a, s)
    <3>1. order' \in [Stages -> Nat] BY <2>0, <2>2, RenumberedNatural, SplicedNatural DEF ReorderStage
    <3>2. EndChange(a) /\ change[a] # NoChange /\ active' = active BY <2>2 DEF ReorderStage, NoChange
    <3> QED BY <2>0, <3>1, <3>2, EndKeeps
  <2>3. CASE ArchiveStage(a, s)
    <3>1. /\ EndChange(a) /\ change[a].op = "archive" /\ s \in change[a].stages
          /\ active' = active \ {s} /\ order' = order /\ change[a] # NoChange
      BY <2>3 DEF ArchiveStage, NoChange
    <3> QED BY <2>0, <3>1, EndKeeps
  <2>4. CASE RestoreStage(a, s)
    <3>1. change[a].listed \in [Stages -> Nat]
      BY <2>0, PipelineAssumption, FS_CardinalityType DEF Listed
    <3>2. order' \in [Stages -> Nat] BY <2>0, <2>4, <3>1, RenumberedNatural DEF RestoreStage
    <3>3. EndChange(a) /\ change[a] # NoChange /\ active' = active \cup {s}
      BY <2>4 DEF RestoreStage, NoChange
    <3> QED BY <2>0, <3>2, <3>3, EndKeeps
  <2> QED BY <1>3, <2>1, <2>2, <2>3, <2>4 DEF WriteChange
<1>4. ASSUME NEW a \in Admins, RollBackStages(a) PROVE StagesInv'
  BY <1>0, <1>4, EndKeeps DEF RollBackStages, PipelineTypeOK
<1>5. CASE StagesStep BY <1>2, <1>3, <1>4, <1>5 DEF StagesStep
<1>6. CASE UNCHANGED opportunityVars BY <1>1, <1>6 DEF opportunityVars
<1>7. CASE FollowUpStep \/ CreationStep \/ MoveStep \/ OpportunityStep
  <2>1. UNCHANGED stageVars
    BY <1>7
    DEF FollowUpStep, CreationStep, MoveStep, OpportunityStep, Stays, CreateOpportunity, CreateLead, CreateIn,
        CreateWithContact, ReadForMove, ReadForReopen, Reads, UpdateOpportunity, CommitMove, RefuseMove,
        ArchiveOpportunity, RestoreOpportunity, MarkPurchased
  <2> QED BY <1>1, <2>1
<1> QED BY <1>5, <1>6, <1>7 DEF OpportunitiesNext

LEMMA StagesAlways == OpportunitiesSpec => []StagesInv
<1>1. OpportunitiesInit => StagesInv BY PipelineStarts DEF OpportunitiesInit
<1>2. StagesInv /\ [OpportunitiesNext]_opportunityVars => StagesInv' BY StagesStepKeeps
<1> QED BY <1>1, <1>2, PTL DEF OpportunitiesSpec

\* No category is ever without a stage in use, for any number of stages and of
\* requests to change them.
THEOREM CategoriesKeepAStage == OpportunitiesSpec => []EveryCategoryHasStage
<1>1. StagesInv => EveryCategoryHasStage BY DEF StagesInv
<1> QED BY <1>1, StagesAlways, PTL

----------------------------------------------------------------------------
(* Moves.                                                                   *)

MovesTypeOK ==
  /\ opportunity \in [Opportunities -> [state : {"none", "live", "archived"}, stage : SUBSET Stages]]
  /\ mover \in [Movers -> [op : {"none", "move", "reopen"}, opportunities : SUBSET Opportunities,
                           from : SUBSET Stages, to : SUBSET Stages,
                           found : SUBSET (FollowUpIds \cup {NoFollowUp})]]

\* What was read is there, and a move was judged not to open what was closed.
JudgedAsRead ==
  \A r \in Movers :
    /\ mover[r].op = "none" => mover[r].found = {}
    /\ \A o, p \in mover[r].opportunities : o = p
    /\ \A o \in mover[r].opportunities : opportunity[o].state # "none"
    /\ mover[r].op = "move" =>
         \A s \in mover[r].to : (\E t \in mover[r].from : Category[t] = "OPEN") \/ Category[s] # "OPEN"

\* Past its update a request has its opportunity for itself, where it was read.
Held ==
  \A r \in Movers : mover[r].found # {} =>
    \A o \in mover[r].opportunities :
      /\ opportunity[o].stage = mover[r].from
      /\ \A q \in Movers : mover[q].found # {} /\ o \in mover[q].opportunities => q = r

MovesInv == MovesTypeOK /\ JudgedAsRead /\ Held

NothingOpened == \A o \in Opportunities : opportunity[o].state # "none" /\ ~IsOpen(o) => ~IsOpen(o)'

LEMMA MovesStart == OpportunitiesInit => MovesInv
BY DEF OpportunitiesInit, MovesInv, MovesTypeOK, JudgedAsRead, Held, NoMove

\* Opportunities change where nobody holds them, and none ceases to exist.
LEMMA HeldKept ==
  ASSUME MovesInv, MovesTypeOK', UNCHANGED mover,
         \A o \in Opportunities : /\ opportunity[o].state # "none" => opportunity'[o].state # "none"
                                  /\ opportunity'[o].stage # opportunity[o].stage => RowFree(o)
  PROVE  MovesInv'
<1> USE DEF MovesInv
<1>1. JudgedAsRead' BY DEF JudgedAsRead, MovesTypeOK
<1>2. Held' BY DEF Held, RowFree, MovesTypeOK
<1> QED BY <1>1, <1>2

\* A request that reads, or ends, leaves the others as they are.
LEMMA OneMoverKept ==
  ASSUME MovesInv, MovesTypeOK', UNCHANGED opportunity, NEW r \in Movers,
         \A q \in Movers \ {r} : mover'[q] = mover[q],
         mover'[r].found = {},
         \A o, p \in mover'[r].opportunities : o = p,
         \A o \in mover'[r].opportunities : opportunity[o].state # "none",
         mover'[r].op = "move" =>
           \A s \in mover'[r].to : (\E t \in mover'[r].from : Category[t] = "OPEN") \/ Category[s] # "OPEN"
  PROVE  MovesInv'
<1> USE DEF MovesInv
<1>1. JudgedAsRead' BY DEF JudgedAsRead
<1>2. Held' BY DEF Held
<1> QED BY <1>1, <1>2

LEMMA ReadsKeeps ==
  ASSUME MovesInv, NEW r \in Movers, NEW op \in {"move", "reopen"}, NEW o \in Opportunities,
         NEW s \in Stages, Reads(r, op, o, s),
         op = "move" => IsOpen(o) \/ Category[s] # "OPEN"
  PROVE  MovesInv' /\ NothingOpened
<1>0. MovesTypeOK BY DEF MovesInv
<1>1. /\ mover'[r] = [op |-> op, opportunities |-> {o}, from |-> opportunity[o].stage,
                      to |-> {s}, found |-> {}]
      /\ \A q \in Movers \ {r} : mover'[q] = mover[q]
      /\ UNCHANGED opportunity
      /\ opportunity[o].state # "none"
  BY <1>0 DEF Reads, MovesTypeOK, IsLive
<1>2. MovesTypeOK' BY <1>0 DEF Reads, MovesTypeOK
<1>3. IsOpen(o) => \E t \in opportunity[o].stage : Category[t] = "OPEN" BY DEF IsOpen, InCategory
<1>4. MovesInv' BY <1>1, <1>2, <1>3, OneMoverKept
<1>5. NothingOpened BY <1>1 DEF NothingOpened, IsOpen, InCategory
<1> QED BY <1>4, <1>5

\* Each step opens nothing that was closed, but the commit of a reopening.
LEMMA MovesStepKeeps ==
  ASSUME MovesInv, active \subseteq Stages, [OpportunitiesNext]_opportunityVars
  PROVE  /\ MovesInv'
         /\ \A o \in Opportunities :
              opportunity[o].state # "none" /\ ~IsOpen(o) /\ IsOpen(o)' =>
                \E r \in Movers : /\ mover[r].op = "reopen" /\ o \in mover[r].opportunities
                                  /\ mover'[r] = NoMove
<1> DEFINE Reopened == \A o \in Opportunities :
              opportunity[o].state # "none" /\ ~IsOpen(o) /\ IsOpen(o)' =>
                \E r \in Movers : /\ mover[r].op = "reopen" /\ o \in mover[r].opportunities
                                  /\ mover'[r] = NoMove
<1>0. MovesTypeOK BY DEF MovesInv
<1>a. NothingOpened => Reopened BY DEF NothingOpened
<1> SUFFICES MovesInv' /\ Reopened OBVIOUS
<1> HIDE DEF Reopened
<1>1. ASSUME UNCHANGED <<opportunity, mover>> PROVE MovesInv' /\ Reopened
  <2>1. MovesInv' BY <1>1 DEF MovesInv, MovesTypeOK, JudgedAsRead, Held
  <2>2. NothingOpened BY <1>1 DEF NothingOpened, IsOpen, InCategory
  <2> QED BY <1>a, <2>1, <2>2
<1>2. ASSUME NEW o \in Opportunities, NEW s \in Stages, opportunity' = OpenedIn(o, s), UNCHANGED mover,
             opportunity[o].state = "none"
      PROVE  MovesInv' /\ Reopened
  <2>1. MovesTypeOK' BY <1>0, <1>2 DEF OpenedIn, MovesTypeOK
  <2>2. /\ \A p \in Opportunities \ {o} : opportunity'[p] = opportunity[p]
        /\ opportunity'[o].state = "live"
    BY <1>0, <1>2 DEF OpenedIn, MovesTypeOK
  <2>3. \A r \in Movers : o \notin mover[r].opportunities
    BY <1>2 DEF MovesInv, JudgedAsRead
  <2>4. RowFree(o) BY <2>3 DEF RowFree
  <2>5. MovesInv' BY <1>2, <2>1, <2>2, <2>4, HeldKept
  <2>6. NothingOpened BY <1>2, <2>2 DEF NothingOpened, IsOpen, InCategory
  <2> QED BY <1>a, <2>5, <2>6
<1>3. CASE CreationStep
  <2>1. ASSUME NEW o \in Opportunities, NEW s \in Stages, CreateOpportunity(o, s) \/ CreateLead(o, s)
        PROVE  MovesInv' /\ Reopened
    BY <1>2, <2>1 DEF CreateOpportunity, CreateLead, CreateIn
  <2>2. ASSUME NEW o \in Opportunities, CreateWithContact(o) PROVE MovesInv' /\ Reopened
    <3>1. PICK s \in FirstOpen : opportunity' = OpenedIn(o, s) BY <2>2 DEF CreateWithContact
    <3>2. s \in Stages BY DEF FirstOpen, ActiveOf
    <3> QED BY <1>2, <2>2, <3>1, <3>2 DEF CreateWithContact
  <2> QED BY <1>3, <2>1, <2>2 DEF CreationStep
<1>4. CASE MoveStep
  <2>1. ASSUME NEW r \in Movers, NEW o \in Opportunities, NEW s \in Stages,
               ReadForMove(r, o, s) \/ ReadForReopen(r, o, s)
        PROVE  MovesInv' /\ Reopened
    BY <1>a, <2>1, ReadsKeeps DEF ReadForMove, ReadForReopen, MayMoveTo
  <2>2. ASSUME NEW r \in Movers, NEW o \in mover[r].opportunities,
               NEW e \in FollowUpIds \cup {NoFollowUp}, UpdateOpportunity(r, o, e)
        PROVE  MovesInv' /\ Reopened
    <3>1. /\ mover'[r].found = {e} /\ mover[r].op # "none"
          /\ mover'[r].op = mover[r].op /\ mover'[r].opportunities = mover[r].opportunities
          /\ mover'[r].from = mover[r].from /\ mover'[r].to = mover[r].to
          /\ \A q \in Movers \ {r} : mover'[q] = mover[q]
          /\ UNCHANGED opportunity
          /\ opportunity[o].stage = mover[r].from
          /\ RowFree(o)
      BY <1>0, <2>2 DEF UpdateOpportunity, MovesTypeOK, StillThere
    <3>2. MovesTypeOK' BY <1>0, <2>2 DEF UpdateOpportunity, MovesTypeOK
    <3>3. JudgedAsRead' BY <1>0, <3>1 DEF MovesInv, JudgedAsRead, MovesTypeOK
    <3>6. mover[r].opportunities = {o} BY <2>2 DEF MovesInv, JudgedAsRead
    <3>7. \A q \in Movers \ {r} : mover[q].found # {} => o \notin mover[q].opportunities
      BY <3>1 DEF RowFree
    <3>4. Held' BY <2>2, <3>1, <3>6, <3>7 DEF MovesInv, Held
    <3>5. NothingOpened BY <3>1 DEF NothingOpened, IsOpen, InCategory
    <3> QED BY <1>a, <3>2, <3>3, <3>4, <3>5 DEF MovesInv
  <2>3. ASSUME NEW r \in Movers, NEW o \in mover[r].opportunities, NEW s \in mover[r].to,
               NEW e \in mover[r].found, CommitMove(r, o, s, e)
        PROVE  MovesInv' /\ Reopened
    <3>0. o \in Opportunities /\ s \in Stages BY <1>0, <2>3 DEF MovesTypeOK
    <3>1. /\ mover'[r] = NoMove
          /\ \A q \in Movers \ {r} : mover'[q] = mover[q]
          /\ opportunity'[o].stage = {s} /\ opportunity'[o].state = opportunity[o].state
          /\ \A p \in Opportunities \ {o} : opportunity'[p] = opportunity[p]
      BY <1>0, <2>3, <3>0 DEF CommitMove, MovesTypeOK
    <3>2. MovesTypeOK' BY <1>0, <2>3, <3>0 DEF CommitMove, MovesTypeOK, NoMove
    <3>3. JudgedAsRead' BY <1>0, <3>0, <3>1 DEF MovesInv, JudgedAsRead, MovesTypeOK, NoMove
    <3>4. opportunity[o].stage = mover[r].from BY <2>3 DEF MovesInv, Held
    <3>5. \A q \in Movers \ {r} : mover[q].found # {} => o \notin mover[q].opportunities
      BY <2>3 DEF MovesInv, Held
    <3>6. Held'
      <4>1. mover'[r].found = {} BY <3>1 DEF NoMove
      <4>2. \A q \in Movers : mover[q].opportunities \subseteq Opportunities
        BY <1>0 DEF MovesTypeOK
      <4> QED BY <3>1, <3>5, <4>1, <4>2 DEF MovesInv, Held
    <3>7. mover[r].op \in {"move", "reopen"} BY <1>0, <2>3 DEF MovesInv, JudgedAsRead, MovesTypeOK
    <3>8. mover[r].op = "move" => IsOpen(o) \/ ~IsOpen(o)'
      BY <2>3, <3>1, <3>4 DEF MovesInv, JudgedAsRead, IsOpen, InCategory
    <3>9. \A p \in Opportunities \ {o} : IsOpen(p)' => IsOpen(p) BY <3>1 DEF IsOpen, InCategory
    <3>10. Reopened BY <2>3, <3>1, <3>7, <3>8, <3>9 DEF Reopened
    <3> QED BY <3>2, <3>3, <3>6, <3>10 DEF MovesInv
  <2>4. ASSUME NEW r \in Movers, RefuseMove(r) PROVE MovesInv' /\ Reopened
    <3>1. /\ mover'[r] = NoMove
          /\ \A q \in Movers \ {r} : mover'[q] = mover[q]
          /\ UNCHANGED opportunity
      BY <1>0, <2>4 DEF RefuseMove, MovesTypeOK
    <3>2. MovesTypeOK' BY <1>0, <2>4 DEF RefuseMove, MovesTypeOK, NoMove
    <3>3. MovesInv' BY <3>1, <3>2, OneMoverKept DEF NoMove
    <3>4. NothingOpened BY <3>1 DEF NothingOpened, IsOpen, InCategory
    <3> QED BY <1>a, <3>3, <3>4
  <2> QED BY <1>4, <2>1, <2>2, <2>3, <2>4 DEF MoveStep
<1>5. CASE OpportunityStep
  <2>1. ASSUME NEW o \in Opportunities, ArchiveOpportunity(o) \/ RestoreOpportunity(o)
        PROVE  MovesInv' /\ Reopened
    <3>1. MovesTypeOK'
      <4>1. CASE ArchiveOpportunity(o) BY <1>0, <4>1 DEF ArchiveOpportunity, MovesTypeOK
      <4>2. CASE RestoreOpportunity(o) BY <1>0, <4>2 DEF RestoreOpportunity, MovesTypeOK
      <4> QED BY <2>1, <4>1, <4>2
    <3>2. UNCHANGED mover /\ \A p \in Opportunities : /\ opportunity'[p].stage = opportunity[p].stage
                                                      /\ opportunity[p].state # "none" => opportunity'[p].state # "none"
      BY <1>0, <2>1 DEF ArchiveOpportunity, RestoreOpportunity, MovesTypeOK
    <3>3. MovesInv' BY <3>1, <3>2, HeldKept
    <3>4. NothingOpened BY <3>2 DEF NothingOpened, IsOpen, InCategory
    <3> QED BY <1>a, <3>3, <3>4
  <2>2. ASSUME NEW o \in Opportunities, NEW s \in Stages, MarkPurchased(o, s) PROVE MovesInv' /\ Reopened
    <3>1. MovesTypeOK' BY <1>0, <2>2 DEF MarkPurchased, MovesTypeOK
    <3>2. /\ UNCHANGED mover
          /\ \A p \in Opportunities \ {o} : opportunity'[p] = opportunity[p]
          /\ opportunity'[o].stage = {s} /\ opportunity'[o].state = opportunity[o].state
          /\ RowFree(o) /\ Category[s] = "WON"
      BY <1>0, <2>2 DEF MarkPurchased, MovesTypeOK
    <3>3. MovesInv' BY <3>1, <3>2, HeldKept
    <3>4. NothingOpened BY <3>2 DEF NothingOpened, IsOpen, InCategory
    <3> QED BY <1>a, <3>3, <3>4
  <2> QED BY <1>5, <2>1, <2>2 DEF OpportunityStep
<1>6. CASE StagesStep \/ FollowUpStep BY <1>1, <1>6 DEF StagesStep, FollowUpStep
<1>7. CASE UNCHANGED opportunityVars BY <1>1, <1>7 DEF opportunityVars
<1> QED BY <1>3, <1>4, <1>5, <1>6, <1>7 DEF OpportunitiesNext, Reopened

\* Nothing but a request to reopen it opens a closed opportunity, for any number
\* of moves, sales and restorations that interleave.
THEOREM ClosedStaysClosed == OpportunitiesSpec => ReopenedOnlyExplicitly
<1>0. StagesInv => active \subseteq Stages BY DEF StagesInv, PipelineTypeOK
<1>1. MovesInv /\ StagesInv /\ [OpportunitiesNext]_opportunityVars => MovesInv' BY <1>0, MovesStepKeeps
<1>2. MovesInv /\ StagesInv /\ [OpportunitiesNext]_opportunityVars =>
        [\A o \in Opportunities :
           opportunity[o].state # "none" /\ ~IsOpen(o) /\ IsOpen(o)' =>
             \E r \in Movers : /\ mover[r].op = "reopen" /\ o \in mover[r].opportunities
                               /\ mover'[r] = NoMove]_opportunityVars
  BY <1>0, MovesStepKeeps
<1> QED BY <1>1, <1>2, MovesStart, StagesAlways, PTL DEF OpportunitiesSpec, ReopenedOnlyExplicitly

----------------------------------------------------------------------------
(* Follow-ups.                                                              *)

Rows == [status : FollowUpStatus, archived : BOOLEAN, opportunity : Opportunities \cup {NoOpportunity},
         user : Assignees \cup {NoAssignee}, due : DueTimes \cup {NoDue}, auto : BOOLEAN,
         from : FollowUpIds \cup {NoFollowUp}]

\* What has not been inserted replaces nothing.
AbsentReplacesNone == \A f \in FollowUpIds : Absent(f) => followUp[f].from = NoFollowUp

RowsInv == FollowUpsTypeOK /\ AbsentReplacesNone

CountsReplacements ==
  \A f \in FollowUpIds :
    LET now == followUp[f].status = "PENDING" /\ followUp'[f].status = "RESCHEDULED"
    IN Cardinality(Replacements(f)') = Cardinality(Replacements(f)) + (IF now THEN 1 ELSE 0)

LEMMA ReplacementsFinite ==
  ASSUME NEW f PROVE IsFiniteSet(Replacements(f)) /\ Cardinality(Replacements(f)) \in Nat
BY FollowUpsAssumption, FS_Subset, FS_CardinalityType DEF Replacements

LEMMA RowsStart == OpportunitiesInit => RowsInv
BY FollowUpsAssumption
DEF OpportunitiesInit, FollowUpsInit, RowsInv, FollowUpsTypeOK, AbsentReplacesNone, NoRow, IdleScheduler,
    FollowUpStatus, Absent

\* Rows that replace what they replaced, with none newly rescheduled.
LEMMA QuietKept ==
  ASSUME RowsInv, FollowUpsTypeOK',
         \A g \in FollowUpIds :
           /\ followUp'[g].from = followUp[g].from
           /\ followUp'[g].status = "none" => followUp[g].status = "none"
           /\ followUp'[g].status = "RESCHEDULED" => followUp[g].status = "RESCHEDULED"
  PROVE  RowsInv' /\ CountsReplacements
<1>1. AbsentReplacesNone' BY DEF RowsInv, AbsentReplacesNone, Absent
<1>2. \A f \in FollowUpIds : Replacements(f)' = Replacements(f) BY DEF Replacements
<1>3. CountsReplacements BY <1>2, ReplacementsFinite DEF CountsReplacements
<1> QED BY <1>1, <1>3 DEF RowsInv

LEMMA RowChangeKept ==
  ASSUME RowsInv, NEW f \in FollowUpIds, NEW row \in Rows, followUp' = [followUp EXCEPT ![f] = row],
         row.from = followUp[f].from, row.status \notin {"none", "RESCHEDULED"} \/ row.status = followUp[f].status,
         scheduler' = scheduler
  PROVE  RowsInv' /\ CountsReplacements
<1>1. FollowUpsTypeOK' BY DEF RowsInv, FollowUpsTypeOK, Rows
<1> QED BY <1>1, QuietKept DEF RowsInv, FollowUpsTypeOK

LEMMA InsertionKept ==
  ASSUME RowsInv, NEW f \in FollowUpIds, NEW o \in Opportunities, NEW u \in Assignees,
         NEW d \in DueTimes, NEW auto \in BOOLEAN,
         Absent(f), followUp' = [followUp EXCEPT ![f] = Inserted(o, u, d, auto, NoFollowUp)],
         scheduler' = scheduler
  PROVE  RowsInv' /\ CountsReplacements
<1> DEFINE row == Inserted(o, u, d, auto, NoFollowUp)
<1>1. row \in Rows BY DEF Inserted, Rows, FollowUpStatus
<1>2. row.from = followUp[f].from BY DEF RowsInv, AbsentReplacesNone, Inserted
<1>3. row.status = "PENDING" BY DEF Inserted
<1>4. followUp' = [followUp EXCEPT ![f] = row] OBVIOUS
<1> HIDE DEF row
<1> QED BY <1>1, <1>2, <1>3, <1>4, RowChangeKept

\* The original goes from pending to rescheduled and gets one replacement more.
LEMMA ReplacementKept ==
  ASSUME RowsInv, NEW r \in Schedulers, NEW f \in FollowUpIds, NEW g \in FollowUpIds, RescheduleFollowUp(r, f, g)
  PROVE  RowsInv' /\ CountsReplacements
<1> DEFINE new == Inserted(followUp[f].opportunity, scheduler[r].user, scheduler[r].due, FALSE, f)
<1>0. f # g /\ f # NoFollowUp BY FollowUpsAssumption DEF RescheduleFollowUp, Pending, Absent
<1>1. /\ followUp'[g] = new
      /\ followUp'[f] = [followUp[f] EXCEPT !.status = "RESCHEDULED"]
      /\ \A h \in FollowUpIds \ {f, g} : followUp'[h] = followUp[h]
  BY <1>0 DEF RescheduleFollowUp, RowsInv, FollowUpsTypeOK
<1>2. /\ followUp'[g].from = f /\ followUp'[g].status = "PENDING"
      /\ followUp[g].from = NoFollowUp /\ followUp[g].status = "none"
  BY <1>1 DEF Inserted, RescheduleFollowUp, RowsInv, AbsentReplacesNone, Absent
<1>3. /\ followUp'[f].from = followUp[f].from /\ followUp'[f].status = "RESCHEDULED"
      /\ followUp[f].status = "PENDING"
  <2>1. followUp[f] \in Rows BY DEF RowsInv, FollowUpsTypeOK, Rows
  <2>2. /\ [followUp[f] EXCEPT !.status = "RESCHEDULED"].from = followUp[f].from
        /\ [followUp[f] EXCEPT !.status = "RESCHEDULED"].status = "RESCHEDULED"
    BY <2>1 DEF Rows
  <2>3. followUp[f].status = "PENDING" BY DEF RescheduleFollowUp, Pending
  <2> QED BY <1>1, <2>2, <2>3
<1>4. FollowUpsTypeOK'
  <2>1. new \in Rows BY DEF Inserted, Rows, FollowUpStatus, RowsInv, FollowUpsTypeOK
  <2>2. [followUp[f] EXCEPT !.status = "RESCHEDULED"] \in Rows
    BY DEF Rows, FollowUpStatus, RowsInv, FollowUpsTypeOK
  <2>3. followUp' \in [FollowUpIds -> Rows]
    BY <1>1, <2>1, <2>2 DEF RescheduleFollowUp, RowsInv, FollowUpsTypeOK, Rows
  <2>4. scheduler' \in [Schedulers -> [followUp : FollowUpIds \cup {NoFollowUp}, user : Assignees \cup {NoAssignee},
                                     due : DueTimes \cup {NoDue}]]
    BY DEF RescheduleFollowUp, IdleScheduler, RowsInv, FollowUpsTypeOK
  <2> QED BY <2>3, <2>4 DEF FollowUpsTypeOK, Rows
<1>a. \A h \in FollowUpIds \ {f, g} : followUp'[h].from = followUp[h].from /\ followUp'[h].status = followUp[h].status
  BY <1>1
<1> HIDE DEF new
<1>5. AbsentReplacesNone' BY <1>a, <1>2, <1>3 DEF RowsInv, AbsentReplacesNone, Absent
<1>6. Replacements(f)' = Replacements(f) \cup {g} /\ g \notin Replacements(f)
  BY <1>0, <1>a, <1>2, <1>3 DEF Replacements
<1>7. \A h \in FollowUpIds \ {f} : Replacements(h)' = Replacements(h)
  BY <1>a, <1>2, <1>3, FollowUpsAssumption DEF Replacements
<1>8. Cardinality(Replacements(f)') = Cardinality(Replacements(f)) + 1
  BY <1>6, ReplacementsFinite, FS_AddElement
<1>9. CountsReplacements
  BY <1>a, <1>2, <1>3, <1>7, <1>8, ReplacementsFinite DEF CountsReplacements
<1> QED BY <1>4, <1>5, <1>9 DEF RowsInv

LEMMA RowsStepKeeps ==
  ASSUME RowsInv, MovesTypeOK, active \subseteq Stages, [OpportunitiesNext]_opportunityVars
  PROVE  RowsInv' /\ CountsReplacements
<1>0. followUp \in [FollowUpIds -> Rows] BY DEF RowsInv, FollowUpsTypeOK, Rows
<1>1. ASSUME FollowUpsTypeOK', followUp' = followUp PROVE RowsInv' /\ CountsReplacements
  BY <1>1, QuietKept
<1>2. ASSUME UNCHANGED followUpVars PROVE RowsInv' /\ CountsReplacements
  <2>1. FollowUpsTypeOK' BY <1>2 DEF followUpVars, RowsInv, FollowUpsTypeOK
  <2> QED BY <1>1, <1>2, <2>1 DEF followUpVars
<1>3. ASSUME NEW f \in FollowUpIds, CompleteFollowUp(f) \/ CancelFollowUp(f) PROVE RowsInv' /\ CountsReplacements
  <2>1. PICK st \in {"COMPLETED", "CANCELLED"} : followUp' = [followUp EXCEPT ![f].status = st]
    BY <1>3 DEF CompleteFollowUp, CancelFollowUp
  <2>2. followUp' = [followUp EXCEPT ![f] = [followUp[f] EXCEPT !.status = st]] BY <1>0, <2>1
  <2>3. [followUp[f] EXCEPT !.status = st] \in Rows BY <1>0 DEF Rows, FollowUpStatus
  <2>4. /\ [followUp[f] EXCEPT !.status = st].from = followUp[f].from
        /\ [followUp[f] EXCEPT !.status = st].status = st
    BY <1>0 DEF Rows
  <2> QED BY <1>3, <2>2, <2>3, <2>4, RowChangeKept DEF CompleteFollowUp, CancelFollowUp
<1>4. ASSUME NEW f \in FollowUpIds, ArchiveFollowUp(f) \/ RestoreFollowUp(f) PROVE RowsInv' /\ CountsReplacements
  <2>1. PICK b \in BOOLEAN : followUp' = [followUp EXCEPT ![f].archived = b]
    BY <1>4 DEF ArchiveFollowUp, RestoreFollowUp
  <2>2. followUp' = [followUp EXCEPT ![f] = [followUp[f] EXCEPT !.archived = b]] BY <1>0, <2>1
  <2>3. [followUp[f] EXCEPT !.archived = b] \in Rows BY <1>0 DEF Rows
  <2>4. /\ [followUp[f] EXCEPT !.archived = b].from = followUp[f].from
        /\ [followUp[f] EXCEPT !.archived = b].status = followUp[f].status
    BY <1>0 DEF Rows
  <2> QED BY <1>4, <2>2, <2>3, <2>4, RowChangeKept DEF ArchiveFollowUp, RestoreFollowUp
<1>5. CASE FollowUpStep
  <2>1. ASSUME NEW f \in FollowUpIds, NEW o \in Opportunities, NEW u \in Assignees, NEW d \in DueTimes,
               CreateFollowUp(f, o, u, d, Available[o])
        PROVE  RowsInv' /\ CountsReplacements
    BY <2>1, InsertionKept DEF CreateFollowUp
  <2>2. ASSUME NEW r \in Schedulers, NEW f \in FollowUpIds, NEW d \in DueTimes, ReadFollowUp(r, f, d)
        PROVE  RowsInv' /\ CountsReplacements
    <3>1. FollowUpsTypeOK' BY <2>2 DEF ReadFollowUp, RowsInv, FollowUpsTypeOK
    <3> QED BY <1>1, <2>2, <3>1 DEF ReadFollowUp
  <2>3. ASSUME NEW r \in Schedulers, RefuseReschedule(r) PROVE RowsInv' /\ CountsReplacements
    <3>1. FollowUpsTypeOK' BY <2>3 DEF RefuseReschedule, IdleScheduler, RowsInv, FollowUpsTypeOK
    <3> QED BY <1>1, <2>3, <3>1 DEF RefuseReschedule
  <2>4. ASSUME NEW f \in FollowUpIds, NEW u \in Assignees, AssignFollowUp(f, u)
        PROVE  RowsInv' /\ CountsReplacements
    <3> DEFINE row == [followUp[f] EXCEPT !.user = u]
    <3>1. followUp' = [followUp EXCEPT ![f] = row] /\ scheduler' = scheduler
      BY <1>0, <2>4 DEF AssignFollowUp
    <3>2. row \in Rows BY <1>0 DEF Rows
    <3>3. row.from = followUp[f].from /\ row.status = followUp[f].status BY <1>0 DEF Rows
    <3> HIDE DEF row
    <3> QED BY <3>1, <3>2, <3>3, RowChangeKept
  <2> QED BY <1>3, <1>4, <1>5, <2>1, <2>2, <2>3, <2>4, ReplacementKept DEF FollowUpStep, FollowUpsNext
<1>6. ASSUME NEW o \in Opportunities, NEW s \in Stages, CreateIn(o, s) PROVE RowsInv' /\ CountsReplacements
  BY <1>2, <1>6, InsertionKept DEF CreateIn, FirstFollowUp, followUpVars
<1>7. CASE CreationStep
  BY <1>2, <1>6, <1>7 DEF CreationStep, CreateOpportunity, CreateLead, CreateWithContact
<1>8. ASSUME NEW r \in Movers, NEW o \in mover[r].opportunities, NEW s \in mover[r].to,
             NEW e \in mover[r].found, CommitMove(r, o, s, e)
      PROVE  RowsInv' /\ CountsReplacements
  <2>0. o \in Opportunities /\ e \in FollowUpIds \cup {NoFollowUp} /\ scheduler' = scheduler
    BY <1>8 DEF MovesTypeOK, CommitMove
  <2>1. CASE followUp' = followUp BY <1>2, <2>0, <2>1 DEF followUpVars
  <2>2. ASSUME followUp' = CancelledByStage(e), followUp' # followUp PROVE RowsInv' /\ CountsReplacements
    <3> DEFINE row == [followUp[e] EXCEPT !.status = "CANCELLED", !.auto = TRUE]
    <3>1. e \in FollowUpIds BY <2>0, <2>2 DEF CancelledByStage
    <3>2. followUp' = [followUp EXCEPT ![e] = row] BY <1>0, <2>2, <3>1 DEF CancelledByStage
    <3>3. row \in Rows BY <1>0, <3>1 DEF Rows, FollowUpStatus
    <3>4. row.from = followUp[e].from /\ row.status = "CANCELLED" BY <1>0, <3>1 DEF Rows
    <3> HIDE DEF row
    <3> QED BY <2>0, <3>1, <3>2, <3>3, <3>4, RowChangeKept
  <2>3. ASSUME NEW d \in DueTimes, NEW auto \in BOOLEAN, e # NoFollowUp, followUp' = Redated(e, d, auto),
               followUp' # followUp
        PROVE  RowsInv' /\ CountsReplacements
    <3> DEFINE row == [followUp[e] EXCEPT !.status = "PENDING", !.due = d, !.auto = auto]
    <3>1. e \in FollowUpIds BY <2>0, <2>3
    <3>2. followUp' = [followUp EXCEPT ![e] = row] BY <1>0, <2>3, <3>1 DEF Redated
    <3>3. row \in Rows BY <1>0, <3>1 DEF Rows, FollowUpStatus
    <3>4. row.from = followUp[e].from /\ row.status = "PENDING" BY <1>0, <3>1 DEF Rows
    <3> HIDE DEF row
    <3> QED BY <2>0, <3>1, <3>2, <3>3, <3>4, RowChangeKept
  <2>4. ASSUME NEW d \in DueTimes, NEW auto \in BOOLEAN, NEW f \in FollowUpIds,
               NEW u \in Assignees, Absent(f),
               followUp' = [followUp EXCEPT ![f] = Inserted(o, u, d, auto, NoFollowUp)]
        PROVE  RowsInv' /\ CountsReplacements
    BY <2>0, <2>4, InsertionKept
  <2> QED BY <1>8, <2>1, <2>2, <2>3, <2>4 DEF CommitMove, SyncFollowUp
<1>9. CASE MoveStep
  <2>1. \/ UNCHANGED followUpVars
        \/ \E r \in Movers : \E o \in mover[r].opportunities, s \in mover[r].to, e \in mover[r].found :
             CommitMove(r, o, s, e)
    BY <1>9 DEF MoveStep, ReadForMove, ReadForReopen, Reads, UpdateOpportunity, RefuseMove
  <2> QED BY <1>2, <1>8, <2>1
<1>10. CASE OpportunityStep
  <2>1. ASSUME NEW o \in Opportunities, NEW s \in Stages, MarkPurchased(o, s)
        PROVE  RowsInv' /\ CountsReplacements
    <3>1. followUp' \in [FollowUpIds -> Rows]
      BY <1>0, <2>1 DEF MarkPurchased, CancelledBySale, Rows, FollowUpStatus
    <3>2. FollowUpsTypeOK' BY <2>1, <3>1 DEF MarkPurchased, RowsInv, FollowUpsTypeOK, Rows
    <3>3. \A g \in FollowUpIds : /\ followUp'[g].from = followUp[g].from
                                 /\ followUp'[g].status \in {followUp[g].status, "CANCELLED"}
      BY <1>0, <2>1 DEF MarkPurchased, CancelledBySale, Rows
    <3> QED BY <3>2, <3>3, QuietKept
  <2> QED BY <1>2, <1>10, <2>1 DEF OpportunityStep, ArchiveOpportunity, RestoreOpportunity
<1>11. CASE StagesStep BY <1>2, <1>11 DEF StagesStep
<1>12. CASE UNCHANGED opportunityVars BY <1>2, <1>12 DEF opportunityVars
<1> QED BY <1>5, <1>7, <1>9, <1>10, <1>11, <1>12 DEF OpportunitiesNext

\* A follow-up gets its replacement when it is rescheduled and never another,
\* for any number of requests that race.
THEOREM ReplacedOnce == OpportunitiesSpec => RescheduledOnce
<1>0. StagesInv => active \subseteq Stages BY DEF StagesInv, PipelineTypeOK
<1>1. RowsInv /\ MovesInv /\ StagesInv /\ [OpportunitiesNext]_opportunityVars =>
        RowsInv' /\ CountsReplacements
  BY <1>0, RowsStepKeeps DEF MovesInv
<1>2. RowsInv /\ MovesInv /\ StagesInv /\ [OpportunitiesNext]_opportunityVars =>
        [CountsReplacements]_followUpVars
  BY <1>1
<1>3. MovesInv /\ StagesInv /\ [OpportunitiesNext]_opportunityVars => MovesInv' BY <1>0, MovesStepKeeps
<1>4. [][CountsReplacements]_followUpVars => RescheduledOnce BY DEF CountsReplacements, RescheduledOnce
<1> QED BY <1>1, <1>2, <1>3, <1>4, RowsStart, MovesStart, StagesAlways, PTL DEF OpportunitiesSpec
==============================================================================
