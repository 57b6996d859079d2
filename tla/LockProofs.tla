----------------------------- MODULE LockProofs -----------------------------
(* What five kinds of lock give, proved by TLAPS for any number of those who *)
(* contend for them: the advisory lock that creates trials, the claim of a   *)
(* synchronisation checkpoint, the lock row of the weekly refresh, the row   *)
(* of a recurring template, and the rows of fulfillments and activations.    *)
EXTENDS Trials, ReadOnlySync, FxRefresh, RecurringExpenses, Provisioning, FiniteSetTheorems, TLAPS

----------------------------------------------------------------------------
(* Trials.                                                                 *)

\* Who found a free slot holds the lock of its offer, and it is still free.
HolderFoundFree ==
  \A r \in Requests : request[r] # NoSlot => holder[request[r].offer] = r /\ ~Busy(request[r])

\* The same after the step.
BusyNext(p) == \E t \in TrialIds : trial'[t].status \in LiveTrial /\ Overlap(trial'[t].slot, p)

SoldIsConverted == \A t \in TrialIds : trial[t].sold => trial[t].status = "CONVERTED"

TrialsInv == TrialsTypeOK /\ HolderFoundFree /\ SoldIsConverted /\ NoOverlappingTrials

LEMMA TrialsStart == TrialsInit => TrialsInv
<1> SUFFICES ASSUME TrialsInit PROVE TrialsInv OBVIOUS
<1>1. NoTrial \in [status : TrialStatus, slot : Slots \cup {NoSlot}, sold : BOOLEAN]
  BY DEF NoTrial, TrialStatus
<1>2. TrialsTypeOK BY <1>1 DEF TrialsInit, TrialsTypeOK
<1>3. \A t \in TrialIds : trial[t].status = "none" /\ ~trial[t].sold /\ sales[t] = 0
  BY DEF TrialsInit, NoTrial
<1>4. HolderFoundFree BY DEF TrialsInit, HolderFoundFree
<1>5. SoldIsConverted BY <1>3 DEF SoldIsConverted
<1>6. NoOverlappingTrials BY <1>3 DEF NoOverlappingTrials, Live, LiveTrial
<1> QED BY <1>2, <1>4, <1>5, <1>6 DEF TrialsInv

\* Changes of trials after which no other one is live.
LEMMA NoMoreLive ==
  ASSUME TrialsInv, TrialsTypeOK', SoldIsConverted',
         \A t \in TrialIds : /\ Live(t)' => Live(t)
                             /\ trial'[t].slot = trial[t].slot
                             /\ sales'[t] = IF trial'[t].sold THEN 1 ELSE 0,
         request' = request, holder' = holder
  PROVE  TrialsInv'
<1>1. \A p : Busy(p)' => Busy(p) BY DEF Busy
<1>2. HolderFoundFree'
  <2>1. ASSUME NEW r \in Requests, request'[r] # NoSlot
        PROVE  holder'[request'[r].offer] = r /\ ~(\E t \in TrialIds : Live(t)' /\ Overlap(trial[t].slot, request[r]))
    BY <2>1 DEF TrialsInv, HolderFoundFree, Busy
  <2>2. ASSUME NEW r \in Requests, request'[r] # NoSlot
        PROVE  ~(\E t \in TrialIds : Live(t)' /\ Overlap(trial[t].slot, request[r])')
    BY <2>1, <2>2 DEF Overlap
  <2> QED BY <2>1, <2>2 DEF HolderFoundFree, Busy
<1>3. NoOverlappingTrials' BY DEF TrialsInv, NoOverlappingTrials, Overlap
<1> QED BY <1>2, <1>3 DEF TrialsInv

\* The end of a request leaves those that hold the lock of other offers.
LEMMA EndingTypes ==
  ASSUME TrialsTypeOK, NEW r \in Requests, EndCreation(r)
  PROVE  /\ request' \in [Requests -> Slots \cup {NoSlot}]
         /\ holder' \in [Offers -> Requests \cup {NoRequest}]
BY DEF TrialsTypeOK, EndCreation

LEMMA EndingOthers ==
  ASSUME TrialsTypeOK, HolderFoundFree, NEW r \in Requests, EndCreation(r), request[r] # NoSlot,
         NEW s \in Requests, request'[s] # NoSlot
  PROVE  /\ s # r /\ request'[s] = request[s] /\ holder'[request'[s].offer] = s
         /\ request[s].offer # request[r].offer /\ ~Busy(request[s])
<1>1. s # r /\ request'[s] = request[s]
  BY DEF TrialsTypeOK, EndCreation
<1>2. holder[request[s].offer] = s /\ ~Busy(request[s]) /\ holder[request[r].offer] = r
  BY <1>1 DEF HolderFoundFree
<1>3. request[s].offer # request[r].offer
  BY <1>1, <1>2
<1>4. request[s].offer \in Offers
  BY <1>1 DEF TrialsTypeOK, Slots
<1>5. holder'[request[s].offer] = holder[request[s].offer]
  BY <1>3, <1>4 DEF TrialsTypeOK, EndCreation
<1> QED BY <1>1, <1>2, <1>3, <1>5

LEMMA InsertTrialKeeps ==
  ASSUME TrialsInv, NEW r \in Requests, NEW t \in TrialIds, InsertTrial(r, t)
  PROVE  TrialsInv'
<1> DEFINE new == [status |-> "REQUESTED", slot |-> request[r], sold |-> FALSE]
<1>1. /\ trial' = [trial EXCEPT ![t] = new]
      /\ EndCreation(r) /\ sales' = sales
      /\ request[r] # NoSlot /\ trial[t].status = "none"
  BY DEF InsertTrial, EndCreation
<1>2. new \in [status : TrialStatus, slot : Slots \cup {NoSlot}, sold : BOOLEAN]
  BY DEF TrialsInv, TrialsTypeOK, TrialStatus
<1>3. new.status = "REQUESTED" /\ new.slot = request[r] /\ new.sold = FALSE OBVIOUS
<1> HIDE DEF new
<1>4. TrialsTypeOK' BY <1>1, <1>2, EndingTypes DEF TrialsInv, TrialsTypeOK
<1>5. trial'[t] = new /\ \A u \in TrialIds \ {t} : trial'[u] = trial[u]
  BY <1>1 DEF TrialsInv, TrialsTypeOK
<1>7. ~Busy(request[r]) BY <1>1 DEF TrialsInv, HolderFoundFree
<1>8. HolderFoundFree'
  <2>1. SUFFICES ASSUME NEW s \in Requests, request'[s] # NoSlot
                 PROVE  holder'[request'[s].offer] = s /\ ~BusyNext(request'[s])
    BY DEF HolderFoundFree, Busy, BusyNext, Live, Overlap, SameTime
  <2>2. /\ s # r /\ request'[s] = request[s] /\ holder'[request'[s].offer] = s
        /\ request[s].offer # request[r].offer /\ ~Busy(request[s])
    BY <1>1, <2>1, EndingOthers DEF TrialsInv
  <2>3. ASSUME NEW u \in TrialIds, Live(u)', Overlap(trial'[u].slot, request[s]) PROVE FALSE
    <3>1. CASE u = t BY <1>3, <1>5, <2>2, <2>3, <3>1 DEF Overlap
    <3>2. CASE u # t BY <1>5, <2>2, <2>3, <3>2 DEF Live, Busy
    <3> QED BY <3>1, <3>2
  <2> QED BY <2>2, <2>3 DEF BusyNext, Live
<1>9. SoldIsConverted' BY <1>3, <1>5 DEF TrialsInv, SoldIsConverted
<1>10. NoOverlappingTrials'
  <2>1. \A u \in TrialIds \ {t} : Live(u)' => Live(u) /\ ~Overlap(trial[u].slot, request[r])
    BY <1>5, <1>7 DEF Live, Busy
  <2>2. \A u \in TrialIds \ {t} : Live(u)' => ~Overlap(trial'[u].slot, trial'[t].slot)
                                         /\ ~Overlap(trial'[t].slot, trial'[u].slot)
    BY <1>3, <1>5, <2>1 DEF Overlap, SameTime
  <2>3. \A u, v \in TrialIds \ {t} : u # v /\ Live(u)' /\ Live(v)' =>
          ~Overlap(trial'[u].slot, trial'[v].slot)
    BY <1>5 DEF TrialsInv, NoOverlappingTrials, Live
  <2>4. sales'[t] = 0 /\ \A u \in TrialIds \ {t} : sales'[u] = IF trial'[u].sold THEN 1 ELSE 0
    <3>1. ~trial[t].sold BY <1>1 DEF TrialsInv, SoldIsConverted
    <3> QED BY <1>1, <1>5, <3>1 DEF TrialsInv, NoOverlappingTrials
  <2> QED BY <1>3, <1>5, <2>2, <2>3, <2>4 DEF NoOverlappingTrials, Overlap, SameTime
<1> QED BY <1>4, <1>8, <1>9, <1>10 DEF TrialsInv

LEMMA TrialsStep ==
  ASSUME TrialsInv, [TrialsNext]_trialsVars
  PROVE  TrialsInv'
<1>1. ASSUME NEW r \in Requests, NEW p \in Slots, FindFreePeriod(r, p) PROVE TrialsInv'
  <2>1. /\ holder[p.offer] = NoRequest /\ ~Busy(p) /\ holder' = [holder EXCEPT ![p.offer] = r]
        /\ request[r] = NoSlot
        /\ request' = [request EXCEPT ![r] = p] /\ trial' = trial /\ sales' = sales
    BY <1>1 DEF FindFreePeriod, LockFree
  <2>2. TrialsTypeOK' BY <2>1 DEF TrialsInv, TrialsTypeOK
  <2>3. p.offer \in Offers BY DEF Slots
  <2>4. ASSUME NEW s \in Requests, request'[s] # NoSlot
        PROVE  holder'[request'[s].offer] = s /\ ~BusyNext(request'[s])
    <3>1. CASE s = r
      <4>1. request'[s] = p /\ holder'[p.offer] = r
        BY <2>1, <2>3, <3>1 DEF TrialsInv, TrialsTypeOK
      <4> QED BY <2>1, <3>1, <4>1 DEF Busy, BusyNext, Live
    <3>2. CASE s # r
      <4>1. request'[s] = request[s]
        BY <2>1, <3>2 DEF TrialsInv, TrialsTypeOK
      <4>2. holder[request[s].offer] = s /\ ~Busy(request[s])
        BY <2>4, <4>1 DEF TrialsInv, HolderFoundFree
      <4>3. request[s].offer \in Offers /\ request[s].offer # p.offer
        <5>1. request[s].offer \in Offers
          BY <2>4, <4>1 DEF TrialsInv, TrialsTypeOK, Slots
        <5> QED BY <2>1, <4>2, <5>1, TrialsAssumption DEF TrialsAssumption
      <4>4. holder'[request[s].offer] = s
        BY <2>1, <2>3, <4>2, <4>3 DEF TrialsInv, TrialsTypeOK
      <4> QED BY <2>1, <4>1, <4>2, <4>4 DEF Busy, BusyNext, Live
    <3> QED BY <3>1, <3>2
  <2>5. SoldIsConverted' /\ NoOverlappingTrials'
    BY <2>1 DEF TrialsInv, SoldIsConverted, NoOverlappingTrials, Live
  <2>6. HolderFoundFree' BY <2>4 DEF HolderFoundFree, Busy, BusyNext, Live, Overlap, SameTime
  <2> QED BY <2>2, <2>5, <2>6 DEF TrialsInv
<1>2. ASSUME NEW r \in Requests, AbortCreation(r) PROVE TrialsInv'
  <2>1. /\ request[r] # NoSlot /\ EndCreation(r) /\ trial' = trial /\ sales' = sales
    BY <1>2 DEF AbortCreation, EndCreation
  <2>2. TrialsTypeOK' BY <2>1, EndingTypes DEF TrialsInv, TrialsTypeOK
  <2>3. ASSUME NEW s \in Requests, request'[s] # NoSlot
        PROVE  holder'[request'[s].offer] = s /\ ~BusyNext(request'[s])
    <3>1. request'[s] = request[s] /\ holder'[request'[s].offer] = s /\ ~Busy(request[s])
      BY <2>1, <2>3, EndingOthers DEF TrialsInv
    <3> QED BY <2>1, <3>1 DEF Busy, BusyNext, Live
  <2>4. SoldIsConverted' /\ NoOverlappingTrials'
    BY <2>1 DEF TrialsInv, SoldIsConverted, NoOverlappingTrials, Live
  <2>5. HolderFoundFree' BY <2>3 DEF HolderFoundFree, Busy, BusyNext, Live, Overlap, SameTime
  <2> QED BY <2>2, <2>4, <2>5 DEF TrialsInv
<1>3. ASSUME NEW t \in TrialIds, NEW to \in {"APPROVED", "ACTIVE", "EXPIRED", "CANCELLED"}, Transition(t, to)
      PROVE  TrialsInv'
  <2>1. /\ trial[t].status # "none" /\ MayBecome(trial[t].status, to)
        /\ trial' = [trial EXCEPT ![t].status = to]
        /\ request' = request /\ holder' = holder /\ sales' = sales
    BY <1>3 DEF Transition
  <2>2. TrialsTypeOK'
    <3>1. trial[t] \in [status : TrialStatus, slot : Slots \cup {NoSlot}, sold : BOOLEAN]
      BY DEF TrialsInv, TrialsTypeOK
    <3>2. to \in TrialStatus BY DEF TrialStatus
    <3>3. [trial[t] EXCEPT !.status = to] \in [status : TrialStatus, slot : Slots \cup {NoSlot}, sold : BOOLEAN]
      BY <3>1, <3>2
    <3> QED BY <2>1, <3>3 DEF TrialsInv, TrialsTypeOK
  <2>3. /\ trial'[t].status = to /\ trial'[t].slot = trial[t].slot /\ trial'[t].sold = trial[t].sold
        /\ \A u \in TrialIds \ {t} : trial'[u] = trial[u]
    BY <2>1 DEF TrialsInv, TrialsTypeOK
  <2>4. \A u \in TrialIds : Live(u)' => Live(u)
    BY <2>1, <2>3 DEF Live, LiveTrial, MayBecome
  <2>5. SoldIsConverted' BY <2>1, <2>3 DEF TrialsInv, SoldIsConverted, MayBecome
  <2>6. \A u \in TrialIds : trial'[u].slot = trial[u].slot
                            /\ sales'[u] = IF trial'[u].sold THEN 1 ELSE 0
    BY <2>1, <2>3 DEF TrialsInv, NoOverlappingTrials
  <2> QED BY <2>1, <2>2, <2>4, <2>5, <2>6, NoMoreLive
<1>4. ASSUME NEW t \in TrialIds, Convert(t) PROVE TrialsInv'
  <2>1. /\ trial[t].status = "ACTIVE"
        /\ trial' = [trial EXCEPT ![t].status = "CONVERTED", ![t].sold = TRUE]
        /\ sales' = [sales EXCEPT ![t] = @ + 1]
        /\ request' = request /\ holder' = holder
    BY <1>4 DEF Convert
  <2>2. TrialsTypeOK'
    <3>1. trial' \in [TrialIds -> [status : TrialStatus, slot : Slots \cup {NoSlot}, sold : BOOLEAN]]
      BY <2>1 DEF TrialsInv, TrialsTypeOK, TrialStatus
    <3>2. sales' \in [TrialIds -> Nat] BY <2>1 DEF TrialsInv, TrialsTypeOK
    <3> QED BY <2>1, <3>1, <3>2 DEF TrialsInv, TrialsTypeOK
  <2>3. /\ trial'[t].status = "CONVERTED" /\ trial'[t].slot = trial[t].slot /\ trial'[t].sold = TRUE
        /\ \A u \in TrialIds \ {t} : trial'[u] = trial[u]
        /\ sales'[t] = sales[t] + 1 /\ \A u \in TrialIds \ {t} : sales'[u] = sales[u]
    BY <2>1 DEF TrialsInv, TrialsTypeOK
  <2>4. \A u \in TrialIds : Live(u)' => Live(u) BY <2>3 DEF Live, LiveTrial
  <2>5. SoldIsConverted' BY <2>3 DEF TrialsInv, SoldIsConverted
  <2>6. sales[t] = 0 BY <2>1 DEF TrialsInv, SoldIsConverted, NoOverlappingTrials
  <2>7. \A u \in TrialIds : trial'[u].slot = trial[u].slot
                            /\ sales'[u] = IF trial'[u].sold THEN 1 ELSE 0
    BY <2>3, <2>6 DEF TrialsInv, NoOverlappingTrials
  <2> QED BY <2>1, <2>2, <2>4, <2>5, <2>7, NoMoreLive
<1>5. CASE UNCHANGED trialsVars
  BY <1>5 DEF trialsVars, TrialsInv, TrialsTypeOK, HolderFoundFree, SoldIsConverted,
              NoOverlappingTrials, Live, Busy
<1> QED BY <1>1, <1>2, <1>3, <1>4, <1>5, InsertTrialKeeps DEF TrialsNext

\* Whatever requests race, no two trials of a pair are live at once, and none
\* is sold twice.
THEOREM TrialsNeverOverlap == TrialsSpec => []NoOverlappingTrials
<1>1. TrialsInv /\ [TrialsNext]_trialsVars => TrialsInv' BY TrialsStep
<1>2. TrialsInv => NoOverlappingTrials BY DEF TrialsInv
<1> QED BY <1>1, <1>2, TrialsStart, PTL DEF TrialsSpec

----------------------------------------------------------------------------
(* Runs of the synchronisation.                                            *)

\* The cursors of a run: TypeOK without the arithmetic of Newest.
SyncShape ==
  /\ checkpoint \in [status : SyncStatus, lapsed : BOOLEAN, retry : BOOLEAN,
                     cursor : {Newest(S) : S \in SUBSET Sent}]
  /\ exec \in [Runs -> [phase : SyncPhase, kind : {"run", "reindex"}, busy : BOOLEAN,
                        cursor : {Newest(S) : S \in SUBSET Sent}, page : SUBSET Sent]]
  /\ received \subseteq Sent
  /\ outlasted \in BOOLEAN /\ undone \in BOOLEAN

\* At work, or still to write that its work failed.
AtWork(r) == Working(r) \/ exec[r].phase = "fail"

\* Nobody lost the claim it works under.
Owned ==
  ~outlasted /\ ~undone => \A r \in Runs : AtWork(r) =>
    /\ checkpoint.status = "RUNNING" /\ ~checkpoint.lapsed
    /\ \A s \in Runs : AtWork(s) => s = r

SyncInv == SyncShape /\ Owned

LEMMA NoExecShape ==
  NoExec \in [phase : SyncPhase, kind : {"run", "reindex"}, busy : BOOLEAN,
              cursor : {Newest(S) : S \in SUBSET Sent}, page : SUBSET Sent]
<1>1. Newest({}) = 0 BY DEF Newest
<1> QED BY <1>1 DEF NoExec, SyncPhase

LEMMA SyncStart == SyncInit => SyncInv
<1>1. Newest({}) = 0 BY DEF Newest
<1>2. SyncInit => SyncShape
  <2>1. 0 \in {Newest(S) : S \in SUBSET Sent} BY <1>1
  <2>2. SyncInit => /\ exec \in [Runs -> [phase : SyncPhase, kind : {"run", "reindex"}, busy : BOOLEAN,
                                  cursor : {Newest(S) : S \in SUBSET Sent}, page : SUBSET Sent]]
                    /\ received \subseteq Sent /\ outlasted \in BOOLEAN /\ undone \in BOOLEAN
    BY NoExecShape DEF SyncInit
  <2>3. SyncInit => checkpoint \in [status : SyncStatus, lapsed : BOOLEAN, retry : BOOLEAN,
                                   cursor : {Newest(S) : S \in SUBSET Sent}]
    BY <2>1 DEF SyncInit, SyncStatus
  <2> QED BY <2>2, <2>3 DEF SyncShape
<1>3. SyncInit => Owned BY DEF SyncInit, Owned, AtWork, Working, NoExec
<1> QED BY <1>2, <1>3 DEF SyncInv

\* The outcome of a run at work leaves nobody at work.
LEMMA OutcomeKeeps ==
  ASSUME Owned, NEW r \in Runs, AtWork(r), outlasted' = outlasted, undone' = undone,
         \A s \in Runs : AtWork(s)' => AtWork(s) /\ s # r
  PROVE  Owned'
BY DEF Owned

\* A run that goes on under its claim, or ends without an outcome.
LEMMA GoingOnKeeps ==
  ASSUME Owned, checkpoint' = checkpoint, outlasted' = outlasted, undone' = undone,
         \A s \in Runs : AtWork(s)' => AtWork(s)
  PROVE  Owned'
BY DEF Owned

LEMMA ClaimKeeps ==
  ASSUME SyncInv, NEW r \in Runs, ClaimCheckpoint(r)
  PROVE  SyncInv'
<1> USE DEF SyncInv
<1> DEFINE claimed == [checkpoint EXCEPT !.status = "RUNNING", !.lapsed = FALSE, !.retry = FALSE]
           working == [exec[r] EXCEPT !.phase = IF exec[r].kind = "run" THEN "read" ELSE "reindex",
                                      !.cursor = checkpoint.cursor]
           won == Claimable /\ ~exec[r].busy
<1>1. /\ exec[r].phase = "claim"
      /\ exec' = [exec EXCEPT ![r] = IF won THEN working ELSE NoExec]
      /\ checkpoint' = IF Claimable THEN claimed ELSE checkpoint
      /\ outlasted' = outlasted /\ undone' = undone /\ received' = received
  BY DEF ClaimCheckpoint
<1>2. claimed \in [status : SyncStatus, lapsed : BOOLEAN, retry : BOOLEAN,
                   cursor : {Newest(S) : S \in SUBSET Sent}]
      /\ claimed.status = "RUNNING" /\ claimed.lapsed = FALSE
  BY DEF SyncShape, SyncStatus
<1>3. working \in [phase : SyncPhase, kind : {"run", "reindex"}, busy : BOOLEAN,
                   cursor : {Newest(S) : S \in SUBSET Sent}, page : SUBSET Sent]
  BY DEF SyncShape, SyncPhase
<1> HIDE DEF claimed, working
<1>4. SyncShape' BY <1>1, <1>2, <1>3, NoExecShape DEF SyncShape
<1>5. \A s \in Runs \ {r} : AtWork(s)' = AtWork(s)
  BY <1>1 DEF SyncShape, AtWork, Working
<1>6. ~won => ~AtWork(r)' BY <1>1 DEF SyncShape, AtWork, Working, NoExec
<1>7. Claimable => (~outlasted /\ ~undone => \A s \in Runs : ~AtWork(s)) BY DEF Owned, Claimable
<1>8. Owned'
  <2>1. CASE Claimable BY <1>1, <1>2, <1>5, <1>7, <2>1 DEF Owned
  <2>2. CASE ~Claimable
    <3>1. checkpoint' = checkpoint /\ ~AtWork(r)' BY <1>1, <1>6, <2>2
    <3> QED BY <1>1, <1>5, <3>1, GoingOnKeeps
  <2> QED BY <2>1, <2>2
<1> QED BY <1>4, <1>8

LEMMA SucceedKeeps ==
  ASSUME SyncInv, NEW r \in Runs, Working(r), NEW S \in SUBSET Sent, Succeed(r, Newest(S)),
         received' = received, outlasted' = outlasted, undone' = undone
  PROVE  SyncInv'
<1> USE DEF SyncInv
<1> DEFINE closing == [NoExec EXCEPT !.phase = "close"]
<1>0. /\ closing \in [phase : SyncPhase, kind : {"run", "reindex"}, busy : BOOLEAN,
                       cursor : {Newest(Q) : Q \in SUBSET Sent}, page : SUBSET Sent]
      /\ closing.phase = "close" /\ exec' = [exec EXCEPT ![r] = closing]
  BY NoExecShape DEF NoExec, SyncPhase, Succeed
<1> HIDE DEF closing
<1>1. SyncShape' BY <1>0 DEF Succeed, SyncShape, SyncStatus
<1>2. \A s \in Runs : AtWork(s)' => AtWork(s) /\ s # r
  BY <1>0 DEF Succeed, SyncShape, AtWork, Working, NoExec
<1> QED BY <1>1, <1>2, OutcomeKeeps DEF AtWork

LEMMA SyncStep ==
  ASSUME SyncInv, [SyncNext]_syncVars
  PROVE  SyncInv'
<1> USE DEF SyncInv
<1> DEFINE Execs == [phase : SyncPhase, kind : {"run", "reindex"}, busy : BOOLEAN,
                     cursor : {Newest(S) : S \in SUBSET Sent}, page : SUBSET Sent]
<1>1. ASSUME NEW m \in Sent, StoreInbound(m) PROVE SyncInv'
  BY <1>1 DEF StoreInbound, SyncShape, Owned, AtWork, Working
<1>2. CASE LapseClaim
  <2>1. SyncShape' BY <1>2 DEF LapseClaim, SyncShape
  <2>2. Owned' BY <1>2 DEF LapseClaim, Owned, AtWork, Working
  <2> QED BY <2>1, <2>2
<1>3. CASE ElapseRetry
  <2>1. SyncShape' BY <1>3 DEF ElapseRetry, SyncShape
  <2>2. Owned' BY <1>3 DEF ElapseRetry, Owned, AtWork, Working, SyncShape
  <2> QED BY <2>1, <2>2
<1>4. ASSUME NEW r \in Runs, NEW kind \in {"run", "reindex"}, ReadCheckpoint(r, kind) PROVE SyncInv'
  <2> DEFINE busy == checkpoint.status = "RUNNING" /\ ~checkpoint.lapsed
             reader == [NoExec EXCEPT !.phase = "claim", !.kind = kind, !.busy = busy]
  <2>1. exec' = [exec EXCEPT ![r] = reader] /\ UNCHANGED <<checkpoint, received, activity, outlasted, undone>>
    BY <1>4 DEF ReadCheckpoint
  <2>2. busy \in BOOLEAN BY DEF SyncShape
  <2> HIDE DEF busy
  <2>3. reader \in Execs /\ reader.phase = "claim" BY <2>2, NoExecShape DEF SyncPhase, NoExec
  <2> HIDE DEF reader
  <2>4. SyncShape' BY <2>1, <2>3 DEF SyncShape
  <2>5. \A s \in Runs : AtWork(s)' => AtWork(s) BY <2>1, <2>3 DEF SyncShape, AtWork, Working
  <2> QED BY <2>1, <2>4, <2>5, GoingOnKeeps
<1>5. ASSUME NEW r \in Runs, ReadPage(r) PROVE SyncInv'
  <2>1. PICK S \in SUBSET Sent : exec[r].cursor = Newest(S) BY DEF SyncShape
  <2>2. PageAfter(exec[r].cursor) \in SUBSET Sent BY DEF PageAfter, After, SyncShape
  <2>3. CASE PageAfter(exec[r].cursor) = {}
    BY <1>5, <2>1, <2>3, SucceedKeeps DEF ReadPage, Working
  <2>4. CASE PageAfter(exec[r].cursor) # {}
    <3>1. /\ exec' = [exec EXCEPT ![r].phase = "apply", ![r].page = PageAfter(exec[r].cursor)]
          /\ checkpoint' = checkpoint /\ received' = received /\ outlasted' = outlasted /\ undone' = undone
          /\ exec[r].phase = "read"
      BY <1>5, <2>4 DEF ReadPage
    <3>2. SyncShape'
      <4>1. [exec[r] EXCEPT !.phase = "apply", !.page = PageAfter(exec[r].cursor)] \in Execs
        BY <2>2 DEF SyncShape, SyncPhase
      <4>2. exec' = [exec EXCEPT ![r] = [exec[r] EXCEPT !.phase = "apply", !.page = PageAfter(exec[r].cursor)]]
        BY <3>1 DEF SyncShape
      <4> HIDE DEF Execs
      <4>3. exec' \in [Runs -> Execs] BY <4>1, <4>2 DEF SyncShape, Execs
      <4> QED BY <3>1, <4>3 DEF SyncShape, Execs
    <3>3. \A s \in Runs : AtWork(s)' => AtWork(s) BY <3>1 DEF SyncShape, AtWork, Working
    <3> QED BY <3>1, <3>2, <3>3, GoingOnKeeps
  <2> QED BY <2>3, <2>4
<1>6. ASSUME NEW r \in Runs, ApplyPage(r) PROVE SyncInv'
  <2>1. exec[r].page \in SUBSET Sent /\ Working(r) BY <1>6 DEF ApplyPage, SyncShape, Working
  <2>2. CASE Cardinality(exec[r].page) < PageSize
    BY <1>6, <2>1, <2>2, SucceedKeeps DEF ApplyPage
  <2>3. CASE ~(Cardinality(exec[r].page) < PageSize)
    <3>1. /\ exec' = [exec EXCEPT ![r].phase = "read", ![r].cursor = Newest(exec[r].page), ![r].page = {}]
          /\ checkpoint' = checkpoint /\ received' = received /\ outlasted' = outlasted /\ undone' = undone
          /\ exec[r].phase = "apply"
      BY <1>6, <2>3 DEF ApplyPage
    <3>2. Newest(exec[r].page) \in {Newest(S) : S \in SUBSET Sent} BY <2>1
    <3>3. SyncShape'
      <4>1. [exec[r] EXCEPT !.phase = "read", !.cursor = Newest(exec[r].page), !.page = {}] \in Execs
        BY <3>2 DEF SyncShape, SyncPhase
      <4>2. exec' = [exec EXCEPT ![r] = [exec[r] EXCEPT !.phase = "read", !.cursor = Newest(exec[r].page), !.page = {}]]
        BY <3>1 DEF SyncShape
      <4> HIDE DEF Execs
      <4>3. exec' \in [Runs -> Execs] BY <4>1, <4>2 DEF SyncShape, Execs
      <4> QED BY <3>1, <4>3 DEF SyncShape, Execs
    <3>4. \A s \in Runs : AtWork(s)' => AtWork(s) BY <3>1 DEF SyncShape, AtWork, Working
    <3> QED BY <3>1, <3>3, <3>4, GoingOnKeeps
  <2> QED BY <2>2, <2>3
<1>7. ASSUME NEW r \in Runs, Reindex(r) PROVE SyncInv'
  <2>1. received \in SUBSET Sent /\ Working(r) BY <1>7 DEF Reindex, SyncShape, Working
  <2> QED BY <1>7, <2>1, SucceedKeeps DEF Reindex
<1>8. ASSUME NEW r \in Runs, ThrowInRun(r) PROVE SyncInv'
  <2>1. SyncShape'
    <3>1. PICK ph \in {"fail", "undo"} : exec' = [exec EXCEPT ![r].phase = ph]
      BY <1>8 DEF ThrowInRun
    <3> QED BY <1>8, <3>1 DEF ThrowInRun, SyncShape, SyncPhase
  <2>2. \A s \in Runs : AtWork(s)' => AtWork(s) BY <1>8 DEF ThrowInRun, SyncShape, AtWork, Working
  <2> QED BY <1>8, <2>1, <2>2, GoingOnKeeps DEF ThrowInRun
<1>9. ASSUME NEW r \in Runs, FailRun(r) PROVE SyncInv'
  <2>1. SyncShape' BY <1>9, NoExecShape DEF FailRun, SyncShape, SyncStatus
  <2>2. \A s \in Runs : AtWork(s)' => AtWork(s) /\ s # r
    BY <1>9 DEF FailRun, SyncShape, AtWork, Working, NoExec
  <2>3. CASE exec[r].phase = "fail"
    <3>1. AtWork(r) /\ outlasted' = outlasted
      BY <1>9, <2>3 DEF FailRun, AtWork
    <3>2. undone' = undone
      BY <1>9, <2>3 DEF FailRun, SyncShape
    <3> QED BY <2>1, <2>2, <3>1, <3>2, OutcomeKeeps
  <2>4. CASE exec[r].phase = "undo"
    <3>1. undone' = (undone \/ checkpoint.status = "RUNNING") /\ outlasted' = outlasted
      BY <1>9, <2>4 DEF FailRun
    <3>2. Owned' BY <2>2, <3>1 DEF Owned
    <3> QED BY <2>1, <3>2
  <2> QED BY <1>9, <2>3, <2>4 DEF FailRun
<1>10. ASSUME NEW r \in Runs, AbortSync(r) PROVE SyncInv'
  <2>1. SyncShape' BY <1>10, NoExecShape DEF AbortSync, SyncShape
  <2>2. \A s \in Runs : AtWork(s)' => AtWork(s)
    BY <1>10 DEF AbortSync, SyncShape, AtWork, Working, NoExec
  <2> QED BY <1>10, <2>1, <2>2, GoingOnKeeps DEF AbortSync
<1>12. ASSUME NEW r \in Runs, Close(r) PROVE SyncInv'
  <2>1. SyncShape' BY <1>12, NoExecShape DEF Close, SyncShape
  <2>2. \A s \in Runs : AtWork(s)' => AtWork(s)
    BY <1>12 DEF Close, SyncShape, AtWork, Working, NoExec
  <2> QED BY <1>12, <2>1, <2>2, GoingOnKeeps DEF Close
<1>11. CASE UNCHANGED syncVars
  BY <1>11 DEF syncVars, SyncShape, Owned, AtWork, Working
<1> QED BY <1>1, <1>2, <1>3, <1>4, <1>5, <1>6, <1>7, <1>8, <1>9, <1>10, <1>11, <1>12, ClaimKeeps
        DEF SyncNext, Recover

\* One run at work per checkpoint, for any number of runs, pages and messages,
\* as long as none outlasts its claim and none that had succeeded fails the
\* claim of another.
THEOREM SyncHasOneOwner == SyncSpec => []OneOwner
<1>1. SyncInv /\ [SyncNext]_syncVars => SyncInv' BY SyncStep
<1>2. SyncInv => OneOwner BY DEF SyncInv, Owned, OneOwner, AtWork
<1> QED BY <1>1, <1>2, SyncStart, PTL DEF SyncSpec

----------------------------------------------------------------------------
(* The weekly refresh.                                                     *)

Refreshing(i) == fx[i].phase \in {"acquire", "refresh"}

\* A week without trouble: it is done, or somebody is still to do it.  A lock
\* that is held is held by somebody at it.
SomebodyRefreshes ==
  week > 0 /\ ~troubled /\ refreshed # Orgs =>
    /\ due # {} \/ \E i \in Instances : Refreshing(i)
    /\ lock = "held" => \E i \in Instances : fx[i].phase = "refresh"

\* A run of the week wrote what it has no more to do.
DoneIsWritten ==
  ~troubled => \A i \in Instances : fx[i].phase = "refresh" => Orgs \ fx[i].todo \subseteq refreshed

OrgOnlyInRefresh == \A i \in Instances : fx[i].org # NoOrg => fx[i].phase = "refresh"

FxInv == FxTypeOK /\ SomebodyRefreshes /\ DoneIsWritten /\ OrgOnlyInRefresh

Instance == [phase : FxPhase, todo : SUBSET Orgs, org : Orgs \cup {NoOrg}, answer : {"none", "live", "baseline"}]

LEMMA IdleFxIsAnInstance == IdleFx \in Instance
BY DEF IdleFx, Instance, FxPhase

LEMMA FxStart == FxInit => FxInv
<1> SUFFICES ASSUME FxInit PROVE FxInv OBVIOUS
<1>1. FxTypeOK
  <2>1. fx \in [Instances -> Instance] BY IdleFxIsAnInstance DEF FxInit
  <2>2. rate \in [Orgs -> Sources] BY DEF FxInit, Sources
  <2>3. week \in 0 .. LastWeek BY FxAssumption DEF FxInit
  <2>4. lock \in {"free", "held", "lapsed"} /\ due \subseteq Instances /\ refreshed \subseteq Orgs /\ troubled \in BOOLEAN
    BY DEF FxInit
  <2> QED BY <2>1, <2>2, <2>3, <2>4 DEF FxTypeOK, Instance
<1>2. \A i \in Instances : fx[i].phase = "idle" /\ fx[i].org = NoOrg BY DEF FxInit, IdleFx
<1> QED BY <1>1, <1>2 DEF FxInit, FxInv, SomebodyRefreshes, DoneIsWritten, OrgOnlyInRefresh

\* A step of one instance, which does not take it out of the refresh unless the
\* week is done or is in trouble, nor forgets what it has written.
LEMMA InstanceKeeps ==
  ASSUME FxInv, FxTypeOK', NEW i \in Instances, NEW new \in Instance, fx' = [fx EXCEPT ![i] = new],
         week' = week, refreshed \subseteq refreshed',
         troubled => troubled',
         new.org # NoOrg => new.phase = "refresh",
         ~troubled' /\ new.phase = "refresh" => Orgs \ new.todo \subseteq refreshed',
         week > 0 /\ ~troubled' /\ refreshed' # Orgs =>
           /\ \/ due' # {} \/ new.phase \in {"acquire", "refresh"}
              \/ ~Refreshing(i) /\ due' = due
              \/ ~Refreshing(i) /\ lock = "held"
           /\ lock' = "held" => new.phase = "refresh" \/ (fx[i].phase # "refresh" /\ lock = "held")
  PROVE  FxInv'
<1> USE DEF FxInv
<1>1. fx'[i] = new /\ \A j \in Instances \ {i} : fx'[j] = fx[j] BY DEF FxTypeOK
<1>2. refreshed \subseteq Orgs /\ refreshed' \subseteq Orgs /\ troubled \in BOOLEAN /\ troubled' \in BOOLEAN
  BY DEF FxTypeOK
<1>3. DoneIsWritten' BY <1>1, <1>2 DEF DoneIsWritten
<1>4. OrgOnlyInRefresh' BY <1>1 DEF OrgOnlyInRefresh
<1>5. SomebodyRefreshes'
  <2> SUFFICES ASSUME week > 0, ~troubled', refreshed' # Orgs
               PROVE  /\ due' # {} \/ \E j \in Instances : Refreshing(j)'
                      /\ lock' = "held" => \E j \in Instances : fx'[j].phase = "refresh"
    BY DEF SomebodyRefreshes
  <2>1. ~troubled /\ refreshed # Orgs BY <1>2
  <2>2. /\ due # {} \/ \E j \in Instances : Refreshing(j)
        /\ lock = "held" => \E j \in Instances : fx[j].phase = "refresh"
    BY <2>1 DEF SomebodyRefreshes
  <2>3. lock' = "held" => \E j \in Instances : fx'[j].phase = "refresh" BY <1>1, <2>2
  <2>4. due' # {} \/ \E j \in Instances : Refreshing(j)' BY <1>1, <2>2 DEF Refreshing
  <2> QED BY <2>3, <2>4
<1> QED BY <1>3, <1>4, <1>5

LEMMA FxStep ==
  ASSUME FxInv, [FxNext]_fxVars
  PROVE  FxInv'
<1> USE DEF FxInv
<1>0. \A i \in Instances : fx[i] \in Instance BY DEF FxTypeOK, Instance
<1>01. fx \in [Instances -> Instance] BY DEF FxTypeOK, Instance
<1>1. CASE Monday
  <2>1. FxTypeOK' BY <1>1, FxAssumption DEF Monday, FxTypeOK
  <2>2. \A i \in Instances : fx'[i].phase \in {"idle", "down"} BY <1>1 DEF Monday
  <2>3. fx' = fx /\ lock' # "held" /\ (~troubled' => due' # {}) BY <1>1 DEF Monday
  <2>4. OrgOnlyInRefresh' BY <2>3 DEF OrgOnlyInRefresh
  <2>5. DoneIsWritten' BY <2>2 DEF DoneIsWritten
  <2>6. SomebodyRefreshes' BY <2>3 DEF SomebodyRefreshes
  <2> QED BY <2>1, <2>4, <2>5, <2>6
<1>2. CASE LapseLock
  <2>1. FxTypeOK' BY <1>2 DEF LapseLock, FxTypeOK
  <2> QED BY <1>2, <2>1 DEF LapseLock, SomebodyRefreshes, DoneIsWritten, OrgOnlyInRefresh, Refreshing
<1>3. ASSUME NEW i \in Instances, ReadLock(i) PROVE FxInv'
  <2> DEFINE new == IF Takeable THEN [fx[i] EXCEPT !.phase = "acquire"] ELSE fx[i]
  <2>1. /\ fx' = [fx EXCEPT ![i] = new] /\ due' = due \ {i} /\ fx[i] = IdleFx
        /\ UNCHANGED <<week, lock, rate, refreshed, troubled>>
    BY <1>3, <1>01 DEF ReadLock
  <2>2. fx[i].phase = "idle" /\ fx[i].org = NoOrg BY <2>1 DEF IdleFx
  <2>3. new \in Instance /\ new.org = NoOrg BY <1>0, <2>2 DEF Instance, FxPhase
  <2>4. IF lock # "held" THEN new.phase = "acquire" ELSE new.phase = "idle"
    BY <1>0, <2>2 DEF Takeable, Instance
  <2> HIDE DEF new
  <2>5. FxTypeOK' BY <2>1, <2>3 DEF FxTypeOK, Instance
  <2> QED BY <2>1, <2>2, <2>3, <2>4, <2>5, InstanceKeeps DEF Refreshing
<1>4. ASSUME NEW i \in Instances, WriteLock(i) PROVE FxInv'
  <2> DEFINE new == [fx[i] EXCEPT !.phase = "refresh", !.todo = Orgs]
  <2>1. /\ fx' = [fx EXCEPT ![i] = new] /\ lock' = "held"
        /\ UNCHANGED <<week, due, rate, refreshed, troubled>>
    BY <1>4, <1>01 DEF WriteLock
  <2>2. new \in Instance /\ new.phase = "refresh" /\ new.todo = Orgs BY <1>0 DEF Instance, FxPhase
  <2> HIDE DEF new
  <2>3. FxTypeOK' BY <2>1, <2>2 DEF FxTypeOK, Instance
  <2> QED BY <2>1, <2>2, <2>3, InstanceKeeps
<1>5. ASSUME NEW i \in Instances, ReleaseLock(i) PROVE FxInv'
  <2>1. /\ fx' = [fx EXCEPT ![i] = IdleFx] /\ lock' = "free"
        /\ UNCHANGED <<week, due, rate, refreshed, troubled>>
        /\ fx[i].phase = "refresh" /\ fx[i].todo = {}
    BY <1>5 DEF ReleaseLock
  <2>2. IdleFx.org = NoOrg /\ IdleFx.phase = "idle" BY DEF IdleFx
  <2>3. FxTypeOK' BY <2>1, IdleFxIsAnInstance DEF FxTypeOK, Instance
  <2>4. ~troubled => refreshed = Orgs BY <2>1 DEF DoneIsWritten, FxTypeOK
  <2> QED BY <2>1, <2>2, <2>3, <2>4, IdleFxIsAnInstance, InstanceKeeps
<1>6. ASSUME NEW i \in Instances, WriteRates(i) PROVE FxInv'
  <2> DEFINE new == [fx[i] EXCEPT !.todo = fx[i].todo \ {fx[i].org}, !.org = NoOrg, !.answer = "none"]
  <2>1. /\ fx' = [fx EXCEPT ![i] = new] /\ fx[i].org # NoOrg
        /\ refreshed' = refreshed \cup {fx[i].org}
        /\ rate' = [rate EXCEPT ![fx[i].org] = fx[i].answer]
        /\ UNCHANGED <<week, lock, due, troubled>>
    BY <1>6, <1>01 DEF WriteRates, OrgOnlyInRefresh
  <2>2. /\ new \in Instance /\ new.phase = fx[i].phase /\ new.org = NoOrg
        /\ new.todo = fx[i].todo \ {fx[i].org}
    BY <1>0 DEF Instance
  <2>3. fx[i].phase = "refresh" /\ fx[i].org \in Orgs /\ fx[i].answer \in Sources
    BY <1>0, <2>1 DEF OrgOnlyInRefresh, Instance, Sources
  <2> HIDE DEF new
  <2>4. FxTypeOK' BY <2>1, <2>2, <2>3 DEF FxTypeOK, Instance
  <2>5. ~troubled => Orgs \ new.todo \subseteq refreshed' BY <2>1, <2>2, <2>3 DEF DoneIsWritten
  <2> QED BY <2>1, <2>2, <2>3, <2>4, <2>5, InstanceKeeps
<1>7. ASSUME NEW i \in Instances, FailStatement(i) PROVE FxInv'
  <2> DEFINE new == IF fx[i].phase = "acquire" THEN IdleFx
                    ELSE [fx[i] EXCEPT !.todo = fx[i].todo \ {fx[i].org}, !.org = NoOrg, !.answer = "none"]
  <2>1. /\ fx' = [fx EXCEPT ![i] = new] /\ troubled' = TRUE
        /\ UNCHANGED <<week, lock, due, rate, refreshed>>
    BY <1>7, <1>01 DEF FailStatement
  <2>2. new \in Instance /\ new.org = NoOrg BY <1>0, IdleFxIsAnInstance DEF Instance, IdleFx
  <2> HIDE DEF new
  <2>3. FxTypeOK' BY <2>1, <2>2 DEF FxTypeOK, Instance
  <2> QED BY <2>1, <2>2, <2>3, InstanceKeeps
<1>8. ASSUME NEW i \in Instances, Die(i) PROVE FxInv'
  <2> DEFINE new == [IdleFx EXCEPT !.phase = "down"]
  <2>1. /\ fx' = [fx EXCEPT ![i] = new] /\ troubled' = TRUE /\ due' = due \ {i}
        /\ UNCHANGED <<week, lock, rate, refreshed>>
    BY <1>8 DEF Die
  <2>2. new \in Instance /\ new.org = NoOrg BY IdleFxIsAnInstance DEF Instance, IdleFx, FxPhase
  <2> HIDE DEF new
  <2>3. FxTypeOK' BY <2>1, <2>2 DEF FxTypeOK, Instance
  <2> QED BY <2>1, <2>2, <2>3, InstanceKeeps
<1>9. ASSUME NEW i \in Instances, Start(i) PROVE FxInv'
  <2> DEFINE new == [fx[i] EXCEPT !.phase = "seed", !.todo = {o \in Orgs : rate[o] = "none"}]
  <2>1. /\ fx' = [fx EXCEPT ![i] = new] /\ fx[i].phase = "down"
        /\ UNCHANGED <<week, lock, due, rate, refreshed, troubled>>
    BY <1>9, <1>01 DEF Start
  <2>2. new \in Instance /\ new.org = fx[i].org /\ new.phase = "seed" BY <1>0 DEF Instance, FxPhase
  <2>3. fx[i].org = NoOrg BY <2>1 DEF OrgOnlyInRefresh
  <2> HIDE DEF new
  <2>4. FxTypeOK' BY <2>1, <2>2 DEF FxTypeOK, Instance
  <2> QED BY <2>1, <2>2, <2>3, <2>4, InstanceKeeps DEF Refreshing
<1>10. ASSUME NEW i \in Instances, EndStart(i) PROVE FxInv'
  <2>1. /\ fx' = [fx EXCEPT ![i] = IdleFx] /\ fx[i].phase = "seed"
        /\ UNCHANGED <<week, lock, due, rate, refreshed, troubled>>
    BY <1>10 DEF EndStart
  <2>2. IdleFx.org = NoOrg /\ IdleFx.phase = "idle" BY DEF IdleFx
  <2>3. FxTypeOK' BY <2>1, IdleFxIsAnInstance DEF FxTypeOK, Instance
  <2> QED BY <2>1, <2>2, <2>3, IdleFxIsAnInstance, InstanceKeeps DEF Refreshing
<1>11. ASSUME NEW i \in Instances, NEW o \in Orgs, SeedOrg(i, o) PROVE FxInv'
  <2> DEFINE new == [fx[i] EXCEPT !.todo = fx[i].todo \ {o}]
  <2>1. /\ fx' = [fx EXCEPT ![i] = new] /\ fx[i].phase = "seed" /\ rate' = [rate EXCEPT ![o] = "live"]
        /\ UNCHANGED <<week, lock, due, refreshed, troubled>>
    BY <1>11, <1>01 DEF SeedOrg
  <2>2. new \in Instance /\ new.org = fx[i].org /\ new.phase = "seed" BY <1>0, <2>1 DEF Instance
  <2>3. fx[i].org = NoOrg BY <2>1 DEF OrgOnlyInRefresh
  <2> HIDE DEF new
  <2>4. FxTypeOK' BY <2>1, <2>2 DEF FxTypeOK, Instance, Sources
  <2> QED BY <2>1, <2>2, <2>3, <2>4, InstanceKeeps DEF Refreshing
<1>12. ASSUME NEW i \in Instances, NEW o \in Orgs, NEW answer \in {"live", "baseline"},
              FetchRates(i, o, answer)
       PROVE  FxInv'
  <2> DEFINE new == [fx[i] EXCEPT !.org = o, !.answer = answer]
  <2>1. /\ fx' = [fx EXCEPT ![i] = new] /\ fx[i].phase = "refresh"
        /\ UNCHANGED <<week, lock, due, rate, refreshed, troubled>>
    BY <1>12, <1>01 DEF FetchRates
  <2>2. new \in Instance /\ new.phase = "refresh" /\ new.todo = fx[i].todo BY <1>0, <2>1 DEF Instance
  <2> HIDE DEF new
  <2>3. FxTypeOK' BY <2>1, <2>2 DEF FxTypeOK, Instance
  <2>4. ~troubled => Orgs \ new.todo \subseteq refreshed' BY <2>1, <2>2 DEF DoneIsWritten
  <2> QED BY <2>1, <2>2, <2>3, <2>4, InstanceKeeps
<1>13. ASSUME NEW o \in Orgs, NEW source \in Sources, rate' = [rate EXCEPT ![o] = source],
              UNCHANGED <<week, lock, due, fx, refreshed, troubled>>
       PROVE  FxInv'
  <2>1. FxTypeOK' BY <1>13 DEF FxTypeOK
  <2> QED BY <1>13, <2>1 DEF SomebodyRefreshes, DoneIsWritten, OrgOnlyInRefresh, Refreshing
<1>14. CASE UNCHANGED fxVars
  BY <1>14 DEF fxVars, FxTypeOK, SomebodyRefreshes, DoneIsWritten, OrgOnlyInRefresh, Refreshing
<1>15. \A o \in Orgs : UpdateRate(o) => FxInv' BY <1>13 DEF UpdateRate, Sources
<1>16. \A o \in Orgs, answer \in {"live", "baseline"} : UserRefresh(o, answer) => FxInv'
  BY <1>13 DEF UserRefresh, Sources
<1> QED BY <1>1, <1>2, <1>3, <1>4, <1>5, <1>6, <1>7, <1>8, <1>9, <1>10, <1>11, <1>12, <1>14, <1>15, <1>16
        DEF FxNext

\* A week without trouble refreshes every organisation, for any number of
\* instances and organisations and any number of weeks.
THEOREM QuietWeeksRefresh == FxSpec => []QuietWeekRefreshes
<1>1. FxInv /\ [FxNext]_fxVars => FxInv' BY FxStep
<1>2. FxInv => QuietWeekRefreshes
  BY DEF FxInv, SomebodyRefreshes, QuietWeekRefreshes, Refreshing
<1> QED BY <1>1, <1>2, FxStart, PTL DEF FxSpec

----------------------------------------------------------------------------
(* Recurring expenses.                                                     *)

ChargedBefore(t, d) == \A i \in DOMAIN charged[t] : charged[t][i] < d

\* A request whose occurrence is still to be charged read the date the template
\* is at, if it has one, past all that was charged; and so did every other one.
Reading(g, t) == generator[g].on = t /\ KeyFree(t, generator[g].row.next)

ReadersAgree ==
  \A g \in Generators, t \in Templates : Reading(g, t) =>
    /\ ChargedBefore(t, generator[g].row.next)
    /\ template[t].next \in {generator[g].row.next, NoDate}
    /\ \A h \in Generators : Reading(h, t) => generator[h].row.next = generator[g].row.next

\* What was not created was neither read nor charged.
NotYetCreated ==
  \A t \in Templates : ~Exists(t) =>
    /\ charged[t] = <<>> /\ template[t].next = NoDate
    /\ \A g \in Generators : generator[g].on # t

RecurringInv == RecurringTypeOK /\ ScheduleAhead /\ ReadersAgree /\ NotYetCreated

LEMMA BlankIsARow == BlankRow \in Row
BY RecurringAssumption DEF BlankRow, Row

LEMMA FinishedIsARow ==
  ASSUME NEW row \in Row
  PROVE  Finished(row) \in Row /\ Finished(row).exists = row.exists /\ Finished(row).next = NoDate
BY DEF Finished, Row

LEMMA EditedIsARow ==
  ASSUME NEW row \in Row, NEW f \in Frequencies, NEW ends \in Nat \cup {NoDate}
  PROVE  Edited(row, f, ends) \in Row /\ Edited(row, f, ends).exists = row.exists
         /\ Edited(row, f, ends).next = row.next
<1> DEFINE last == IF ends = NoDate THEN row.ends ELSE ends
<1>1. last \in Nat \cup {NoDate} BY DEF Row
<1>2. Edited(row, f, ends) = [row EXCEPT !.frequency = f, !.ends = last] BY DEF Edited
<1> HIDE DEF last
<1> QED BY <1>1, <1>2 DEF Row

LEMMA SwitchedIsARow ==
  ASSUME NEW row \in Row, NEW switch \in Switches
  PROVE  /\ Switched(row, switch) \in Row /\ Switched(row, switch).exists = row.exists
         /\ Switched(row, switch).next \in {row.next, NoDate}
<1>1. CASE switch = "keep" BY <1>1 DEF Switched
<1>2. CASE switch \in {"pause", "off"} BY <1>2 DEF Switched, Row
<1>3. CASE switch = "finish" BY <1>3, FinishedIsARow DEF Switched
<1>4. CASE switch = "on" BY <1>4 DEF Switched, Row
<1> QED BY <1>1, <1>2, <1>3, <1>4 DEF Switches

LEMMA RecurringStart == RecurringInit => RecurringInv
<1> SUFFICES ASSUME RecurringInit PROVE RecurringInv OBVIOUS
<1>1. RecurringTypeOK
  BY BlankIsARow, RecurringAssumption DEF RecurringInit, RecurringTypeOK, IdleGenerator
<1>2. \A t \in Templates : charged[t] = <<>> /\ template[t].next = NoDate
  BY DEF RecurringInit, BlankRow
<1>3. \A g \in Generators : generator[g].on = NoTemplate BY DEF RecurringInit, IdleGenerator
<1>4. ScheduleAhead
  <2>1. ASSUME NEW t \in Templates PROVE ~(\E i \in DOMAIN charged[t] : TRUE)
    <3>1. charged[t] = <<>> BY <1>2
    <3> QED BY <3>1
  <2> QED BY <2>1 DEF ScheduleAhead
<1>5. ReadersAgree /\ NotYetCreated
  BY <1>2, <1>3, RecurringAssumption DEF ReadersAgree, Reading, NotYetCreated
<1> QED BY <1>1, <1>4, <1>5 DEF RecurringInv

\* Templates that at most lost their next date, with readers as they were.
LEMMA TemplatesKept ==
  ASSUME RecurringInv, RecurringTypeOK', UNCHANGED <<charged, generator>>,
         \A t \in Templates : /\ Exists(t) => Exists(t)'
                              /\ template'[t].next \in {template[t].next, NoDate}
  PROVE  RecurringInv'
<1> USE DEF RecurringInv
<1>1. ScheduleAhead' BY DEF ScheduleAhead
<1>2. \A g \in Generators, t \in Templates : Reading(g, t)' = Reading(g, t) BY DEF Reading, KeyFree
<1>3. ReadersAgree' BY <1>2 DEF ReadersAgree, ChargedBefore
<1>4. NotYetCreated' BY DEF NotYetCreated
<1> QED BY <1>1, <1>3, <1>4

\* Requests of which at most one ended.
LEMMA GeneratorsKept ==
  ASSUME RecurringInv, RecurringTypeOK', UNCHANGED <<template, charged>>,
         \A g \in Generators : \/ generator'[g].on = NoTemplate
                               \/ /\ generator'[g].on = generator[g].on
                                  /\ generator'[g].row = generator[g].row
  PROVE  RecurringInv'
<1> USE DEF RecurringInv
<1>1. ScheduleAhead' BY DEF ScheduleAhead
<1>2. \A g \in Generators, t \in Templates :
        Reading(g, t)' => Reading(g, t) /\ generator'[g].row = generator[g].row
  BY RecurringAssumption DEF Reading, KeyFree
<1>3. ReadersAgree' BY <1>2 DEF ReadersAgree, ChargedBefore
<1>4. NotYetCreated' BY RecurringAssumption DEF NotYetCreated, Exists
<1> QED BY <1>1, <1>3, <1>4

LEMMA CreateKeeps ==
  ASSUME RecurringInv, NEW t \in Templates, NEW f \in Frequencies, NEW ends \in 0 .. LastDay \cup {NoDate},
         NEW starts \in 0 .. LastDay, CreateRecurring(t, starts, ends, f)
  PROVE  RecurringInv'
<1> USE DEF RecurringInv
<1> DEFINE row == [exists |-> TRUE, starts |-> starts, next |-> starts, ends |-> ends,
                   frequency |-> f, active |-> TRUE, finished |-> FALSE]
<1>1. row \in Row BY RecurringAssumption DEF Row
<1>2. row.next = starts OBVIOUS
<1>3. template' = [template EXCEPT ![t] = row] BY DEF CreateRecurring
<1> HIDE DEF row
<1>4. RecurringTypeOK' BY <1>1, <1>3 DEF CreateRecurring, RecurringTypeOK
<1>5. /\ template'[t] = row /\ \A u \in Templates \ {t} : template'[u] = template[u]
      /\ UNCHANGED <<charged, generator>>
  BY <1>3 DEF CreateRecurring, RecurringTypeOK
<1>6. charged[t] = <<>> /\ \A g \in Generators : generator[g].on # t
  BY DEF CreateRecurring, NotYetCreated
<1>7. ScheduleAhead' BY <1>5, <1>6 DEF ScheduleAhead
<1>8. \A g \in Generators, u \in Templates : Reading(g, u)' = Reading(g, u) BY <1>5 DEF Reading, KeyFree
<1>9. ReadersAgree'
  <2>1. \A h \in Generators, u \in Templates : Reading(h, u) => u # t BY <1>6 DEF Reading
  <2>2. \A u \in Templates : \A d : ChargedBefore(u, d)' = ChargedBefore(u, d) BY <1>5 DEF ChargedBefore
  <2> QED BY <1>5, <1>8, <2>1, <2>2 DEF ReadersAgree
<1>10. NotYetCreated' BY <1>5, <1>6, <1>1 DEF NotYetCreated, Exists, CreateRecurring
<1> QED BY <1>4, <1>7, <1>9, <1>10

LEMMA UpdateKeeps ==
  ASSUME RecurringInv, NEW t \in Templates, NEW f \in Frequencies, NEW ends \in 0 .. LastDay \cup {NoDate},
         NEW switch \in Switches, UpdateRecurring(t, f, ends, switch)
  PROVE  RecurringInv'
<1> USE DEF RecurringInv
<1> DEFINE edited == Edited(template[t], f, ends)
           row == Switched(edited, switch)
<1>1. /\ edited \in Row /\ edited.exists = template[t].exists /\ edited.next = template[t].next
  <2>1. template[t] \in Row /\ ends \in Nat \cup {NoDate} BY RecurringAssumption DEF RecurringTypeOK
  <2> QED BY <2>1, EditedIsARow
<1>2. template' = [template EXCEPT ![t] = row] BY DEF UpdateRecurring, RecurringTypeOK
<1> HIDE DEF edited
<1>3. row \in Row /\ row.exists = edited.exists /\ row.next \in {edited.next, NoDate}
  BY <1>1, SwitchedIsARow
<1> HIDE DEF row
<1>4. RecurringTypeOK' BY <1>2, <1>3 DEF UpdateRecurring, RecurringTypeOK
<1>5. template'[t] = row /\ \A u \in Templates \ {t} : template'[u] = template[u]
  BY <1>2 DEF RecurringTypeOK
<1> QED BY <1>1, <1>3, <1>4, <1>5, TemplatesKept DEF UpdateRecurring, Exists

LEMMA ReadKeeps ==
  ASSUME RecurringInv, NEW g \in Generators, NEW t \in Templates, ReadTemplate(g, t)
  PROVE  RecurringInv'
<1> USE DEF RecurringInv
<1>0. /\ generator[g] \in [todo : SUBSET Templates, on : Templates \cup {NoTemplate}, row : Row]
      /\ template[t] \in Row
  BY DEF RecurringTypeOK
<1>1. CASE ~IsDue(t)
  <2>1. generator'[g].on = NoTemplate /\ \A h \in Generators \ {g} : generator'[h] = generator[h]
    BY <1>0, <1>1 DEF ReadTemplate, RecurringTypeOK
  <2>2. RecurringTypeOK'
    <3>1. generator' \in [Generators -> [todo : SUBSET Templates, on : Templates \cup {NoTemplate}, row : Row]]
      <4>1. generator' = [generator EXCEPT ![g] = [generator[g] EXCEPT !.todo = generator[g].todo \ {t}]]
        BY <1>1 DEF ReadTemplate
      <4>2. [generator[g] EXCEPT !.todo = generator[g].todo \ {t}]
              \in [todo : SUBSET Templates, on : Templates \cup {NoTemplate}, row : Row]
        BY <1>0
      <4> QED BY <4>1, <4>2 DEF RecurringTypeOK
    <3> QED BY <2>1, <3>1 DEF ReadTemplate, RecurringTypeOK
  <2> QED BY <2>1, <2>2, GeneratorsKept DEF ReadTemplate
<1>2. CASE IsDue(t)
  <2>1. /\ generator'[g].on = t /\ generator'[g].row = template[t]
        /\ \A h \in Generators \ {g} : generator'[h] = generator[h]
        /\ UNCHANGED <<today, template, charged>>
    BY <1>0, <1>2 DEF ReadTemplate, RecurringTypeOK
  <2>2. template[t].next # NoDate /\ Exists(t)
    BY <1>2 DEF IsDue, NotYetCreated
  <2>3. RecurringTypeOK'
    <3>1. generator' \in [Generators -> [todo : SUBSET Templates, on : Templates \cup {NoTemplate}, row : Row]]
      BY <1>0, <1>2 DEF ReadTemplate, RecurringTypeOK
    <3> QED BY <2>1, <2>2, <3>1 DEF RecurringTypeOK
  <2>4. ScheduleAhead' BY <2>1 DEF ScheduleAhead
  <2>5. ChargedBefore(t, template[t].next) BY <2>2 DEF ScheduleAhead, ChargedBefore
  <2>6. \A h \in Generators \ {g}, u \in Templates : Reading(h, u)' = Reading(h, u)
    BY <2>1 DEF Reading, KeyFree
  <2>7. ReadersAgree'
    <3>1. \A u \in Templates : \A d : ChargedBefore(u, d)' = ChargedBefore(u, d)
      BY <2>1 DEF ChargedBefore
    <3>2. \A h \in Generators \ {g} : Reading(h, t) => generator[h].row.next = template[t].next
      BY <2>2 DEF ReadersAgree
    <3>3. \A u \in Templates : Reading(g, u)' => u = t BY <2>1 DEF Reading
    <3> QED BY <2>1, <2>5, <2>6, <3>1, <3>2, <3>3 DEF ReadersAgree
  <2>8. NotYetCreated' BY <2>1, <2>2 DEF NotYetCreated, Exists
  <2> QED BY <2>3, <2>4, <2>7, <2>8
<1> QED BY <1>1, <1>2

LEMMA ChargeKeeps ==
  ASSUME RecurringInv, NEW g \in Generators, NEW t \in Templates, ChargeOccurrence(g, t)
  PROVE  RecurringInv'
<1> USE DEF RecurringInv
<1> DEFINE read == generator[g].row  d == read.next  row == MovedOn(template[t], read)
<1>0. /\ read \in Row /\ template[t] \in Row /\ d \in Nat
      /\ charged[t] \in Seq(Nat)
  BY RecurringAssumption DEF ChargeOccurrence, RecurringTypeOK, Row
<1>1. Reading(g, t) BY DEF Reading, ChargeOccurrence
<1>2. ChargedBefore(t, d) BY <1>1 DEF ReadersAgree
<1>3. Period[read.frequency] \in Nat \ {0} BY <1>0, RecurringAssumption DEF Row
<1>4. row \in Row /\ row.exists = template[t].exists /\ row.next \in {d + Period[read.frequency], NoDate}
  <2>1. d + Period[read.frequency] \in Nat BY <1>0, <1>3
  <2>2. ASSUME NEW n \in Nat
        PROVE  /\ [template[t] EXCEPT !.next = n] \in Row
               /\ [template[t] EXCEPT !.next = n].exists = template[t].exists
               /\ [template[t] EXCEPT !.next = n].next = n
    BY <1>0 DEF Row
  <2> QED BY <1>0, <2>1, <2>2, FinishedIsARow DEF MovedOn
<1>5. /\ template' = [template EXCEPT ![t] = row]
      /\ charged' = [charged EXCEPT ![t] = Append(charged[t], d)]
      /\ generator' = [generator EXCEPT ![g] = [IdleGenerator EXCEPT !.todo = generator[g].todo \ {t}]]
      /\ today' = today
  BY DEF ChargeOccurrence
<1> HIDE DEF read, d, row
<1>6. /\ template'[t] = row /\ \A u \in Templates \ {t} : template'[u] = template[u]
      /\ charged'[t] = Append(charged[t], d) /\ \A u \in Templates \ {t} : charged'[u] = charged[u]
      /\ \A h \in Generators \ {g} : generator'[h] = generator[h]
      /\ generator'[g] = [IdleGenerator EXCEPT !.todo = generator[g].todo \ {t}]
  BY <1>5 DEF RecurringTypeOK
<1>7. generator'[g].on = NoTemplate /\ generator'[g].row = BlankRow /\ generator'[g].todo = generator[g].todo \ {t}
  BY <1>6 DEF IdleGenerator
<1>8. RecurringTypeOK'
  <2>1. template' \in [Templates -> Row] BY <1>4, <1>5 DEF RecurringTypeOK
  <2>2. charged' \in [Templates -> Seq(Nat)] BY <1>0, <1>5 DEF RecurringTypeOK
  <2>3. [IdleGenerator EXCEPT !.todo = generator[g].todo \ {t}]
          \in [todo : SUBSET Templates, on : Templates \cup {NoTemplate}, row : Row]
    BY BlankIsARow DEF IdleGenerator, RecurringTypeOK
  <2>4. generator' \in [Generators -> [todo : SUBSET Templates, on : Templates \cup {NoTemplate}, row : Row]]
    BY <1>5, <2>3 DEF RecurringTypeOK
  <2>5. \A h \in Generators : generator'[h].on # NoTemplate => generator'[h].row.next # NoDate
    BY <1>6, <1>7 DEF RecurringTypeOK
  <2>6. today' \in 0 .. LastDay BY <1>5 DEF RecurringTypeOK
  <2> QED BY <2>1, <2>2, <2>4, <2>5, <2>6 DEF RecurringTypeOK
<1>9. /\ DOMAIN charged'[t] = DOMAIN charged[t] \cup {Len(charged[t]) + 1}
      /\ \A i \in DOMAIN charged[t] : charged'[t][i] = charged[t][i] /\ i <= Len(charged[t])
      /\ charged'[t][Len(charged[t]) + 1] = d
  BY <1>0, <1>6
<1>10. ScheduleAhead'
  <2>1. \A i, j \in DOMAIN charged'[t] : i < j => charged'[t][i] < charged'[t][j]
    BY <1>0, <1>2, <1>9 DEF ScheduleAhead, ChargedBefore
  <2>2. \A i \in DOMAIN charged'[t] : charged'[t][i] \in Nat /\ charged'[t][i] <= d
    BY <1>0, <1>2, <1>9 DEF ChargedBefore
  <2>3. template'[t].next # NoDate => \A i \in DOMAIN charged'[t] : charged'[t][i] < template'[t].next
    BY <1>0, <1>3, <1>4, <1>6, <2>2
  <2>4. ASSUME NEW u \in Templates \ {t}
        PROVE  /\ \A i, j \in DOMAIN charged'[u] : i < j => charged'[u][i] < charged'[u][j]
               /\ template'[u].next # NoDate => \A i \in DOMAIN charged'[u] : charged'[u][i] < template'[u].next
    <3>1. charged'[u] = charged[u] /\ template'[u] = template[u] BY <1>6
    <3> QED BY <3>1 DEF ScheduleAhead
  <2> QED BY <2>1, <2>3, <2>4 DEF ScheduleAhead
<1>11. \A h \in Generators : ~Reading(h, t)'
  <2>1. \E i \in DOMAIN charged'[t] : charged'[t][i] = d BY <1>9
  <2>2. ASSUME NEW h \in Generators, Reading(h, t)' PROVE FALSE
    <3>1. h # g BY <1>7, <2>2, RecurringAssumption DEF Reading
    <3>2. Reading(h, t) BY <1>6, <1>9, <2>2, <3>1 DEF Reading, KeyFree
    <3>3. generator[h].row.next = d BY <1>1, <3>2 DEF ReadersAgree, d, read
    <3> QED BY <1>6, <2>1, <2>2, <3>1, <3>3 DEF Reading, KeyFree
  <2> QED BY <2>2
<1>12. \A h \in Generators, u \in Templates \ {t} :
         Reading(h, u)' => Reading(h, u) /\ generator'[h] = generator[h]
  <2>1. ASSUME NEW h \in Generators, NEW u \in Templates \ {t}, Reading(h, u)'
        PROVE  Reading(h, u) /\ generator'[h] = generator[h]
    <3>1. h # g BY <1>7, <2>1, RecurringAssumption DEF Reading
    <3>2. generator'[h] = generator[h] /\ charged'[u] = charged[u] BY <1>6, <3>1
    <3> QED BY <2>1, <3>2 DEF Reading, KeyFree
  <2> QED BY <2>1
<1>13. ReadersAgree'
  <2>1. \A u \in Templates \ {t} : \A b : ChargedBefore(u, b)' = ChargedBefore(u, b)
    BY <1>6 DEF ChargedBefore
  <2> QED BY <1>6, <1>11, <1>12, <2>1 DEF ReadersAgree
<1>14. NotYetCreated'
  <2>1. Exists(t) BY <1>1 DEF Reading, NotYetCreated
  <2>2. Exists(t)' BY <1>4, <1>6, <2>1 DEF Exists
  <2>3. ASSUME NEW u \in Templates \ {t}, ~Exists(u)'
        PROVE  /\ charged'[u] = <<>> /\ template'[u].next = NoDate
               /\ \A h \in Generators : generator'[h].on # u
    <3>1. ~Exists(u) BY <1>6, <2>3 DEF Exists
    <3>2. /\ charged[u] = <<>> /\ template[u].next = NoDate
          /\ \A h \in Generators : generator[h].on # u
      BY <3>1 DEF NotYetCreated
    <3>3. generator'[g].on # u BY <1>7, RecurringAssumption
    <3> QED BY <1>6, <3>2, <3>3
  <2> QED BY <2>2, <2>3 DEF NotYetCreated
<1> QED BY <1>8, <1>10, <1>13, <1>14

LEMMA RecurringStepKeeps ==
  ASSUME RecurringInv, [RecurringNext]_recurringVars
  PROVE  RecurringInv'
<1>0. RecurringTypeOK BY DEF RecurringInv
<1>1. CASE PassDay
  <2>1. RecurringTypeOK' BY <1>0, <1>1, RecurringAssumption DEF PassDay, RecurringTypeOK
  <2> QED BY <1>1, <2>1, TemplatesKept DEF PassDay, Exists
<1>2. ASSUME NEW g \in Generators, ListDue(g) PROVE RecurringInv'
  <2>1. generator[g].on = NoTemplate BY <1>2 DEF ListDue, IdleGenerator
  <2>2. RecurringTypeOK' BY <1>0, <1>2, <2>1 DEF ListDue, RecurringTypeOK
  <2>3. \A h \in Generators : generator'[h].on = generator[h].on /\ generator'[h].row = generator[h].row
    BY <1>0, <1>2 DEF ListDue, RecurringTypeOK
  <2> QED BY <1>2, <2>2, <2>3, GeneratorsKept DEF ListDue
<1>3. ASSUME NEW g \in Generators, EndGeneration(g) PROVE RecurringInv'
  <2>1. RecurringTypeOK' BY <1>0, <1>3, BlankIsARow DEF EndGeneration, RecurringTypeOK, IdleGenerator
  <2>2. generator'[g].on = NoTemplate /\ \A h \in Generators \ {g} : generator'[h] = generator[h]
    BY <1>0, <1>3 DEF EndGeneration, IdleGenerator, RecurringTypeOK
  <2> QED BY <1>3, <2>1, <2>2, GeneratorsKept DEF EndGeneration
<1>4. CASE UNCHANGED recurringVars
  <2>1. RecurringTypeOK' BY <1>0, <1>4 DEF recurringVars, RecurringTypeOK
  <2> QED BY <1>4, <2>1, TemplatesKept DEF recurringVars, Exists
<1> QED BY <1>1, <1>2, <1>3, <1>4, CreateKeeps, UpdateKeeps, ReadKeeps, ChargeKeeps DEF RecurringNext

\* The types, and the schedule past what was charged, for any number of
\* templates, frequencies and requests.
THEOREM RecurringTypes == RecurringSpec => []RecurringTypeOK
<1>1. RecurringInv /\ [RecurringNext]_recurringVars => RecurringInv' BY RecurringStepKeeps
<1>2. RecurringInv => RecurringTypeOK BY DEF RecurringInv
<1> QED BY <1>1, <1>2, RecurringStart, PTL DEF RecurringSpec

THEOREM OccurrencesOnceInOrder == RecurringSpec => []ScheduleAhead
<1>1. RecurringInv /\ [RecurringNext]_recurringVars => RecurringInv' BY RecurringStepKeeps
<1>2. RecurringInv => ScheduleAhead BY DEF RecurringInv
<1> QED BY <1>1, <1>2, RecurringStart, PTL DEF RecurringSpec

----------------------------------------------------------------------------
(* Fulfillments and activations.                                           *)

\* The counter of a fulfillment is past every number given to a call of it.
CounterAhead ==
  /\ \A f \in Fulfillments : \A n \in attempts[f] : n <= fulfillment[f].attemptCount
  /\ \A c \in Calls : call[c].on # NoFulfillment => call[c].number # 0

\* Activations, with what a transaction open on the row says of it: what is
\* completed is not assigned any more.
OneOfCompleted ==
  \A f \in Fulfillments :
    /\ \A a, b \in LiveOf(f) : a = b
    /\ LiveOf(f) # {} => Status(f) = "COMPLETED"
    /\ ~Free(f) => Status(f) # "COMPLETED"

NumbersInv == ProvisioningTypeOK /\ CounterAhead /\ AttemptsNumberedOnce

LEMMA ProvisioningStart == ProvisioningInit => NumbersInv /\ OneOfCompleted
  BY ProvisioningAssumption
  DEF ProvisioningInit, NumbersInv, ProvisioningTypeOK, CounterAhead, AttemptsNumberedOnce, OneOfCompleted,
      AnyProvider, NoCall, LiveOf, LiveActivation, Status, Free, SubscriptionStatus, FulfillmentStatus

\* What a step that leaves attempts, calls and counters alone does to the numbers.
LEMMA NumbersUntouched ==
  ASSUME NumbersInv, UNCHANGED <<attempts, call>>,
         \A f \in Fulfillments : fulfillment'[f].attemptCount = fulfillment[f].attemptCount
  PROVE  CounterAhead' /\ AttemptsNumberedOnce'
  BY DEF NumbersInv, ProvisioningTypeOK, CounterAhead, AttemptsNumberedOnce

LEMMA NumbersStepKeeps ==
  ASSUME NumbersInv, [ProvisioningNext]_provisioningVars
  PROVE  NumbersInv'
<1>0. ProvisioningTypeOK /\ CounterAhead /\ AttemptsNumberedOnce BY DEF NumbersInv
<1>1. ASSUME NEW p \in Providers, NEW on \in BOOLEAN,
             \/ SetProviderStatus(p, on) \/ SetMapping(p, on) \/ ArchiveProvider(p) \/ RestoreProvider(p)
      PROVE  NumbersInv'
  <2>0. provider' \in [Providers -> [active : BOOLEAN, archived : BOOLEAN, mapped : BOOLEAN]]
    <3>0. provider \in [Providers -> [active : BOOLEAN, archived : BOOLEAN, mapped : BOOLEAN]]
      BY <1>0 DEF ProvisioningTypeOK
    <3>1. CASE SetProviderStatus(p, on)
      <4>1. provider' = [provider EXCEPT ![p].active = on] BY <3>1 DEF SetProviderStatus
      <4> QED BY <3>0, <4>1
    <3>2. CASE SetMapping(p, on)
      <4>1. provider' = [provider EXCEPT ![p].mapped = on] BY <3>2 DEF SetMapping
      <4> QED BY <3>0, <4>1
    <3>3. CASE ArchiveProvider(p)
      <4>1. provider' = [provider EXCEPT ![p].archived = TRUE, ![p].active = FALSE]
        BY <3>3 DEF ArchiveProvider
      <4> QED BY <3>0, <4>1
    <3>4. CASE RestoreProvider(p)
      <4>1. provider' = [provider EXCEPT ![p].archived = FALSE] BY <3>4 DEF RestoreProvider
      <4> QED BY <3>0, <4>1
    <3> QED BY <1>1, <3>1, <3>2, <3>3, <3>4
  <2>1. ProvisioningTypeOK'
    BY <1>0, <1>1, <2>0
    DEF SetProviderStatus, SetMapping, ArchiveProvider, RestoreProvider, ProvisioningTypeOK
  <2>2. UNCHANGED <<fulfillment, attempts, call>>
    BY <1>1 DEF SetProviderStatus, SetMapping, ArchiveProvider, RestoreProvider
  <2> QED BY <2>1, <2>2, NumbersUntouched DEF NumbersInv
<1>2. ASSUME NEW f \in Fulfillments, NEW p \in AnyProvider, BeginCreate(f, p) \/ BeginAssign(f, p)
      PROVE  NumbersInv'
  <2>1. ProvisioningTypeOK' BY <1>0, <1>2 DEF BeginCreate, BeginAssign, ProvisioningTypeOK
  <2>2. UNCHANGED <<fulfillment, attempts, call>> BY <1>2 DEF BeginCreate, BeginAssign
  <2> QED BY <2>1, <2>2, NumbersUntouched DEF NumbersInv
<1>3. ASSUME NEW f \in Fulfillments, CommitProvider(f) \/ Rollback(f)
      PROVE  NumbersInv'
  <2>0. ~Free(f) => chosen[f] \in AnyProvider BY <1>0 DEF Free, ProvisioningTypeOK
  <2>1. ProvisioningTypeOK'
    <3>1. CASE CommitProvider(f)
      <4>1. (IF chosen[f] = NoProvider THEN "PENDING" ELSE "ASSIGNED") \in FulfillmentStatus
        BY DEF FulfillmentStatus
      <4>2. fulfillment' \in [Fulfillments -> [status : FulfillmentStatus \cup {"none"},
                                            provider : AnyProvider, attemptCount : 0 .. MaxAttempts]]
        <5> DEFINE st == IF chosen[f] = NoProvider THEN "PENDING" ELSE "ASSIGNED"
                   row == [status |-> st, provider |-> chosen[f],
                           attemptCount |-> fulfillment[f].attemptCount]
        <5>1. fulfillment' = [fulfillment EXCEPT ![f] = row] BY <3>1 DEF CommitProvider
        <5>2. row \in [status : FulfillmentStatus \cup {"none"}, provider : AnyProvider,
                       attemptCount : 0 .. MaxAttempts]
          BY <1>0, <2>0, <3>1, <4>1 DEF CommitProvider, ProvisioningTypeOK
        <5> HIDE DEF row
        <5> QED BY <1>0, <5>1, <5>2 DEF ProvisioningTypeOK
      <4>3. chosen' \in [Fulfillments -> AnyProvider \cup {Unlocked}]
        BY <1>0, <3>1 DEF CommitProvider, ProvisioningTypeOK
      <4> QED BY <1>0, <3>1, <4>2, <4>3 DEF CommitProvider, ProvisioningTypeOK
    <3>2. CASE Rollback(f) BY <1>0, <3>2 DEF Rollback, ProvisioningTypeOK
    <3> QED BY <1>3, <3>1, <3>2
  <2>2. /\ UNCHANGED <<attempts, call>>
        /\ \A g \in Fulfillments : fulfillment'[g].attemptCount = fulfillment[g].attemptCount
    BY <1>0, <1>3 DEF CommitProvider, Rollback, ProvisioningTypeOK
  <2> QED BY <2>1, <2>2, NumbersUntouched DEF NumbersInv
<1>4. ASSUME NEW f \in Fulfillments, NEW from, NEW to \in FulfillmentStatus, SetStatus(f, from, to)
      PROVE  NumbersInv'
  <2>1. ProvisioningTypeOK' BY <1>0, <1>4 DEF SetStatus, ProvisioningTypeOK
  <2>2. /\ UNCHANGED <<attempts, call>>
        /\ \A g \in Fulfillments : fulfillment'[g].attemptCount = fulfillment[g].attemptCount
    BY <1>0, <1>4 DEF SetStatus, ProvisioningTypeOK
  <2> QED BY <2>1, <2>2, NumbersUntouched DEF NumbersInv
<1>5. ASSUME NEW f \in Fulfillments, fulfillment[f].attemptCount < MaxAttempts, fulfillment' = Started(f)
      PROVE  /\ fulfillment' \in [Fulfillments -> [status : FulfillmentStatus \cup {"none"},
                                                   provider : AnyProvider, attemptCount : 0 .. MaxAttempts]]
             /\ fulfillment'[f].attemptCount = fulfillment[f].attemptCount + 1
             /\ \A g \in Fulfillments \ {f} : fulfillment'[g] = fulfillment[g]
  BY <1>0, <1>5, ProvisioningAssumption DEF Started, ProvisioningTypeOK, FulfillmentStatus
<1>6. ASSUME NEW f \in Fulfillments, StartFulfillment(f) PROVE NumbersInv'
  <2>1. ProvisioningTypeOK' BY <1>0, <1>5, <1>6 DEF StartFulfillment, ProvisioningTypeOK
  <2>2. UNCHANGED <<attempts, call>> BY <1>6 DEF StartFulfillment
  <2>3. \A g \in Fulfillments : fulfillment[g].attemptCount <= fulfillment'[g].attemptCount
    BY <1>0, <1>5, <1>6 DEF StartFulfillment, ProvisioningTypeOK
  <2>4. CounterAhead' /\ AttemptsNumberedOnce'
    BY <1>0, <2>1, <2>2, <2>3 DEF CounterAhead, AttemptsNumberedOnce, ProvisioningTypeOK
  <2> QED BY <2>1, <2>4 DEF NumbersInv
<1>7. ASSUME NEW c \in Calls, NEW f \in Fulfillments, BeginProvision(c, f) PROVE NumbersInv'
  <2> DEFINE n == fulfillment[f].attemptCount + 1
  <2>0. n \in 1 .. MaxAttempts /\ f # NoFulfillment
    BY <1>0, <1>7, ProvisioningAssumption DEF BeginProvision, ProvisioningTypeOK
  <2>1. /\ call'[c] = [on |-> f, number |-> n]
        /\ \A d \in Calls \ {c} : call'[d] = call[d]
        /\ UNCHANGED attempts
    BY <1>0, <1>7 DEF BeginProvision, NextNumber, ProvisioningTypeOK
  <2>2. /\ fulfillment'[f].attemptCount = n
        /\ \A g \in Fulfillments : fulfillment[g].attemptCount <= fulfillment'[g].attemptCount
    BY <1>0, <1>5, <1>7 DEF BeginProvision, ProvisioningTypeOK
  <2>3. ProvisioningTypeOK'
    BY <1>0, <1>5, <1>7, <2>0 DEF BeginProvision, NextNumber, ProvisioningTypeOK
  <2>4. \A m \in attempts[f] : m < n BY <1>0 DEF CounterAhead, ProvisioningTypeOK
  <2>5. \A d \in Calls \ {c} : call[d].on = f => call[d].number < n
    BY <1>0, <2>0 DEF AttemptsNumberedOnce, ProvisioningTypeOK
  <2>6. CounterAhead'
    BY <1>0, <2>0, <2>1, <2>2, <2>3 DEF CounterAhead, ProvisioningTypeOK
  <2>7. ASSUME NEW d \in Calls, call'[d].on # NoFulfillment
        PROVE  /\ call'[d].number \notin attempts'[call'[d].on]
               /\ call'[d].number <= fulfillment'[call'[d].on].attemptCount
               /\ \A e \in Calls : call'[e] = call'[d] => e = d
    <3>1. CASE d = c
      BY <3>1, <2>0, <2>1, <2>2, <2>4, <2>5 DEF ProvisioningTypeOK
    <3>2. CASE d # c
      <4>1. call'[d] = call[d] /\ call[d].on \in Fulfillments
        BY <1>0, <2>1, <2>7, <3>2 DEF ProvisioningTypeOK
      <4>2. call[d].number <= fulfillment'[call[d].on].attemptCount
        BY <1>0, <2>2, <2>3, <4>1, <2>7 DEF AttemptsNumberedOnce, ProvisioningTypeOK
      <4>3. call'[c] # call'[d]
        BY <1>0, <2>0, <2>1, <2>5, <3>2, <4>1 DEF ProvisioningTypeOK
      <4> QED BY <1>0, <2>1, <2>7, <4>1, <4>2, <4>3 DEF AttemptsNumberedOnce
    <3> QED BY <3>1, <3>2
  <2>8. AttemptsNumberedOnce' BY <2>7 DEF AttemptsNumberedOnce
  <2> QED BY <2>3, <2>6, <2>8 DEF NumbersInv
<1>8. ASSUME NEW c \in Calls, LoseCall(c) PROVE NumbersInv'
  <2>1. ProvisioningTypeOK' BY <1>0, <1>8, ProvisioningAssumption DEF LoseCall, NoCall, ProvisioningTypeOK
  <2>2. CounterAhead' BY <1>0, <1>8 DEF LoseCall, NoCall, CounterAhead, ProvisioningTypeOK
  <2>3. AttemptsNumberedOnce' BY <1>0, <1>8 DEF LoseCall, NoCall, AttemptsNumberedOnce, ProvisioningTypeOK
  <2> QED BY <2>1, <2>2, <2>3 DEF NumbersInv
<1>9. ASSUME NEW c \in Calls, NEW success \in AdapterAnswers, FinishProvision(c, success) PROVE NumbersInv'
  <2> DEFINE f == call[c].on
  <2>1. /\ f \in Fulfillments
        /\ call[c].number \in 1 .. MaxAttempts
        /\ call[c].number <= fulfillment[f].attemptCount
    BY <1>0, <1>9, ProvisioningAssumption
    DEF FinishProvision, CounterAhead, AttemptsNumberedOnce, ProvisioningTypeOK
  <2>2. /\ attempts'[f] = attempts[f] \cup {call[c].number}
        /\ \A g \in Fulfillments \ {f} : attempts'[g] = attempts[g]
        /\ \A g \in Fulfillments : fulfillment'[g].attemptCount = fulfillment[g].attemptCount
        /\ call'[c] = NoCall
        /\ \A d \in Calls \ {c} : call'[d] = call[d]
    BY <1>0, <1>9, <2>1 DEF FinishProvision, ProvisioningTypeOK
  <2>3. ProvisioningTypeOK'
    BY <1>0, <1>9, <2>1, ProvisioningAssumption
    DEF FinishProvision, ProvisioningTypeOK, NoCall, FulfillmentStatus
  <2>4. CounterAhead' BY <1>0, <2>1, <2>2 DEF CounterAhead, NoCall
  <2>5. \A d \in Calls \ {c} : call[d].on = f => call[d].number # call[c].number
    <3>1. \A d \in Calls : call[d] = [on |-> call[d].on, number |-> call[d].number]
      BY <1>0 DEF ProvisioningTypeOK
    <3>2. \A d \in Calls : call[d] = call[c] => d = c
      BY <1>0, <1>9 DEF AttemptsNumberedOnce, FinishProvision
    <3> QED BY <3>1, <3>2
  <2>6. AttemptsNumberedOnce'
    BY <1>0, <2>1, <2>2, <2>5 DEF AttemptsNumberedOnce, ProvisioningTypeOK, NoCall
  <2> QED BY <2>3, <2>4, <2>6 DEF NumbersInv
<1>10. ASSUME NEW a \in Activations, NEW f \in Fulfillments, CreateActivation(a, f) PROVE NumbersInv'
  <2>1. ProvisioningTypeOK'
    BY <1>0, <1>10 DEF CreateActivation, ProvisioningTypeOK, ActivationStatus, LiveActivation
  <2>2. UNCHANGED <<fulfillment, attempts, call>> BY <1>10 DEF CreateActivation
  <2> QED BY <2>1, <2>2, NumbersUntouched DEF NumbersInv
<1>11. ASSUME NEW a \in Activations, NEW to \in ActivationStatus, TransitionActivation(a, to) PROVE NumbersInv'
  <2>1. ProvisioningTypeOK'
    BY <1>0, <1>11 DEF TransitionActivation, ProvisioningTypeOK, SubscriptionStatus
  <2>2. UNCHANGED <<fulfillment, attempts, call>> BY <1>11 DEF TransitionActivation
  <2> QED BY <2>1, <2>2, NumbersUntouched DEF NumbersInv
<1>12. ASSUME NEW f \in Fulfillments, NEW to \in SubscriptionStatus, MoveSubscription(f, to) PROVE NumbersInv'
  <2>1. ProvisioningTypeOK' BY <1>0, <1>12 DEF MoveSubscription, ProvisioningTypeOK
  <2>2. UNCHANGED <<fulfillment, attempts, call>> BY <1>12 DEF MoveSubscription
  <2> QED BY <2>1, <2>2, NumbersUntouched DEF NumbersInv
<1>13. CASE UNCHANGED provisioningVars
  <2>1. ProvisioningTypeOK' BY <1>0, <1>13 DEF provisioningVars, ProvisioningTypeOK
  <2> QED BY <2>1, <1>13, NumbersUntouched DEF NumbersInv, provisioningVars
<1>14. ASSUME NEW f \in Fulfillments, Complete(f) \/ Fail(f) \/ Cancel(f) PROVE NumbersInv'
  <2>1. {"COMPLETED", "FAILED", "CANCELLED"} \subseteq FulfillmentStatus BY DEF FulfillmentStatus
  <2> QED BY <1>4, <1>14, <2>1 DEF Complete, Fail, Cancel
<1> QED
  BY <1>1, <1>2, <1>3, <1>6, <1>7, <1>8, <1>9, <1>10, <1>11, <1>12, <1>13, <1>14 DEF ProvisioningNext

LEMMA NumbersAlways == ProvisioningSpec => []NumbersInv
<1>1. NumbersInv /\ [ProvisioningNext]_provisioningVars => NumbersInv' BY NumbersStepKeeps
<1> QED BY <1>1, ProvisioningStart, PTL DEF ProvisioningSpec

\* Calls and attempts have numbers of their own, for any number of calls of one
\* fulfillment that overlap, die and answer out of order.
THEOREM AttemptsNumbered == ProvisioningSpec => []AttemptsNumberedOnce
<1>1. NumbersInv => AttemptsNumberedOnce BY DEF NumbersInv
<1> QED BY <1>1, NumbersAlways, PTL

----------------------------------------------------------------------------
\* A step after which no fulfillment has more live activations, none that had
\* one or was completed is anything else, and none is newly held.
LEMMA DeliveryKept ==
  ASSUME OneOfCompleted,
         \A f \in Fulfillments :
           /\ LiveOf(f)' \subseteq LiveOf(f)
           /\ Status(f) = "COMPLETED" => Status(f)' = "COMPLETED"
           /\ ~Free(f)' => Status(f)' # "COMPLETED"
  PROVE  OneOfCompleted'
  BY DEF OneOfCompleted

LEMMA DeliveryStepKeeps ==
  ASSUME ProvisioningTypeOK, OneOfCompleted, [ProvisioningNext]_provisioningVars
  PROVE  OneOfCompleted'
<1> USE DEF Free, Status
<1>1. ASSUME UNCHANGED <<fulfillment, chosen, activation>> PROVE OneOfCompleted'
  BY <1>1 DEF OneOfCompleted, LiveOf
<1>2. ASSUME NEW f \in Fulfillments, NEW p \in AnyProvider, BeginCreate(f, p) \/ BeginAssign(f, p)
      PROVE  OneOfCompleted'
  BY <1>2 DEF BeginCreate, BeginAssign, OneOfCompleted, LiveOf, ProvisioningTypeOK
<1>3. ASSUME NEW f \in Fulfillments, CommitProvider(f) \/ Rollback(f) PROVE OneOfCompleted'
  BY <1>3 DEF CommitProvider, Rollback, OneOfCompleted, LiveOf, ProvisioningTypeOK
<1>4. ASSUME NEW f \in Fulfillments, Free(f), Status(f) # "COMPLETED", NEW to,
             fulfillment' = [fulfillment EXCEPT ![f].status = to] \/ fulfillment' = Started(f),
             UNCHANGED <<chosen, activation>>
      PROVE  OneOfCompleted'
  <2>1. /\ \A g \in Fulfillments \ {f} : fulfillment'[g] = fulfillment[g]
        /\ \A g \in Fulfillments : LiveOf(g)' = LiveOf(g)
    BY <1>4 DEF Started, LiveOf, ProvisioningTypeOK
  <2>2. LiveOf(f) = {} BY <1>4 DEF OneOfCompleted
  <2> QED BY <1>4, <2>1, <2>2 DEF OneOfCompleted
<1>5. ASSUME NEW f \in Fulfillments, StartFulfillment(f) PROVE OneOfCompleted'
  BY <1>4, <1>5 DEF StartFulfillment, Startable
<1>6. ASSUME NEW f \in Fulfillments, Complete(f) \/ Fail(f) \/ Cancel(f) PROVE OneOfCompleted'
  BY <1>4, <1>6 DEF Complete, Fail, Failable, Cancel, SetStatus
<1>7. ASSUME NEW c \in Calls, NEW f \in Fulfillments, BeginProvision(c, f) PROVE OneOfCompleted'
  BY <1>4, <1>7 DEF BeginProvision, Startable
<1>8. ASSUME NEW c \in Calls, NEW success \in AdapterAnswers, FinishProvision(c, success) PROVE OneOfCompleted'
  <2> DEFINE f == call[c].on
  <2>1. f \in Fulfillments BY <1>8, ProvisioningAssumption DEF FinishProvision, ProvisioningTypeOK
  <2>2. /\ fulfillment'[f].status = "COMPLETED"
        /\ \A g \in Fulfillments \ {f} : fulfillment'[g] = fulfillment[g]
    BY <1>8, <2>1 DEF FinishProvision, AdapterAnswers, ProvisioningTypeOK
  <2>3. Free(f) /\ UNCHANGED <<chosen, activation>> BY <1>8 DEF FinishProvision
  <2> HIDE DEF f
  <2> QED BY <2>1, <2>2, <2>3, DeliveryKept DEF OneOfCompleted, LiveOf
<1>9. ASSUME NEW a \in Activations, NEW f \in Fulfillments, CreateActivation(a, f) PROVE OneOfCompleted'
  <2>1. LiveOf(f)' \subseteq {a} /\ \A g \in Fulfillments \ {f} : LiveOf(g)' \subseteq LiveOf(g)
    BY <1>9 DEF CreateActivation, LiveOf, ProvisioningTypeOK
  <2>2. UNCHANGED <<fulfillment, chosen>> /\ Status(f) = "COMPLETED" BY <1>9 DEF CreateActivation
  <2> QED BY <2>1, <2>2 DEF OneOfCompleted
<1>10. ASSUME NEW a \in Activations, NEW to \in ActivationStatus, TransitionActivation(a, to)
       PROVE  OneOfCompleted'
  <2>1. to \in LiveActivation => activation[a].status \in LiveActivation
    BY <1>10 DEF TransitionActivation, Allowed, LiveActivation
  <2>2. \A g \in Fulfillments : LiveOf(g)' \subseteq LiveOf(g)
    BY <1>10, <2>1 DEF TransitionActivation, LiveOf, ProvisioningTypeOK
  <2>3. UNCHANGED <<fulfillment, chosen>> BY <1>10 DEF TransitionActivation
  <2> QED BY <2>2, <2>3, DeliveryKept DEF OneOfCompleted
<1>11. CASE UNCHANGED provisioningVars BY <1>1, <1>11 DEF provisioningVars
<1>12. ASSUME NEW p \in Providers, NEW on \in BOOLEAN,
              SetProviderStatus(p, on) \/ SetMapping(p, on) \/ ArchiveProvider(p) \/ RestoreProvider(p)
       PROVE  OneOfCompleted'
  BY <1>1, <1>12 DEF SetProviderStatus, SetMapping, ArchiveProvider, RestoreProvider
<1>13. ASSUME NEW f \in Fulfillments, NEW to, MoveSubscription(f, to) PROVE OneOfCompleted'
  BY <1>1, <1>13 DEF MoveSubscription
<1>14. ASSUME NEW c \in Calls, LoseCall(c) PROVE OneOfCompleted'
  BY <1>1, <1>14 DEF LoseCall
<1> QED
  BY <1>2, <1>3, <1>5, <1>6, <1>7, <1>8, <1>9, <1>10, <1>11, <1>12, <1>13, <1>14 DEF ProvisioningNext

LEMMA OneIsAtMostOne ==
  ASSUME NEW S, \A a, b \in S : a = b
  PROVE  Cardinality(S) <= 1
<1>1. CASE S = {} BY <1>1, FS_EmptySet
<1>2. ASSUME NEW a \in S PROVE Cardinality(S) <= 1
  <2>1. S = {a} BY <1>2
  <2> QED BY <2>1, FS_Singleton
<1> QED BY <1>1, <1>2

\* An activation that is live is the only one of its fulfillment, which stays
\* completed, for any number of fulfillments, calls and activations.
THEOREM ActivationsOfCompleted == ProvisioningSpec => []ActivationOfCompleted
<1>1. NumbersInv /\ OneOfCompleted /\ [ProvisioningNext]_provisioningVars => OneOfCompleted'
  BY DeliveryStepKeeps DEF NumbersInv
<1>2. OneOfCompleted => ActivationOfCompleted
  BY OneIsAtMostOne DEF OneOfCompleted, ActivationOfCompleted
<1> QED BY <1>1, <1>2, ProvisioningStart, NumbersAlways, PTL DEF ProvisioningSpec
=============================================================================
