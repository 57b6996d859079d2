------------------------------- MODULE Trials -------------------------------
(***************************************************************************)
(* Trials of a product by a contact, each of an offer: a plan and a        *)
(* variant of the product, or none.  To create one is a transaction: it    *)
(* takes the advisory lock of the offer and holds it to its end, looks for *)
(* a live trial of it that overlaps the period asked for, returns it if    *)
(* there is one and inserts otherwise.  The key of a trial is its offer    *)
(* and when it starts, and is never free again.  Every other operation is  *)
(* a transaction under the lock of the row.  One contact and product stand *)
(* for all.                                                                *)
(***************************************************************************)
EXTENDS Naturals

CONSTANTS
  TrialIds,
  Offers,    \* planId and variantId of the product
  Requests,  \* requests to create
  LastStart, \* bound: periods start at 0 .. LastStart, and are short or long
  NoRequest,
  NoOffer

ASSUME TrialsAssumption == LastStart \in Nat /\ NoRequest \notin Requests /\ NoOffer \notin Offers

VARIABLES
  trial,   \* "Trial"; sold: conversionSaleId is set
  request, \* create: the slot it found free and is to insert
  holder,  \* the request that holds the advisory lock of each offer
  sales    \* how many sales each trial was converted into

trialsVars == <<trial, request, holder, sales>>

TrialStatus == {"none", "REQUESTED", "APPROVED", "ACTIVE", "EXPIRED", "CONVERTED", "CANCELLED"}
LiveTrial == {"REQUESTED", "APPROVED", "ACTIVE"}
Slots == {[offer |-> o, starts |-> s, ends |-> s + length] :
            o \in Offers, s \in 0 .. LastStart, length \in 1 .. 2}

\* No slot: the request is not past its look for an overlap.
NoSlot == [offer |-> NoOffer, starts |-> 0, ends |-> 0]
NoTrial == [status |-> "none", slot |-> NoSlot, sold |-> FALSE]

TrialsTypeOK ==
  /\ trial \in [TrialIds -> [status : TrialStatus, slot : Slots \cup {NoSlot}, sold : BOOLEAN]]
  /\ request \in [Requests -> Slots \cup {NoSlot}]
  /\ holder \in [Offers -> Requests \cup {NoRequest}]
  /\ sales \in [TrialIds -> Nat]

SameTime(p, q) == p.starts < q.ends /\ q.starts < p.ends
Overlap(p, q) == p.offer = q.offer /\ SameTime(p, q)
Live(t) == trial[t].status \in LiveTrial
Busy(p) == \E t \in TrialIds : Live(t) /\ Overlap(trial[t].slot, p)

----------------------------------------------------------------------------
(* create.                                                                 *)

\* Mutant of LockFree: the lock is not waited for.
LockIgnored(o) == TRUE

\* pg_advisory_xact_lock waits for the holder to commit or roll back.
LockFree(o) == holder[o] = NoRequest

\* Nothing changes for a request whose slot is taken: it gets that trial.
FindFreePeriod(r, p) ==
  /\ request[r] = NoSlot
  /\ LockFree(p.offer)
  /\ ~Busy(p)
  /\ holder' = [holder EXCEPT ![p.offer] = r]
  /\ request' = [request EXCEPT ![r] = p]
  /\ UNCHANGED <<trial, sales>>

\* The transaction of a request ends, and its lock with it.
EndCreation(r) ==
  /\ request' = [request EXCEPT ![r] = NoSlot]
  /\ holder' = [holder EXCEPT ![request[r].offer] = NoRequest]
  /\ UNCHANGED sales

\* identityKey: a row of the same offer and start, whatever became of it.
KeyTaken(p) ==
  \E t \in TrialIds : trial[t].slot.offer = p.offer /\ trial[t].slot.starts = p.starts

InsertTrial(r, t) ==
  /\ request[r] # NoSlot
  /\ trial[t].status = "none"
  /\ ~KeyTaken(request[r])
  /\ trial' = [trial EXCEPT ![t] = [status |-> "REQUESTED", slot |-> request[r], sold |-> FALSE]]
  /\ EndCreation(r)

\* The key is taken (TRIAL_DUPLICATE), a statement fails or the process dies.
AbortCreation(r) ==
  /\ request[r] # NoSlot
  /\ EndCreation(r)
  /\ UNCHANGED trial

----------------------------------------------------------------------------
(* transition and convert.                                                 *)

\* The transitions the controller asks for; its own status is accepted again.
MayBecome(from, to) ==
  \/ from = to
  \/ from = "REQUESTED" /\ to \in {"APPROVED", "CANCELLED"}
  \/ from = "APPROVED" /\ to \in {"ACTIVE", "CANCELLED"}
  \/ from = "ACTIVE" /\ to \in {"EXPIRED", "CANCELLED"}

Transition(t, to) ==
  /\ trial[t].status # "none"
  /\ MayBecome(trial[t].status, to)
  /\ trial' = [trial EXCEPT ![t].status = to]
  /\ UNCHANGED <<request, holder, sales>>

\* A trial that was converted gives its sale again.
Convert(t) ==
  /\ trial[t].status = "ACTIVE"
  /\ trial' = [trial EXCEPT ![t].status = "CONVERTED", ![t].sold = TRUE]
  /\ sales' = [sales EXCEPT ![t] = @ + 1]
  /\ UNCHANGED <<request, holder>>

----------------------------------------------------------------------------
TrialsInit ==
  /\ trial = [t \in TrialIds |-> NoTrial]
  /\ request = [r \in Requests |-> NoSlot]
  /\ holder = [o \in Offers |-> NoRequest]
  /\ sales = [t \in TrialIds |-> 0]

TrialsNext ==
  \/ \E r \in Requests :
       \/ \E p \in Slots : FindFreePeriod(r, p)
       \/ \E t \in TrialIds : InsertTrial(r, t)
       \/ AbortCreation(r)
  \/ \E t \in TrialIds :
       \/ \E to \in {"APPROVED", "ACTIVE", "EXPIRED", "CANCELLED"} : Transition(t, to)
       \/ Convert(t)

TrialsSpec == TrialsInit /\ [][TrialsNext]_trialsVars

----------------------------------------------------------------------------
(* Correctness.                                                            *)

\* A contact has one demo of an offer at a time, whatever requests come together
\* and however trials before were approved, cancelled or let expire; and a
\* trial is sold once.
NoOverlappingTrials ==
  \A t, u \in TrialIds :
    /\ t # u /\ Live(t) /\ Live(u) => ~Overlap(trial[t].slot, trial[u].slot)
    /\ sales[t] = IF trial[t].sold THEN 1 ELSE 0

\* The lock is by contact, product and window "para evitar demos simultáneas"
\* (docs/trials.md).  False of the code: another plan or variant is another lock.
OneDemoAtATime ==
  \A t, u \in TrialIds :
    t # u /\ Live(t) /\ Live(u) => ~SameTime(trial[t].slot, trial[u].slot)
============================================================================
