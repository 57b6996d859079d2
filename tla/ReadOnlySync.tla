---------------------------- MODULE ReadOnlySync ----------------------------
(***************************************************************************)
(* The synchronisation of WhatsApp conversations (ConversationImport): a   *)
(* run claims the checkpoint of its organisation, brings the activity of   *)
(* contacts up to the messages after the cursor, page by page, and writes  *)
(* the new cursor.  A claim is good for ten minutes.  A reindex does the   *)
(* same for every conversation, without looking at the cursor.             *)
(*                                                                         *)
(* Messages are numbered by createdAt, which for the reader of WhatsApp    *)
(* Web is when the message was sent: they need not be stored in order.     *)
(* One contact stands for all.                                             *)
(***************************************************************************)
EXTENDS Naturals, FiniteSets

CONSTANTS
  Runs,     \* executions, by request, by recovery at start, or reindexing
  LastSent, \* messages are 1 .. LastSent
  PageSize  \* 500

ASSUME SyncAssumption == LastSent \in Nat /\ PageSize \in Nat \ {0}

Sent == 1 .. LastSent

VARIABLES
  checkpoint, \* "CommunicationSyncCheckpoint": status, lapsed, retry, cursor
  exec,       \* a run: where it is, what it read of the checkpoint
  received,   \* inbound messages
  activity,   \* lastActivityAt of the contact
  outlasted,  \* history: some run was at work when its claim lapsed
  undone      \* history: some run that had succeeded failed the claim of another

syncVars == <<checkpoint, exec, received, activity, outlasted, undone>>

SyncStatus == {"IDLE", "RUNNING", "SUCCEEDED", "FAILED"}
SyncPhase == {"none", "claim", "read", "apply", "reindex", "fail", "close", "undo"}
NoExec == [phase |-> "none", kind |-> "run", busy |-> FALSE, cursor |-> 0, page |-> {}]

SyncTypeOK ==
  /\ checkpoint \in [status : SyncStatus, lapsed : BOOLEAN, retry : BOOLEAN, cursor : 0 .. LastSent]
  /\ exec \in [Runs -> [phase : SyncPhase, kind : {"run", "reindex"}, busy : BOOLEAN,
                        cursor : 0 .. LastSent, page : SUBSET Sent]]
  /\ received \subseteq Sent
  /\ activity \in 0 .. LastSent
  /\ outlasted \in BOOLEAN /\ undone \in BOOLEAN

Working(r) == exec[r].phase \in {"read", "apply", "reindex"}
Newest(S) == IF S = {} THEN 0 ELSE CHOOSE m \in S : \A n \in S : n <= m
Later(a, m) == IF m > a THEN m ELSE a

----------------------------------------------------------------------------
(* Messages arrive (WhatsAppInbound), and write the activity as it comes.  *)

StoreInbound(m) ==
  /\ m \notin received
  /\ received' = received \cup {m}
  /\ activity' = m
  /\ UNCHANGED <<checkpoint, exec, outlasted, undone>>

----------------------------------------------------------------------------
(* acquire: the checkpoint is read, then claimed unless it is RUNNING and  *)
(* not lapsed; and then what was read is looked at again.                  *)

ReadCheckpoint(r, kind) ==
  /\ exec[r].phase = "none"
  /\ exec' = [exec EXCEPT ![r] = [NoExec EXCEPT !.phase = "claim", !.kind = kind,
                !.busy = checkpoint.status = "RUNNING" /\ ~checkpoint.lapsed]]
  /\ UNCHANGED <<checkpoint, received, activity, outlasted, undone>>

\* The recovery at start takes checkpoints that FAILED and may be retried.
Recover(r) ==
  /\ checkpoint.status = "FAILED" /\ checkpoint.retry
  /\ ReadCheckpoint(r, "run")

\* Mutant of Claimable: the status is not in the WHERE of the claim.
ClaimableAnyway == TRUE

Claimable == checkpoint.status # "RUNNING" \/ checkpoint.lapsed

\* A run whose claim succeeded, but had read a busy checkpoint, throws and
\* leaves the checkpoint RUNNING.
ClaimCheckpoint(r) ==
  /\ exec[r].phase = "claim"
  /\ exec' = [exec EXCEPT ![r] =
       IF Claimable /\ ~exec[r].busy
       THEN [@ EXCEPT !.phase = IF exec[r].kind = "run" THEN "read" ELSE "reindex",
                      !.cursor = checkpoint.cursor]
       ELSE NoExec]
  /\ checkpoint' = IF Claimable
                   THEN [checkpoint EXCEPT !.status = "RUNNING", !.lapsed = FALSE, !.retry = FALSE]
                   ELSE checkpoint
  /\ UNCHANGED <<received, activity, outlasted, undone>>

\* Ten minutes after the claim.
LapseClaim ==
  /\ checkpoint.status = "RUNNING" /\ ~checkpoint.lapsed
  /\ checkpoint' = [checkpoint EXCEPT !.lapsed = TRUE]
  /\ outlasted' = (outlasted \/ \E r \in Runs : Working(r) \/ exec[r].phase = "fail")
  /\ UNCHANGED <<exec, received, activity, undone>>

ElapseRetry ==
  /\ checkpoint.status = "FAILED" /\ ~checkpoint.retry
  /\ checkpoint' = [checkpoint EXCEPT !.retry = TRUE]
  /\ UNCHANGED <<exec, received, activity, outlasted, undone>>

----------------------------------------------------------------------------
(* The work of a run.                                                      *)

After(c) == {m \in received : m > c}

\* readMessagesAfter: the first messages after the cursor.
PageAfter(c) == {m \in After(c) : Cardinality({n \in After(c) : n < m}) < PageSize}

\* complete writes whatever the row says, the claim of another run included;
\* the audit and the outbox are still to be written, in the same try.
Succeed(r, cursor) ==
  /\ checkpoint' = [status |-> "SUCCEEDED", lapsed |-> FALSE, retry |-> FALSE, cursor |-> cursor]
  /\ exec' = [exec EXCEPT ![r] = [NoExec EXCEPT !.phase = "close"]]

ReadPage(r) ==
  /\ exec[r].phase = "read"
  /\ LET page == PageAfter(exec[r].cursor) IN
     IF page = {} THEN Succeed(r, exec[r].cursor)
     ELSE /\ exec' = [exec EXCEPT ![r].phase = "apply", ![r].page = page]
          /\ UNCHANGED checkpoint
  /\ UNCHANGED <<received, activity, outlasted, undone>>

\* Contacts move forward only; a short page is the last one.
ApplyPage(r) ==
  /\ exec[r].phase = "apply"
  /\ LET last == Newest(exec[r].page) IN
     /\ activity' = Later(activity, last)
     /\ IF Cardinality(exec[r].page) < PageSize THEN Succeed(r, last)
        ELSE /\ exec' = [exec EXCEPT ![r].phase = "read", ![r].cursor = last, ![r].page = {}]
             /\ UNCHANGED checkpoint
  /\ UNCHANGED <<received, outlasted, undone>>

Reindex(r) ==
  /\ exec[r].phase = "reindex"
  /\ activity' = Later(activity, Newest(received))
  /\ Succeed(r, Newest(received))
  /\ UNCHANGED <<received, outlasted, undone>>

Close(r) ==
  /\ exec[r].phase = "close"
  /\ exec' = [exec EXCEPT ![r] = NoExec]
  /\ UNCHANGED <<checkpoint, received, activity, outlasted, undone>>

\* A run throws at its work, or after it succeeded.
ThrowInRun(r) ==
  /\ Working(r) \/ exec[r].phase = "close"
  /\ exec' = [exec EXCEPT ![r].phase = IF Working(r) THEN "fail" ELSE "undo"]
  /\ UNCHANGED <<checkpoint, received, activity, outlasted, undone>>

\* fail, too, writes whatever the row says.
FailRun(r) ==
  /\ exec[r].phase \in {"fail", "undo"}
  /\ checkpoint' = [checkpoint EXCEPT !.status = "FAILED", !.retry = FALSE]
  /\ exec' = [exec EXCEPT ![r] = NoExec]
  /\ undone' = (undone \/ (exec[r].phase = "undo" /\ checkpoint.status = "RUNNING"))
  /\ UNCHANGED <<received, activity, outlasted>>

\* The process dies, or the write of the outcome throws.
AbortSync(r) ==
  /\ exec[r].phase # "none"
  /\ exec' = [exec EXCEPT ![r] = NoExec]
  /\ UNCHANGED <<checkpoint, received, activity, outlasted, undone>>

----------------------------------------------------------------------------
SyncInit ==
  /\ checkpoint = [status |-> "IDLE", lapsed |-> FALSE, retry |-> FALSE, cursor |-> 0]
  /\ exec = [r \in Runs |-> NoExec]
  /\ received = {}
  /\ activity = 0
  /\ outlasted = FALSE /\ undone = FALSE

SyncNext ==
  \/ \E m \in Sent : StoreInbound(m)
  \/ LapseClaim \/ ElapseRetry
  \/ \E r \in Runs :
       \/ \E kind \in {"run", "reindex"} : ReadCheckpoint(r, kind)
       \/ Recover(r) \/ ClaimCheckpoint(r) \/ ReadPage(r) \/ ApplyPage(r) \/ Reindex(r)
       \/ Close(r) \/ ThrowInRun(r) \/ FailRun(r) \/ AbortSync(r)

SyncSpec == SyncInit /\ [][SyncNext]_syncVars

----------------------------------------------------------------------------
(* Correctness.                                                            *)

\* An organisation has one run at work, and the checkpoint says RUNNING for as
\* long as it is, until a run outlasts its claim, or one that had succeeded
\* throws over its audit or its event and fails the claim of the next.
OneOwner ==
  ~outlasted /\ ~undone =>
    \A r \in Runs : Working(r) =>
      /\ checkpoint.status = "RUNNING"
      /\ \A s \in Runs : Working(s) => s = r

\* "Cada ejecución tiene un solo owner por tenant" (docs/synchronization.md), whatever
\* happens.  False of the code in the two cases OneOwner excepts.
SoleOwner == \A r, s \in Runs : Working(r) /\ Working(s) => r = s

\* A run that succeeds leaves the contact no older than the messages behind the
\* cursor.  False of the code: a message stored late writes its own, older date.
ActivityCovers ==
  checkpoint.status = "SUCCEEDED" =>
    activity >= Newest({m \in received : m <= checkpoint.cursor})
============================================================================
