--------------------------- MODULE WhatsAppInbound ---------------------------
(***************************************************************************)
(* How WhatsApp messages become rows.  Two ways in:                        *)
(*                                                                         *)
(*  - Webhooks of the Cloud API are stored as they come (receive) and      *)
(*    applied later, by a poller that claims them with a read and an       *)
(*    update, and by the listener of the event that announced them, which  *)
(*    claims nothing and joins in on whatever is being processed.          *)
(*  - The reader of WhatsApp Web posts each message it sees to the API     *)
(*    (receiveMessage), once: a failed post is logged and forgotten.       *)
(*                                                                         *)
(* A message is stored by one transaction that reads the message, the      *)
(* contact and the conversation, and then inserts what was missing; the    *)
(* unique indexes refuse the insert of a row another transaction inserted  *)
(* in between.  Webhooks are numbered by createdAt.                        *)
(*                                                                         *)
(* Every organisation is in read-only mode (isReadOnly returns true), so   *)
(* no message is ever sent and a delivery status finds no message of ours. *)
(***************************************************************************)
EXTENDS Naturals, FiniteSets, Sequences

CONSTANTS
  Hooks,       \* webhook requests with different event keys
  Pollers,     \* API processes, one timer each
  Listeners,   \* deliveries of WhatsAppWebhookReceived under way
  Messages,    \* messages a webhook carries
  WebMessages, \* messages the reader of WhatsApp Web sees
  Phones,      \* senders
  Carries,     \* the messages of a webhook, in order
  From,        \* the sender of a message
  Old,         \* messages sent before the reader first connected
  Malformed,   \* messages whose sender is not a valid phone number
  BatchLimit,  \* take: 10
  NoHook

ASSUME InboundAssumption ==
  /\ Hooks \subseteq Nat /\ NoHook \notin Hooks
  /\ Pollers \cap Listeners = {}
  /\ Messages \cap WebMessages = {}
  /\ Carries \in [Hooks -> Seq(Messages)]
  /\ \A m \in Messages \cup WebMessages : From[m] \in Phones
  /\ Old \subseteq WebMessages
  /\ Malformed \subseteq Messages
  /\ BatchLimit \in Nat \ {0}

VARIABLES
  hook,     \* "WhatsAppWebhookEvent": status, and whether its time has come
  batch,    \* the rows a poller read and has not finished with
  claimed,  \* whether the poller has also written its claim
  job,      \* processWebhookEvent: the webhook, the position, what was read
  stored,   \* "WhatsAppMessage"
  contact,  \* "Contact": the phones that have a row
  chat,     \* "WhatsAppConversation": unreadCount of each row
  line,     \* the connection and number rows of the reader exist
  started,  \* readerIngestionStartedAt is set
  post,     \* where the API is with a message of the reader
  announced \* history: messages with a MessageReceived event

hookVars == <<hook, batch, claimed, job>>
readerVars == <<line, started, post>>
inboundVars == <<hook, batch, claimed, job, stored, contact, chat, line, started, post, announced>>

----------------------------------------------------------------------------
(* The phone of a contact is kept in the form its writer gives it: the     *)
(* webhook and the forms of the CRM as E.164, the reader as bare digits.   *)

E164(p) == <<p, "e164">>
Digits(p) == <<p, "digits">>
PhoneKeys == Phones \X {"e164", "digits"}

\* phoneNormalized of a message's contact and conversation.  Each form comes
\* with a number of its own, so it also names the conversation.
KeyOf(m) == IF m \in WebMessages THEN Digits(From[m]) ELSE E164(From[m])

\* The rows of its own that a message needs.
Needs == {"contact", "chat", "line"}

HookStatus == {"NONE", "PENDING", "PROCESSING", "PROCESSED", "FAILED"}
Workers == Pollers \cup Listeners
JobPhase == {"read", "insert", "error"}
IdleJob == [hook |-> NoHook, at |-> 1, phase |-> "read", seen |-> {}]

PostPhase == {"none", "insert", "announce", "done", "dropped"}

InboundTypeOK ==
  /\ hook \in [Hooks -> [st : HookStatus, ready : BOOLEAN]]
  /\ batch \in [Pollers -> SUBSET Hooks]
  /\ claimed \in [Pollers -> BOOLEAN]
  /\ \A w \in Workers :
       /\ job[w].hook \in Hooks \cup {NoHook}
       /\ job[w].hook \in Hooks => job[w].at \in 1 .. Len(Carries[job[w].hook]) + 1
       /\ job[w].phase \in JobPhase
       /\ job[w].seen \subseteq Needs
  /\ stored \subseteq Messages \cup WebMessages
  /\ contact \subseteq PhoneKeys
  /\ chat \in [PhoneKeys -> Nat]
  /\ line \in BOOLEAN
  /\ started \in BOOLEAN
  /\ post \in [WebMessages -> [phase : PostPhase, seen : SUBSET Needs]]
  /\ announced \subseteq Messages \cup WebMessages

----------------------------------------------------------------------------
(* Webhooks: reception, polling and claims.                                *)

Hook(st, ready) == [st |-> st, ready |-> ready]

\* A webhook with a new event key; one that repeats a key changes nothing.
Receive(h) ==
  /\ hook[h].st = "NONE"
  /\ hook' = [hook EXCEPT ![h] = Hook("PENDING", TRUE)]
  /\ UNCHANGED <<batch, claimed, job, stored, contact, chat, announced, readerVars>>

\* The clock: the back-off of a failure, or the five minutes of a claim.
ElapseHook(h) ==
  /\ hook[h].st \in {"FAILED", "PROCESSING"} /\ ~hook[h].ready
  /\ hook' = [hook EXCEPT ![h].ready = TRUE]
  /\ UNCHANGED <<batch, claimed, job, stored, contact, chat, announced, readerVars>>

\* Mutant of Due: a webhook whose process died is not taken up again.
DueUnclaimed == {h \in Hooks : hook[h].ready /\ hook[h].st \in {"PENDING", "FAILED"}}

\* The WHERE of the claim.
Due == {h \in Hooks : hook[h].ready /\ hook[h].st \in {"PENDING", "FAILED", "PROCESSING"}}

OldestHooks(S) == {h \in S : Cardinality({g \in S : g < h}) < BatchLimit}

ReadHooks(p) ==
  /\ batch[p] = {} /\ job[p] = IdleJob
  /\ Due # {}
  /\ batch' = [batch EXCEPT ![p] = OldestHooks(Due)]
  /\ claimed' = [claimed EXCEPT ![p] = FALSE]
  /\ UNCHANGED <<hook, job, stored, contact, chat, announced, readerVars>>

\* The updateMany of the claim spares only what was PROCESSED meanwhile.
ClaimHooks(p) ==
  /\ batch[p] # {} /\ ~claimed[p]
  /\ hook' = [h \in Hooks |-> IF h \in batch[p] /\ hook[h].st # "PROCESSED"
                              THEN Hook("PROCESSING", FALSE) ELSE hook[h]]
  /\ claimed' = [claimed EXCEPT ![p] = TRUE]
  /\ UNCHANGED <<batch, job, stored, contact, chat, announced, readerVars>>

\* Worker w is done with the webhooks H of its batch; a listener has none.
LeaveHooks(w, H) ==
  IF w \in Pollers
  THEN /\ batch' = [batch EXCEPT ![w] = @ \ H]
       /\ claimed' = [claimed EXCEPT ![w] = @ /\ batch[w] \ H # {}]
  ELSE UNCHANGED <<batch, claimed>>

FirstHook(p, h) == h \in batch[p] /\ \A g \in batch[p] : h <= g

\* processWebhookEvent goes on only with a row that is PROCESSING.
StartHook(p, h) ==
  /\ claimed[p] /\ job[p] = IdleJob /\ FirstHook(p, h)
  /\ IF hook[h].st = "PROCESSING"
     THEN /\ job' = [job EXCEPT ![p] = [IdleJob EXCEPT !.hook = h]]
          /\ UNCHANGED <<batch, claimed>>
     ELSE /\ LeaveHooks(p, {h})
          /\ UNCHANGED job
  /\ UNCHANGED <<hook, stored, contact, chat, announced, readerVars>>

\* The outbox delivers the event of h, at least once.
Notify(l, h) ==
  /\ job[l] = IdleJob
  /\ hook[h].st = "PROCESSING"
  /\ job' = [job EXCEPT ![l] = [IdleJob EXCEPT !.hook = h]]
  /\ UNCHANGED <<hook, batch, claimed, stored, contact, chat, announced, readerVars>>

----------------------------------------------------------------------------
(* The transaction of a message, shared by both ways in.                   *)

Present(k) ==
  {n \in Needs : \/ n = "contact" /\ k \in contact
                 \/ n = "chat" /\ chat[k] > 0
                 \/ n = "line" /\ line}

\* A webhook comes on a number that exists; the reader makes its own.
OwnNeeds(m) == IF m \in WebMessages THEN Needs ELSE Needs \ {"line"}

\* Mutant of Refused: no unique index on the id of the message.
RefusedUnlessRead(m, seen) == (Present(KeyOf(m)) \cap OwnNeeds(m)) \ seen # {}

\* What a unique index refuses: a row that was missing and no longer is.
Refused(m, seen) ==
  m \in stored \/ (Present(KeyOf(m)) \cap OwnNeeds(m)) \ seen # {}

Insert(m) ==
  /\ stored' = stored \cup {m}
  /\ contact' = contact \cup {KeyOf(m)}
  /\ chat' = [chat EXCEPT ![KeyOf(m)] = @ + 1]

----------------------------------------------------------------------------
(* processWebhookEvent, by a poller or a listener.                         *)

Busy(w) == job[w].hook # NoHook /\ job[w].phase # "error"
MoreToDo(w) == job[w].at <= Len(Carries[job[w].hook])

Current(w) == Carries[job[w].hook][job[w].at]

ToNext(w) == [job EXCEPT ![w].at = @ + 1, ![w].phase = "read", ![w].seen = {}]
ToCatch(w) == [job EXCEPT ![w].phase = "error", ![w].seen = {}]

\* The reads of processInboundMessage: a stored message is passed over, an
\* invalid phone throws.
ReadMessage(w) ==
  /\ job[w].phase = "read" /\ Busy(w) /\ MoreToDo(w)
  /\ job' = IF Current(w) \in stored THEN ToNext(w)
            ELSE IF Current(w) \in Malformed THEN ToCatch(w)
            ELSE [job EXCEPT ![w].phase = "insert", ![w].seen = Present(KeyOf(Current(w)))]
  /\ UNCHANGED <<hook, batch, claimed, stored, contact, chat, announced, readerVars>>

\* Mutant of StoreMessage: a refused insert is taken for a duplicate.
StoreOrSkip(w) ==
  /\ job[w].phase = "insert"
  /\ job' = ToNext(w)
  /\ IF Refused(Current(w), job[w].seen)
     THEN UNCHANGED <<stored, contact, chat, announced>>
     ELSE /\ Insert(Current(w))
          /\ announced' = announced \cup {Current(w)}
  /\ UNCHANGED <<hook, batch, claimed, readerVars>>

StoreMessage(w) ==
  /\ job[w].phase = "insert"
  /\ IF Refused(Current(w), job[w].seen)
     THEN /\ job' = ToCatch(w)
          /\ UNCHANGED <<stored, contact, chat, announced>>
     ELSE /\ Insert(Current(w))
          /\ announced' = announced \cup {Current(w)}
          /\ job' = ToNext(w)
  /\ UNCHANGED <<hook, batch, claimed, readerVars>>

\* A statement fails, be it the write of the success.
FailJob(w) ==
  /\ Busy(w)
  /\ job' = ToCatch(w)
  /\ UNCHANGED <<hook, batch, claimed, stored, contact, chat, announced, readerVars>>

\* The outcome is written whatever the row says by then.
EndJob(w, outcome) ==
  /\ hook' = [hook EXCEPT ![job[w].hook] = Hook(outcome, FALSE)]
  /\ job' = [job EXCEPT ![w] = IdleJob]
  /\ LeaveHooks(w, {job[w].hook})
  /\ UNCHANGED <<stored, contact, chat, announced, readerVars>>

MarkHookProcessed(w) == Busy(w) /\ ~MoreToDo(w) /\ EndJob(w, "PROCESSED")
MarkHookFailed(w) == job[w].phase = "error" /\ EndJob(w, "FAILED")

\* The process dies, or the write of a failure throws.
AbortJob(w) ==
  /\ job[w] # IdleJob \/ (w \in Pollers /\ batch[w] # {})
  /\ job' = [job EXCEPT ![w] = IdleJob]
  /\ LeaveHooks(w, Hooks)
  /\ UNCHANGED <<hook, stored, contact, chat, announced, readerVars>>

----------------------------------------------------------------------------
(* The reader of WhatsApp Web, and the forms of the CRM.                   *)

Post(phase, seen) == [phase |-> phase, seen |-> seen]

\* A contact entered by hand: its phone is normalised to E.164.
CreateContact(p) ==
  /\ E164(p) \notin contact
  /\ contact' = contact \cup {E164(p)}
  /\ UNCHANGED <<hookVars, stored, chat, announced, readerVars>>

\* receiveStatus CONNECTED: the first one sets the start of the ingestion.
Connect ==
  /\ ~started
  /\ started' = TRUE
  /\ UNCHANGED <<hookVars, stored, contact, chat, announced, line, post>>

\* receiveMessage reads; older than the start of the ingestion: discarded.
ReadPost(m) ==
  /\ post[m].phase = "none"
  /\ post' = [post EXCEPT ![m] = IF m \in Old /\ started THEN Post("dropped", {})
                                 ELSE Post("insert", Present(KeyOf(m)))]
  /\ UNCHANGED <<hookVars, stored, contact, chat, announced, line, started>>

StorePost(m) ==
  /\ post[m].phase = "insert"
  /\ IF Refused(m, post[m].seen)
     THEN /\ post' = [post EXCEPT ![m] = Post("dropped", {})]
          /\ UNCHANGED <<stored, contact, chat, line>>
     ELSE /\ Insert(m)
          /\ line' = TRUE
          /\ post' = [post EXCEPT ![m] = Post("announce", {})]
  /\ UNCHANGED <<hookVars, announced, started>>

\* The event is enqueued after the transaction has committed.
AnnouncePost(m) ==
  /\ post[m].phase = "announce"
  /\ post' = [post EXCEPT ![m] = Post("done", {})]
  /\ announced' = announced \cup {m}
  /\ UNCHANGED <<hookVars, stored, contact, chat, line, started>>

\* The request fails or its process dies; the reader does not try again.
DropPost(m) ==
  /\ post[m].phase \in {"insert", "announce"}
  /\ post' = [post EXCEPT ![m] = Post("dropped", {})]
  /\ UNCHANGED <<hookVars, stored, contact, chat, announced, line, started>>

----------------------------------------------------------------------------
InboundInit ==
  /\ hook = [h \in Hooks |-> Hook("NONE", FALSE)]
  /\ batch = [p \in Pollers |-> {}]
  /\ claimed = [p \in Pollers |-> FALSE]
  /\ job = [w \in Workers |-> IdleJob]
  /\ stored = {}
  /\ contact = {}
  /\ chat = [k \in PhoneKeys |-> 0]
  /\ line = FALSE
  /\ started = FALSE
  /\ post = [m \in WebMessages |-> Post("none", {})]
  /\ announced = {}

InboundNext ==
  \/ \E h \in Hooks : Receive(h) \/ ElapseHook(h)
  \/ \E p \in Pollers : \/ ReadHooks(p) \/ ClaimHooks(p)
                        \/ \E h \in Hooks : StartHook(p, h)
  \/ \E l \in Listeners, h \in Hooks : Notify(l, h)
  \/ \E w \in Workers : \/ ReadMessage(w) \/ StoreMessage(w) \/ FailJob(w)
                        \/ MarkHookProcessed(w) \/ MarkHookFailed(w) \/ AbortJob(w)
  \/ \E p \in Phones : CreateContact(p)
  \/ Connect
  \/ \E m \in WebMessages : ReadPost(m) \/ StorePost(m) \/ AnnouncePost(m) \/ DropPost(m)

InboundSpec == InboundInit /\ [][InboundNext]_inboundVars

\* The timer fires, awaited calls return, clocks advance, and neither
\* statements nor processes fail for ever; claims are not outlasted for ever.
InboundFairness ==
  /\ \A h \in Hooks : WF_inboundVars(ElapseHook(h))
  /\ \A p \in Pollers : /\ WF_inboundVars(ReadHooks(p)) /\ WF_inboundVars(ClaimHooks(p))
                        /\ \A h \in Hooks : WF_inboundVars(StartHook(p, h))
  /\ \A w \in Workers : /\ WF_inboundVars(ReadMessage(w)) /\ WF_inboundVars(StoreMessage(w))
                        /\ WF_inboundVars(MarkHookProcessed(w))
                        /\ WF_inboundVars(MarkHookFailed(w))
  /\ <>[][\A w \in Workers : ~AbortJob(w) /\ ~FailJob(w)]_inboundVars
  /\ <>[][\A h \in Hooks : ~(ElapseHook(h) /\ \E w \in Workers : job[w].hook = h)]_inboundVars

FairInboundSpec == InboundSpec /\ InboundFairness

----------------------------------------------------------------------------
(* Correctness.                                                            *)

\* A conversation counts each of its messages once, however many workers
\* apply the webhooks that carry it, and each stored message has a contact.
UnreadMatches ==
  /\ \A k \in PhoneKeys : chat[k] = Cardinality({m \in stored : KeyOf(m) = k})
  /\ \A m \in stored : KeyOf(m) \in contact

\* A webhook that is put aside as PROCESSED has left no message behind.
ProcessedIsStored ==
  \A h \in Hooks : hook[h].st = "PROCESSED" =>
    \A i \in DOMAIN Carries[h] : Carries[h][i] \in stored

\* Messages of h that no message with an invalid sender comes before.
Reachable(h) ==
  {Carries[h][i] : i \in {j \in DOMAIN Carries[h] :
                            \A b \in 1 .. j : Carries[h][b] \notin Malformed}}

\* A message of a received webhook is stored in the end, although processes
\* die and workers collide over its contact and conversation.
EventuallyStored ==
  \A h \in Hooks : \A m \in Reachable(h) : hook[h].st # "NONE" ~> m \in stored
============================================================================
