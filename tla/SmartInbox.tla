----------------------------- MODULE SmartInbox ------------------------------
(***************************************************************************)
(* The inbox over the conversations of WhatsApp: its views with their      *)
(* counters, the row and the panel of a conversation, its timeline, and    *)
(* what a seller does from it, which calls the services of the rest of the *)
(* CRM.  The workspace is read only: marking as read, assigning, sending   *)
(* and closing always refuse, so a conversation stays open and unassigned. *)
(* A conversation has a contact of its own; what happens to the contact is *)
(* a log in the order of time, which the messages that the reader finds    *)
(* late enter at the time they were written.  Nothing is ever sent, so     *)
(* every message came in; payments and credentials are read as sales are.  *)
(***************************************************************************)
EXTENDS Integers, Sequences, FiniteSets, SequencesExt

CONSTANTS
  Chats,           \* "WhatsAppConversation", each with its contact
  Talks, ChatOf,   \* "Opportunity" and the conversation of its contact
  Many, Few, Cut,  \* rows the timeline takes of some kinds and of the others, and those it shows
  LogEnd           \* bound on what happens to a contact

ASSUME SmartInboxAssumption ==
  /\ ChatOf \in [Talks -> Chats]
  /\ {Many, Few, Cut, LogEnd} \subseteq Nat \ {0} /\ Few <= Many /\ Many <= Cut

VARIABLES
  chat,   \* of a contact and its conversation, see NewChat
  talk,   \* of an opportunity, see NoTalk
  recent  \* the opportunities, the one updated last at the end

inboxVars == <<chat, talk, recent>>

\* The category of its stage, the ones its follow-ups that are pending were scheduled
\* in, the status of its sale.
NoTalk == [stage |-> "none", archived |-> FALSE, planned |-> {}, sale |-> "none"]

\* What happened, the place of the message stored last (none without a conversation),
\* unreadCount, whether a renewal is due, trials, and the status of a sale without opportunity.
NewChat == [log |-> <<>>, last |-> 0, unread |-> 0, renewals |-> FALSE, trials |-> 0, loose |-> "none"]

Conversations == {c \in Chats : chat[c].last # 0}
TalksOf(c) == {d \in Talks : ChatOf[d] = c /\ talk[d].stage # "none"}

\* Rows a step adds to the timeline (one for all the activities it records), and the
\* opportunity it writes.
Recorded(c, kinds) ==
  /\ Len(chat[c].log) + Len(kinds) <= LogEnd
  /\ chat' = [chat EXCEPT ![c].log = @ \o kinds]
Touched(d) == Append(RemoveFirst(recent, d), d)

\* The opportunity an action goes to, which is the one updated last whatever its stage;
\* and the one the row shows, archived or not.
LastOf(ds) == {recent[i] : i \in {j \in DOMAIN recent : /\ recent[j] \in ds
                                                       /\ \A k \in DOMAIN recent : recent[k] \in ds => k <= j}}
activeOpportunity(c) == LastOf({d \in TalksOf(c) : ~talk[d].archived})
shownOpportunity(c) == LastOf(TalksOf(c))

----------------------------------------------------------------------------
(* What the reader and the rest of the CRM do.                             *)

\* A message enters the log at its own time, with its activity; the first opens the
\* conversation, and the last one stored is the last whatever its time.
StoreMessage(c, at) ==
  /\ at \in 1 .. Len(chat[c].log) + 1
  /\ Len(chat[c].log) + 2 <= LogEnd
  /\ chat' = [chat EXCEPT ![c].log = InsertAt(InsertAt(@, at, "ACTIVITY"), at, "MESSAGE"),
                          ![c].last = at, ![c].unread = @ + 1]
  /\ UNCHANGED <<talk, recent>>

OpenTalk(d) ==
  /\ talk[d].stage = "none"
  /\ Recorded(ChatOf[d], <<"ACTIVITY", "PIPELINE">>)
  /\ talk' = [talk EXCEPT ![d].stage = "OPEN"]
  /\ recent' = Touched(d)

\* Its follow-ups are left as they are.
ArchiveTalk(d) ==
  /\ talk[d].stage # "none" /\ ~talk[d].archived
  /\ Recorded(ChatOf[d], <<"ACTIVITY">>)
  /\ talk' = [talk EXCEPT ![d].archived = TRUE]
  /\ recent' = Touched(d)

\* The sale of an opportunity is confirmed, which wins it and cancels what was planned
\* for it, if it was not won already, or cancelled.
SettleSale(d, status) ==
  /\ talk[d].sale = "DRAFT"
  /\ talk' = [talk EXCEPT ![d].sale = status, ![d].stage = IF status = "CONFIRMED" THEN "WON" ELSE @,
                          ![d].planned = IF status = "CANCELLED" \/ talk[d].stage = "WON" THEN @ ELSE {}]
  /\ Recorded(ChatOf[d], IF talk'[d].stage # talk[d].stage THEN <<"ACTIVITY", "PIPELINE">> ELSE <<"ACTIVITY">>)
  /\ recent' = IF talk'[d].stage # talk[d].stage THEN Touched(d) ELSE recent
SettleLoose(c, status) ==
  /\ chat[c].loose = "DRAFT"
  /\ Len(chat[c].log) < LogEnd
  /\ chat' = [chat EXCEPT ![c].loose = status, ![c].log = Append(@, "ACTIVITY")]
  /\ UNCHANGED <<talk, recent>>

\* A renewal of the contact comes due, or is settled.
RenewalOf(c, due) ==
  /\ chat[c].renewals # due
  /\ due => Len(chat[c].log) < LogEnd
  /\ chat' = [chat EXCEPT ![c].renewals = due, ![c].log = IF due THEN Append(@, "RENEWAL") ELSE @]
  /\ UNCHANGED <<talk, recent>>

----------------------------------------------------------------------------
(* Actions of a seller, on a conversation.                                 *)

addNote(c) == Recorded(c, <<"ACTIVITY">>) /\ UNCHANGED <<talk, recent>>

\* A closed opportunity is not moved; one that closes has its follow-ups cancelled.
movePipeline(c, stage) ==
  \E d \in activeOpportunity(c) :
    /\ talk[d].stage = "OPEN"
    /\ Recorded(c, <<"PIPELINE", "ACTIVITY">>)
    /\ talk' = [talk EXCEPT ![d].stage = stage, ![d].planned = IF stage = "OPEN" THEN @ ELSE {}]
    /\ recent' = Touched(d)

\* A draft, of the active opportunity if there is one: it has one sale that is not
\* cancelled.  Without an opportunity the model keeps one sale of the contact.
createSale(c) ==
  LET active == activeOpportunity(c)
      rows == <<"SALE", "ACTIVITY">>
  IN /\ \A d \in active : talk[d].sale \in {"none", "CANCELLED"}
     /\ active = {} => chat[c].loose = "none"
     /\ Len(chat[c].log) + 2 <= LogEnd
     /\ chat' = [chat EXCEPT ![c].log = @ \o rows, ![c].loose = IF active = {} THEN "DRAFT" ELSE @]
     /\ talk' = [d \in Talks |-> IF d \in active THEN [talk[d] EXCEPT !.sale = "DRAFT"] ELSE talk[d]]
     /\ UNCHANGED recent

\* For the active opportunity, whatever its stage (a seller gives a reason for one that is
\* closed) and whatever is planned for it; it is not written itself.
scheduleFollowUp(c) ==
  \E d \in activeOpportunity(c) :
    /\ Recorded(c, <<"ACTIVITY">>)
    /\ talk' = [talk EXCEPT ![d].planned = @ \cup {talk[d].stage}]
    /\ UNCHANGED recent

\* For an item of a sale of the contact that is confirmed.
createFulfillment(c) ==
  /\ "CONFIRMED" \in {chat[c].loose} \cup {talk[d].sale : d \in TalksOf(c)}
  /\ Recorded(c, <<"FULFILLMENT", "ACTIVITY">>)
  /\ UNCHANGED <<talk, recent>>

createTrial(c) ==
  /\ Len(chat[c].log) < LogEnd
  /\ chat' = [chat EXCEPT ![c].log = Append(@, "ACTIVITY"), ![c].trials = @ + 1]
  /\ UNCHANGED <<talk, recent>>

SmartInboxInit ==
  /\ chat = [c \in Chats |-> NewChat]
  /\ talk = [d \in Talks |-> NoTalk]
  /\ recent = <<>>

InboxStep ==
  \/ \E c \in Chats : \/ \E at \in 1 .. LogEnd : StoreMessage(c, at)
                      \/ \E due \in BOOLEAN : RenewalOf(c, due)
                      \/ \E status \in {"CONFIRMED", "CANCELLED"} : SettleLoose(c, status)
  \/ \E c \in Conversations : \/ \E stage \in {"OPEN", "WON", "LOST"} : movePipeline(c, stage)
                              \/ addNote(c) \/ createSale(c) \/ scheduleFollowUp(c)
                              \/ createFulfillment(c) \/ createTrial(c)
  \/ \E d \in Talks : \/ OpenTalk(d) \/ ArchiveTalk(d)
                      \/ \E status \in {"CONFIRMED", "CANCELLED"} : SettleSale(d, status)

SmartInboxSpec == SmartInboxInit /\ [][InboxStep]_inboxVars

----------------------------------------------------------------------------
(* Views.                                                                  *)

HasPending(c) == \E d \in TalksOf(c) : ~talk[d].archived /\ talk[d].planned # {}

\* The view of renewals has no condition of its own: only its filter has one.
buildWhere(inView) ==
  {c \in Conversations : /\ inView \notin {"MINE", "CLOSED", "ARCHIVED", "TRASH"}
                         /\ inView = "PENDING" => HasPending(c)}

SalesOf(c) == {s \in {chat[c].loose} \cup {talk[d].sale : d \in TalksOf(c)} : s # "none"}

filtered(inView, filter) ==
  {c \in buildWhere(inView) :
    /\ filter = "unread" => chat[c].unread > 0
    /\ filter = "pending" => HasPending(c)
    /\ filter = "demo" => chat[c].trials > 0
    /\ filter = "renewal" => chat[c].renewals
    /\ filter = "sale" => SalesOf(c) \ {"CANCELLED"} # {}}

viewCounts ==
  LET all == Cardinality(Conversations)
  IN [INBOX |-> all, UNASSIGNED |-> all, MINE |-> 0, CLOSED |-> 0, ARCHIVED |-> 0,
      PENDING |-> Cardinality({c \in Conversations : HasPending(c)}),
      RENEWALS |-> Cardinality({c \in Conversations : chat[c].renewals})]

\* The rows of one query, the newest of them, and what is cut of all together.
NewestOf(S, n) == {i \in S : Cardinality({j \in S : j >= i}) <= n}
RowsOf(c, kinds) == {i \in DOMAIN chat[c].log : chat[c].log[i] \in kinds}

\* A conversation that came in long ago says so as nothing was ever answered.
mapConversation(c) ==
  [pipeline |-> {talk[d].stage : d \in shownOpportunity(c)},
   lastMessage |-> NewestOf(RowsOf(c, {"MESSAGE"}), 1),
   lastMessageAt |-> chat[c].last,
   renewalDue |-> chat[c].renewals,
   sold |-> SalesOf(c) # {},
   demo |-> chat[c].trials > 0,
   unreadCount |-> chat[c].unread]

responseStats(c) == [messageCount |-> Cardinality(RowsOf(c, {"MESSAGE"})), firstResponse |-> {}]

Taken(c) ==
  (UNION {NewestOf(RowsOf(c, {kind}), Many) : kind \in {"MESSAGE", "ACTIVITY", "PIPELINE"}})
    \cup (UNION {NewestOf(RowsOf(c, {kind}), Few) : kind \in {"SALE", "FULFILLMENT", "RENEWAL"}})
timeline(c) == NewestOf(Taken(c), Cut)

\* The panel beside a conversation; its revenue is that of its sales of any status.
detail(c) ==
  [conversation |-> mapConversation(c), timeline |-> timeline(c), stats |-> responseStats(c),
   followUps |-> {d \in TalksOf(c) : talk[d].planned # {}}, sales |-> SalesOf(c)]

----------------------------------------------------------------------------
(* Correctness.                                                            *)

\* The inbox keeps what waits in sight: every counter but that of the renewals is the
\* length of its view; a conversation has a message, counts all of them as unread and
\* shows the newest; what waits in the view of what is pending is in the panel, and no
\* follow-up outlasts the opportunity it was planned for while that was open; the row
\* shows the opportunity that an action goes to unless it is archived, and a contact with
\* a sale by the filter shows it; the timeline has what happened last and no hole among
\* the rows of a kind.
InboxKeepsInSight ==
  /\ \A v \in DOMAIN viewCounts \ {"RENEWALS"} : viewCounts[v] = Cardinality(buildWhere(v))
  /\ \A c \in Conversations :
       LET panel == detail(c)
           shown == shownOpportunity(c)
       IN /\ c \in filtered("INBOX", "unread")
          /\ panel.conversation.unreadCount = panel.stats.messageCount
          /\ panel.conversation.lastMessage # {}
          /\ c \in filtered("INBOX", "pending") => panel.followUps # {}
          /\ \A d \in panel.followUps : "OPEN" \in talk[d].planned => talk[d].stage = "OPEN"
          /\ activeOpportunity(c) = shown \/ \E d \in shown : talk[d].archived
          /\ c \in filtered("INBOX", "sale") => panel.conversation.sold
          /\ Len(chat[c].log) \in panel.timeline
          /\ \A i \in panel.timeline, j \in DOMAIN chat[c].log :
               chat[c].log[i] = chat[c].log[j] /\ i < j => j \in panel.timeline

\* Does not hold: the view of the renewals lists what its counter counts
\* (docs/smart-inbox.md names it among the views).
RenewalsViewCounts == viewCounts.RENEWALS = Cardinality(buildWhere("RENEWALS"))

\* Does not hold: an action goes to the opportunity that the row shows, which may be
\* an archived one.
ActsOnTheShown == \A c \in Chats : activeOpportunity(c) = shownOpportunity(c)

\* Does not hold: with an open opportunity a follow-up can be scheduled; one that was
\* closed after it is taken for the active one.
OpenIsActive ==
  \A c \in Chats : (\E d \in TalksOf(c) : ~talk[d].archived /\ talk[d].stage = "OPEN")
    => \E d \in activeOpportunity(c) : talk[d].stage = "OPEN"

\* Does not hold: what the panel plans is in the view of what is pending; the panel
\* shows it for archived opportunities too.
PlannedIsPending == \A c \in Conversations : detail(c).followUps # {} => c \in buildWhere("PENDING")

\* Does not hold: a conversation is dated by its newest message; one that the reader
\* finds late dates it back, and the inbox is in that order.
DatedByTheNewest == \A c \in Conversations : chat[c].last \in NewestOf(RowsOf(c, {"MESSAGE"}), 1)

\* Does not hold: the timeline is of the newest rows; beyond what a query takes an
\* older row of another kind is shown instead.
TimelineIsNewest == \A c \in Chats : timeline(c) = NewestOf(DOMAIN chat[c].log, Cut)

\* Does not hold: the chip of a closed sale agrees with the filter by sale.
SoldChipMeansSold == \A c \in Conversations : mapConversation(c).sold => c \in filtered("INBOX", "sale")
=============================================================================
