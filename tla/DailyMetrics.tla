---------------------------- MODULE DailyMetrics -----------------------------
(***************************************************************************)
(* The daily metrics that people enter or import from a file: one row a    *)
(* day, campaign and country.  A request is one transaction of a row, or   *)
(* of all the rows of a file; campaigns are found by their name, or made.  *)
(* Each row is read, then written; what a transaction has written is its   *)
(* own until it commits, and its rows and keys are locked till then.  The  *)
(* parser has refused a file with a row that is wrong; a row is what a     *)
(* request says of a day, by its request and place in the file.            *)
(***************************************************************************)
EXTENDS Integers, Sequences, FiniteSets

CONSTANTS
  Requests,
  Dates, Places,  \* days and countries
  Campaigns,      \* rows of "Campaign" that names may need
  NoCampaign,     \* campaignKey ''
  CampaignNames,
  MetricFiles     \* what a request may bring: sequences of [date, place, name, id], of sets name and id

\* A line of a file: the campaign it names, by its name or its id, or none.
MetricRow == [date : Dates, place : Places, name : SUBSET CampaignNames, id : SUBSET Campaigns]

ASSUME DailyMetricsAssumption ==
  NoCampaign \notin Campaigns /\ MetricFiles \subseteq Seq(MetricRow)

VARIABLES
  metric,   \* "DailyMetric" by its unique key; gone: deletedAt
  named,    \* "Campaign": its name, whether it is active
  request

metricVars == <<metric, named, request>>

Absent == [of |-> {}, gone |-> FALSE]
NoName == [name |-> {}, active |-> FALSE]
Idle == [op |-> "none", state |-> "idle", file |-> <<>>, at |-> 1, read |-> {}, key |-> <<>>,
         wrote |-> {}, made |-> {}, told |-> {}]
MetricKeys == Dates \X (Campaigns \cup {NoCampaign}) \X Places
Figures == [by : Requests, row : 1 .. 2]

\* What a transaction sees: what is committed, under what it wrote itself.
Own(r) == {w.key : w \in request[r].wrote}
Seen(r, k) == IF k \in Own(r) THEN (CHOOSE w \in request[r].wrote : w.key = k).row ELSE metric[k]
Others(r) == {q \in Requests \ {r} : request[q].state = "open"}
Held(r) == UNION {Own(q) : q \in Others(r)}

\* resolveCampaign: an active campaign of that name, in any case of letters.
CampaignOf(r, name) ==
  {c \in Campaigns : named[c].active /\ named[c].name = name}
    \cup {m.campaign : m \in {n \in request[r].made : n.name = name}}

Begin(r, op, file) ==
  /\ request[r] = Idle
  /\ op # "import" => Len(file) = 1
  /\ op # "upsert" => \A i \in DOMAIN file : file[i].id = {}
  /\ op \in {"edit", "remove"} => \A i \in DOMAIN file : file[i].name = {}
  /\ request' = [request EXCEPT ![r] = [Idle EXCEPT !.op = op, !.state = "open", !.file = file]]
  /\ UNCHANGED <<metric, named>>

Current(r) == request[r].file[request[r].at]

\* A row of an upsert or an import: its campaign, and the metric that is there,
\* removed or not.  A campaign that nobody else sees may be made for it.
ReadRow(r) ==
  /\ request[r].state = "open" /\ request[r].key = <<>> /\ request[r].at <= Len(request[r].file)
  /\ request[r].op \in {"upsert", "import"}
  /\ LET row == Current(r)
         found == CampaignOf(r, row.name)
         Choose(c, made) ==
           LET k == <<row.date, c, row.place>>
           IN request' = [request EXCEPT ![r].key = k, ![r].read = {Seen(r, k)} \ {Absent}, ![r].made = @ \cup made]
     IN \/ row.id \cup row.name = {} /\ Choose(NoCampaign, {})
        \/ \E c \in row.id : named[c].active /\ Choose(c, {})
        \/ row.id = {} /\ row.name # {} /\ \E c \in found : Choose(c, {})
        \/ /\ row.id = {} /\ row.name # {} /\ found = {}
           /\ \E c \in Campaigns :
                /\ named[c] = NoName
                /\ \A q \in Requests : \A m \in request[q].made : m.campaign # c
                /\ Choose(c, {[campaign |-> c, name |-> row.name]})
  /\ UNCHANGED <<metric, named>>

\* An edit or a removal names its row, which must not have been removed.
ReadMetric(r, k) ==
  /\ request[r].state = "open" /\ request[r].key = <<>> /\ request[r].at = 1
  /\ request[r].op \in {"edit", "remove"}
  /\ metric[k] # Absent /\ ~metric[k].gone
  /\ request' = [request EXCEPT ![r].key = k, ![r].read = {metric[k]}]
  /\ UNCHANGED <<metric, named>>

\* The row that is named is not there, or the campaign is not active.
Refused(r) ==
  /\ request[r].state = "open" /\ request[r].key = <<>> /\ request[r].at = 1
  /\ \/ request[r].op \in {"edit", "remove"} /\ \E k \in MetricKeys : metric[k] = Absent \/ metric[k].gone
     \/ request[r].op = "upsert" /\ \E c \in Current(r).id : ~named[c].active
  /\ request' = [request EXCEPT ![r].state = "failed"]
  /\ UNCHANGED <<metric, named>>

\* What is written of a row that was read; an upsert of a removed one leaves it removed.
NewRow(r) ==
  LET old == Seen(r, request[r].key)
  IN [of |-> IF request[r].op = "remove" THEN old.of ELSE {[by |-> r, row |-> request[r].at]},
      gone |-> old.gone \/ request[r].op = "remove"]

Written(r) == {w \in request[r].wrote : w.key # request[r].key} \cup {[key |-> request[r].key, row |-> NewRow(r)]}

\* Mutant of Write: no transaction, each row is committed by itself.
WriteThrough(r) ==
  /\ request[r].state = "open" /\ request[r].key # <<>>
  /\ request' = [request EXCEPT ![r].wrote = Written(r), ![r].key = <<>>, ![r].at = @ + 1]
  /\ metric' = [metric EXCEPT ![request[r].key] = NewRow(r)]
  /\ UNCHANGED named

\* Waits while another transaction holds the key.
Write(r) ==
  /\ request[r].state = "open" /\ request[r].key # <<>> /\ request[r].key \notin Held(r)
  /\ request[r].read # {} \/ Seen(r, request[r].key) = Absent
  /\ request' = [request EXCEPT ![r].wrote = Written(r), ![r].key = <<>>, ![r].at = @ + 1]
  /\ UNCHANGED <<metric, named>>

\* The unique key was taken after it was read: the transaction is undone.  An
\* import fails; an upsert is answered with the row that it takes for the winner,
\* which it looks for by the campaign it named by its id, or else without one.
KeyTaken(r) ==
  /\ request[r].state = "open" /\ request[r].key # <<>> /\ request[r].key \notin Held(r)
  /\ request[r].read = {} /\ Seen(r, request[r].key) # Absent
  /\ LET k == <<Current(r).date, IF Current(r).id = {} THEN NoCampaign ELSE request[r].key[2], Current(r).place>>
         told == IF request[r].op = "upsert" THEN {metric[k]} \ {Absent} ELSE {}
     IN request' = [request EXCEPT ![r].state = IF told = {} THEN "failed" ELSE "done",
                                   ![r].told = told, ![r].wrote = {}, ![r].made = {}, ![r].key = <<>>]
  /\ UNCHANGED <<metric, named>>

Commit(r) ==
  /\ request[r].state = "open" /\ request[r].key = <<>> /\ request[r].at > Len(request[r].file)
  /\ metric' = [k \in MetricKeys |-> Seen(r, k)]
  /\ named' = [c \in Campaigns |-> IF \E m \in request[r].made : m.campaign = c
                                   THEN [name |-> (CHOOSE m \in request[r].made : m.campaign = c).name, active |-> TRUE]
                                   ELSE named[c]]
  /\ request' = [request EXCEPT ![r].state = "done", ![r].wrote = {}, ![r].made = {},
                                ![r].told = {w.row : w \in request[r].wrote}]

\* The process stops, or the database breaks a wait of two for each other.
Abort(r) ==
  /\ request[r].state = "open"
  /\ request' = [request EXCEPT ![r].state = "failed", ![r].wrote = {}, ![r].made = {}, ![r].key = <<>>]
  /\ UNCHANGED <<metric, named>>

\* A campaign is archived elsewhere.
ArchiveCampaign(c) ==
  /\ named[c].active
  /\ named' = [named EXCEPT ![c].active = FALSE]
  /\ UNCHANGED <<metric, request>>

DailyMetricsInit ==
  /\ metric = [k \in MetricKeys |-> Absent]
  /\ named = [c \in Campaigns |-> NoName]
  /\ request = [r \in Requests |-> Idle]

DailyMetricsNext ==
  \/ \E r \in Requests :
       \/ \E op \in {"upsert", "import", "edit", "remove"}, file \in MetricFiles : Begin(r, op, file)
       \/ ReadRow(r) \/ Refused(r) \/ \E k \in MetricKeys : ReadMetric(r, k)
       \/ Write(r) \/ KeyTaken(r) \/ Commit(r) \/ Abort(r)
  \/ \E c \in Campaigns : ArchiveCampaign(c)

DailyMetricsSpec == DailyMetricsInit /\ [][DailyMetricsNext]_metricVars

\* Sums of the rows that are there, in all and by country.
Shown(places) == {k \in MetricKeys : k[3] \in places /\ metric[k] # Absent /\ ~metric[k].gone}

----------------------------------------------------------------------------
(* Correctness.                                                            *)

DailyMetricsTypeOK ==
  /\ metric \in [MetricKeys -> [of : SUBSET Figures, gone : BOOLEAN]]
  /\ named \in [Campaigns -> [name : SUBSET CampaignNames, active : BOOLEAN]]
  /\ \A r \in Requests : request[r].state \in {"idle", "open", "done", "failed"}

\* A file is imported as a whole or not at all, whatever the other requests write
\* meanwhile: no row of a request that has failed, or has not ended, is ever in the
\* table, and the rows of one that ends are there together, the last of a key.
ImportWhole ==
  [][\A r \in Requests :
       LET of(k) == {f \in metric'[k].of : f.by = r}
       IN /\ request'[r].state # "done" => \A k \in MetricKeys : of(k) = {}
          /\ (request[r].state = "open" /\ request'[r].state = "done" /\ request[r].wrote # {}
                /\ request[r].op \in {"upsert", "import"}) =>
               \A i \in DOMAIN request[r].file :
                 \E k \in MetricKeys : \E f \in of(k) :
                   /\ f.row >= i
                   /\ k[1] = request[r].file[i].date /\ k[3] = request[r].file[i].place]_metricVars

\* Do not hold: an active campaign has a name of its own (two requests make it at
\* once); who enters a row is told his own figures (the winner's, or those of a row
\* without campaign); what was entered is shown (a removed row stays removed).
OneCampaignPerName ==
  \A c, d \in Campaigns : named[c].active /\ named[d].active /\ named[c].name = named[d].name => c = d
ToldOwnFigures == \A r \in Requests : request[r].op = "upsert" => \A row \in request[r].told : \A f \in row.of : f.by = r
EnteredIsShown == \A r \in Requests : request[r].op = "upsert" => \A row \in request[r].told : ~row.gone
=============================================================================
