------------------------------- MODULE Marketing -------------------------------
(***************************************************************************)
(* Marketing: campaigns and the ad sets below them, the spend recorded on  *)
(* them, the sales attributed to them with the performance read from both, *)
(* and the import of rows from a file.  Spend and imports are idempotent:  *)
(* a key is looked up, inserted, and looked up again when the unique index *)
(* refuses it.  An import writes its rows one by one, outside of any       *)
(* transaction, and its process may stop between any two of them.  Ads and *)
(* creatives stand with ad sets; one currency and one day stand for all;   *)
(* the contact an import creates is whether it was created.                *)
(***************************************************************************)
EXTENDS Naturals, FiniteSets, FiniteSetsExt

CONSTANTS
  Campaigns, AdSets, NoAdSet,
  Spends,          \* rows of "Expense" with a campaign
  Keys, Amounts,
  Spenders,        \* requests to record spend
  SoldSales,       \* sales that can be attributed
  CommercialImports, ImportFiles, ImportRows,
  Importers        \* requests to import a file

ASSUME MarketingAssumption == NoAdSet \notin AdSets /\ Amounts \subseteq Nat

VARIABLES
  campaign,    \* "Campaign"
  adSet,       \* "MarketingAdSet": the campaign of each
  spend,       \* "Expense"
  spending,    \* a request to record spend: what it asks for and where it stands
  conversion,  \* "Attribution" of kind CONVERSION: <<sale, campaign>>
  counted,     \* the sales that are confirmed or fulfilled
  import,      \* "CommercialImport"
  importRow,   \* "CommercialImportRow": the status of each row
  executing,   \* a request to import, and the rows it has left
  written      \* history: how often each row of an import was written

campaignVars == <<campaign, adSet, spend, spending, conversion, counted>>
importVars == <<import, importRow, executing, written>>
marketingVars == <<campaign, adSet, spend, spending, conversion, counted,
                   import, importRow, executing, written>>

Void == [at |-> "none"]
MarketingStatus == {"ACTIVE", "INACTIVE", "ARCHIVED"}
SpendRow == [key : Keys, campaign : Campaigns, adSet : AdSets \cup {NoAdSet}, amount : Amounts,
             deleted : BOOLEAN]
SpendRequest == [at : {"new", "checked", "lost"}, key : Keys, campaign : Campaigns,
                 adSet : AdSets \cup {NoAdSet}, amount : Amounts]
ImportStatus == {"PROCESSING", "COMPLETED", "FAILED"}

MarketingTypeOK ==
  /\ \A c \in Campaigns : campaign[c] # Void =>
       campaign[c] \in [status : MarketingStatus, active : BOOLEAN, deleted : BOOLEAN]
  /\ \A a \in AdSets : adSet[a] # Void => adSet[a] \in [campaign : Campaigns]
  /\ \A s \in Spends : spend[s] # Void => spend[s] \in SpendRow
  /\ \A r \in Spenders : spending[r] # Void =>
       spending[r] \in SpendRequest \cup [at : {"told", "refused"}, row : Spends, key : Keys,
          campaign : Campaigns, adSet : AdSets \cup {NoAdSet}, amount : Amounts]
  /\ conversion \subseteq SoldSales \X Campaigns /\ counted \subseteq SoldSales
  /\ \A i \in CommercialImports : import[i] # Void =>
       import[i] \in [status : ImportStatus, key : Keys, file : ImportFiles]
  /\ importRow \in [CommercialImports \X ImportRows -> {"none", "PENDING", "SUCCEEDED", "FAILED"}]
  /\ written \in [CommercialImports \X ImportRows -> 0 .. 2]

----------------------------------------------------------------------------
(* Campaigns.                                                              *)

Kept(c) == campaign[c] # Void /\ ~campaign[c].deleted

CreateCampaign(c, status) ==
  /\ campaign[c] = Void
  /\ campaign' = [campaign EXCEPT ![c] = [status |-> status, active |-> status = "ACTIVE",
                                          deleted |-> FALSE]]
  /\ UNCHANGED <<adSet, spend, spending, conversion, counted>>

\* A status sets the switch, and a switch that was sent with it has the last word.
UpdateCampaign(c, status, active) ==
  /\ Kept(c)
  /\ campaign' = [campaign EXCEPT ![c].status = status, ![c].active = active]
  /\ UNCHANGED <<adSet, spend, spending, conversion, counted>>

ArchiveCampaign(c) ==
  /\ Kept(c)
  /\ campaign' = [campaign EXCEPT ![c] = [status |-> "ARCHIVED", active |-> FALSE, deleted |-> TRUE]]
  /\ UNCHANGED <<adSet, spend, spending, conversion, counted>>

\* createHierarchy.
CreateAdSet(a, c) ==
  /\ adSet[a] = Void /\ Kept(c)
  /\ adSet' = [adSet EXCEPT ![a] = [campaign |-> c]]
  /\ UNCHANGED <<campaign, spend, spending, conversion, counted>>

AdSetOf(a, c) == a \in {NoAdSet} \cup {b \in AdSets : adSet[b] = [campaign |-> c]}

----------------------------------------------------------------------------
(* Spend.                                                                  *)

SpendWith(key) == {s \in Spends : spend[s] # Void /\ spend[s].key = key}
LiveSpend(row) == row # Void /\ ~row.deleted

\* Expense_marketing_identity_active_key: one live row of a campaign and ad set.
IdentityFree(rows, s) ==
  \A u \in Spends \ {s} : (LiveSpend(rows[u]) /\ LiveSpend(rows[s])) =>
    <<rows[u].campaign, rows[u].adSet>> # <<rows[s].campaign, rows[s].adSet>>

AskSpend(r, request) ==
  /\ spending[r] = Void
  /\ request.at = "new" /\ Kept(request.campaign) /\ AdSetOf(request.adSet, request.campaign)
  /\ spending' = [spending EXCEPT ![r] = request]
  /\ UNCHANGED <<campaign, adSet, spend, conversion, counted>>

\* Mutant of SpendRequestMatches: the campaign is compared, the amount is not.
SpendRequestLike(row, request) == row.campaign = request.campaign /\ row.adSet = request.adSet

\* spendRequestMatches.
SpendRequestMatches(row, request) ==
  /\ row.amount = request.amount
  /\ row.campaign = request.campaign /\ row.adSet = request.adSet

Answer(request, s) ==
  [at |-> IF SpendRequestMatches(spend[s], request) THEN "told" ELSE "refused", row |-> s,
   key |-> request.key, campaign |-> request.campaign, adSet |-> request.adSet,
   amount |-> request.amount]

\* The look at the key before the transaction, and the one after a unique violation.
LookUpSpend(r) ==
  /\ spending[r].at \in {"new", "lost"}
  /\ \/ \E s \in SpendWith(spending[r].key) :
          spending' = [spending EXCEPT ![r] = Answer(spending[r], s)]
     \/ /\ SpendWith(spending[r].key) = {}
        /\ spending' = [spending EXCEPT ![r] = IF spending[r].at = "new"
                                               THEN [spending[r] EXCEPT !.at = "checked"] ELSE Void]
  /\ UNCHANGED <<campaign, adSet, spend, conversion, counted>>

RecordSpend(r) ==
  /\ spending[r].at = "checked"
  /\ \E s \in Spends :
       LET q == spending[r]
           rows == [spend EXCEPT ![s] = [key |-> q.key, campaign |-> q.campaign, adSet |-> q.adSet,
                                         amount |-> q.amount, deleted |-> FALSE]]
       IN /\ spend[s] = Void
          /\ IF SpendWith(q.key) = {} /\ IdentityFree(rows, s)
             THEN /\ spend' = rows
                  /\ spending' = [spending EXCEPT ![r] =
                       [at |-> "told", row |-> s, key |-> q.key, campaign |-> q.campaign,
                        adSet |-> q.adSet, amount |-> q.amount]]
             ELSE /\ spending' = [spending EXCEPT ![r].at = "lost"]
                  /\ UNCHANGED spend
  /\ UNCHANGED <<campaign, adSet, conversion, counted>>

EndSpend(r) ==
  /\ spending[r].at \in {"told", "refused"}
  /\ spending' = [spending EXCEPT ![r] = Void]
  /\ UNCHANGED <<campaign, adSet, spend, conversion, counted>>

\* updateSpend can move a row to a campaign and keep the ad set of the old one.
UpdateSpend(s, c, a, amount) ==
  /\ spend[s] # Void /\ ~spend[s].deleted
  /\ c # spend[s].campaign => Kept(c)
  /\ a # spend[s].adSet => a # NoAdSet /\ AdSetOf(a, c)
  /\ LET rows == [spend EXCEPT ![s].campaign = c, ![s].adSet = a, ![s].amount = amount]
     IN spend' = IF IdentityFree(rows, s) THEN rows ELSE spend
  /\ UNCHANGED <<campaign, adSet, spending, conversion, counted>>

ArchiveSpend(s) ==
  /\ spend[s] # Void /\ ~spend[s].deleted
  /\ spend' = [spend EXCEPT ![s].deleted = TRUE]
  /\ UNCHANGED <<campaign, adSet, spending, conversion, counted>>

----------------------------------------------------------------------------
(* Conversions and performance.                                            *)

\* Attribution_conversion_sale_key.
ConversionFree(x, c) == \A d \in Campaigns : <<x, d>> \notin conversion

AttributeSale(x, c) ==
  /\ Kept(c) /\ ConversionFree(x, c)
  /\ conversion' = conversion \cup {<<x, c>>}
  /\ UNCHANGED <<campaign, adSet, spend, spending, counted>>

ChangeSale(x) ==
  /\ counted' = IF x \in counted THEN counted \ {x} ELSE counted \cup {x}
  /\ UNCHANGED <<campaign, adSet, spend, spending, conversion>>

\* performance: the rows of campaigns that were not archived.
SpendOf(c) ==
  LET rows == {s \in Spends : LiveSpend(spend[s]) /\ spend[s].campaign = c}
  IN MapThenSumSet(LAMBDA s : spend[s].amount, rows)
SalesOf(c) == {x \in counted : <<x, c>> \in conversion}
Performance == [c \in {d \in Campaigns : Kept(d) /\ (SpendOf(d) > 0 \/ SalesOf(d) # {})} |->
                  [spend |-> SpendOf(c), sales |-> Cardinality(SalesOf(c))]]

----------------------------------------------------------------------------
(* Imports.                                                                *)

NotImporting == [at |-> "idle"]
WithKey(key) == {i \in CommercialImports : import[i] # Void /\ import[i].key = key}

\* executeImport: a key that is there already answers with its import, as it is.
ExecuteImport(q, key, file) ==
  /\ executing[q] = NotImporting
  /\ executing' = [executing EXCEPT ![q] =
       IF WithKey(key) = {} THEN [at |-> "checked", key |-> key, file |-> file] ELSE NotImporting]
  /\ UNCHANGED <<import, importRow, written>>

\* Mutant of KeyFree: the index on the key is missing.
KeyFreeAlways(key) == TRUE

\* CommercialImport (organizationId, idempotencyKey).
KeyFree(key) == WithKey(key) = {}

StoreImport(q) ==
  /\ executing[q].at = "checked"
  /\ IF KeyFree(executing[q].key)
     THEN \E i \in CommercialImports :
            /\ import[i] = Void
            /\ import' = [import EXCEPT ![i] = [status |-> "PROCESSING", key |-> executing[q].key,
                                                file |-> executing[q].file]]
            /\ importRow' = [x \in CommercialImports \X ImportRows |->
                               IF x[1] = i THEN "PENDING" ELSE importRow[x]]
            /\ executing' = [executing EXCEPT ![q] = [at |-> "rows", import |-> i, left |-> ImportRows,
                                                      row |-> {}, failed |-> FALSE]]
     ELSE executing' = [executing EXCEPT ![q] = NotImporting] /\ UNCHANGED <<import, importRow>>
  /\ UNCHANGED written

\* importContact or importAttribution, or the error one of them throws.
WriteRow(q, n, fails) ==
  /\ executing[q].at = "rows" /\ executing[q].row = {} /\ n \in executing[q].left
  /\ executing' = [executing EXCEPT ![q].left = @ \ {n},
                     ![q].row = {<<n, IF fails THEN "FAILED" ELSE "SUCCEEDED">>}]
  /\ written' = IF fails THEN written ELSE [written EXCEPT ![<<executing[q].import, n>>] = @ + 1]
  /\ UNCHANGED <<import, importRow>>

\* The status of the row; when writing SUCCEEDED throws, FAILED is written.
MarkRow(q, throws) ==
  /\ executing[q].at = "rows" /\ executing[q].row # {}
  /\ \E mark \in executing[q].row :
       /\ throws => mark[2] = "SUCCEEDED"
       /\ IF throws THEN executing' = [executing EXCEPT ![q].row = {<<mark[1], "FAILED">>}]
                         /\ UNCHANGED importRow
          ELSE /\ importRow' = [importRow EXCEPT ![<<executing[q].import, mark[1]>>] = mark[2]]
               /\ executing' = [executing EXCEPT ![q].row = {}, ![q].failed = @ \/ mark[2] = "FAILED"]
  /\ UNCHANGED <<import, written>>

EndImport(q) ==
  /\ executing[q].at = "rows" /\ executing[q].row = {} /\ executing[q].left = {}
  /\ import' = [import EXCEPT ![executing[q].import].status =
                  IF executing[q].failed THEN "FAILED" ELSE "COMPLETED"]
  /\ executing' = [executing EXCEPT ![q] = NotImporting]
  /\ UNCHANGED <<importRow, written>>

\* The process stops; nothing takes an import up again.
StopImport(q) ==
  /\ executing[q] # NotImporting
  /\ executing' = [executing EXCEPT ![q] = NotImporting]
  /\ UNCHANGED <<import, importRow, written>>

----------------------------------------------------------------------------
(* Specification.                                                          *)

CampaignStep ==
  \/ \E c \in Campaigns, s \in MarketingStatus, flag \in BOOLEAN :
       CreateCampaign(c, s) \/ UpdateCampaign(c, s, flag)
  \/ \E c \in Campaigns : ArchiveCampaign(c)
  \/ \E a \in AdSets, c \in Campaigns : CreateAdSet(a, c)

SpendStep ==
  \/ \E r \in Spenders, request \in SpendRequest : AskSpend(r, request)
  \/ \E r \in Spenders : LookUpSpend(r) \/ RecordSpend(r) \/ EndSpend(r)
  \/ \E s \in Spends, c \in Campaigns, a \in AdSets \cup {NoAdSet}, n \in Amounts : UpdateSpend(s, c, a, n)
  \/ \E s \in Spends : ArchiveSpend(s)

ConversionStep ==
  \/ \E x \in SoldSales, c \in Campaigns : AttributeSale(x, c)
  \/ \E x \in SoldSales : ChangeSale(x)

CommercialImportStep ==
  \/ \E q \in Importers, key \in Keys, file \in ImportFiles : ExecuteImport(q, key, file)
  \/ \E q \in Importers, n \in ImportRows, flag \in BOOLEAN : WriteRow(q, n, flag)
  \/ \E q \in Importers, flag \in BOOLEAN : MarkRow(q, flag)
  \/ \E q \in Importers : StoreImport(q) \/ EndImport(q) \/ StopImport(q)

MarketingInit ==
  /\ campaign = [c \in Campaigns |-> Void] /\ adSet = [a \in AdSets |-> Void]
  /\ spend = [s \in Spends |-> Void] /\ spending = [r \in Spenders |-> Void]
  /\ conversion = {} /\ counted = {}
  /\ import = [i \in CommercialImports |-> Void] /\ executing = [q \in Importers |-> NotImporting]
  /\ importRow = [x \in CommercialImports \X ImportRows |-> "none"]
  /\ written = [x \in CommercialImports \X ImportRows |-> 0]

MarketingNext ==
  \/ (CampaignStep \/ SpendStep \/ ConversionStep) /\ UNCHANGED importVars
  \/ CommercialImportStep /\ UNCHANGED campaignVars

MarketingSpec == MarketingInit /\ [][MarketingNext]_marketingVars

----------------------------------------------------------------------------
(* Properties.                                                             *)

\* A request that is told its spend is recorded is told so of a row with its
\* own amount, campaign and ad set: never of the row that another request with
\* the same key, or an edit, put in its place.
ToldIsRecorded ==
  [][\A r \in Spenders : (spending'[r].at = "told" /\ spending[r].at # "told") =>
       LET row == spend'[spending'[r].row]
       IN /\ row.key = spending[r].key /\ row.amount = spending[r].amount
          /\ row.campaign = spending[r].campaign /\ row.adSet = spending[r].adSet
    ]_marketingVars

\* The sales of the campaigns add up to sales there are: none counts for two.
SalesCountOnce ==
  LET shown == DOMAIN Performance
  IN MapThenSumSet(LAMBDA c : Performance[c].sales, shown) <= Cardinality(counted)

\* However often a file is sent with a key, at once or after a crash, each of
\* its rows is written once at most.
RowsWrittenOnce ==
  \A key \in Keys, n \in ImportRows : \A i, j \in WithKey(key) :
    written[<<i, n>>] + (IF i = j THEN 0 ELSE written[<<j, n>>]) <= 1

\* A row reported as failed left nothing behind.
FailedLeftNothing ==
  \A x \in CommercialImports \X ImportRows : importRow[x] = "FAILED" => written[x] = 0

\* The ad set of a spend is one of its campaign's.
SpendBelongs == \A s \in Spends : LiveSpend(spend[s]) => AdSetOf(spend[s].adSet, spend[s].campaign)
=============================================================================
