------------------------------ MODULE MCRecords ------------------------------
(* Bounded instances of the records of the business that share no row: price *)
(* books, the items of the catalog, contacts, marketing, the renewal center   *)
(* and the session of the web client.  A behaviour is that of one part.      *)
EXTENDS PriceBooks, CatalogItems, Contacts, Marketing, RenewalCenter, WebSession, TLC

CONSTANTS b_all, b_firm, e_all, e_late, e_firm, any, firm, nowhere, here,
          n_vip, n_Vip, k_before, k_after

MCScopes == {<<any, nowhere>>, <<firm, nowhere>>, <<any, here>>}
MCPriority == b_all :> 1 @@ b_firm :> 2
MCInBook == e_all :> b_all @@ e_late :> b_all @@ e_firm :> b_firm
MCAge == e_all :> 1 @@ e_late :> 2 @@ e_firm :> 3
MCFolded(name) == n_vip
MCOffset == k_before :> -1 @@ k_after :> 1

Alike == Permutations(BookEditors) \cup Permutations(Spenders)

VARIABLE part

mcVars == <<priceBooksVars, catalogItemsVars, contactsVars, marketingVars, centerVars, webVars, part>>

Parts == {"books", "entries", "prices", "categories", "items", "phones", "owners", "leads",
          "buyers", "tags", "spend", "sold", "imports", "reminders", "cycles", "web"}

Fixed(price, period) == [active |-> TRUE, deleted |-> FALSE, period |-> period, price |-> price]

\* The price books that a part starts with.
BooksOf ==
  /\ bookEdit = [r \in BookEditors |-> Nothing] /\ entryEdit = [r \in EntryEditors |-> Nothing]
  /\ quote = [c \in Sellers |-> Nothing] /\ charged = [c \in Sellers |-> Nothing]
  /\ book = [b \in Books |-> IF part \notin {"entries", "prices"} THEN Nothing
               ELSE [status |-> "ACTIVE", archived |-> FALSE, default |-> TRUE,
                     scope |-> <<IF b = b_all THEN any ELSE firm, nowhere>>]]
  /\ entry = [e \in Entries |-> IF part = "books"
               THEN Fixed(10, IF e = e_all THEN Always ELSE {2}) ELSE Nothing]
  /\ priceLog = [e \in Entries |-> LET of == {entry[e].price : x \in {1} \ {y \in {1} : entry[e] = Nothing}}
                                   IN [all |-> of, newest |-> of]]

MCRecordsInit ==
  /\ part \in Parts
  /\ BooksOf /\ CatalogItemsInit /\ ContactsInit /\ MarketingInit /\ CenterInit /\ WebInit
  /\ part = "items" \/ product = [status |-> "ACTIVE", active |-> TRUE, deleted |-> FALSE,
                                  category |-> NoCategory]

OneContact == Cardinality({c \in Contacts : contact'[c] # Missing}) <= 1

BooksPart ==
  \/ /\ part = "books" /\ BooksNext /\ UNCHANGED entryVars
     /\ \A b \in Books : book'[b] # Nothing => book'[b].status # "DRAFT"
     /\ book'[b_all] # Nothing => book'[b_all].scope # <<firm, nowhere>>
  \/ /\ part = "entries" /\ EntriesNext /\ UNCHANGED <<bookVars, quote>>
     /\ entry'[e_firm] = Nothing
     /\ \A e \in Entries : entry'[e] # Nothing => entry'[e].price = 10
  \/ /\ part = "prices" /\ EntriesNext /\ UNCHANGED bookVars
     /\ entry'[e_late] = Nothing
     /\ \A e \in Entries : entry'[e] # Nothing => entry'[e].period = Always
     /\ entry'[e_firm] # Nothing => entry'[e_firm].price = 10
     /\ \A r \in EntryEditors : entryEdit'[r] # Nothing => entryEdit'[r].entry = e_all

\* Categories that race are of one slug, and one of them at most is renamed.
FirstSlug == CHOOSE g \in Slugs : TRUE
OneRenamed ==
  /\ Cardinality({c \in Categories : category'[c] # Absent /\ category'[c].slug # FirstSlug}) <= 1
  /\ \A r \in QuickRequests : quick'[r] # Absent => quick'[r].slug = FirstSlug

ItemsPart ==
  \/ part = "categories" /\ CategoriesNext /\ UNCHANGED itemVars /\ OneRenamed
  \/ part = "items" /\ ItemsNext /\ UNCHANGED categoryVars

ContactsPart ==
  \/ /\ part = "phones" /\ ContactStep /\ UNCHANGED tagVars
     /\ \A c \in Contacts : deal'[c] = "none" /\ (contact'[c] # Missing => contact'[c].user = NoUser)
     /\ {r \in Editors : edit'[r] # Missing /\ edit'[r].op = "assign"} = {}
  \/ /\ part = "owners" /\ ContactStep /\ UNCHANGED tagVars
     /\ OneContact /\ \A c \in Contacts : contact'[c] # Missing => contact'[c].phone = NoPhone
  \/ /\ part = "leads" /\ UNCHANGED tagVars
     /\ LeadStep
     /\ \A l \in Leads : lead'[l] # Missing => lead'[l].user = NoUser
  \/ /\ part = "buyers" /\ (BuyerStep \/ LeadStep)
     /\ UNCHANGED tagVars /\ OneContact
  \/ part = "tags" /\ TagStep

FirstCampaign == CHOOSE c \in Campaigns : TRUE
Running == [status |-> "ACTIVE", active |-> TRUE, deleted |-> FALSE]
Removed == [status |-> "ARCHIVED", active |-> FALSE, deleted |-> TRUE]

MarketingPart ==
  \/ /\ part = "spend" /\ UNCHANGED importVars
     /\ (SpendStep \/ CampaignStep)
     /\ campaign' \in [Campaigns -> {Void, Running, Removed}]
     /\ \A c \in Campaigns \ {FirstCampaign} : campaign'[c] # Removed /\ \A a \in AdSets : ~AdSetOf(a, c)'
  \/ part = "sold" /\ (CampaignStep \/ ConversionStep) /\ UNCHANGED importVars
  \/ part = "imports" /\ CommercialImportStep /\ UNCHANGED campaignVars

CenterPart ==
  \/ /\ part = "reminders" /\ (RenewalsStep \/ GenerationStep)
     /\ \A c \in Cycles \ {CHOOSE d \in Cycles : TRUE} : renewal'[c].status = "none"
     /\ \A c \in Cycles : renewal'[c].due < LastDay /\ renewal'[c].work \in {"PENDING", "RENEWED"}
  \/ /\ part = "cycles" /\ (ImportStep \/ \E c \in Cycles : CreateRenewal(c, 0, TRUE))
     /\ \A c \in Cycles : renewal'[c].work \in {"PENDING", "RENEWED"}

MCRecordsNext ==
  /\ UNCHANGED part
  /\ \/ BooksPart /\ UNCHANGED <<catalogItemsVars, contactsVars, marketingVars, centerVars, webVars>>
     \/ ItemsPart /\ UNCHANGED <<priceBooksVars, contactsVars, marketingVars, centerVars, webVars>>
     \/ ContactsPart /\ UNCHANGED <<priceBooksVars, catalogItemsVars, marketingVars, centerVars, webVars>>
     \/ MarketingPart /\ UNCHANGED <<priceBooksVars, catalogItemsVars, contactsVars, centerVars, webVars>>
     \/ CenterPart /\ UNCHANGED <<priceBooksVars, catalogItemsVars, contactsVars, marketingVars, webVars>>
     \/ /\ part = "web" /\ ~left /\ WebNext /\ UNCHANGED resetToken
        /\ UNCHANGED <<priceBooksVars, catalogItemsVars, contactsVars, marketingVars, centerVars>>

MCRecordsSpec == MCRecordsInit /\ [][MCRecordsNext]_mcVars

\* The types of the modules, each in the behaviours of its parts.
RecordsTypesOK ==
  /\ part \in {"books", "entries", "prices"} => PriceBooksTypeOK
  /\ part \in {"categories", "items"} => CatalogItemsTypeOK
  /\ part \in {"phones", "owners", "leads", "buyers", "tags"} => ContactsTypeOK
  /\ part \in {"spend", "sold", "imports"} => MarketingTypeOK
  /\ part \in {"reminders", "cycles"} => CenterTypeOK
  /\ part = "web" => WebTypeOK
=============================================================================
