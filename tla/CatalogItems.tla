----------------------------- MODULE CatalogItems -----------------------------
(***************************************************************************)
(* Categories, products, plans and variants of the catalog: created,       *)
(* switched on and off, archived, restored and put in order.  Services     *)
(* look at rows before the transaction that writes; partial unique indexes *)
(* on slugs and codes of live rows (active and not deleted) stand behind.  *)
(* A category can be created inline, reusing the one with its slug.  A     *)
(* price is resolved in two reads: of the combination, then of its entry.  *)
(* Plans and variants here are those of one product, which was created     *)
(* with any status and switch; a discontinued one is an inactive one, and  *)
(* texts, demos, billing periods and the order of categories and variants  *)
(* are left out.                                                           *)
(***************************************************************************)
EXTENDS Naturals, FiniteSets, SequencesExt

CONSTANTS
  Categories, Slugs,
  Plans, Codes, NoCode,
  Variants, NoPlan,
  QuickRequests,   \* inline creations of a category
  PriceRequests,   \* resolutions of a price
  LastOrder,       \* bound of the order a plan is created with
  NoCategory

ASSUME CatalogItemsAssumption ==
  /\ NoCode \notin Codes /\ NoPlan \notin Plans /\ NoCategory \notin Categories
  /\ LastOrder \in Nat

VARIABLES
  category,  \* "ProductCategory"
  product,   \* "Product": the one the plans belong to
  plan,      \* "ProductPlan"
  variant,   \* "ProductVariant"
  quick,     \* an inline creation under way
  answered,  \* history: the category an inline creation ended with
  asked,     \* a resolution that checked its combination
  priced     \* history: the combination of the last price a resolution gave

categoryVars == <<category, quick, answered>>
itemVars == <<product, plan, variant, asked, priced>>
catalogItemsVars == <<category, quick, answered, product, plan, variant, asked, priced>>

Absent == [there |-> FALSE]
Live(row) == row # Absent /\ row.active /\ ~row.deleted

CatalogItemsTypeOK ==
  /\ \A c \in Categories : category[c] # Absent =>
       category[c] \in [slug : Slugs, active : BOOLEAN, deleted : BOOLEAN]
  /\ product \in [status : {"DRAFT", "ACTIVE", "INACTIVE"}, active : BOOLEAN, deleted : BOOLEAN,
                  category : Categories \cup {NoCategory}]
  /\ \A p \in Plans : plan[p] # Absent =>
       plan[p] \in [code : Codes \cup {NoCode}, active : BOOLEAN, deleted : BOOLEAN,
                    order : 1 .. LastOrder]
  /\ variant \in [Variants -> [plan : Plans \cup {NoPlan}, active : BOOLEAN, deleted : BOOLEAN]]
  /\ \A r \in QuickRequests : quick[r] # Absent =>
       quick[r] \in [slug : Slugs, active : BOOLEAN, found : Categories \cup {NoCategory}, lost : BOOLEAN]
  /\ answered \in [QuickRequests -> Categories \cup {NoCategory}]

----------------------------------------------------------------------------
(* Categories.                                                             *)

\* Mutant of SlugFree: the index is not partial on anything, it is not there.
SlugFreeAlways(rows, c) == TRUE

\* ProductCategory_organizationId_slug_active_key.
SlugFree(rows, c) ==
  \A d \in Categories \ {c} : (Live(rows[c]) /\ Live(rows[d])) => rows[c].slug # rows[d].slug

StoreCategory(c, row) ==
  /\ SlugFree([category EXCEPT ![c] = row], c)
  /\ category' = [category EXCEPT ![c] = row]

NewCategory(slug, active) == [slug |-> slug, active |-> active, deleted |-> FALSE]

CreateCategory(c, slug, active) ==
  /\ category[c] = Absent
  /\ StoreCategory(c, NewCategory(slug, active))
  /\ UNCHANGED <<quick, answered>>

\* The row was read before the transaction, when it was not deleted.
UpdateCategory(c, slug, active) ==
  /\ category[c] # Absent
  /\ StoreCategory(c, [category[c] EXCEPT !.slug = slug, !.active = active])
  /\ UNCHANGED <<quick, answered>>

\* setArchived switches the category off; restoring it leaves it off.
ArchiveCategory(c) ==
  /\ category[c] # Absent /\ ~category[c].deleted
  /\ StoreCategory(c, [category[c] EXCEPT !.deleted = TRUE, !.active = FALSE])
  /\ UNCHANGED <<quick, answered>>

RestoreCategory(c) ==
  /\ category[c] # Absent /\ category[c].deleted
  /\ StoreCategory(c, [category[c] EXCEPT !.deleted = FALSE])
  /\ UNCHANGED <<quick, answered>>

\* The category createQuick finds: deletedAt ascending puts NULL last.
FoundBySlug(slug) ==
  LET same == {c \in Categories : category[c] # Absent /\ category[c].slug = slug}
      deleted == {c \in same : category[c].deleted}
  IN IF same = {} THEN {NoCategory} ELSE IF deleted # {} THEN deleted ELSE same

\* active: asked for switched on, which is the default, or off.
ReadQuick(r, slug, active) ==
  /\ quick[r] = Absent
  /\ \E c \in FoundBySlug(slug) :
       IF c # NoCategory /\ Live(category[c])
       THEN answered' = [answered EXCEPT ![r] = c] /\ UNCHANGED quick
       ELSE /\ quick' = [quick EXCEPT ![r] = [slug |-> slug, active |-> active, found |-> c,
                                              lost |-> FALSE]]
            /\ answered' = [answered EXCEPT ![r] = NoCategory]
  /\ UNCHANGED category

\* What createQuick writes: the found category brought back, or a new one as it was asked for.
QuickRows(r) ==
  IF quick[r].found # NoCategory
  THEN {<<quick[r].found, [category[quick[r].found] EXCEPT !.active = TRUE, !.deleted = FALSE]>>}
  ELSE {<<c, NewCategory(quick[r].slug, quick[r].active)>> : c \in {d \in Categories : category[d] = Absent}}

WriteQuick(r) ==
  /\ quick[r] # Absent /\ ~quick[r].lost
  /\ \E w \in QuickRows(r) : /\ StoreCategory(w[1], w[2])
                             /\ answered' = [answered EXCEPT ![r] = w[1]]
  /\ quick' = [quick EXCEPT ![r] = Absent]

\* A unique violation: the transaction is rolled back.
LoseQuick(r) ==
  /\ quick[r] # Absent /\ ~quick[r].lost
  /\ \E w \in QuickRows(r) : ~SlugFree([category EXCEPT ![w[1]] = w[2]], w[1])
  /\ quick' = [quick EXCEPT ![r].lost = TRUE]
  /\ UNCHANGED <<category, answered>>

\* Then the live category of the slug is looked for; it may be gone, which refuses the request.
RereadQuick(r) ==
  LET live == {c \in Categories : Live(category[c]) /\ category[c].slug = quick[r].slug}
  IN
  /\ quick[r] # Absent /\ quick[r].lost
  /\ quick' = [quick EXCEPT ![r] = Absent]
  /\ \/ \E c \in live : answered' = [answered EXCEPT ![r] = c]
     \/ live = {} /\ UNCHANGED answered
  /\ UNCHANGED category

CategoriesNext ==
  \/ \E c \in Categories, slug \in Slugs, active \in BOOLEAN :
       CreateCategory(c, slug, active) \/ UpdateCategory(c, slug, active)
  \/ \E c \in Categories : ArchiveCategory(c) \/ RestoreCategory(c)
  \/ \E r \in QuickRequests, slug \in Slugs, active \in BOOLEAN : ReadQuick(r, slug, active)
  \/ \E r \in QuickRequests : WriteQuick(r) \/ LoseQuick(r) \/ RereadQuick(r)

----------------------------------------------------------------------------
(* The product and its plans and variants.                                 *)

CategoryOpen(c) == c \in {NoCategory} \cup {d \in Categories : Live(category[d])}

UpdateProduct(status, active, c) ==
  /\ ~product.deleted
  /\ c # product.category => CategoryOpen(c)
  /\ product' = [product EXCEPT !.status = status, !.active = active, !.category = c]
  /\ UNCHANGED <<plan, variant, asked, priced>>

\* activate and deactivate.
ChangeProductStatus(active) ==
  /\ ~product.deleted
  /\ active => CategoryOpen(product.category)
  /\ product' = [product EXCEPT !.status = IF active THEN "ACTIVE" ELSE "INACTIVE",
                                !.active = active]
  /\ UNCHANGED <<plan, variant, asked, priced>>

\* Archived and restored, a product is inactive both times.
ArchiveProduct(archived) ==
  /\ product.deleted # archived
  /\ ~archived => CategoryOpen(product.category)
  /\ product' = [product EXCEPT !.deleted = archived, !.active = FALSE, !.status = "INACTIVE"]
  /\ UNCHANGED <<plan, variant, asked, priced>>

\* ProductPlan_productId_code_active_key.
CodeFree(rows, p) ==
  \A q \in Plans \ {p} :
    (Live(rows[p]) /\ Live(rows[q]) /\ rows[p].code # NoCode) => rows[p].code # rows[q].code

StorePlan(p, row) ==
  /\ CodeFree([plan EXCEPT ![p] = row], p)
  /\ plan' = [plan EXCEPT ![p] = row]
  /\ UNCHANGED <<product, variant, asked, priced>>

\* The order is the highest there is plus one, deleted plans included, or what
\* was asked; two creations can take the same.
CreatePlan(p, code, order) ==
  /\ plan[p] = Absent /\ ~product.deleted
  /\ order <= LastOrder
  /\ StorePlan(p, [code |-> code, active |-> TRUE, deleted |-> FALSE, order |-> order])

UpdatePlan(p, code, active) ==
  /\ plan[p] # Absent /\ ~plan[p].deleted /\ ~product.deleted
  /\ StorePlan(p, [plan[p] EXCEPT !.code = code, !.active = active])

ArchivePlan(p, archived) ==
  /\ plan[p] # Absent /\ plan[p].deleted # archived
  /\ StorePlan(p, [plan[p] EXCEPT !.deleted = archived, !.active = @ /\ ~archived])

ByOrder(set) ==
  {s \in SetToSeqs(set) : \A i, j \in DOMAIN s : i < j => plan[s[i]].order <= plan[s[j]].order}

\* reorder puts the plan at its place among the others that are live and numbers
\* them all from one.
ReorderPlan(p, target) ==
  /\ plan[p] # Absent /\ ~plan[p].deleted
  /\ \E s \in ByOrder({q \in Plans \ {p} : Live(plan[q])}) :
       LET place == IF target > Len(s) THEN Len(s) + 1 ELSE target
           list == InsertAt(s, place, p)
       IN plan' = [q \in Plans |-> IF q \in ToSet(list)
                    THEN [plan[q] EXCEPT !.order = CHOOSE i \in DOMAIN list : list[i] = q]
                    ELSE plan[q]]
  /\ UNCHANGED <<product, variant, asked, priced>>

\* A variant may be for one plan, which must not be deleted, or for all.
UpdateVariant(v, p, active) ==
  /\ ~variant[v].deleted /\ ~product.deleted
  /\ p \in {NoPlan, variant[v].plan} \cup {q \in Plans : plan[q] # Absent /\ ~plan[q].deleted}
  /\ variant' = [variant EXCEPT ![v].plan = p, ![v].active = active]
  /\ UNCHANGED <<product, plan, asked, priced>>

ArchiveVariant(v, archived) ==
  /\ variant[v].deleted # archived
  /\ variant' = [variant EXCEPT ![v].deleted = archived, ![v].active = @ /\ ~archived]
  /\ UNCHANGED <<product, plan, asked, priced>>

----------------------------------------------------------------------------
(* Resolving a price: assertCombination, then the query.                   *)

ProductSold == product.active /\ product.status = "ACTIVE" /\ ~product.deleted

InForce(p, v) == ProductSold /\ Live(plan[p]) /\ Live(variant[v])

Agree(p, v) == variant[v].plan \in {p, NoPlan}

\* Asked alike for a price and by resolveForSale.
Sold(p, v) == ProductSold /\ Live(plan[p]) /\ Live(variant[v]) /\ Agree(p, v)

AskPrice(r, p, v) ==
  /\ asked[r] = Absent
  /\ Sold(p, v)
  /\ asked' = [asked EXCEPT ![r] = [plan |-> p, variant |-> v]]
  /\ priced' = [priced EXCEPT ![r] = Absent]
  /\ UNCHANGED <<product, plan, variant>>

\* The query looks again at the product, the plan and the variant; an entry
\* prices every combination here.
AnswerPrice(r) ==
  /\ asked[r] # Absent
  /\ asked' = [asked EXCEPT ![r] = Absent]
  /\ priced' = IF InForce(asked[r].plan, asked[r].variant)
               THEN [priced EXCEPT ![r] = asked[r]] ELSE priced
  /\ UNCHANGED <<product, plan, variant>>

ItemsNext ==
  \/ \E s \in {"DRAFT", "ACTIVE", "INACTIVE"}, active \in BOOLEAN,
        c \in Categories \cup {NoCategory} : UpdateProduct(s, active, c)
  \/ \E flag \in BOOLEAN : ChangeProductStatus(flag) \/ ArchiveProduct(flag)
  \/ \E p \in Plans, code \in Codes \cup {NoCode}, order \in 1 .. LastOrder : CreatePlan(p, code, order)
  \/ \E p \in Plans, code \in Codes \cup {NoCode}, flag \in BOOLEAN : UpdatePlan(p, code, flag)
  \/ \E p \in Plans, flag \in BOOLEAN : ArchivePlan(p, flag)
  \/ \E p \in Plans, target \in 1 .. LastOrder : ReorderPlan(p, target)
  \/ \E v \in Variants, p \in Plans \cup {NoPlan}, flag \in BOOLEAN : UpdateVariant(v, p, flag)
  \/ \E v \in Variants, flag \in BOOLEAN : ArchiveVariant(v, flag)
  \/ \E r \in PriceRequests, p \in Plans, v \in Variants : AskPrice(r, p, v)
  \/ \E r \in PriceRequests : AnswerPrice(r)

CatalogItemsInit ==
  /\ category = [c \in Categories |-> Absent]
  /\ product \in [status : {"DRAFT", "ACTIVE", "INACTIVE"}, active : BOOLEAN, deleted : {FALSE},
                  category : {NoCategory}]
  /\ plan = [p \in Plans |-> Absent]
  /\ variant = [v \in Variants |-> [plan |-> NoPlan, active |-> TRUE, deleted |-> FALSE]]
  /\ quick = [r \in QuickRequests |-> Absent] /\ answered = [r \in QuickRequests |-> NoCategory]
  /\ asked = [r \in PriceRequests |-> Absent] /\ priced = [r \in PriceRequests |-> Absent]

CatalogItemsNext ==
  \/ CategoriesNext /\ UNCHANGED itemVars
  \/ ItemsNext /\ UNCHANGED categoryVars

CatalogItemsSpec == CatalogItemsInit /\ [][CatalogItemsNext]_catalogItemsVars

----------------------------------------------------------------------------
(* Properties.                                                             *)

\* An inline creation ends with a live category, the only one of its slug, whether
\* it inserts it, brings it back or loses to another that did and looks again when
\* that may be gone; or with the one it inserted switched off, as it was asked to.
QuickEndsWithLiveOne ==
  [][\A r \in QuickRequests : (answered'[r] # answered[r] /\ answered'[r] # NoCategory) =>
       LET c == answered'[r]
       IN \/ /\ Live(category'[c])
             /\ \A d \in Categories \ {c} : Live(category'[d]) => category'[d].slug # category'[c].slug
          \/ /\ quick[r] # Absent /\ ~quick[r].active
             /\ category[c] = Absent /\ category'[c] = NewCategory(quick[r].slug, FALSE)
    ]_catalogItemsVars

\* A price is never given for a product, plan or variant that was switched off
\* or archived between the check of the combination and the query.
PricedPartsAreSold ==
  [][\A r \in PriceRequests : priced'[r] # priced[r] =>
       ProductSold /\ Live(plan[priced'[r].plan]) /\ Live(variant[priced'[r].variant])
    ]_catalogItemsVars

\* docs/pricing.md: the query checks the relation of plan and variant again.
PricedPartsAgree ==
  [][\A r \in PriceRequests : priced'[r] # priced[r] => Agree(priced'[r].plan, priced'[r].variant)
    ]_catalogItemsVars
=============================================================================
