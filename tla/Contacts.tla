------------------------------- MODULE Contacts -------------------------------
(***************************************************************************)
(* Contacts: created by hand, by an import or with a lead, changed,        *)
(* archived, restored and removed; who is responsible for them; their      *)
(* tags; and the sales of each.  Every request reads before the            *)
(* transaction that writes and takes no lock, except the removal of a      *)
(* customer, so what was read may be old by then; unique indexes have the  *)
(* last word.  A contact is its phone, its responsible and whether it is   *)
(* archived or removed: names and e-mails are left out.                    *)
(***************************************************************************)
EXTENDS Naturals, FiniteSets

CONSTANTS
  Contacts, Phones, NoPhone,
  Users, NoUser,
  Tags, TagNames, Folded(_), \* Folded: a name without the case of its letters
  Editors,    \* requests to create or change a contact or a tag
  Leads,      \* requests to create a lead
  BuyerSales,    \* sales of a contact
  NoContact

ASSUME ContactsAssumption ==
  /\ NoPhone \notin Phones /\ NoUser \notin Users /\ NoContact \notin Contacts
  /\ "none" \notin Users \cup {NoUser}

VARIABLES
  contact,   \* "Contact"
  deal,      \* the responsible of its open opportunity, "none" without one
  edit,      \* what a request has read
  lead,      \* a lead under way: the phone, the contact found, what it has been seen to lack
  origin,    \* the contacts with an "Attribution" of kind ORIGINAL: how many each has
  prospect,  \* the contacts with a "ProspectConversationState"
  selling,   \* a sale that has read its contact
  sales,     \* the sales of a contact
  tag,       \* "Tag"
  tagged     \* "ContactTag": the tags of a contact that were not taken away

contactVars == <<contact, deal, edit, lead, origin, prospect, selling, sales>>
tagVars == <<tag, tagged>>
contactsVars == <<contact, deal, edit, lead, origin, prospect, selling, sales, tag, tagged>>

Missing == [op |-> "none"]
ContactRow == [phone : Phones \cup {NoPhone}, user : Users \cup {NoUser},
               archived : BOOLEAN, deleted : BOOLEAN]
TagRow == [name : TagNames, deleted : BOOLEAN]

HasContact(c) == contact[c] # Missing
Present(c) == HasContact(c) /\ ~contact[c].deleted

ContactsTypeOK ==
  /\ \A c \in Contacts : HasContact(c) => contact[c] \in ContactRow
  /\ deal \in [Contacts -> Users \cup {NoUser, "none"}]
  /\ \A l \in Leads : lead[l] # Missing =>
       lead[l] \in [phone : Phones \cup {NoPhone}, found : Contacts \cup {NoContact},
                    user : Users \cup {NoUser}, lacks : SUBSET {"origin", "prospect"}, looked : BOOLEAN]
  /\ origin \in [Contacts -> Nat] /\ prospect \subseteq Contacts
  /\ selling \in [BuyerSales -> Contacts \cup {NoContact}] /\ sales \in [Contacts -> SUBSET BuyerSales]
  /\ \A t \in Tags : tag[t] # Missing => tag[t] \in TagRow
  /\ tagged \subseteq Contacts \X Tags

----------------------------------------------------------------------------
(* Contacts.                                                               *)

\* Contact_organizationId_phoneNormalized_active_key.
IndexOfPhones(rows) ==
  \A c, d \in Contacts :
    (c # d /\ rows[c] # Missing /\ rows[d] # Missing) =>
      \/ rows[c].deleted \/ rows[d].deleted
      \/ rows[c].phone = NoPhone \/ rows[c].phone # rows[d].phone

StoreContact(c, row) ==
  LET stored == [contact EXCEPT ![c] = row]
  IN contact' = IF IndexOfPhones(stored) THEN stored ELSE contact

NewContact(phone, user) == [phone |-> phone, user |-> user, archived |-> FALSE, deleted |-> FALSE]

\* findPhoneAcrossOrganization: archived and removed contacts count.
PhoneTaken(phone, c) ==
  phone # NoPhone /\ \E d \in Contacts \ {c} : HasContact(d) /\ contact[d].phone = phone

\* importContact looks at contacts that were not removed only.
PhoneLive(phone) == phone # NoPhone /\ \E d \in Contacts : Present(d) /\ contact[d].phone = phone

BeginCreate(r, op, phone) ==
  /\ edit[r] = Missing
  /\ op = "create" => ~PhoneTaken(phone, NoContact)
  /\ op = "import" => ~PhoneLive(phone)
  /\ edit' = [edit EXCEPT ![r] = [op |-> op, phone |-> phone]]
  /\ UNCHANGED <<contact, deal, lead, origin, prospect, selling, sales>>

\* update keeps the phone it read unless it was given another; restore checks
\* that nobody else has the phone.
ReadContact(r, c, op, phone, user) ==
  /\ edit[r] = Missing /\ Present(c)
  /\ op \in {"update", "restore"} => ~PhoneTaken(phone, c)
  /\ op # "update" => phone = contact[c].phone
  /\ op = "assign" <=> user # contact[c].user
  /\ op = "archive" => ~contact[c].archived
  /\ op = "restore" => contact[c].archived
  /\ edit' = [edit EXCEPT ![r] = [op |-> op, contact |-> c, phone |-> phone, user |-> user,
                                  before |-> contact[c].user]]
  /\ UNCHANGED <<contact, deal, lead, origin, prospect, selling, sales>>

\* create and importContact; create can open an opportunity with it.
InsertContact(r, user, opens) ==
  /\ edit[r].op \in {"create", "import"} /\ (opens => edit[r].op = "create")
  /\ \E c \in Contacts :
       /\ ~HasContact(c)
       /\ StoreContact(c, NewContact(edit[r].phone, user))
       /\ deal' = IF contact' # contact /\ opens THEN [deal EXCEPT ![c] = user] ELSE deal

UpdateContact(r) ==
  /\ edit[r].op = "update"
  /\ StoreContact(edit[r].contact, [contact[edit[r].contact] EXCEPT !.phone = edit[r].phone])
  /\ UNCHANGED deal

\* assign: the open opportunities without a responsible follow the contact, and
\* those of the responsible that was read are left without one.
AssignContact(r) ==
  LET c == edit[r].contact
      follows == deal[c] = (IF edit[r].user = NoUser THEN edit[r].before ELSE NoUser)
  IN /\ edit[r].op = "assign"
     /\ contact' = [contact EXCEPT ![c].user = edit[r].user]
     /\ deal' = IF follows THEN [deal EXCEPT ![c] = edit[r].user] ELSE deal

ArchiveContact(r) ==
  /\ edit[r].op = "archive"
  /\ contact' = [contact EXCEPT ![edit[r].contact].archived = TRUE]
  /\ UNCHANGED deal

RestoreContact(r) ==
  /\ edit[r].op = "restore"
  /\ StoreContact(edit[r].contact, [contact[edit[r].contact] EXCEPT !.archived = FALSE])
  /\ UNCHANGED deal

WriteContact(r) ==
  /\ edit[r] # Missing
  /\ edit' = [edit EXCEPT ![r] = Missing]
  /\ \/ \E user \in Users \cup {NoUser}, opens \in BOOLEAN : InsertContact(r, user, opens)
     \/ UpdateContact(r) \/ AssignContact(r) \/ ArchiveContact(r) \/ RestoreContact(r)
  /\ UNCHANGED <<lead, origin, prospect, selling, sales>>

\* The removal of a customer locks the row and counts its sales.
RemoveContact(c) ==
  /\ Present(c) /\ sales[c] = {}
  /\ contact' = [contact EXCEPT ![c].deleted = TRUE, ![c].archived = TRUE]
  /\ UNCHANGED <<deal, edit, lead, origin, prospect, selling, sales>>

----------------------------------------------------------------------------
(* Leads.                                                                  *)

\* createLead reuses the contact of the phone; deleted and then archived rows
\* come first (ascending, NULL last) and end the request.  Without a phone the
\* e-mail finds any contact that was not removed.
Reusable(phone) ==
  LET rows == {c \in Contacts : HasContact(c) /\ contact[c].phone = phone}
      open == {c \in Contacts : Present(c) /\ ~contact[c].archived}
  IN IF phone = NoPhone THEN open \cup {NoContact}
     ELSE IF rows = {} THEN {NoContact}
     ELSE IF rows \subseteq open THEN rows ELSE {}

\* The lead goes to the user it was given, else to that of the contact it found.
FindContact(l, phone, user) ==
  /\ lead[l] = Missing
  /\ \E c \in Reusable(phone) :
       lead' = [lead EXCEPT ![l] = [phone |-> phone, found |-> c,
                                    user |-> IF user = NoUser /\ c # NoContact
                                             THEN contact[c].user ELSE user,
                                    lacks |-> {"origin", "prospect"}, looked |-> c = NoContact]]
  /\ UNCHANGED <<contact, deal, edit, origin, prospect, selling, sales>>

LookAtContact(l) ==
  /\ lead[l] # Missing /\ ~lead[l].looked
  /\ LET c == lead[l].found
     IN lead' = [lead EXCEPT ![l].looked = TRUE,
          ![l].lacks = (IF origin[c] = 0 THEN {"origin"} ELSE {})
                       \cup (IF c \notin prospect THEN {"prospect"} ELSE {})]
  /\ UNCHANGED <<contact, deal, edit, origin, prospect, selling, sales>>

\* Attribution_original_contact_key.
OriginFree(c, lacks) == "origin" \in lacks => origin[c] = 0

\* The transaction of a lead writes all of it or, after a unique violation, nothing.
StoreLead(l) ==
  /\ lead[l] # Missing /\ lead[l].looked
  /\ \E c \in (IF lead[l].found = NoContact THEN {d \in Contacts : ~HasContact(d)} ELSE {lead[l].found}) :
       LET lacks == lead[l].lacks
           rows == IF lead[l].found = NoContact
                   THEN [contact EXCEPT ![c] = NewContact(lead[l].phone, lead[l].user)] ELSE contact
       IN IF /\ IndexOfPhones(rows) /\ OriginFree(c, lacks)
             /\ "prospect" \in lacks => c \notin prospect
          THEN /\ contact' = rows
               /\ origin' = IF "origin" \in lacks THEN [origin EXCEPT ![c] = @ + 1] ELSE origin
               /\ prospect' = IF "prospect" \in lacks THEN prospect \cup {c} ELSE prospect
               /\ deal' = IF deal[c] = "none" THEN [deal EXCEPT ![c] = lead[l].user] ELSE deal
          ELSE UNCHANGED <<contact, origin, prospect, deal>>
  /\ lead' = [lead EXCEPT ![l] = Missing]
  /\ UNCHANGED <<edit, selling, sales>>

\* createAttribution of kind ORIGINAL, by hand or by an import; a correction
\* changes the fields of the one there is.
AttributeContact(c) ==
  /\ Present(c) /\ origin[c] = 0
  /\ origin' = [origin EXCEPT ![c] = 1]
  /\ UNCHANGED <<contact, deal, edit, lead, prospect, selling, sales>>

\* changeProspectState inserts or updates.
SetProspectState(c) ==
  /\ Present(c)
  /\ prospect' = prospect \cup {c}
  /\ UNCHANGED <<contact, deal, edit, lead, origin, selling, sales>>

----------------------------------------------------------------------------
(* Sales of a contact: created, and moved to another contact.              *)

ReadBuyer(s, c) ==
  /\ selling[s] = NoContact /\ Present(c) /\ s \notin sales[c]
  /\ selling' = [selling EXCEPT ![s] = c]
  /\ UNCHANGED <<contact, deal, edit, lead, origin, prospect, sales>>

StoreSale(s) ==
  /\ selling[s] # NoContact
  /\ sales' = [c \in Contacts |-> IF c = selling[s] THEN sales[c] \cup {s} ELSE sales[c] \ {s}]
  /\ selling' = [selling EXCEPT ![s] = NoContact]
  /\ UNCHANGED <<contact, deal, edit, lead, origin, prospect>>

\* remove of a sale.
DropSale(s) ==
  /\ selling[s] = NoContact
  /\ \E c \in Contacts : s \in sales[c] /\ sales' = [sales EXCEPT ![c] = @ \ {s}]
  /\ UNCHANGED <<contact, deal, edit, lead, origin, prospect, selling>>

----------------------------------------------------------------------------
(* Tags.                                                                   *)

\* assertNameAvailable: no other tag has the name in any case, archived ones included.
NameAvailable(name, t) ==
  \A u \in Tags \ {t} : tag[u] # Missing => Folded(tag[u].name) # Folded(name)

\* The unique key (organizationId, name).
NameFree(name, t) == \A u \in Tags \ {t} : tag[u] # Missing => tag[u].name # name

\* create, update and restore of a tag check before their transaction.
BeginTag(r, t, op, name) ==
  /\ edit[r] = Missing
  /\ op = "createTag" <=> tag[t] = Missing
  /\ op = "restoreTag" => tag[t].deleted /\ tag[t].name = name
  /\ (op # "updateTag" \/ tag[t].name # name) => NameAvailable(name, t)
  /\ edit' = [edit EXCEPT ![r] = [op |-> op, tag |-> t, name |-> name]]
  /\ UNCHANGED <<contact, deal, lead, origin, prospect, selling, sales, tagVars>>

WriteTag(r) ==
  /\ edit[r] # Missing /\ edit[r].op \in {"createTag", "updateTag", "restoreTag"}
  /\ edit' = [edit EXCEPT ![r] = Missing]
  /\ LET t == edit[r].tag
         row == CASE edit[r].op = "createTag" -> [name |-> edit[r].name, deleted |-> FALSE]
                  [] edit[r].op = "updateTag" -> [tag[t] EXCEPT !.name = edit[r].name]
                  [] OTHER -> [tag[t] EXCEPT !.deleted = FALSE]
         fits == NameFree(row.name, t) /\ (edit[r].op = "createTag" => tag[t] = Missing)
     IN tag' = IF fits THEN [tag EXCEPT ![t] = row] ELSE tag
  /\ UNCHANGED <<contact, deal, lead, origin, prospect, selling, sales, tagged>>

ArchiveTag(t) ==
  /\ tag[t] # Missing /\ ~tag[t].deleted
  /\ tag' = [tag EXCEPT ![t].deleted = TRUE]
  /\ UNCHANGED <<contactVars, tagged>>

AddTag(c, t) ==
  /\ Present(c) /\ tag[t] # Missing /\ ~tag[t].deleted
  /\ tagged' = tagged \cup {<<c, t>>}
  /\ UNCHANGED <<contactVars, tag>>

RemoveTag(c, t) ==
  /\ Present(c)
  /\ tagged' = tagged \ {<<c, t>>}
  /\ UNCHANGED <<contactVars, tag>>

----------------------------------------------------------------------------
(* Specification.                                                          *)

ContactOp == {"update", "assign", "archive", "restore"}

ContactStep ==
  \/ \E r \in Editors, op \in {"create", "import"}, p \in Phones \cup {NoPhone} : BeginCreate(r, op, p)
  \/ \E r \in Editors, c \in Contacts, op \in ContactOp, p \in Phones \cup {NoPhone},
        u \in Users \cup {NoUser} : ReadContact(r, c, op, p, u)
  \/ \E r \in Editors : WriteContact(r)

LeadStep ==
  \/ \E l \in Leads, p \in Phones \cup {NoPhone}, u \in Users \cup {NoUser} : FindContact(l, p, u)
  \/ \E l \in Leads : LookAtContact(l) \/ StoreLead(l)
  \/ \E c \in Contacts : AttributeContact(c) \/ SetProspectState(c) \/ RemoveContact(c)

BuyerStep ==
  \/ \E s \in BuyerSales, c \in Contacts : ReadBuyer(s, c)
  \/ \E s \in BuyerSales : StoreSale(s) \/ DropSale(s)

TagStep ==
  \/ \E r \in Editors, t \in Tags, name \in TagNames, op \in {"createTag", "updateTag", "restoreTag"} :
       BeginTag(r, t, op, name)
  \/ \E r \in Editors : WriteTag(r)
  \/ \E t \in Tags : ArchiveTag(t)
  \/ \E t \in Tags, c \in Contacts : AddTag(c, t) \/ RemoveTag(c, t)

ContactsInit ==
  /\ contact = [c \in Contacts |-> Missing] /\ deal = [c \in Contacts |-> "none"]
  /\ edit = [r \in Editors |-> Missing] /\ lead = [l \in Leads |-> Missing]
  /\ origin = [c \in Contacts |-> 0] /\ prospect = {}
  /\ selling = [s \in BuyerSales |-> NoContact] /\ sales = [c \in Contacts |-> {}]
  /\ tag = [t \in Tags |-> Missing] /\ tagged = {}

ContactsNext == ((ContactStep \/ LeadStep \/ BuyerStep) /\ UNCHANGED tagVars) \/ TagStep

ContactsSpec == ContactsInit /\ [][ContactsNext]_contactsVars

----------------------------------------------------------------------------
(* Properties.                                                             *)

\* A lead ends with a contact that has its original attribution, its state and an
\* opportunity, or changes nothing, although it looked for them before it wrote: what
\* it saw stays, and what others inserted meanwhile refuses all of it (createLead).
LeadsEndWhole ==
  [][\A l \in Leads : lead[l] # Missing /\ lead'[l] = Missing =>
       \/ UNCHANGED <<contact, deal, origin, prospect>>
       \/ \E c \in Contacts :
            /\ IF lead[l].found = NoContact THEN contact[c] = Missing ELSE c = lead[l].found
            /\ contact'[c] # Missing
            /\ origin'[c] = 1 /\ c \in prospect' /\ deal'[c] # "none"]_contactsVars

\* A contact has one original attribution at most, however many leads of it,
\* imports and assignments by hand overlap.
OneOrigin == \A c \in Contacts : origin[c] <= 1

\* customers.service.ts: a customer with commercial history cannot be removed.
RemovedHasNoSales == \A c \in Contacts : HasContact(c) /\ contact[c].deleted => sales[c] = {}

\* assertNameAvailable refuses a name that another tag has in any case of its
\* letters, but the unique key behind it tells cases apart.
TagNamesDiffer ==
  \A t, u \in Tags :
    (t # u /\ tag[t] # Missing /\ tag[u] # Missing) => Folded(tag[t].name) # Folded(tag[u].name)
=============================================================================
