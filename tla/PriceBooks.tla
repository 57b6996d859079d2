------------------------------ MODULE PriceBooks ------------------------------
(***************************************************************************)
(* Price books, their entries, and the price a sale gets from them.  A     *)
(* book has a scope (segment and country), and one active book of a scope  *)
(* may be its default; an entry prices one combination of product, plan    *)
(* and variant for a period.  Handlers read the row before the transaction *)
(* that writes it, under an advisory lock or none, and partial unique      *)
(* indexes have the last word.  One currency and one combination stand for *)
(* all; the period of a whole book, costs, the price column of a product   *)
(* and sellers who may override a price are left out.                      *)
(***************************************************************************)
EXTENDS Integers, FiniteSets

CONSTANTS
  Books, Entries,
  Segments, AnySegment, Countries, NoCountry,
  Scopes,          \* <<segment, country>> of a book
  Priority,        \* of a book
  InBook,          \* the book of an entry
  Age,             \* of an entry: by createdAt, ties broken by id
  Instants,
  Periods, Always, \* the instants an entry is valid at; Always has no limits
  Prices,
  BookEditors, EntryEditors, \* requests under way
  Sellers

ASSUME PriceBooksAssumption ==
  /\ AnySegment \in Segments /\ NoCountry \in Countries
  /\ Scopes \subseteq Segments \X Countries
  /\ Priority \in [Books -> Int] /\ InBook \in [Entries -> Books]
  /\ IsFiniteSet(Entries)
  /\ Age \in [Entries -> Nat] /\ \A e, f \in Entries : e # f => Age[e] # Age[f]
  /\ Instants \subseteq Nat
  /\ Periods \subseteq SUBSET Instants /\ Always \in Periods

VARIABLES
  book,      \* "PriceBook"
  bookEdit,  \* what a request on a book has read
  entry,     \* "PriceBookEntry"
  entryEdit,
  priceLog,  \* "PriceHistory": the prices recorded for an entry, and the newest
  quote,     \* the option chosen in a sale form
  charged    \* history: what the last sale of a seller was charged, of which entry

bookVars == <<book, bookEdit>>
entryVars == <<entry, entryEdit, priceLog, quote, charged>>
priceBooksVars == <<book, bookEdit, entry, entryEdit, priceLog, quote, charged>>

BookStatus == {"DRAFT", "ACTIVE", "INACTIVE", "ARCHIVED"}
BookRow == [status : BookStatus, archived : BOOLEAN, default : BOOLEAN, scope : Scopes]
BookOp == {"update", "activate", "deactivate", "archive", "restore", "setDefault"}
EntryRow == [active : BOOLEAN, deleted : BOOLEAN, period : Periods, price : Prices]
Nothing == [op |-> "none"]

PriceBooksTypeOK ==
  /\ \A b \in Books : book[b] # Nothing => book[b] \in BookRow
  /\ \A r \in BookEditors : bookEdit[r] # Nothing =>
       bookEdit[r] \in [op : {"setDefault"}, book : Books, scope : Scopes]
                       \cup [op : BookOp \ {"setDefault"}, book : Books]
  /\ \A e \in Entries : entry[e] # Nothing => entry[e] \in EntryRow
  /\ \A r \in EntryEditors : entryEdit[r] # Nothing =>
       entryEdit[r] \in [op : {"update", "archive", "restore"}, entry : Entries, seen : EntryRow]
  /\ priceLog \in [Entries -> [all : SUBSET Prices, newest : SUBSET Prices]]
  /\ \A c \in Sellers : quote[c] # Nothing =>
       quote[c] \in [entry : Entries, price : Prices, at : Instants]
  /\ \A c \in Sellers : charged[c] # Nothing => charged[c] \in [entry : Entries, price : Prices]

----------------------------------------------------------------------------
(* Books.                                                                  *)

HasBook(b) == book[b] # Nothing
Default(row) == row # Nothing /\ row.default /\ row.status = "ACTIVE" /\ ~row.archived

\* clearDefault, leaving out the book that becomes the default.
Cleared(b, scope) ==
  [c \in Books |-> IF c # b /\ Default(book[c]) /\ book[c].scope = scope
                   THEN [book[c] EXCEPT !.default = FALSE] ELSE book[c]]

\* PriceBook_default_scope_active_key.
IndexOfDefaults(rows) ==
  \A b, c \in Books :
    (b # c /\ Default(rows[b]) /\ Default(rows[c])) => rows[b].scope # rows[c].scope

\* A write the index refuses changes nothing.
StoreBook(b, rows, row) ==
  LET stored == [rows EXCEPT ![b] = row]
  IN book' = IF IndexOfDefaults(stored) THEN stored ELSE book

\* normalize and validate: any fields, but only an active book is the default.
ValidBook(row) == row.default => row.status = "ACTIVE"

CreateBook(b) ==
  /\ ~HasBook(b)
  /\ \E row \in BookRow :
       /\ ~row.archived /\ ValidBook(row)
       /\ StoreBook(b, IF row.default THEN Cleared(b, row.scope) ELSE book, row)
  /\ UNCHANGED bookEdit

\* Every change of a book starts by reading it; setDefault keeps the scope it read.
ReadBook(r, b, op) ==
  /\ bookEdit[r] = Nothing /\ HasBook(b)
  /\ op \in {"activate", "deactivate", "setDefault", "archive"} => ~book[b].archived
  /\ op = "restore" => book[b].archived
  /\ op = "setDefault" => book[b].status = "ACTIVE"
  /\ bookEdit' = [bookEdit EXCEPT ![r] =
       IF op = "setDefault" THEN [op |-> op, book |-> b, scope |-> book[b].scope]
       ELSE [op |-> op, book |-> b]]
  /\ UNCHANGED book

\* update writes every field but archivedAt, those the request did not name as
\* they were read: together, any values that pass validate.
UpdateBook(r) ==
  LET b == bookEdit[r].book
  IN \E row \in BookRow :
       /\ bookEdit[r].op = "update"
       /\ row.archived = book[b].archived /\ ValidBook(row)
       /\ StoreBook(b, IF row.default THEN Cleared(b, row.scope) ELSE book, row)

\* setDefault does not look again at the status once it has its lock.
SetDefault(r) ==
  LET b == bookEdit[r].book
  IN /\ bookEdit[r].op = "setDefault"
     /\ StoreBook(b, Cleared(b, bookEdit[r].scope), [book[b] EXCEPT !.default = TRUE])

ChangeBookStatus(r) ==
  LET b == bookEdit[r].book
  IN /\ bookEdit[r].op \in {"activate", "deactivate"}
     /\ StoreBook(b, book,
          IF bookEdit[r].op = "activate" THEN [book[b] EXCEPT !.status = "ACTIVE"]
          ELSE [book[b] EXCEPT !.status = "INACTIVE", !.default = FALSE])

ArchiveBook(r) ==
  LET b == bookEdit[r].book
  IN /\ bookEdit[r].op = "archive"
     /\ StoreBook(b, book, [book[b] EXCEPT !.status = "ARCHIVED", !.archived = TRUE,
                                           !.default = FALSE])

RestoreBook(r) ==
  LET b == bookEdit[r].book
  IN /\ bookEdit[r].op = "restore"
     /\ StoreBook(b, book, [book[b] EXCEPT !.status = "INACTIVE", !.archived = FALSE,
                                           !.default = FALSE])

WriteBook(r) ==
  /\ bookEdit[r] # Nothing
  /\ bookEdit' = [bookEdit EXCEPT ![r] = Nothing]
  /\ UpdateBook(r) \/ SetDefault(r) \/ ChangeBookStatus(r) \/ ArchiveBook(r) \/ RestoreBook(r)

BooksNext ==
  \/ \E b \in Books : CreateBook(b)
  \/ \E r \in BookEditors, b \in Books, op \in BookOp : ReadBook(r, b, op)
  \/ \E r \in BookEditors : WriteBook(r)

----------------------------------------------------------------------------
(* Entries.                                                                *)

HasEntry(e) == entry[e] # Nothing
Offered(e) == HasEntry(e) /\ entry[e].active /\ ~entry[e].deleted

\* assertDuplicate, and PriceBookEntry_active_combination_validity_key behind it.
Duplicated(e, period) ==
  \E f \in Entries \ {e} : Offered(f) /\ InBook[f] = InBook[e] /\ entry[f].period = period

BookOpen(b) == HasBook(b) /\ ~book[b].archived

\* Mutant of Recorded: a change of price leaves no history.
RecordedNever(e, price) == priceLog

\* createHistory.
Recorded(e, price) ==
  [priceLog EXCEPT ![e].all = @ \cup {price}, ![e].newest = {price}]

CreateEntry(e, row) ==
  /\ ~HasEntry(e) /\ BookOpen(InBook[e])
  /\ ~row.deleted /\ ~Duplicated(e, row.period)
  /\ entry' = [entry EXCEPT ![e] = row]
  /\ priceLog' = Recorded(e, row.price)
  /\ UNCHANGED <<entryEdit, quote, charged>>

ReadEntry(r, e, op) ==
  /\ entryEdit[r] = Nothing /\ HasEntry(e) /\ BookOpen(InBook[e])
  /\ entry[e].deleted <=> op = "restore"
  /\ entryEdit' = [entryEdit EXCEPT ![r] = [op |-> op, entry |-> e, seen |-> entry[e]]]
  /\ UNCHANGED <<entry, priceLog, quote, charged>>

PriceChanged(seen, row) == seen.price # row.price

\* update writes all it was given and, for the rest, what it read; deletedAt is
\* not among it.
UpdateEntry(r) ==
  LET e == entryEdit[r].entry
      seen == entryEdit[r].seen
  IN /\ entryEdit[r].op = "update"
     /\ \E row \in EntryRow :
          /\ row.deleted = entry[e].deleted
          /\ IF row.active /\ Duplicated(e, row.period) THEN UNCHANGED <<entry, priceLog>>
             ELSE /\ entry' = [entry EXCEPT ![e] = row]
                  /\ priceLog' = IF PriceChanged(seen, row) THEN Recorded(e, row.price)
                                 ELSE priceLog

\* setArchived; restoring brings back the switch it read.
SetArchived(r) ==
  LET e == entryEdit[r].entry
      seen == entryEdit[r].seen
      archived == entryEdit[r].op = "archive"
      row == [entry[e] EXCEPT !.deleted = archived, !.active = ~archived /\ seen.active]
  IN /\ entryEdit[r].op \in {"archive", "restore"}
     /\ entry' = IF row.active /\ (Duplicated(e, seen.period) \/ Duplicated(e, row.period))
                 THEN entry ELSE [entry EXCEPT ![e] = row]
     /\ UNCHANGED priceLog

WriteEntry(r) ==
  /\ entryEdit[r] # Nothing
  /\ entryEdit' = [entryEdit EXCEPT ![r] = Nothing]
  /\ UpdateEntry(r) \/ SetArchived(r)
  /\ UNCHANGED <<quote, charged>>

----------------------------------------------------------------------------
(* The price of a sale.                                                    *)

Buyers == Segments \X Countries

\* resolveInternal: the entries in force for a buyer at an instant.
Candidates(buyer, at) ==
  {e \in Entries :
     /\ Offered(e) /\ at \in entry[e].period
     /\ BookOpen(InBook[e]) /\ book[InBook[e]].status = "ACTIVE"
     /\ book[InBook[e]].scope[1] \in {buyer[1], AnySegment}
     /\ book[InBook[e]].scope[2] \in {buyer[2], NoCountry}}

ExactSegment(e, buyer) == book[InBook[e]].scope[1] = buyer[1]
ExactCountry(e, buyer) == buyer[2] # NoCountry /\ book[InBook[e]].scope[2] = buyer[2]
Flag(condition) == IF condition THEN 1 ELSE 0

\* Mutant of Merits: the priority is looked at first.
MeritsPriorityFirst(e, buyer) ==
  <<Priority[InBook[e]], Flag(ExactSegment(e, buyer)), Flag(ExactCountry(e, buyer)),
    Flag(book[InBook[e]].default), Age[e]>>

\* comparePricingCandidates goes through these one by one.
Merits(e, buyer) ==
  <<Flag(ExactSegment(e, buyer)), Flag(ExactCountry(e, buyer)), Flag(book[InBook[e]].default),
    Priority[InBook[e]], Age[e]>>

Beats(e, f, buyer) ==
  \E i \in 1 .. 5 :
    /\ Merits(e, buyer)[i] > Merits(f, buyer)[i]
    /\ \A j \in 1 .. (i - 1) : Merits(e, buyer)[j] = Merits(f, buyer)[j]

Resolved(buyer, at) ==
  {e \in Candidates(buyer, at) : \A f \in Candidates(buyer, at) \ {e} : Beats(e, f, buyer)}

\* resolveAvailable: what the catalog offers, one for each currency.
Offers(buyer, at) ==
  {[entry |-> e, price |-> entry[e].price, at |-> at] : e \in Resolved(buyer, at)}

\* The option taken from the offers into a form.
Quote(c, buyer, at) ==
  /\ quote[c] = Nothing
  /\ \E offer \in Offers(buyer, at) : quote' = [quote EXCEPT ![c] = offer]
  /\ UNCHANGED <<entry, entryEdit, priceLog, charged>>

\* resolveForSale without the permission to override: the price that was sent
\* must be that of the entry, in force now, whatever better book there is.
Honoured(q) ==
  /\ Offered(q.entry) /\ entry[q.entry].price = q.price
  /\ \E now \in entry[q.entry].period : now >= q.at
  /\ BookOpen(InBook[q.entry]) /\ book[InBook[q.entry]].status = "ACTIVE"

\* buildItem: the line of the sale, unless the price is refused.
Item(q) == IF Honoured(q) THEN {[entry |-> q.entry, price |-> q.price]} ELSE {}

Sell(c) ==
  /\ quote[c] # Nothing
  /\ quote' = [quote EXCEPT ![c] = Nothing]
  /\ \/ \E item \in Item(quote[c]) : charged' = [charged EXCEPT ![c] = item]
     \/ Item(quote[c]) = {} /\ charged' = charged
  /\ UNCHANGED <<entry, entryEdit, priceLog>>

EntriesNext ==
  \/ \E e \in Entries, row \in EntryRow : CreateEntry(e, row)
  \/ \E r \in EntryEditors, e \in Entries, op \in {"update", "archive", "restore"} :
       ReadEntry(r, e, op)
  \/ \E r \in EntryEditors : WriteEntry(r)
  \/ \E c \in Sellers, buyer \in Buyers, at \in Instants : Quote(c, buyer, at)
  \/ \E c \in Sellers : Sell(c)

PriceBooksInit ==
  /\ book = [b \in Books |-> Nothing] /\ bookEdit = [r \in BookEditors |-> Nothing]
  /\ entry = [e \in Entries |-> Nothing] /\ entryEdit = [r \in EntryEditors |-> Nothing]
  /\ priceLog = [e \in Entries |-> [all |-> {}, newest |-> {}]]
  /\ quote = [c \in Sellers |-> Nothing] /\ charged = [c \in Sellers |-> Nothing]

PriceBooksNext ==
  \/ BooksNext /\ UNCHANGED entryVars
  \/ EntriesNext /\ UNCHANGED bookVars

PriceBooksSpec == PriceBooksInit /\ [][PriceBooksNext]_priceBooksVars

----------------------------------------------------------------------------
(* Properties.                                                             *)

\* A scope has at most one active default, whatever requests to create, update,
\* activate and set defaults overlap: without the index a deactivated book that
\* setDefault marked late would be a second one once activated.
OneDefaultPerScope ==
  \A b, c \in Books :
    (Default(book[b]) /\ Default(book[c]) /\ book[b].scope = book[c].scope) => b = c

\* An instant has one active price of a combination and period in a book, the
\* periods without limits included.
OnePriceForPeriod ==
  \A e, f \in Entries :
    (Offered(e) /\ Offered(f) /\ InBook[e] = InBook[f] /\ entry[e].period = entry[f].period)
      => e = f

\* The price found for a buyer is the best by segment, then by country, then by
\* default, in that order and found by narrowing down; priority never beats any
\* of them (pricing.md), and something is found whenever there is a candidate.
Narrowed(set, test(_)) == IF \E e \in set : test(e) THEN {e \in set : test(e)} ELSE set

BestMatchWins ==
  \A buyer \in Buyers, at \in Instants :
    LET exact == Narrowed(Candidates(buyer, at), LAMBDA e : ExactSegment(e, buyer))
        local == Narrowed(exact, LAMBDA e : ExactCountry(e, buyer))
        default == Narrowed(local, LAMBDA e : book[InBook[e]].default)
    IN /\ Candidates(buyer, at) # {} => Cardinality(Resolved(buyer, at)) = 1
       /\ Resolved(buyer, at) \subseteq default
       /\ \A e \in Resolved(buyer, at), f \in default :
            Priority[InBook[e]] >= Priority[InBook[f]]

\* Whatever was charged for an entry is on its record, although an update that
\* read the row earlier writes an old price back and records nothing.
ChargedOnRecord ==
  \A c \in Sellers :
    charged[c] # Nothing => charged[c].price \in priceLog[charged[c].entry].all

\* docs/pricing.md: every change of a price is in the history of its entry.
NewestIsInForce ==
  \A e \in Entries : HasEntry(e) => priceLog[e].newest = {entry[e].price}
=============================================================================
