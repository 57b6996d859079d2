---------------------------- MODULE RecordsProofs ----------------------------
(***************************************************************************)
(* What TLAPS proves of the records of the business, for any number of     *)
(* them and of requests: price books, categories, contacts, spend, imports *)
(* and reminders.                                                          *)
(*                                                                         *)
(* Price books: the comparator (comparePricingCandidates) orders the       *)
(* entries by five merits, lexicographically, and the last one tells any   *)
(* two apart: so it is a strict total order, a finite set of candidates    *)
(* has exactly one best, and narrowing down by one merit after the other   *)
(* keeps it.  The history of an entry (PricesInv) holds its price and      *)
(* every price a request under way has read, which is all that may be      *)
(* written back.                                                           *)
(* The others rest on a unique index (QuickInv, LeadsInv, ImportsInv) and  *)
(* on rows that are never taken away, so that what a request has read is   *)
(* still there when it writes, whatever has become of it.                  *)
(***************************************************************************)
EXTENDS MCRecords, FiniteSetTheorems, WellFoundedInduction, TLAPS

----------------------------------------------------------------------------
(* The comparator.                                                         *)

SegmentMerit(e, buyer) == Flag(ExactSegment(e, buyer))
CountryMerit(e, buyer) == Flag(ExactCountry(e, buyer))
DefaultMerit(e) == Flag(book[InBook[e]].default)
Rank(e) == Priority[InBook[e]]

\* e is before f by default, priority and age; by country and those; by all.
BeforeByDefault(e, f) ==
  \/ DefaultMerit(e) > DefaultMerit(f)
  \/ /\ DefaultMerit(e) = DefaultMerit(f)
     /\ \/ Rank(e) > Rank(f)
        \/ Rank(e) = Rank(f) /\ Age[e] > Age[f]

BeforeByCountry(e, f, buyer) ==
  \/ CountryMerit(e, buyer) > CountryMerit(f, buyer)
  \/ CountryMerit(e, buyer) = CountryMerit(f, buyer) /\ BeforeByDefault(e, f)

Before(e, f, buyer) ==
  \/ SegmentMerit(e, buyer) > SegmentMerit(f, buyer)
  \/ SegmentMerit(e, buyer) = SegmentMerit(f, buyer) /\ BeforeByCountry(e, f, buyer)

LEMMA FlagTells == \A c : Flag(c) \in {0, 1} /\ (Flag(c) = 1 <=> c)
BY DEF Flag

LEMMA MeritsAreNumbers ==
  ASSUME NEW buyer, NEW e \in Entries
  PROVE  /\ SegmentMerit(e, buyer) \in {0, 1} /\ CountryMerit(e, buyer) \in {0, 1}
         /\ DefaultMerit(e) \in {0, 1} /\ Rank(e) \in Int /\ Age[e] \in Nat
BY PriceBooksAssumption DEF SegmentMerit, CountryMerit, DefaultMerit, Rank, Flag

\* Going through the merits one by one is the lexicographic order on them.
LEMMA BeatsIsBefore ==
  ASSUME NEW buyer, NEW e \in Entries, NEW f \in Entries
  PROVE  Beats(e, f, buyer) <=> Before(e, f, buyer)
<1>. DEFINE M(g) == <<SegmentMerit(g, buyer), CountryMerit(g, buyer), DefaultMerit(g),
                      Rank(g), Age[g]>>
<1>. DEFINE Wins(i) == M(e)[i] > M(f)[i] /\ \A j \in 1 .. (i - 1) : M(e)[j] = M(f)[j]
<1>1. Beats(e, f, buyer) <=> \E i \in 1 .. 5 : Wins(i)
  BY DEF Beats, Merits, SegmentMerit, CountryMerit, DefaultMerit, Rank
<1>2. (\E i \in 1 .. 5 : Wins(i)) <=> Wins(1) \/ Wins(2) \/ Wins(3) \/ Wins(4) \/ Wins(5)
  <2>1. 1 .. 5 = {1, 2, 3, 4, 5}
    OBVIOUS
  <2>. HIDE DEF Wins
  <2>. QED BY <2>1
<1>3. /\ M(e)[1] = SegmentMerit(e, buyer) /\ M(f)[1] = SegmentMerit(f, buyer)
      /\ M(e)[2] = CountryMerit(e, buyer) /\ M(f)[2] = CountryMerit(f, buyer)
      /\ M(e)[3] = DefaultMerit(e) /\ M(f)[3] = DefaultMerit(f)
      /\ M(e)[4] = Rank(e) /\ M(f)[4] = Rank(f)
      /\ M(e)[5] = Age[e] /\ M(f)[5] = Age[f]
  OBVIOUS
<1>. HIDE DEF M
<1>4. /\ 1 .. (1 - 1) = {} /\ 1 .. (2 - 1) = {1} /\ 1 .. (3 - 1) = {1, 2}
      /\ 1 .. (4 - 1) = {1, 2, 3} /\ 1 .. (5 - 1) = {1, 2, 3, 4}
  OBVIOUS
<1>5. Wins(1) <=> M(e)[1] > M(f)[1]
  BY <1>4
<1>6. Wins(2) <=> M(e)[2] > M(f)[2] /\ M(e)[1] = M(f)[1]
  BY <1>4
<1>7. Wins(3) <=> M(e)[3] > M(f)[3] /\ M(e)[1] = M(f)[1] /\ M(e)[2] = M(f)[2]
  BY <1>4
<1>8. Wins(4) <=> M(e)[4] > M(f)[4] /\ M(e)[1] = M(f)[1] /\ M(e)[2] = M(f)[2] /\ M(e)[3] = M(f)[3]
  BY <1>4
<1>9. Wins(5) <=> /\ M(e)[5] > M(f)[5] /\ M(e)[1] = M(f)[1] /\ M(e)[2] = M(f)[2]
                  /\ M(e)[3] = M(f)[3] /\ M(e)[4] = M(f)[4]
  BY <1>4
<1>. HIDE DEF Wins
<1>. QED BY <1>1, <1>2, <1>3, <1>5, <1>6, <1>7, <1>8, <1>9 DEF Before, BeforeByCountry, BeforeByDefault

LEMMA BeforeIsStrict ==
  ASSUME NEW buyer, NEW e \in Entries, NEW f \in Entries
  PROVE  ~(Before(e, f, buyer) /\ Before(f, e, buyer))
BY MeritsAreNumbers DEF Before, BeforeByCountry, BeforeByDefault

LEMMA BeforeIsTotal ==
  ASSUME NEW buyer, NEW e \in Entries, NEW f \in Entries, e # f
  PROVE  Before(e, f, buyer) \/ Before(f, e, buyer)
<1>1. Age[e] # Age[f]
  BY PriceBooksAssumption
<1>. QED BY <1>1, MeritsAreNumbers DEF Before, BeforeByCountry, BeforeByDefault

LEMMA BeforeIsTransitive ==
  ASSUME NEW buyer, NEW e \in Entries, NEW f \in Entries, NEW g \in Entries,
         Before(e, f, buyer), Before(f, g, buyer)
  PROVE  Before(e, g, buyer)
BY MeritsAreNumbers DEF Before, BeforeByCountry, BeforeByDefault

\* A set of entries, not empty, has one that all others come after: of the
\* sets of entries before an entry, finite, the least by inclusion is empty.
LEMMA BestExists ==
  ASSUME NEW buyer, NEW C, C \subseteq Entries, C # {}
  PROVE  \E e \in C : \A f \in C \ {e} : Before(e, f, buyer)
<1>. DEFINE Above(e) == {f \in C : Before(f, e, buyer)}
            T == {Above(e) : e \in C}
<1>1. IsFiniteSet(C)
  BY PriceBooksAssumption, FS_Subset
<1>2. IsWellFoundedOn(StrictSubsetOrdering(C), FiniteSubsetsOf(C))
  BY FS_StrictSubsetOrderingWellFounded
<1>3. T \subseteq FiniteSubsetsOf(C) /\ T # {}
  <2>1. FiniteSubsetsOf(C) = SUBSET C
    BY <1>1, FS_FiniteSubsetsOfFinite
  <2>2. PICK e \in C : TRUE
    OBVIOUS
  <2>3. Above(e) \in T
    BY <2>2
  <2>4. \A g \in C : Above(g) \in SUBSET C
    OBVIOUS
  <2>. HIDE DEF Above
  <2>. QED BY <2>1, <2>3, <2>4
<1>4. PICK X \in T : \A Y \in T : <<Y, X>> \notin StrictSubsetOrdering(C)
  <2>. HIDE DEF T
  <2>. QED BY <1>2, <1>3, WFMin
<1>5. PICK e \in C : X = Above(e)
  BY <1>4
<1>6. Above(e) = {}
  <2>1. SUFFICES ASSUME NEW f \in Above(e) PROVE FALSE
    OBVIOUS
  <2>2. f \in C /\ Before(f, e, buyer)
    OBVIOUS
  <2>3. Above(f) \subseteq Above(e)
    BY <2>2, BeforeIsTransitive
  <2>4. f \notin Above(f)
    BY <2>2, BeforeIsStrict
  <2>5. <<Above(f), Above(e)>> \in StrictSubsetOrdering(C)
    BY <2>1, <2>3, <2>4 DEF StrictSubsetOrdering
  <2>. QED BY <2>2, <2>5, <1>4, <1>5
<1>7. ASSUME NEW f \in C \ {e} PROVE Before(e, f, buyer)
  BY <1>6, BeforeIsTotal
<1>. QED BY <1>5, <1>7

\* Any two entries that are best of the same candidates are the same one.
LEMMA BestIsUnique ==
  ASSUME NEW buyer, NEW at, Candidates(buyer, at) # {}
  PROVE  Cardinality(Resolved(buyer, at)) = 1
<1>. DEFINE C == Candidates(buyer, at)
<1>1. C \subseteq Entries /\ C # {}
  BY DEF Candidates
<1>2. PICK e \in C : \A f \in C \ {e} : Before(e, f, buyer)
  <2>. HIDE DEF C
  <2>. QED BY <1>1, BestExists
<1>3. Resolved(buyer, at) = {e}
  <2>1. e \in Resolved(buyer, at)
    BY <1>1, <1>2, BeatsIsBefore DEF Resolved
  <2>2. ASSUME NEW f \in Resolved(buyer, at), f # e PROVE FALSE
    <3>1. f \in C /\ Beats(f, e, buyer)
      BY <2>2, <1>2 DEF Resolved
    <3>2. Before(f, e, buyer) /\ Before(e, f, buyer)
      BY <3>1, <2>2, <1>1, <1>2, BeatsIsBefore
    <3>. QED BY <3>1, <3>2, <1>1, <1>2, BeforeIsStrict
  <2>. QED BY <2>1, <2>2
<1>. QED BY <1>3, FS_Singleton

\* The price found for a buyer is the best by segment, then by country, then by
\* default, and then by priority; something is found whenever there is a
\* candidate (comparePricingCandidates, pricing.service.ts).
THEOREM BestMatch == BestMatchWins
<1>. SUFFICES ASSUME NEW buyer \in Buyers, NEW at \in Instants
     PROVE LET exact == Narrowed(Candidates(buyer, at), LAMBDA e : ExactSegment(e, buyer))
               local == Narrowed(exact, LAMBDA e : ExactCountry(e, buyer))
               default == Narrowed(local, LAMBDA e : book[InBook[e]].default)
           IN /\ Candidates(buyer, at) # {} => Cardinality(Resolved(buyer, at)) = 1
              /\ Resolved(buyer, at) \subseteq default
              /\ \A e \in Resolved(buyer, at), f \in default :
                   Priority[InBook[e]] >= Priority[InBook[f]]
  BY DEF BestMatchWins
<1>. DEFINE C == Candidates(buyer, at)
            exact == Narrowed(C, LAMBDA e : ExactSegment(e, buyer))
            local == Narrowed(exact, LAMBDA e : ExactCountry(e, buyer))
            default == Narrowed(local, LAMBDA e : book[InBook[e]].default)
<1>1. C \subseteq Entries
  BY DEF Candidates
<1>2. exact = IF \E e \in C : SegmentMerit(e, buyer) = 1
              THEN {e \in C : SegmentMerit(e, buyer) = 1} ELSE C
  BY FlagTells DEF Narrowed, SegmentMerit
<1>3. local = IF \E e \in exact : CountryMerit(e, buyer) = 1
              THEN {e \in exact : CountryMerit(e, buyer) = 1} ELSE exact
  BY FlagTells DEF Narrowed, CountryMerit
<1>4. default = IF \E e \in local : DefaultMerit(e) = 1
                THEN {e \in local : DefaultMerit(e) = 1} ELSE local
  BY FlagTells DEF Narrowed, DefaultMerit
<1>. HIDE DEF C, exact, local, default
<1>5. ASSUME NEW e \in Resolved(buyer, at)
      PROVE  e \in default /\ \A f \in default : Rank(e) >= Rank(f)
  <2>1. e \in C /\ \A f \in C \ {e} : Before(e, f, buyer)
    BY <1>1, BeatsIsBefore DEF Resolved, C
  <2>2. \A f \in C : /\ SegmentMerit(f, buyer) \in {0, 1} /\ CountryMerit(f, buyer) \in {0, 1}
                     /\ DefaultMerit(f) \in {0, 1} /\ Rank(f) \in Int
    BY <1>1, MeritsAreNumbers
  <2>3. e \in exact /\ \A f \in exact :
          f \in C /\ SegmentMerit(f, buyer) = SegmentMerit(e, buyer)
    <3>1. \A f \in C : SegmentMerit(e, buyer) >= SegmentMerit(f, buyer)
      BY <2>1, <2>2 DEF Before
    <3>. QED BY <1>2, <2>1, <2>2, <3>1
  <2>4. \A f \in exact \ {e} : BeforeByCountry(e, f, buyer)
    BY <2>1, <2>2, <2>3 DEF Before
  <2>5. e \in local /\ \A f \in local :
          f \in exact /\ CountryMerit(f, buyer) = CountryMerit(e, buyer)
    <3>1. \A f \in exact : CountryMerit(e, buyer) >= CountryMerit(f, buyer)
      BY <2>1, <2>2, <2>3, <2>4 DEF BeforeByCountry
    <3>. QED BY <1>3, <2>2, <2>3, <3>1
  <2>6. \A f \in local \ {e} : BeforeByDefault(e, f)
    BY <2>2, <2>3, <2>4, <2>5 DEF BeforeByCountry
  <2>7. e \in default /\ \A f \in default : f \in local /\ DefaultMerit(f) = DefaultMerit(e)
    <3>1. \A f \in local : DefaultMerit(e) >= DefaultMerit(f)
      BY <2>2, <2>3, <2>5, <2>6 DEF BeforeByDefault
    <3>. QED BY <1>4, <2>2, <2>3, <2>5, <3>1
  <2>8. \A f \in default : Rank(e) >= Rank(f)
    BY <2>2, <2>3, <2>5, <2>6, <2>7 DEF BeforeByDefault
  <2>. QED BY <2>7, <2>8
<1>6. Candidates(buyer, at) # {} => Cardinality(Resolved(buyer, at)) = 1
  BY BestIsUnique
<1>. QED BY <1>5, <1>6 DEF Rank, default, local, exact, C

\* In every reachable state, therefore.
THEOREM BestMatchAlways == PriceBooksSpec => []BestMatchWins
BY BestMatch, PTL

----------------------------------------------------------------------------
(* The history of the prices.                                              *)

EntryEditRow == [op : {"update", "archive", "restore"}, entry : Entries, seen : EntryRow]
QuoteRow == [entry : Entries, price : Prices, at : Instants]
ChargeRow == [entry : Entries, price : Prices]

PriceTypes ==
  /\ entry \in [Entries -> EntryRow \cup {Nothing}]
  /\ entryEdit \in [EntryEditors -> EntryEditRow \cup {Nothing}]
  /\ priceLog \in [Entries -> [all : SUBSET Prices, newest : SUBSET Prices]]
  /\ quote \in [Sellers -> QuoteRow \cup {Nothing}]
  /\ charged \in [Sellers -> ChargeRow \cup {Nothing}]

\* The price of an entry, and the one a request under way has read, are on record.
PricesOnRecord ==
  /\ \A e \in Entries : HasEntry(e) => entry[e].price \in priceLog[e].all
  /\ \A r \in EntryEditors : entryEdit[r] # Nothing =>
       /\ HasEntry(entryEdit[r].entry)
       /\ entryEdit[r].seen.price \in priceLog[entryEdit[r].entry].all

PricesInv == PriceTypes /\ PricesOnRecord /\ ChargedOnRecord

LEMMA NothingIsNoRow == Nothing \notin EntryRow /\ Nothing \notin EntryEditRow
                        /\ Nothing \notin QuoteRow /\ Nothing \notin ChargeRow
<1>1. DOMAIN Nothing = {"op"}
  BY DEF Nothing
<1>2. \A row \in EntryRow : DOMAIN row = {"active", "deleted", "period", "price"}
  BY DEF EntryRow
<1>3. \A row \in EntryEditRow : DOMAIN row = {"op", "entry", "seen"}
  BY DEF EntryEditRow
<1>4. \A row \in QuoteRow : DOMAIN row = {"entry", "price", "at"}
  BY DEF QuoteRow
<1>5. \A row \in ChargeRow : DOMAIN row = {"entry", "price"}
  BY DEF ChargeRow
<1>6. "price" # "op" /\ "entry" # "op"
  OBVIOUS
<1>. QED BY <1>1, <1>2, <1>3, <1>4, <1>5, <1>6

\* Recording a price forgets none.
LEMMA RecordedKeeps ==
  ASSUME PriceTypes, NEW e \in Entries, NEW price \in Prices
  PROVE  /\ Recorded(e, price) \in [Entries -> [all : SUBSET Prices, newest : SUBSET Prices]]
         /\ price \in Recorded(e, price)[e].all
         /\ \A f \in Entries : priceLog[f].all \subseteq Recorded(e, price)[f].all
<1>. DEFINE row == [all |-> priceLog[e].all \cup {price}, newest |-> {price}]
            rows == [priceLog EXCEPT ![e].all = @ \cup {price}, ![e].newest = {price}]
<1>1. priceLog \in [Entries -> [all : SUBSET Prices, newest : SUBSET Prices]]
  BY DEF PriceTypes
<1>2. DOMAIN rows = Entries /\ \A f \in Entries \ {e} : rows[f] = priceLog[f]
  BY <1>1
<1>3. rows[e] = row
  BY <1>1
<1>4. rows = [f \in Entries |-> rows[f]]
  BY <1>1
<1>5. \A f \in Entries : rows[f] \in [all : SUBSET Prices, newest : SUBSET Prices]
  BY <1>1, <1>2, <1>3
<1>6. Recorded(e, price) = rows
  BY DEF Recorded
<1>. HIDE DEF rows
<1>7. rows \in [Entries -> [all : SUBSET Prices, newest : SUBSET Prices]]
  BY <1>4, <1>5
<1>8. price \in rows[e].all /\ \A f \in Entries : priceLog[f].all \subseteq rows[f].all
  BY <1>2, <1>3
<1>. QED BY <1>6, <1>7, <1>8

\* The quotes and charges that are there stay on record when none is forgotten.
LEMMA RecordGrows ==
  ASSUME PricesInv,
         priceLog' \in [Entries -> [all : SUBSET Prices, newest : SUBSET Prices]],
         \A e \in Entries : priceLog[e].all \subseteq priceLog'[e].all,
         UNCHANGED <<quote, charged>>,
         entry' \in [Entries -> EntryRow \cup {Nothing}],
         \A e \in Entries : HasEntry(e) => HasEntry(e)',
         \A e \in Entries : HasEntry(e)' => entry'[e].price \in priceLog'[e].all,
         entryEdit' \in [EntryEditors -> EntryEditRow \cup {Nothing}],
         \A r \in EntryEditors : entryEdit'[r] \in {entryEdit[r], Nothing}
  PROVE  PricesInv'
<1>1. PriceTypes'
  BY DEF PricesInv, PriceTypes
<1>2. ASSUME NEW r \in EntryEditors, entryEdit'[r] # Nothing
      PROVE  /\ entry'[entryEdit'[r].entry] # Nothing
             /\ entryEdit'[r].seen.price \in priceLog'[entryEdit'[r].entry].all
  <2>1. entryEdit'[r] = entryEdit[r] /\ entryEdit[r].entry \in Entries
    BY <1>2 DEF PricesInv, PriceTypes, EntryEditRow
  <2>. QED BY <1>2, <2>1 DEF PricesInv, PricesOnRecord, HasEntry
<1>3. ChargedOnRecord'
  <2>1. \A c \in Sellers : charged[c] # Nothing => charged[c].entry \in Entries
    BY DEF PricesInv, PriceTypes, ChargeRow
  <2>. QED BY <2>1 DEF PricesInv, ChargedOnRecord
<1>. QED BY <1>1, <1>2, <1>3 DEF PricesInv, PricesOnRecord, HasEntry

LEMMA PricesStart == PriceBooksInit => PricesInv
BY DEF PriceBooksInit, PricesInv, PriceTypes, PricesOnRecord, ChargedOnRecord, HasEntry

LEMMA WriteKeepsPrices ==
  ASSUME PricesInv, NEW r \in EntryEditors, WriteEntry(r)
  PROVE  PricesInv'
<1>. DEFINE e == entryEdit[r].entry
            seen == entryEdit[r].seen
<1>1. entryEdit[r] \in EntryEditRow /\ HasEntry(e) /\ seen.price \in priceLog[e].all
  BY DEF WriteEntry, PricesInv, PriceTypes, PricesOnRecord
<1>2. e \in Entries /\ seen \in EntryRow /\ entry[e] \in EntryRow
  BY <1>1 DEF EntryEditRow, HasEntry, PricesInv, PriceTypes
<1>3. /\ entryEdit' \in [EntryEditors -> EntryEditRow \cup {Nothing}]
      /\ \A q \in EntryEditors : entryEdit'[q] \in {entryEdit[q], Nothing}
      /\ UNCHANGED <<quote, charged>>
  BY DEF WriteEntry, PricesInv, PriceTypes
<1>. HIDE DEF e, seen
<1>4. ASSUME UNCHANGED <<entry, priceLog>> PROVE PricesInv'
  <2>1. \A f \in Entries : HasEntry(f)' <=> HasEntry(f)
    BY <1>4 DEF HasEntry
  <2>. QED BY <1>3, <1>4, <2>1, RecordGrows DEF PricesInv, PriceTypes, PricesOnRecord
<1>5. ASSUME NEW row \in EntryRow, entry' = [entry EXCEPT ![e] = row],
             priceLog' \in [Entries -> [all : SUBSET Prices, newest : SUBSET Prices]],
             \A f \in Entries : priceLog[f].all \subseteq priceLog'[f].all,
             row.price \in priceLog'[e].all
      PROVE  PricesInv'
  <2>1. entry' \in [Entries -> EntryRow \cup {Nothing}] /\ entry'[e] = row
        /\ \A f \in Entries \ {e} : entry'[f] = entry[f]
    BY <1>2, <1>5 DEF PricesInv, PriceTypes
  <2>2. \A f \in Entries : HasEntry(f) => HasEntry(f)'
    BY <2>1, <1>5, NothingIsNoRow DEF HasEntry
  <2>3. \A f \in Entries : HasEntry(f)' => entry'[f].price \in priceLog'[f].all
    BY <2>1, <1>5 DEF HasEntry, PricesInv, PricesOnRecord
  <2>. QED BY <1>3, <1>5, <2>1, <2>2, <2>3, RecordGrows
<1>6. CASE UpdateEntry(r)
  <2>1. PICK row \in EntryRow :
          IF row.active /\ Duplicated(e, row.period) THEN UNCHANGED <<entry, priceLog>>
          ELSE /\ entry' = [entry EXCEPT ![e] = row]
               /\ priceLog' = IF PriceChanged(seen, row) THEN Recorded(e, row.price) ELSE priceLog
    BY <1>6 DEF UpdateEntry, e, seen
  <2>2. CASE UNCHANGED <<entry, priceLog>>
    BY <2>2, <1>4
  <2>3. CASE entry' = [entry EXCEPT ![e] = row] /\ PriceChanged(seen, row)
             /\ priceLog' = Recorded(e, row.price)
    <3>1. row.price \in Prices
      BY DEF EntryRow
    <3>. QED BY <1>2, <1>5, <2>3, <3>1, RecordedKeeps DEF PricesInv
  <2>4. CASE entry' = [entry EXCEPT ![e] = row] /\ ~PriceChanged(seen, row) /\ priceLog' = priceLog
    <3>1. row.price \in priceLog'[e].all
      BY <1>1, <2>4 DEF PriceChanged
    <3>. QED BY <1>5, <2>4, <3>1 DEF PricesInv, PriceTypes
  <2>. QED BY <2>1, <2>2, <2>3, <2>4
<1>7. CASE SetArchived(r)
  <2>. DEFINE archived == entryEdit[r].op = "archive"
              row == [entry[e] EXCEPT !.deleted = archived, !.active = ~archived /\ seen.active]
  <2>1. (UNCHANGED entry \/ entry' = [entry EXCEPT ![e] = row]) /\ UNCHANGED priceLog
    BY <1>7 DEF SetArchived, e, seen
  <2>2. row \in EntryRow /\ row.price = entry[e].price
    BY <1>2 DEF EntryRow
  <2>3. row.price \in priceLog'[e].all
    BY <1>1, <1>2, <2>1, <2>2 DEF PricesInv, PricesOnRecord
  <2>. HIDE DEF row
  <2>. QED BY <1>4, <1>5, <2>1, <2>2, <2>3 DEF PricesInv, PriceTypes
<1>. QED BY <1>6, <1>7 DEF WriteEntry

LEMMA PricesStep == PricesInv /\ [PriceBooksNext]_priceBooksVars => PricesInv'
<1>. SUFFICES ASSUME PricesInv, [PriceBooksNext]_priceBooksVars PROVE PricesInv'
  OBVIOUS
<1>1. ASSUME UNCHANGED entryVars PROVE PricesInv'
  BY <1>1 DEF entryVars, PricesInv, PriceTypes, PricesOnRecord, ChargedOnRecord, HasEntry
<1>2. ASSUME NEW e \in Entries, NEW row \in EntryRow, CreateEntry(e, row) PROVE PricesInv'
  <2>1. /\ ~HasEntry(e) /\ entry' = [entry EXCEPT ![e] = row]
        /\ priceLog' = Recorded(e, row.price)
        /\ UNCHANGED <<entryEdit, quote, charged>>
    BY <1>2 DEF CreateEntry
  <2>2. row.price \in Prices
    BY DEF EntryRow
  <2>3. /\ entry' \in [Entries -> EntryRow \cup {Nothing}] /\ entry'[e] = row
        /\ \A f \in Entries \ {e} : entry'[f] = entry[f]
    BY <2>1 DEF PricesInv, PriceTypes
  <2>4. /\ priceLog' \in [Entries -> [all : SUBSET Prices, newest : SUBSET Prices]]
        /\ row.price \in priceLog'[e].all
        /\ \A f \in Entries : priceLog[f].all \subseteq priceLog'[f].all
    BY <2>1, <2>2, RecordedKeeps DEF PricesInv
  <2>5. \A f \in Entries : HasEntry(f) => HasEntry(f)'
    BY <2>1, <2>3 DEF HasEntry
  <2>6. \A f \in Entries : HasEntry(f)' => entry'[f].price \in priceLog'[f].all
    BY <2>3, <2>4 DEF HasEntry, PricesInv, PricesOnRecord
  <2>. QED BY <2>1, <2>3, <2>4, <2>5, <2>6, RecordGrows DEF PricesInv, PriceTypes
<1>3. ASSUME NEW r \in EntryEditors, NEW e \in Entries,
             NEW op \in {"update", "archive", "restore"}, ReadEntry(r, e, op)
      PROVE  PricesInv'
  <2>1. /\ HasEntry(e)
        /\ entryEdit' = [entryEdit EXCEPT ![r] = [op |-> op, entry |-> e, seen |-> entry[e]]]
        /\ UNCHANGED <<entry, priceLog, quote, charged>>
    BY <1>3 DEF ReadEntry
  <2>2. entry[e] \in EntryRow /\ entry[e].price \in priceLog[e].all
    BY <2>1 DEF HasEntry, PricesInv, PriceTypes, PricesOnRecord
  <2>3. [op |-> op, entry |-> e, seen |-> entry[e]] \in EntryEditRow
    BY <2>2 DEF EntryEditRow
  <2>4. PriceTypes'
    BY <2>1, <2>3 DEF PricesInv, PriceTypes
  <2>5. ASSUME NEW q \in EntryEditors, entryEdit'[q] # Nothing
        PROVE  /\ HasEntry(entryEdit'[q].entry)
               /\ entryEdit'[q].seen.price \in priceLog[entryEdit'[q].entry].all
    <3>1. CASE q = r
      <4>1. entryEdit'[q] = [op |-> op, entry |-> e, seen |-> entry[e]]
        BY <3>1, <2>1 DEF PricesInv, PriceTypes
      <4>. QED BY <4>1, <2>1, <2>2
    <3>2. CASE q # r
      <4>1. entryEdit'[q] = entryEdit[q]
        BY <3>2, <2>1 DEF PricesInv, PriceTypes
      <4>. QED BY <4>1, <2>5 DEF PricesInv, PricesOnRecord
    <3>. QED BY <3>1, <3>2
  <2>6. PricesOnRecord'
    BY <2>1, <2>5 DEF PricesInv, PricesOnRecord, HasEntry
  <2>. QED BY <2>1, <2>4, <2>6 DEF PricesInv, ChargedOnRecord
<1>4. ASSUME NEW c \in Sellers, NEW buyer \in Buyers, NEW at \in Instants, Quote(c, buyer, at)
      PROVE  PricesInv'
  <2>1. PICK e \in Resolved(buyer, at) :
          quote' = [quote EXCEPT ![c] = [entry |-> e, price |-> entry[e].price, at |-> at]]
    BY <1>4 DEF Quote, Offers
  <2>2. UNCHANGED <<entry, entryEdit, priceLog, charged>>
    BY <1>4 DEF Quote
  <2>3. e \in Entries /\ HasEntry(e)
    BY <2>1 DEF Resolved, Candidates, Offered
  <2>4. entry[e].price \in Prices
    BY <2>3 DEF HasEntry, PricesInv, PriceTypes, EntryRow
  <2>5. [entry |-> e, price |-> entry[e].price, at |-> at] \in QuoteRow
    BY <2>3, <2>4 DEF QuoteRow
  <2>6. PriceTypes'
    BY <2>1, <2>2, <2>5 DEF PricesInv, PriceTypes
  <2>. QED BY <2>2, <2>6 DEF PricesInv, PricesOnRecord, ChargedOnRecord, HasEntry
<1>5. ASSUME NEW c \in Sellers, Sell(c) PROVE PricesInv'
  <2>1. /\ quote[c] # Nothing
        /\ quote' = [quote EXCEPT ![c] = Nothing]
        /\ UNCHANGED <<entry, entryEdit, priceLog>>
    BY <1>5 DEF Sell
  <2>2. quote[c] \in QuoteRow
    BY <2>1 DEF PricesInv, PriceTypes
  <2>3. PricesOnRecord' /\ quote' \in [Sellers -> QuoteRow \cup {Nothing}]
    BY <2>1 DEF PricesInv, PriceTypes, PricesOnRecord, HasEntry
  <2>4. CASE Honoured(quote[c])
    <3>. DEFINE row == [entry |-> quote[c].entry, price |-> quote[c].price]
    <3>1. row.entry \in Entries /\ row.price \in priceLog[row.entry].all /\ row \in ChargeRow
      BY <2>2, <2>4 DEF QuoteRow, ChargeRow, Honoured, Offered, PricesInv, PricesOnRecord
    <3>2. charged' = [charged EXCEPT ![c] = row]
      BY <1>5, <2>4 DEF Sell, Item
    <3>. HIDE DEF row
    <3>3. PriceTypes'
      BY <2>1, <2>3, <3>1, <3>2 DEF PricesInv, PriceTypes
    <3>4. ChargedOnRecord'
      BY <2>1, <3>1, <3>2 DEF PricesInv, PriceTypes, ChargedOnRecord
    <3>. QED BY <2>3, <3>3, <3>4 DEF PricesInv
  <2>5. CASE ~Honoured(quote[c])
    <3>1. charged' = charged
      BY <1>5, <2>5 DEF Sell, Item
    <3>. QED BY <2>1, <2>3, <3>1 DEF PricesInv, PriceTypes, ChargedOnRecord
  <2>. QED BY <2>4, <2>5
<1>6. CASE UNCHANGED priceBooksVars
  BY <1>1, <1>6 DEF priceBooksVars, entryVars
<1>. QED BY <1>1, <1>2, <1>3, <1>4, <1>5, <1>6, WriteKeepsPrices DEF PriceBooksNext, EntriesNext

\* Whatever was charged for an entry is on its record, for any number of
\* requests that write back what they read (update of price-book-entries and
\* resolveForSale).
THEOREM ChargesAreOnRecord == PriceBooksSpec => []ChargedOnRecord
<1>1. PricesInv => ChargedOnRecord
  BY DEF PricesInv
<1>. QED BY <1>1, PricesStart, PricesStep, PTL DEF PriceBooksSpec

----------------------------------------------------------------------------
(* Inline creations of a category.                                         *)

CategoryRow == [slug : Slugs, active : BOOLEAN, deleted : BOOLEAN]
QuickRow == [slug : Slugs, active : BOOLEAN, found : Categories \cup {NoCategory}, lost : BOOLEAN]

\* The partial unique index on the slugs of live categories.
LiveSlugsDiffer(rows) ==
  \A c, d \in Categories : (c # d /\ Live(rows[c]) /\ Live(rows[d])) => rows[c].slug # rows[d].slug

\* A category that an inline creation has found is still there: rows are never taken away.
QuickInv ==
  /\ category \in [Categories -> CategoryRow \cup {Absent}]
  /\ quick \in [QuickRequests -> QuickRow \cup {Absent}]
  /\ answered \in [QuickRequests -> Categories \cup {NoCategory}]
  /\ LiveSlugsDiffer(category)
  /\ \A r \in QuickRequests : (quick[r] # Absent /\ quick[r].found # NoCategory)
                                => category[quick[r].found] # Absent

LEMMA AbsentIsNoRow == Absent \notin CategoryRow /\ Absent \notin QuickRow
<1>1. \A x \in CategoryRow : DOMAIN x = {"slug", "active", "deleted"}
  BY DEF CategoryRow
<1>2. \A x \in QuickRow : DOMAIN x = {"slug", "active", "found", "lost"}
  BY DEF QuickRow
<1>3. DOMAIN Absent = {"there"}
  BY DEF Absent
<1>4. "there" \notin {"slug", "active", "deleted"} /\ "there" \notin {"slug", "active", "found", "lost"}
  OBVIOUS
<1> QED BY <1>1, <1>2, <1>3, <1>4

\* What the index lets through.
LEMMA StoredCategory ==
  ASSUME QuickInv, NEW c \in Categories, NEW row \in CategoryRow, StoreCategory(c, row)
  PROVE  /\ category' \in [Categories -> CategoryRow \cup {Absent}]
         /\ category'[c] = row
         /\ \A d \in Categories : category[d] # Absent => category'[d] # Absent
         /\ LiveSlugsDiffer(category')
         /\ \A d \in Categories \ {c} : Live(row) /\ Live(category'[d]) => category'[d].slug # row.slug
<1>1. /\ category' = [category EXCEPT ![c] = row]
      /\ \A d \in Categories \ {c} : (Live(category'[c]) /\ Live(category'[d]))
                                       => category'[c].slug # category'[d].slug
  BY DEF StoreCategory, SlugFree
<1>2. /\ category' \in [Categories -> CategoryRow \cup {Absent}]
      /\ category'[c] = row
      /\ \A d \in Categories \ {c} : category'[d] = category[d]
  BY <1>1 DEF QuickInv
<1>3. \A d \in Categories : category[d] # Absent => category'[d] # Absent
  BY <1>2, AbsentIsNoRow
<1>4. LiveSlugsDiffer(category')
  <2> SUFFICES ASSUME NEW d \in Categories, NEW e \in Categories, d # e,
                      Live(category'[d]), Live(category'[e])
               PROVE  category'[d].slug # category'[e].slug
    BY DEF LiveSlugsDiffer
  <2>1. CASE d = c BY <1>1, <2>1
  <2>2. CASE e = c BY <1>1, <2>2
  <2>3. CASE d # c /\ e # c
    BY <1>2, <2>3 DEF QuickInv, LiveSlugsDiffer
  <2> QED BY <2>1, <2>2, <2>3
<1> QED BY <1>1, <1>2, <1>3, <1>4

\* An edit, an archival or a restoration of a category.
LEMMA StoringKeeps ==
  ASSUME QuickInv, NEW c \in Categories, NEW row \in CategoryRow, StoreCategory(c, row),
         UNCHANGED <<quick, answered>>
  PROVE  QuickInv'
<1>1. /\ category' \in [Categories -> CategoryRow \cup {Absent}]
      /\ \A d \in Categories : category[d] # Absent => category'[d] # Absent
      /\ LiveSlugsDiffer(category')
  BY StoredCategory
<1>2. \A r \in QuickRequests : (quick[r] # Absent /\ quick[r].found # NoCategory)
                                => quick[r].found \in Categories
  BY AbsentIsNoRow DEF QuickInv, QuickRow
<1> QED BY <1>1, <1>2 DEF QuickInv, LiveSlugsDiffer

LEMMA FoundHasSlug ==
  ASSUME NEW slug, NEW c \in FoundBySlug(slug), c # NoCategory
  PROVE  c \in Categories /\ category[c] # Absent /\ category[c].slug = slug
BY DEF FoundBySlug

\* What an inline creation writes: a live row, or a new one asked for switched off.
LEMMA QuickWrites ==
  ASSUME QuickInv, NEW r \in QuickRequests, quick[r] # Absent, NEW w \in QuickRows(r)
  PROVE  /\ w[1] \in Categories /\ w[2] \in CategoryRow
         /\ \/ Live(w[2])
            \/ ~quick[r].active /\ category[w[1]] = Absent /\ w[2] = NewCategory(quick[r].slug, FALSE)
<1>1. quick[r] \in QuickRow
  BY DEF QuickInv
<1>2. /\ quick[r].slug \in Slugs /\ quick[r].found \in Categories \cup {NoCategory}
      /\ quick[r].active \in BOOLEAN
  BY <1>1 DEF QuickRow
<1>3. CASE quick[r].found # NoCategory
  <2> DEFINE old == category[quick[r].found]
  <2>1. old \in CategoryRow
    BY <1>2, <1>3 DEF QuickInv
  <2>2. w = <<quick[r].found, [old EXCEPT !.active = TRUE, !.deleted = FALSE]>>
    BY <1>3 DEF QuickRows
  <2> HIDE DEF old
  <2>3. w[2] \in CategoryRow /\ w[2].active = TRUE /\ w[2].deleted = FALSE
    BY <2>1, <2>2 DEF CategoryRow
  <2> QED BY <1>2, <1>3, <2>2, <2>3, AbsentIsNoRow DEF Live
<1>4. CASE quick[r].found = NoCategory
  <2>1. PICK c \in Categories : category[c] = Absent /\ w = <<c, NewCategory(quick[r].slug, quick[r].active)>>
    BY <1>4 DEF QuickRows
  <2>2. w[2] \in CategoryRow /\ w[2].active = quick[r].active /\ w[2].deleted = FALSE
    BY <1>2, <2>1 DEF CategoryRow, NewCategory
  <2>3. CASE quick[r].active = TRUE
    BY <2>1, <2>2, <2>3, AbsentIsNoRow DEF Live
  <2>4. CASE quick[r].active = FALSE
    BY <2>1, <2>2, <2>4
  <2> QED BY <1>2, <2>3, <2>4
<1> QED BY <1>3, <1>4

\* The answer that an inline creation ends with: live, and alone with its slug, or
\* what it inserted switched off.
LiveAndAlone(c) ==
  /\ Live(category'[c])
  /\ \A d \in Categories \ {c} : Live(category'[d]) => category'[d].slug # category'[c].slug

InsertedOff(r, c) ==
  /\ quick[r] # Absent /\ ~quick[r].active
  /\ category[c] = Absent /\ category'[c] = NewCategory(quick[r].slug, FALSE)

EndsWithLiveOne(r) == LiveAndAlone(answered'[r]) \/ InsertedOff(r, answered'[r])

LEMMA ReadQuickKeeps ==
  ASSUME QuickInv, NEW r \in QuickRequests, NEW slug \in Slugs, NEW active \in BOOLEAN,
         ReadQuick(r, slug, active)
  PROVE  /\ QuickInv'
         /\ \A q \in QuickRequests : (answered'[q] # answered[q] /\ answered'[q] # NoCategory)
                                       => EndsWithLiveOne(q)
<1> DEFINE New(c) == [slug |-> slug, active |-> active, found |-> c, lost |-> FALSE]
<1>1. PICK c \in FoundBySlug(slug) :
        IF c # NoCategory /\ Live(category[c])
        THEN answered' = [answered EXCEPT ![r] = c] /\ UNCHANGED quick
        ELSE /\ quick' = [quick EXCEPT ![r] = New(c)]
             /\ answered' = [answered EXCEPT ![r] = NoCategory]
  BY DEF ReadQuick
<1>2. category' = category
  BY DEF ReadQuick
<1>3. c # NoCategory => c \in Categories /\ category[c] # Absent
  BY FoundHasSlug
<1>4. CASE c # NoCategory /\ Live(category[c])
  <2>1. answered' = [answered EXCEPT ![r] = c] /\ quick' = quick
    BY <1>1, <1>4
  <2>2. QuickInv'
    BY <1>2, <1>3, <1>4, <2>1 DEF QuickInv
  <2>3. ASSUME NEW q \in QuickRequests, answered'[q] # answered[q]
        PROVE  EndsWithLiveOne(q)
    <3>1. answered'[q] = c
      BY <2>1, <2>3 DEF QuickInv
    <3> QED BY <1>2, <1>3, <1>4, <3>1 DEF EndsWithLiveOne, LiveAndAlone, QuickInv, LiveSlugsDiffer
  <2> QED BY <2>2, <2>3
<1>5. CASE ~(c # NoCategory /\ Live(category[c]))
  <2> DEFINE new == New(c)
  <2>1. quick' = [quick EXCEPT ![r] = new] /\ answered' = [answered EXCEPT ![r] = NoCategory]
    BY <1>1, <1>5
  <2>2. new \in QuickRow /\ new.found = c
    BY <1>3 DEF QuickRow
  <2> HIDE DEF new
  <2>3. QuickInv'
    BY <1>2, <1>3, <2>1, <2>2 DEF QuickInv
  <2>4. \A q \in QuickRequests : answered'[q] = answered[q] \/ answered'[q] = NoCategory
    BY <2>1 DEF QuickInv
  <2> QED BY <2>3, <2>4
<1> QED BY <1>4, <1>5

\* A request that ends, with the category c.
LEMMA QuickEnds ==
  ASSUME QuickInv, NEW r \in QuickRequests, quick' = [quick EXCEPT ![r] = Absent],
         NEW c \in Categories, answered' = [answered EXCEPT ![r] = c],
         category' \in [Categories -> CategoryRow \cup {Absent}], LiveSlugsDiffer(category'),
         \A d \in Categories : category[d] # Absent => category'[d] # Absent,
         Live(category'[c]) \/ InsertedOff(r, c)
  PROVE  /\ QuickInv'
         /\ \A q \in QuickRequests : (answered'[q] # answered[q] /\ answered'[q] # NoCategory)
                                       => EndsWithLiveOne(q)
<1>1. /\ quick' \in [QuickRequests -> QuickRow \cup {Absent}]
      /\ answered' \in [QuickRequests -> Categories \cup {NoCategory}]
  BY DEF QuickInv
<1>2. ASSUME NEW q \in QuickRequests, quick'[q] # Absent, quick'[q].found # NoCategory
      PROVE  category'[quick'[q].found] # Absent
  <2>1. quick'[q] = quick[q]
    BY <1>2 DEF QuickInv
  <2>2. quick[q].found \in Categories
    BY <1>2, <2>1 DEF QuickInv, QuickRow
  <2> QED BY <1>2, <2>1, <2>2 DEF QuickInv
<1>3. ASSUME NEW q \in QuickRequests, answered'[q] # answered[q]
      PROVE  EndsWithLiveOne(q)
  <2>1. q = r /\ answered'[q] = c
    BY <1>3 DEF QuickInv
  <2> QED BY <2>1 DEF EndsWithLiveOne, LiveAndAlone, LiveSlugsDiffer
<1> QED BY <1>1, <1>2, <1>3 DEF QuickInv, LiveSlugsDiffer

LEMMA WriteQuickKeeps ==
  ASSUME QuickInv, NEW r \in QuickRequests, WriteQuick(r)
  PROVE  /\ QuickInv'
         /\ \A q \in QuickRequests : (answered'[q] # answered[q] /\ answered'[q] # NoCategory)
                                       => EndsWithLiveOne(q)
<1>1. PICK w \in QuickRows(r) : StoreCategory(w[1], w[2]) /\ answered' = [answered EXCEPT ![r] = w[1]]
  BY DEF WriteQuick
<1>2. quick[r] # Absent /\ quick' = [quick EXCEPT ![r] = Absent]
  BY DEF WriteQuick
<1>3. /\ w[1] \in Categories /\ w[2] \in CategoryRow
      /\ \/ Live(w[2])
         \/ ~quick[r].active /\ category[w[1]] = Absent /\ w[2] = NewCategory(quick[r].slug, FALSE)
  BY <1>2, QuickWrites
<1>4. /\ category' \in [Categories -> CategoryRow \cup {Absent}]
      /\ category'[w[1]] = w[2]
      /\ \A d \in Categories : category[d] # Absent => category'[d] # Absent
      /\ LiveSlugsDiffer(category')
  BY <1>1, <1>3, StoredCategory
<1>5. Live(category'[w[1]]) \/ InsertedOff(r, w[1])
  BY <1>2, <1>3, <1>4 DEF InsertedOff
<1> QED BY <1>1, <1>2, <1>3, <1>4, <1>5, QuickEnds

LEMMA LoseQuickKeeps ==
  ASSUME QuickInv, NEW r \in QuickRequests, LoseQuick(r)
  PROVE  QuickInv' /\ answered' = answered
<1> DEFINE new == [quick[r] EXCEPT !.lost = TRUE]
<1>1. quick[r] \in QuickRow
  BY DEF LoseQuick, QuickInv
<1>2. quick' = [quick EXCEPT ![r] = new] /\ UNCHANGED <<category, answered>>
  BY DEF LoseQuick, QuickInv
<1>3. new \in QuickRow /\ new.found = quick[r].found
  BY <1>1 DEF QuickRow
<1>4. quick[r] # Absent
  BY DEF LoseQuick
<1> HIDE DEF new
<1> QED BY <1>2, <1>3, <1>4 DEF QuickInv, LiveSlugsDiffer

LEMMA RereadQuickKeeps ==
  ASSUME QuickInv, NEW r \in QuickRequests, RereadQuick(r)
  PROVE  /\ QuickInv'
         /\ \A q \in QuickRequests : (answered'[q] # answered[q] /\ answered'[q] # NoCategory)
                                       => EndsWithLiveOne(q)
<1>1. quick' = [quick EXCEPT ![r] = Absent] /\ category' = category
  BY DEF RereadQuick
<1>2. ASSUME NEW c \in Categories, Live(category[c]), answered' = [answered EXCEPT ![r] = c]
      PROVE  /\ QuickInv'
             /\ \A q \in QuickRequests : (answered'[q] # answered[q] /\ answered'[q] # NoCategory)
                                           => EndsWithLiveOne(q)
  <2>1. /\ category' \in [Categories -> CategoryRow \cup {Absent}] /\ LiveSlugsDiffer(category')
        /\ \A d \in Categories : category[d] # Absent => category'[d] # Absent
    BY <1>1 DEF QuickInv
  <2> QED BY <1>1, <1>2, <2>1, QuickEnds
<1>3. CASE UNCHANGED answered
  <2>1. quick' \in [QuickRequests -> QuickRow \cup {Absent}]
    BY <1>1 DEF QuickInv
  <2>2. \A q \in QuickRequests : quick'[q] # Absent => quick'[q] = quick[q]
    BY <1>1 DEF QuickInv
  <2> QED BY <1>1, <1>3, <2>1, <2>2 DEF QuickInv, LiveSlugsDiffer
<1> QED BY <1>2, <1>3 DEF RereadQuick

LEMMA QuickStep ==
  ASSUME QuickInv, [CatalogItemsNext]_catalogItemsVars
  PROVE  /\ QuickInv'
         /\ \A q \in QuickRequests : (answered'[q] # answered[q] /\ answered'[q] # NoCategory)
                                       => EndsWithLiveOne(q)
<1>1. CASE UNCHANGED categoryVars
  BY <1>1 DEF categoryVars, QuickInv, LiveSlugsDiffer
<1>2. ASSUME NEW c \in Categories, NEW slug \in Slugs, NEW active \in BOOLEAN,
             CreateCategory(c, slug, active)
      PROVE  QuickInv' /\ answered' = answered
  <2>1. NewCategory(slug, active) \in CategoryRow
    BY DEF NewCategory, CategoryRow
  <2> QED BY <1>2, <2>1, StoringKeeps DEF CreateCategory
<1>3. ASSUME NEW c \in Categories, category[c] # Absent, NEW slug \in Slugs, NEW active \in BOOLEAN
      PROVE  /\ [category[c] EXCEPT !.slug = slug, !.active = active] \in CategoryRow
             /\ [category[c] EXCEPT !.deleted = TRUE, !.active = FALSE] \in CategoryRow
             /\ [category[c] EXCEPT !.deleted = FALSE] \in CategoryRow
  <2>1. category[c] \in CategoryRow
    BY <1>3 DEF QuickInv
  <2> QED BY <2>1 DEF CategoryRow
<1>4. ASSUME NEW c \in Categories, NEW slug \in Slugs, NEW active \in BOOLEAN,
             UpdateCategory(c, slug, active)
      PROVE  QuickInv' /\ answered' = answered
  BY <1>3, <1>4, StoringKeeps DEF UpdateCategory
<1>5. ASSUME NEW c \in Categories, ArchiveCategory(c) \/ RestoreCategory(c)
      PROVE  QuickInv' /\ answered' = answered
  <2>1. /\ category[c] # Absent /\ UNCHANGED <<quick, answered>>
        /\ \/ StoreCategory(c, [category[c] EXCEPT !.deleted = TRUE, !.active = FALSE])
           \/ StoreCategory(c, [category[c] EXCEPT !.deleted = FALSE])
    BY <1>5 DEF ArchiveCategory, RestoreCategory
  <2>2. \A row \in CategoryRow : StoreCategory(c, row) => QuickInv'
    BY <2>1, StoringKeeps
  <2>3. category[c] \in CategoryRow
    BY <2>1 DEF QuickInv
  <2>4. /\ [category[c] EXCEPT !.deleted = TRUE, !.active = FALSE] \in CategoryRow
        /\ [category[c] EXCEPT !.deleted = FALSE] \in CategoryRow
    BY <2>3 DEF CategoryRow
  <2> QED BY <2>1, <2>2, <2>4
<1>6. CASE CategoriesNext
  BY <1>2, <1>4, <1>5, <1>6, ReadQuickKeeps, WriteQuickKeeps, LoseQuickKeeps,
     RereadQuickKeeps DEF CategoriesNext
<1> QED BY <1>1, <1>6 DEF CatalogItemsNext, catalogItemsVars, categoryVars

\* An inline creation ends with a live category, the only one of its slug, or with
\* the one it inserted switched off as asked, however many race with each other and
\* with edits, archivals and restorations (createQuick).
THEOREM QuickCreationsEnd == CatalogItemsSpec => QuickEndsWithLiveOne
<1>1. CatalogItemsInit => QuickInv
  BY DEF CatalogItemsInit, QuickInv, LiveSlugsDiffer, Live
<1>2. QuickInv /\ [CatalogItemsNext]_catalogItemsVars => QuickInv'
  BY QuickStep
<1>3. QuickInv /\ [CatalogItemsNext]_catalogItemsVars =>
        [\A r \in QuickRequests : (answered'[r] # answered[r] /\ answered'[r] # NoCategory) =>
           LET c == answered'[r]
           IN \/ /\ Live(category'[c])
                 /\ \A d \in Categories \ {c} : Live(category'[d]) => category'[d].slug # category'[c].slug
              \/ /\ quick[r] # Absent /\ ~quick[r].active
                 /\ category[c] = Absent /\ category'[c] = NewCategory(quick[r].slug, FALSE)
        ]_catalogItemsVars
  BY QuickStep DEF EndsWithLiveOne, LiveAndAlone, InsertedOff
<1> QED BY <1>1, <1>2, <1>3, PTL DEF CatalogItemsSpec, QuickEndsWithLiveOne

----------------------------------------------------------------------------
(* Phones of contacts.                                                     *)

PhoneOrNone == Phones \cup {NoPhone}
UserOrNone == Users \cup {NoUser}
CreateEdit == [op : {"create", "import"}, phone : PhoneOrNone]
ContactEdit == [op : ContactOp, contact : Contacts, phone : PhoneOrNone, user : UserOrNone,
                before : UserOrNone]
TagEdit == [op : {"createTag", "updateTag", "restoreTag"}, tag : Tags, name : TagNames]
LeadRow == [phone : PhoneOrNone, found : Contacts \cup {NoContact}, user : UserOrNone,
            lacks : SUBSET {"origin", "prospect"}, looked : BOOLEAN]

\* The rows that are there stay; the ones that requests and leads hold are there; and the
\* partial unique index holds.
PhonesInv ==
  /\ contact \in [Contacts -> ContactRow \cup {Missing}]
  /\ edit \in [Editors -> {Missing} \cup CreateEdit \cup ContactEdit \cup TagEdit]
  /\ lead \in [Leads -> {Missing} \cup LeadRow]
  /\ \A r \in Editors : edit[r] \in ContactEdit => HasContact(edit[r].contact)
  /\ \A l \in Leads : lead[l] # Missing /\ lead[l].found # NoContact => HasContact(lead[l].found)
  /\ IndexOfPhones(contact)

LEMMA MissingIsNoRow == Missing \notin ContactRow /\ Missing \notin LeadRow
<1>1. \A x \in ContactRow : DOMAIN x = {"phone", "user", "archived", "deleted"}
  BY DEF ContactRow
<1>2. \A x \in LeadRow : DOMAIN x = {"phone", "found", "user", "lacks", "looked"}
  BY DEF LeadRow
<1>3. DOMAIN Missing = {"op"}
  BY DEF Missing
<1> QED BY <1>1, <1>2, <1>3

LEMMA EditsDiffer ==
  /\ Missing.op = "none"
  /\ \A x \in CreateEdit : x.op \in {"create", "import"} /\ x.phone \in PhoneOrNone
  /\ \A x \in ContactEdit : /\ x.op \in ContactOp /\ x.contact \in Contacts
                            /\ x.phone \in PhoneOrNone /\ x.user \in UserOrNone
  /\ \A x \in TagEdit : x.op \in {"createTag", "updateTag", "restoreTag"}
BY DEF Missing, CreateEdit, ContactEdit, TagEdit

\* The contacts a step leaves.
ContactsFit ==
  /\ contact' \in [Contacts -> ContactRow \cup {Missing}]
  /\ \A c \in Contacts : HasContact(c) => contact'[c] # Missing
  /\ IndexOfPhones(contact')

LEMMA SameContactsFit == PhonesInv /\ contact' = contact => ContactsFit
BY DEF PhonesInv, ContactsFit, HasContact, IndexOfPhones

\* What the index refuses is not stored.
LEMMA StoredFit ==
  ASSUME PhonesInv, NEW c \in Contacts, NEW row \in ContactRow, StoreContact(c, row)
  PROVE  ContactsFit
<1> DEFINE stored == [contact EXCEPT ![c] = row]
<1>1. contact' = contact \/ (contact' = stored /\ IndexOfPhones(stored))
  BY DEF StoreContact
<1>2. stored \in [Contacts -> ContactRow \cup {Missing}]
  BY DEF PhonesInv
<1>3. \A d \in Contacts : HasContact(d) => stored[d] # Missing
  BY MissingIsNoRow DEF PhonesInv, HasContact
<1> HIDE DEF stored
<1> QED BY <1>1, <1>2, <1>3, SameContactsFit DEF ContactsFit

\* A change that gives nobody a phone, or takes one away.
LEMMA NoNewPhoneFits ==
  ASSUME PhonesInv, NEW c \in Contacts, HasContact(c), NEW row \in ContactRow,
         contact' = [contact EXCEPT ![c] = row],
         row.phone = contact[c].phone, contact[c].deleted => row.deleted
  PROVE  ContactsFit
<1>1. /\ contact' \in [Contacts -> ContactRow \cup {Missing}]
      /\ contact'[c] = row /\ \A d \in Contacts \ {c} : contact'[d] = contact[d]
  BY DEF PhonesInv
<1>2. \A d \in Contacts : HasContact(d) => contact'[d] # Missing
  BY <1>1, MissingIsNoRow DEF HasContact
<1>3. IndexOfPhones(contact')
  <2> SUFFICES ASSUME NEW d \in Contacts, NEW e \in Contacts, d # e,
                      contact'[d] # Missing, contact'[e] # Missing
               PROVE  \/ contact'[d].deleted \/ contact'[e].deleted
                      \/ contact'[d].phone = NoPhone \/ contact'[d].phone # contact'[e].phone
    BY DEF IndexOfPhones
  <2>1. \/ contact[d].deleted \/ contact[e].deleted
        \/ contact[d].phone = NoPhone \/ contact[d].phone # contact[e].phone
    <3>1. contact[d] # Missing /\ contact[e] # Missing
      BY <1>1 DEF HasContact
    <3> QED BY <3>1 DEF PhonesInv, IndexOfPhones
  <2>2. CASE d = c BY <1>1, <2>1, <2>2
  <2>3. CASE e = c BY <1>1, <2>1, <2>3
  <2>4. CASE d # c /\ e # c BY <1>1, <2>1, <2>4
  <2> QED BY <2>2, <2>3, <2>4
<1> QED BY <1>1, <1>2, <1>3 DEF ContactsFit

\* Steps of one request, or of one lead.
LEMMA EditKeeps ==
  ASSUME PhonesInv, ContactsFit, NEW r \in Editors,
         NEW x \in {Missing} \cup CreateEdit \cup ContactEdit \cup TagEdit,
         x \in ContactEdit => HasContact(x.contact),
         edit' = [edit EXCEPT ![r] = x], lead' = lead
  PROVE  PhonesInv'
<1>1. /\ edit' \in [Editors -> {Missing} \cup CreateEdit \cup ContactEdit \cup TagEdit]
      /\ edit'[r] = x /\ \A q \in Editors \ {r} : edit'[q] = edit[q]
  BY DEF PhonesInv
<1>2. \A q \in Editors : edit'[q] \in ContactEdit => contact'[edit'[q].contact] # Missing
  BY <1>1, EditsDiffer DEF PhonesInv, ContactsFit
<1>3. \A l \in Leads : lead'[l] # Missing /\ lead'[l].found # NoContact => contact'[lead'[l].found] # Missing
  BY DEF PhonesInv, ContactsFit, LeadRow
<1>4. lead' \in [Leads -> {Missing} \cup LeadRow]
  BY DEF PhonesInv
<1>5. contact' \in [Contacts -> ContactRow \cup {Missing}] /\ IndexOfPhones(contact)'
  BY DEF ContactsFit, IndexOfPhones
<1> QED BY <1>1, <1>2, <1>3, <1>4, <1>5 DEF PhonesInv, HasContact

LEMMA LeadKeeps ==
  ASSUME PhonesInv, ContactsFit, NEW l \in Leads, NEW x \in {Missing} \cup LeadRow,
         x # Missing /\ x.found # NoContact => HasContact(x.found),
         lead' = [lead EXCEPT ![l] = x], edit' = edit
  PROVE  PhonesInv'
<1>1. /\ lead' \in [Leads -> {Missing} \cup LeadRow]
      /\ lead'[l] = x /\ \A k \in Leads \ {l} : lead'[k] = lead[k]
  BY DEF PhonesInv
<1>2. \A q \in Editors : edit'[q] \in ContactEdit => contact'[edit'[q].contact] # Missing
  BY EditsDiffer DEF PhonesInv, ContactsFit
<1>3. \A y \in LeadRow : y.found # NoContact => y.found \in Contacts
  BY DEF LeadRow
<1>4. \A k \in Leads : lead'[k] # Missing /\ lead'[k].found # NoContact => contact'[lead'[k].found] # Missing
  BY <1>1, <1>3 DEF PhonesInv, ContactsFit
<1>5. edit' \in [Editors -> {Missing} \cup CreateEdit \cup ContactEdit \cup TagEdit]
  BY DEF PhonesInv
<1>6. contact' \in [Contacts -> ContactRow \cup {Missing}] /\ IndexOfPhones(contact)'
  BY DEF ContactsFit, IndexOfPhones
<1> QED BY <1>1, <1>2, <1>4, <1>5, <1>6 DEF PhonesInv, HasContact

LEMMA ContactsOnlyKeeps ==
  ASSUME PhonesInv, ContactsFit, edit' = edit, lead' = lead
  PROVE  PhonesInv'
<1>1. \A q \in Editors : edit'[q] \in ContactEdit => contact'[edit'[q].contact] # Missing
  BY EditsDiffer DEF PhonesInv, ContactsFit
<1>2. \A k \in Leads : lead'[k] # Missing /\ lead'[k].found # NoContact => contact'[lead'[k].found] # Missing
  BY DEF PhonesInv, ContactsFit, LeadRow
<1>3. contact' \in [Contacts -> ContactRow \cup {Missing}] /\ IndexOfPhones(contact)'
  BY DEF ContactsFit, IndexOfPhones
<1> QED BY <1>1, <1>2, <1>3 DEF PhonesInv, HasContact

LEMMA NewContactIsRow ==
  ASSUME NEW phone \in PhoneOrNone, NEW user \in UserOrNone
  PROVE  NewContact(phone, user) \in ContactRow
BY DEF NewContact, ContactRow, PhoneOrNone, UserOrNone

LEMMA InsertFits ==
  ASSUME PhonesInv, NEW r \in Editors, NEW user \in UserOrNone, NEW opens, InsertContact(r, user, opens)
  PROVE  ContactsFit
<1>1. edit[r] \in CreateEdit
  <2>1. edit[r].op \in {"create", "import"} BY DEF InsertContact
  <2> QED BY <2>1, EditsDiffer DEF PhonesInv, ContactOp
<1>2. PICK c \in Contacts : StoreContact(c, NewContact(edit[r].phone, user))
  BY DEF InsertContact
<1> QED BY <1>1, <1>2, EditsDiffer, NewContactIsRow, StoredFit

\* The rows that update, assign, archive and restore write.
LEMMA EditedRow ==
  ASSUME PhonesInv, NEW r \in Editors, edit[r].op \in ContactOp
  PROVE  LET c == edit[r].contact
         IN /\ c \in Contacts /\ HasContact(c)
            /\ [contact[c] EXCEPT !.phone = edit[r].phone] \in ContactRow
            /\ [contact[c] EXCEPT !.archived = FALSE] \in ContactRow
            /\ LET row == [contact[c] EXCEPT !.archived = TRUE]
               IN row \in ContactRow /\ row.phone = contact[c].phone /\ row.deleted = contact[c].deleted
            /\ LET row == [contact[c] EXCEPT !.user = edit[r].user]
               IN row \in ContactRow /\ row.phone = contact[c].phone /\ row.deleted = contact[c].deleted
<1> DEFINE c == edit[r].contact
<1>1. edit[r] \in ContactEdit
  BY EditsDiffer DEF PhonesInv, ContactOp
<1>2. /\ c \in Contacts /\ HasContact(c) /\ edit[r].phone \in PhoneOrNone
      /\ edit[r].user \in UserOrNone
  BY <1>1, EditsDiffer DEF PhonesInv
<1>3. contact[c] \in ContactRow
  BY <1>2 DEF PhonesInv, HasContact
<1> HIDE DEF c
<1>4. /\ [contact[c] EXCEPT !.phone = edit[r].phone] \in ContactRow
      /\ [contact[c] EXCEPT !.archived = FALSE] \in ContactRow
  BY <1>2, <1>3 DEF ContactRow, PhoneOrNone
<1>5. LET row == [contact[c] EXCEPT !.archived = TRUE]
      IN row \in ContactRow /\ row.phone = contact[c].phone /\ row.deleted = contact[c].deleted
  BY <1>3 DEF ContactRow
<1>6. LET row == [contact[c] EXCEPT !.user = edit[r].user]
      IN row \in ContactRow /\ row.phone = contact[c].phone /\ row.deleted = contact[c].deleted
  BY <1>2, <1>3 DEF ContactRow, UserOrNone
<1> QED BY <1>2, <1>4, <1>5, <1>6 DEF c

LEMMA WrittenContactFits ==
  ASSUME PhonesInv, NEW r \in Editors, WriteContact(r)
  PROVE  ContactsFit
<1> DEFINE c == edit[r].contact
<1>1. \/ \E user \in UserOrNone, opens \in BOOLEAN : InsertContact(r, user, opens)
      \/ UpdateContact(r) \/ AssignContact(r) \/ ArchiveContact(r) \/ RestoreContact(r)
  BY Zenon DEF WriteContact, UserOrNone
<1>2. CASE \E user \in UserOrNone, opens \in BOOLEAN : InsertContact(r, user, opens)
  BY <1>2, InsertFits
<1>3. CASE UpdateContact(r)
  BY <1>3, EditedRow, StoredFit DEF UpdateContact, ContactOp
<1>4. CASE RestoreContact(r)
  BY <1>4, EditedRow, StoredFit DEF RestoreContact, ContactOp
<1>5. CASE AssignContact(r)
  <2> DEFINE row == [contact[c] EXCEPT !.user = edit[r].user]
  <2>1. edit[r].op \in ContactOp /\ contact' = [contact EXCEPT ![c].user = edit[r].user]
    BY <1>5 DEF AssignContact, ContactOp
  <2>2. contact' = [contact EXCEPT ![c] = row]
    BY <2>1
  <2>3. /\ c \in Contacts /\ HasContact(c)
        /\ row \in ContactRow /\ row.phone = contact[c].phone /\ row.deleted = contact[c].deleted
    BY <2>1, EditedRow
  <2> HIDE DEF row, c
  <2> QED BY <2>2, <2>3, NoNewPhoneFits
<1>6. CASE ArchiveContact(r)
  <2> DEFINE row == [contact[c] EXCEPT !.archived = TRUE]
  <2>1. edit[r].op \in ContactOp /\ contact' = [contact EXCEPT ![c].archived = TRUE]
    BY <1>6 DEF ArchiveContact, ContactOp
  <2>2. contact' = [contact EXCEPT ![c] = row]
    BY <2>1
  <2>3. /\ c \in Contacts /\ HasContact(c)
        /\ row \in ContactRow /\ row.phone = contact[c].phone /\ row.deleted = contact[c].deleted
    BY <2>1, EditedRow
  <2> HIDE DEF row, c
  <2> QED BY <2>2, <2>3, NoNewPhoneFits
<1> QED BY <1>1, <1>2, <1>3, <1>4, <1>5, <1>6

LEMMA WriteContactKeeps ==
  ASSUME PhonesInv, NEW r \in Editors, WriteContact(r)
  PROVE  PhonesInv'
<1>1. edit' = [edit EXCEPT ![r] = Missing] /\ lead' = lead
  BY DEF WriteContact
<1>2. Missing \notin ContactEdit
  BY EditsDiffer DEF ContactOp
<1> QED BY <1>1, <1>2, WrittenContactFits, EditKeeps

LEMMA BeginCreateKeeps ==
  ASSUME PhonesInv, NEW r \in Editors, NEW op \in {"create", "import"}, NEW phone \in PhoneOrNone,
         BeginCreate(r, op, phone)
  PROVE  PhonesInv'
<1>1. /\ edit' = [edit EXCEPT ![r] = [op |-> op, phone |-> phone]]
      /\ contact' = contact /\ lead' = lead
  BY DEF BeginCreate
<1>2. [op |-> op, phone |-> phone] \in CreateEdit
  BY DEF CreateEdit
<1>3. [op |-> op, phone |-> phone] \notin ContactEdit
  BY EditsDiffer DEF ContactOp
<1> QED BY <1>1, <1>2, <1>3, SameContactsFit, EditKeeps

LEMMA ReadContactKeeps ==
  ASSUME PhonesInv, NEW r \in Editors, NEW c \in Contacts, NEW op \in ContactOp,
         NEW phone \in PhoneOrNone, NEW user \in UserOrNone, ReadContact(r, c, op, phone, user)
  PROVE  PhonesInv'
<1> DEFINE x == [op |-> op, contact |-> c, phone |-> phone, user |-> user, before |-> contact[c].user]
<1>1. edit' = [edit EXCEPT ![r] = x] /\ contact' = contact /\ lead' = lead /\ HasContact(c)
  BY DEF ReadContact, Present
<1>2. contact[c].user \in UserOrNone
  BY <1>1 DEF PhonesInv, HasContact, ContactRow, UserOrNone
<1>3. x \in ContactEdit /\ x.contact = c
  BY <1>2 DEF ContactEdit
<1> HIDE DEF x
<1> QED BY <1>1, <1>3, SameContactsFit, EditKeeps

LEMMA FindContactKeeps ==
  ASSUME PhonesInv, NEW l \in Leads, NEW phone \in PhoneOrNone, NEW user \in UserOrNone,
         FindContact(l, phone, user)
  PROVE  PhonesInv'
<1>1. PICK c \in Reusable(phone) :
        lead' = [lead EXCEPT ![l] = [phone |-> phone, found |-> c,
                   user |-> IF user = NoUser /\ c # NoContact THEN contact[c].user ELSE user,
                   lacks |-> {"origin", "prospect"}, looked |-> c = NoContact]]
  BY DEF FindContact
<1> DEFINE owner == IF user = NoUser /\ c # NoContact THEN contact[c].user ELSE user
           x == [phone |-> phone, found |-> c, user |-> owner,
                 lacks |-> {"origin", "prospect"}, looked |-> c = NoContact]
<1>2. contact' = contact /\ edit' = edit /\ lead' = [lead EXCEPT ![l] = x]
  BY <1>1 DEF FindContact
<1>3. c = NoContact \/ (c \in Contacts /\ HasContact(c))
  BY DEF Reusable, Present
<1>4. owner \in UserOrNone
  BY <1>3 DEF PhonesInv, HasContact, ContactRow, UserOrNone
<1> HIDE DEF owner
<1>5. x \in LeadRow /\ x.found = c
  BY <1>3, <1>4 DEF LeadRow
<1> HIDE DEF x
<1> QED BY <1>2, <1>3, <1>5, SameContactsFit, LeadKeeps

LEMMA FoundLead ==
  ASSUME NEW l \in Leads, NEW phone, NEW user, FindContact(l, phone, user)
  PROVE  \E c, x : /\ lead' = [lead EXCEPT ![l] = x] /\ lead[l] = Missing
                   /\ x.found = c /\ x.lacks = {"origin", "prospect"}
                   /\ (c = NoContact => x.looked) /\ UNCHANGED <<origin, prospect, deal>>
<1>1. PICK c \in Reusable(phone) :
        lead' = [lead EXCEPT ![l] = [phone |-> phone, found |-> c,
                   user |-> IF user = NoUser /\ c # NoContact THEN contact[c].user ELSE user,
                   lacks |-> {"origin", "prospect"}, looked |-> c = NoContact]]
  BY DEF FindContact
<1> DEFINE x == [phone |-> phone, found |-> c,
                 user |-> IF user = NoUser /\ c # NoContact THEN contact[c].user ELSE user,
                 lacks |-> {"origin", "prospect"}, looked |-> c = NoContact]
<1>2. x.found = c /\ x.lacks = {"origin", "prospect"} /\ (c = NoContact => x.looked)
  OBVIOUS
<1>3. lead' = [lead EXCEPT ![l] = x] /\ lead[l] = Missing /\ UNCHANGED <<origin, prospect, deal>>
  BY <1>1 DEF FindContact
<1> HIDE DEF x
<1> QED BY <1>2, <1>3

LEMMA LookAtContactKeeps ==
  ASSUME PhonesInv, NEW l \in Leads, LookAtContact(l)
  PROVE  PhonesInv'
<1> DEFINE c == lead[l].found
           seen == (IF origin[c] = 0 THEN {"origin"} ELSE {})
                     \cup (IF c \notin prospect THEN {"prospect"} ELSE {})
           x == [lead[l] EXCEPT !.looked = TRUE, !.lacks = seen]
<1>1. lead[l] \in LeadRow /\ lead[l] # Missing
  BY DEF LookAtContact, PhonesInv
<1>2. contact' = contact /\ edit' = edit /\ lead' = [lead EXCEPT ![l] = x]
  BY DEF LookAtContact
<1>3. seen \in SUBSET {"origin", "prospect"}
  OBVIOUS
<1> HIDE DEF seen
<1>4. x \in LeadRow /\ x.found = lead[l].found
  BY <1>1, <1>3 DEF LeadRow
<1> HIDE DEF x
<1> QED BY <1>1, <1>2, <1>4, SameContactsFit, LeadKeeps DEF PhonesInv

LEMMA StoreLeadKeeps ==
  ASSUME PhonesInv, NEW l \in Leads, StoreLead(l)
  PROVE  PhonesInv'
<1>1. lead[l] \in LeadRow
  BY DEF StoreLead, PhonesInv
<1>2. edit' = edit /\ lead' = [lead EXCEPT ![l] = Missing]
  BY DEF StoreLead
<1>3. PICK c \in (IF lead[l].found = NoContact THEN {d \in Contacts : ~HasContact(d)}
                  ELSE {lead[l].found}) :
        LET rows == IF lead[l].found = NoContact
                    THEN [contact EXCEPT ![c] = NewContact(lead[l].phone, lead[l].user)] ELSE contact
        IN contact' = contact \/ (contact' = rows /\ IndexOfPhones(rows))
  BY DEF StoreLead
<1>4. CASE contact' = contact
  BY <1>4, SameContactsFit, <1>2, LeadKeeps
<1>5. CASE contact' # contact
  <2>1. /\ c \in Contacts
        /\ contact' = [contact EXCEPT ![c] = NewContact(lead[l].phone, lead[l].user)]
        /\ IndexOfPhones([contact EXCEPT ![c] = NewContact(lead[l].phone, lead[l].user)])
    BY <1>3, <1>5
  <2>2. NewContact(lead[l].phone, lead[l].user) \in ContactRow
    BY <1>1, NewContactIsRow DEF LeadRow
  <2>3. ContactsFit
    BY <2>1, <2>2, StoredFit DEF StoreContact
  <2> QED BY <1>2, <2>3, LeadKeeps
<1> QED BY <1>4, <1>5

LEMMA RemoveContactKeeps ==
  ASSUME PhonesInv, NEW c \in Contacts, RemoveContact(c)
  PROVE  PhonesInv'
<1> DEFINE row == [contact[c] EXCEPT !.deleted = TRUE, !.archived = TRUE]
<1>1. /\ HasContact(c) /\ contact' = [contact EXCEPT ![c] = row]
      /\ edit' = edit /\ lead' = lead
  BY DEF RemoveContact, Present
<1>2. contact[c] \in ContactRow
  BY <1>1 DEF PhonesInv, HasContact
<1>3. row \in ContactRow /\ row.phone = contact[c].phone /\ row.deleted
  BY <1>2 DEF ContactRow
<1> HIDE DEF row
<1> QED BY <1>1, <1>3, NoNewPhoneFits, ContactsOnlyKeeps

LEMMA TagStepKeeps ==
  ASSUME PhonesInv, TagStep
  PROVE  PhonesInv'
<1>1. ASSUME NEW r \in Editors, NEW t \in Tags, NEW name \in TagNames,
             NEW op \in {"createTag", "updateTag", "restoreTag"}, BeginTag(r, t, op, name)
      PROVE  PhonesInv'
  <2>1. /\ edit' = [edit EXCEPT ![r] = [op |-> op, tag |-> t, name |-> name]]
        /\ contact' = contact /\ lead' = lead
    BY <1>1 DEF BeginTag
  <2>2. [op |-> op, tag |-> t, name |-> name] \in TagEdit
    BY DEF TagEdit
  <2>3. [op |-> op, tag |-> t, name |-> name] \notin ContactEdit
    BY EditsDiffer DEF ContactOp
  <2> QED BY <2>1, <2>2, <2>3, SameContactsFit, EditKeeps
<1>2. ASSUME NEW r \in Editors, WriteTag(r)
      PROVE  PhonesInv'
  <2>1. edit' = [edit EXCEPT ![r] = Missing] /\ contact' = contact /\ lead' = lead
    BY <1>2 DEF WriteTag
  <2>2. Missing \notin ContactEdit
    BY EditsDiffer DEF ContactOp
  <2> QED BY <2>1, <2>2, SameContactsFit, EditKeeps
<1>3. ASSUME contact' = contact, edit' = edit, lead' = lead
      PROVE  PhonesInv'
  BY <1>3, SameContactsFit, ContactsOnlyKeeps
<1> QED BY <1>1, <1>2, <1>3 DEF TagStep, ArchiveTag, AddTag, RemoveTag, contactVars

LEMMA PhonesStep ==
  ASSUME PhonesInv, [ContactsNext]_contactsVars
  PROVE  PhonesInv'
<1>1. ASSUME contact' = contact, edit' = edit, lead' = lead
      PROVE  PhonesInv'
  BY <1>1, SameContactsFit, ContactsOnlyKeeps
<1>2. CASE ContactStep
  BY <1>2, BeginCreateKeeps, ReadContactKeeps, WriteContactKeeps DEF ContactStep, PhoneOrNone, UserOrNone
<1>3. CASE LeadStep
  BY <1>1, <1>3, FindContactKeeps, LookAtContactKeeps, StoreLeadKeeps, RemoveContactKeeps
     DEF LeadStep, AttributeContact, SetProspectState, PhoneOrNone, UserOrNone
<1>4. CASE BuyerStep
  BY <1>1, <1>4 DEF BuyerStep, ReadBuyer, StoreSale, DropSale
<1> QED BY <1>1, <1>2, <1>3, <1>4, TagStepKeeps DEF ContactsNext, contactsVars

LEMMA PhonesStart == ContactsInit => PhonesInv
BY DEF ContactsInit, PhonesInv, IndexOfPhones, HasContact, ContactEdit, Missing

\* What a lead saw a contact to have, the contact still has.
SeenStands(l) ==
  IF lead[l].found = NoContact THEN lead[l].looked /\ lead[l].lacks = {"origin", "prospect"}
  ELSE /\ "origin" \notin lead[l].lacks => origin[lead[l].found] = 1
       /\ "prospect" \notin lead[l].lacks => lead[l].found \in prospect

LeadsInv ==
  /\ PhonesInv
  /\ origin \in [Contacts -> {0, 1}] /\ DOMAIN deal = Contacts
  /\ \A l \in Leads : lead[l] # Missing => SeenStands(l)

\* Nobody takes an attribution or a state away.
OriginsStay ==
  /\ origin' \in [Contacts -> {0, 1}] /\ DOMAIN deal' = Contacts
  /\ \A c \in Contacts : origin[c] = 1 => origin'[c] = 1
  /\ prospect \subseteq prospect'

LEMMA SeenKept ==
  ASSUME LeadsInv, PhonesInv', OriginsStay,
         \A l \in Leads : lead'[l] = Missing \/ lead'[l] = lead[l]
  PROVE  LeadsInv'
<1>1. \A l \in Leads : lead[l] # Missing => lead[l].found \in Contacts \cup {NoContact}
  BY DEF LeadsInv, PhonesInv, LeadRow
<1>2. ASSUME NEW l \in Leads, lead'[l] # Missing PROVE SeenStands(l)'
  <2>1. lead'[l] = lead[l] /\ SeenStands(l) BY <1>2 DEF LeadsInv
  <2> QED BY <1>1, <1>2, <2>1 DEF SeenStands, OriginsStay
<1> QED BY <1>2 DEF LeadsInv, OriginsStay

LEMMA SameOriginsStay == LeadsInv /\ origin' = origin /\ prospect' = prospect /\ DOMAIN deal' = Contacts => OriginsStay
BY DEF LeadsInv, OriginsStay

\* The outcome of a lead: nothing, or a contact with all it is to have.
EndsWhole(l) ==
  \/ UNCHANGED <<contact, deal, origin, prospect>>
  \/ \E c \in Contacts :
       /\ IF lead[l].found = NoContact THEN contact[c] = Missing ELSE c = lead[l].found
       /\ contact'[c] # Missing
       /\ origin'[c] = 1 /\ c \in prospect' /\ deal'[c] # "none"

LEMMA StoreLeadWhole ==
  ASSUME LeadsInv, NEW l \in Leads, StoreLead(l)
  PROVE  LeadsInv' /\ EndsWhole(l)
<1>1. /\ lead[l] \in LeadRow /\ lead[l] # Missing /\ SeenStands(l)
      /\ lead[l].user \in UserOrNone /\ lead[l].phone \in PhoneOrNone
      /\ lead[l].lacks \subseteq {"origin", "prospect"}
  BY DEF StoreLead, LeadsInv, PhonesInv, LeadRow
<1>2. lead' = [lead EXCEPT ![l] = Missing] /\ PhonesInv'
  BY StoreLeadKeeps DEF StoreLead, LeadsInv
<1>3. \A k \in Leads : lead'[k] = Missing \/ lead'[k] = lead[k]
  BY <1>2 DEF LeadsInv, PhonesInv
<1>4. CASE UNCHANGED <<contact, origin, prospect, deal>>
  <2>1. OriginsStay BY <1>4, SameOriginsStay DEF LeadsInv
  <2> QED BY <1>2, <1>3, <1>4, <2>1, SeenKept DEF EndsWhole
<1>5. CASE ~UNCHANGED <<contact, origin, prospect, deal>>
  <2>1. PICK c \in (IF lead[l].found = NoContact THEN {d \in Contacts : ~HasContact(d)} ELSE {lead[l].found}) :
          /\ OriginFree(c, lead[l].lacks)
          /\ contact' = IF lead[l].found = NoContact
                        THEN [contact EXCEPT ![c] = NewContact(lead[l].phone, lead[l].user)] ELSE contact
          /\ origin' = IF "origin" \in lead[l].lacks THEN [origin EXCEPT ![c] = @ + 1] ELSE origin
          /\ prospect' = IF "prospect" \in lead[l].lacks THEN prospect \cup {c} ELSE prospect
          /\ deal' = IF deal[c] = "none" THEN [deal EXCEPT ![c] = lead[l].user] ELSE deal
    BY <1>5 DEF StoreLead
  <2>2. c \in Contacts /\ (lead[l].found # NoContact => HasContact(c) /\ c = lead[l].found)
    BY <1>1, <2>1 DEF LeadsInv, PhonesInv, LeadRow
  <2>3. /\ origin' \in [Contacts -> {0, 1}] /\ \A d \in Contacts : origin[d] = 1 => origin'[d] = 1
        /\ prospect \subseteq prospect' /\ DOMAIN deal' = Contacts
    BY <2>1, <2>2 DEF LeadsInv, OriginFree
  <2>4. LeadsInv'
    BY <1>2, <1>3, <2>3, SeenKept DEF OriginsStay
  <2>5. origin'[c] = 1 /\ c \in prospect'
    BY <1>1, <2>1, <2>2 DEF LeadsInv, OriginFree, SeenStands
  <2>6. deal'[c] # "none"
    BY <1>1, <2>1, <2>2, ContactsAssumption DEF LeadsInv, UserOrNone
  <2>7. contact'[c] # Missing
    <3>1. CASE lead[l].found = NoContact
      <4>1. contact'[c] = NewContact(lead[l].phone, lead[l].user)
        BY <2>1, <2>2, <3>1 DEF LeadsInv, PhonesInv
      <4> QED BY <1>1, <4>1, NewContactIsRow, MissingIsNoRow
    <3>2. CASE lead[l].found # NoContact
      BY <2>1, <2>2, <3>2 DEF HasContact
    <3> QED BY <3>1, <3>2
  <2>8. IF lead[l].found = NoContact THEN contact[c] = Missing ELSE c = lead[l].found
    BY <2>1, <2>2 DEF HasContact
  <2> QED BY <2>2, <2>4, <2>5, <2>6, <2>7, <2>8 DEF EndsWhole
<1> QED BY <1>4, <1>5

LEMMA LeadsStep ==
  ASSUME LeadsInv, [ContactsNext]_contactsVars
  PROVE  /\ LeadsInv'
         /\ \A l \in Leads : lead[l] # Missing /\ lead'[l] = Missing => EndsWhole(l)
<1>1. PhonesInv' BY PhonesStep DEF LeadsInv
<1>2. ASSUME lead' = lead, OriginsStay
      PROVE  LeadsInv' /\ \A l \in Leads : lead[l] # Missing /\ lead'[l] = Missing => EndsWhole(l)
  BY <1>1, <1>2, SeenKept
<1>3. ASSUME lead' = lead, origin' = origin, prospect' = prospect, DOMAIN deal' = Contacts
      PROVE  LeadsInv' /\ \A l \in Leads : lead[l] # Missing /\ lead'[l] = Missing => EndsWhole(l)
  BY <1>2, <1>3, SameOriginsStay
<1>4. CASE ContactStep
  <2>1. lead' = lead /\ origin' = origin /\ prospect' = prospect
    BY <1>4 DEF ContactStep, BeginCreate, ReadContact, WriteContact
  <2>2. DOMAIN deal' = Contacts
    <3>1. DOMAIN deal = Contacts BY DEF LeadsInv
    <3>2. ASSUME NEW r \in Editors, NEW user, NEW opens, InsertContact(r, user, opens)
          PROVE  DOMAIN deal' = Contacts
      <4>1. PICK c \in Contacts : deal' = IF contact' # contact /\ opens THEN [deal EXCEPT ![c] = user] ELSE deal
        BY <3>2 DEF InsertContact
      <4> QED BY <3>1, <4>1
    <3>3. ASSUME NEW r \in Editors, AssignContact(r) PROVE DOMAIN deal' = Contacts
      BY <3>1, <3>3 DEF AssignContact
    <3> QED BY <1>4, <3>1, <3>2, <3>3
          DEF ContactStep, BeginCreate, ReadContact, WriteContact, UpdateContact, ArchiveContact, RestoreContact
  <2> QED BY <1>3, <2>1, <2>2
<1>5. ASSUME NEW l \in Leads, NEW phone \in PhoneOrNone, NEW user \in UserOrNone, FindContact(l, phone, user)
      PROVE  LeadsInv' /\ \A k \in Leads : lead[k] # Missing => lead'[k] # Missing
  <2>1. PICK c, x : /\ lead' = [lead EXCEPT ![l] = x] /\ lead[l] = Missing
                    /\ x.found = c /\ x.lacks = {"origin", "prospect"}
                    /\ (c = NoContact => x.looked) /\ UNCHANGED <<origin, prospect, deal>>
    BY <1>5, FoundLead
  <2>2. \A k \in Leads \ {l} : lead'[k] = lead[k]
    BY <2>1 DEF LeadsInv, PhonesInv
  <2>3. ASSUME NEW k \in Leads, lead'[k] # Missing PROVE SeenStands(k)'
    <3>1. CASE k = l BY <2>1, <3>1 DEF SeenStands, LeadsInv, PhonesInv
    <3>2. CASE k # l BY <2>1, <2>2, <2>3, <3>2 DEF SeenStands, LeadsInv
    <3> QED BY <3>1, <3>2
  <2> QED BY <1>1, <2>1, <2>2, <2>3 DEF LeadsInv
<1>6. ASSUME NEW l \in Leads, LookAtContact(l)
      PROVE  LeadsInv' /\ \A k \in Leads : lead[k] # Missing => lead'[k] # Missing
  <2> DEFINE x == lead'[l]
  <2>1. /\ lead[l] \in LeadRow /\ lead[l] # Missing
        /\ lead' = [lead EXCEPT ![l] = x] /\ UNCHANGED <<origin, prospect, deal>>
        /\ x = [lead[l] EXCEPT !.looked = TRUE,
                   !.lacks = (IF origin[lead[l].found] = 0 THEN {"origin"} ELSE {})
                             \cup (IF lead[l].found \notin prospect THEN {"prospect"} ELSE {})]
    BY <1>6 DEF LookAtContact, LeadsInv, PhonesInv
  <2>2. /\ x.found = lead[l].found /\ x.found \in Contacts \cup {NoContact}
        /\ x.lacks = (IF origin[x.found] = 0 THEN {"origin"} ELSE {})
                     \cup (IF x.found \notin prospect THEN {"prospect"} ELSE {})
        /\ x # Missing
    <3> DEFINE seen == (IF origin[lead[l].found] = 0 THEN {"origin"} ELSE {})
                         \cup (IF lead[l].found \notin prospect THEN {"prospect"} ELSE {})
    <3>1. seen \in SUBSET {"origin", "prospect"} /\ x = [lead[l] EXCEPT !.looked = TRUE, !.lacks = seen]
      BY <2>1
    <3> HIDE DEF seen
    <3>2. x \in LeadRow /\ x.found = lead[l].found /\ x.lacks = seen
      BY <2>1, <3>1 DEF LeadRow
    <3> QED BY <3>2, MissingIsNoRow DEF LeadRow, seen
  <2>3. \A k \in Leads \ {l} : lead'[k] = lead[k]
    BY <2>1 DEF LeadsInv, PhonesInv
  <2>4. x.found # NoContact
    BY <1>6, <2>2 DEF LookAtContact, LeadsInv, SeenStands
  <2>5. ASSUME NEW k \in Leads, lead'[k] # Missing PROVE SeenStands(k)'
    <3>1. CASE k = l BY <2>1, <2>2, <2>4, <3>1 DEF SeenStands, LeadsInv
    <3>2. CASE k # l BY <2>1, <2>3, <2>5, <3>2 DEF SeenStands, LeadsInv
    <3> QED BY <3>1, <3>2
  <2> QED BY <1>1, <2>1, <2>2, <2>3, <2>5 DEF LeadsInv
<1>7. ASSUME NEW l \in Leads, StoreLead(l)
      PROVE  LeadsInv' /\ \A k \in Leads : lead[k] # Missing /\ lead'[k] = Missing => EndsWhole(k)
  <2>1. \A k \in Leads \ {l} : lead'[k] = lead[k]
    BY <1>7 DEF StoreLead, LeadsInv, PhonesInv
  <2> QED BY <1>7, <2>1, StoreLeadWhole
<1>8. ASSUME NEW c \in Contacts, AttributeContact(c) \/ SetProspectState(c) \/ RemoveContact(c)
      PROVE  LeadsInv' /\ \A l \in Leads : lead[l] # Missing /\ lead'[l] = Missing => EndsWhole(l)
  <2>1. lead' = lead /\ OriginsStay
    BY <1>8 DEF AttributeContact, SetProspectState, RemoveContact, OriginsStay, LeadsInv
  <2> QED BY <1>2, <2>1
<1>9. CASE LeadStep
  BY <1>5, <1>6, <1>7, <1>8, <1>9 DEF LeadStep, PhoneOrNone, UserOrNone
<1>10. CASE BuyerStep
  BY <1>3, <1>10 DEF BuyerStep, ReadBuyer, StoreSale, DropSale, LeadsInv
<1>11. CASE TagStep
  BY <1>3, <1>11 DEF TagStep, BeginTag, WriteTag, ArchiveTag, AddTag, RemoveTag, contactVars, LeadsInv
<1>12. CASE UNCHANGED contactsVars
  BY <1>3, <1>12 DEF contactsVars, LeadsInv
<1> QED BY <1>4, <1>9, <1>10, <1>11, <1>12 DEF ContactsNext

\* However many leads, imports and assignments of a contact overlap, each lead leaves
\* it with one original attribution, a state and an opportunity, or changes nothing.
THEOREM LeadsEnd == ContactsSpec => LeadsEndWhole
<1>1. ContactsInit => LeadsInv
  BY PhonesStart DEF ContactsInit, LeadsInv
<1>2. LeadsInv /\ [ContactsNext]_contactsVars => LeadsInv'
  BY LeadsStep
<1>3. LeadsInv /\ [ContactsNext]_contactsVars =>
        [\A l \in Leads : lead[l] # Missing /\ lead'[l] = Missing =>
           \/ UNCHANGED <<contact, deal, origin, prospect>>
           \/ \E c \in Contacts :
                /\ IF lead[l].found = NoContact THEN contact[c] = Missing ELSE c = lead[l].found
                /\ contact'[c] # Missing
                /\ origin'[c] = 1 /\ c \in prospect' /\ deal'[c] # "none"]_contactsVars
  BY LeadsStep DEF EndsWhole
<1> QED BY <1>1, <1>2, <1>3, PTL DEF ContactsSpec, LeadsEndWhole

----------------------------------------------------------------------------
(* Spend.                                                                  *)

SpendAnswer == [at : {"told", "refused"}, row : Spends, key : Keys, campaign : Campaigns,
                adSet : AdSets \cup {NoAdSet}, amount : Amounts]

SpendInv ==
  /\ DOMAIN spend = Spends
  /\ spending \in [Spenders -> {Void} \cup SpendRequest \cup SpendAnswer]

\* What a request may be told.
ToldTrue(r) ==
  (spending'[r].at = "told" /\ spending[r].at # "told") =>
     LET row == spend'[spending'[r].row]
     IN /\ row.key = spending[r].key /\ row.amount = spending[r].amount
        /\ row.campaign = spending[r].campaign /\ row.adSet = spending[r].adSet

LEMMA AskingIsTyped ==
  ASSUME SpendInv, NEW r \in Spenders, spending[r].at \in {"new", "checked", "lost"}
  PROVE  spending[r] \in SpendRequest
BY DEF SpendInv, Void, SpendAnswer

LEMMA AnswersAreTyped ==
  ASSUME NEW request \in SpendRequest, NEW s \in Spends, NEW at \in {"told", "refused"}
  PROVE  [at |-> at, row |-> s, key |-> request.key, campaign |-> request.campaign,
          adSet |-> request.adSet, amount |-> request.amount] \in SpendAnswer
BY DEF SpendRequest, SpendAnswer

LEMMA LookUpSpendTells ==
  ASSUME SpendInv, NEW r \in Spenders, LookUpSpend(r)
  PROVE  SpendInv' /\ \A q \in Spenders : ToldTrue(q)
<1>1. spending[r] \in SpendRequest /\ spending[r].at \in {"new", "lost"} /\ spend' = spend
  BY AskingIsTyped DEF LookUpSpend
<1>2. ASSUME NEW s \in SpendWith(spending[r].key),
             spending' = [spending EXCEPT ![r] = Answer(spending[r], s)]
      PROVE  SpendInv' /\ \A q \in Spenders : ToldTrue(q)
  <2>1. s \in Spends /\ spend[s].key = spending[r].key
    BY DEF SpendWith
  <2>2. Answer(spending[r], s) \in SpendAnswer
    BY <1>1, <2>1, AnswersAreTyped DEF Answer
  <2>3. /\ Answer(spending[r], s).row = s
        /\ Answer(spending[r], s).at = "told" => SpendRequestMatches(spend[s], spending[r])
    BY DEF Answer
  <2>4. SpendInv'
    BY <1>1, <1>2, <2>2 DEF SpendInv
  <2>5. spending'[r] = Answer(spending[r], s) /\ \A q \in Spenders \ {r} : spending'[q] = spending[q]
    BY <1>2 DEF SpendInv
  <2> QED BY <1>1, <2>1, <2>3, <2>4, <2>5 DEF ToldTrue, SpendRequestMatches
<1>3. ASSUME NEW new \in {Void, [spending[r] EXCEPT !.at = "checked"]},
             spending' = [spending EXCEPT ![r] = new]
      PROVE  SpendInv' /\ \A q \in Spenders : ToldTrue(q)
  <2>1. new \in {Void} \cup SpendRequest /\ new.at # "told"
    BY <1>1, <1>3 DEF SpendRequest, Void
  <2>2. spending'[r] = new /\ \A q \in Spenders \ {r} : spending'[q] = spending[q]
    BY <1>3 DEF SpendInv
  <2> QED BY <1>1, <1>3, <2>1, <2>2 DEF SpendInv, ToldTrue
<1> QED BY <1>2, <1>3 DEF LookUpSpend

LEMMA RecordSpendTells ==
  ASSUME SpendInv, NEW r \in Spenders, RecordSpend(r)
  PROVE  SpendInv' /\ \A q \in Spenders : ToldTrue(q)
<1>1. spending[r] \in SpendRequest
  BY AskingIsTyped DEF RecordSpend
<1> DEFINE row == [key |-> spending[r].key, campaign |-> spending[r].campaign,
                   adSet |-> spending[r].adSet, amount |-> spending[r].amount, deleted |-> FALSE]
           told(s) == [at |-> "told", row |-> s, key |-> spending[r].key,
                       campaign |-> spending[r].campaign, adSet |-> spending[r].adSet,
                       amount |-> spending[r].amount]
<1>2. PICK s \in Spends :
        \/ /\ spend' = [spend EXCEPT ![s] = row]
           /\ spending' = [spending EXCEPT ![r] = told(s)]
        \/ /\ spending' = [spending EXCEPT ![r].at = "lost"]
           /\ spend' = spend
  BY DEF RecordSpend
<1>3. CASE /\ spend' = [spend EXCEPT ![s] = row]
           /\ spending' = [spending EXCEPT ![r] = told(s)]
  <2>1. told(s) \in SpendAnswer /\ told(s).row = s
    BY <1>1, AnswersAreTyped
  <2>2. /\ row.key = spending[r].key /\ row.amount = spending[r].amount
        /\ row.campaign = spending[r].campaign /\ row.adSet = spending[r].adSet
    OBVIOUS
  <2> HIDE DEF row, told
  <2>3. SpendInv' /\ spend'[s] = row
    BY <1>3, <2>1 DEF SpendInv
  <2>4. spending'[r] = told(s) /\ \A q \in Spenders \ {r} : spending'[q] = spending[q]
    BY <1>3 DEF SpendInv
  <2> QED BY <2>1, <2>2, <2>3, <2>4 DEF ToldTrue
<1>4. CASE spending' = [spending EXCEPT ![r].at = "lost"] /\ spend' = spend
  <2> DEFINE lost == [spending[r] EXCEPT !.at = "lost"]
  <2>1. lost \in SpendRequest /\ lost.at # "told"
    BY <1>1 DEF SpendRequest
  <2>2. spending' = [spending EXCEPT ![r] = lost]
    BY <1>4
  <2> HIDE DEF lost
  <2>3. spending'[r] = lost /\ \A q \in Spenders \ {r} : spending'[q] = spending[q]
    BY <2>2 DEF SpendInv
  <2> QED BY <1>4, <2>1, <2>2, <2>3 DEF SpendInv, ToldTrue
<1> QED BY <1>2, <1>3, <1>4

LEMMA SpendStepTells ==
  ASSUME SpendInv, [MarketingNext]_marketingVars
  PROVE  SpendInv' /\ \A q \in Spenders : ToldTrue(q)
<1>1. CASE UNCHANGED <<spend, spending>>
  BY <1>1 DEF SpendInv, ToldTrue
<1>2. ASSUME NEW r \in Spenders, NEW request \in SpendRequest, AskSpend(r, request)
      PROVE  SpendInv' /\ \A q \in Spenders : ToldTrue(q)
  <2>1. spending' = [spending EXCEPT ![r] = request] /\ spend' = spend /\ request.at = "new"
    BY <1>2 DEF AskSpend
  <2>2. spending'[r] = request /\ \A q \in Spenders \ {r} : spending'[q] = spending[q]
    BY <2>1 DEF SpendInv
  <2> QED BY <2>1, <2>2 DEF SpendInv, ToldTrue
<1>3. ASSUME NEW r \in Spenders, EndSpend(r)
      PROVE  SpendInv' /\ \A q \in Spenders : ToldTrue(q)
  <2>1. spending' = [spending EXCEPT ![r] = Void] /\ spend' = spend
    BY <1>3 DEF EndSpend
  <2>2. spending'[r] = Void /\ \A q \in Spenders \ {r} : spending'[q] = spending[q]
    BY <2>1 DEF SpendInv
  <2> QED BY <2>1, <2>2 DEF SpendInv, ToldTrue, Void
<1>4. ASSUME NEW s \in Spends, NEW c, NEW a, NEW n, UpdateSpend(s, c, a, n)
      PROVE  SpendInv' /\ \A q \in Spenders : ToldTrue(q)
  <2> DEFINE rows == [spend EXCEPT ![s].campaign = c, ![s].adSet = a, ![s].amount = n]
  <2>1. spending' = spending /\ (spend' = rows \/ spend' = spend)
    BY <1>4 DEF UpdateSpend
  <2>2. DOMAIN rows = DOMAIN spend
    BY Zenon
  <2> HIDE DEF rows
  <2> QED BY <2>1, <2>2 DEF SpendInv, ToldTrue
<1>5. ASSUME NEW s \in Spends, ArchiveSpend(s)
      PROVE  SpendInv' /\ \A q \in Spenders : ToldTrue(q)
  <2>1. spending' = spending /\ spend' = [spend EXCEPT ![s].deleted = TRUE]
    BY <1>5 DEF ArchiveSpend
  <2> QED BY <2>1 DEF SpendInv, ToldTrue
<1>6. CASE CampaignStep \/ ConversionStep
  BY <1>1, <1>6 DEF CampaignStep, CreateCampaign, UpdateCampaign, ArchiveCampaign, CreateAdSet,
                    ConversionStep, AttributeSale, ChangeSale
<1>7. CASE SpendStep
  BY <1>2, <1>3, <1>4, <1>5, <1>7, LookUpSpendTells, RecordSpendTells DEF SpendStep
<1> QED BY <1>1, <1>6, <1>7 DEF MarketingNext, marketingVars, campaignVars

\* A request is told that its spend is recorded only of a row with its own key, amount,
\* campaign and ad set, for any number of requests and edits (recordSpend).
THEOREM ToldTruth == MarketingSpec => ToldIsRecorded
<1>1. MarketingInit => SpendInv
  BY DEF MarketingInit, SpendInv
<1>2. SpendInv /\ [MarketingNext]_marketingVars => SpendInv'
  BY SpendStepTells
<1>3. SpendInv /\ [MarketingNext]_marketingVars =>
        [\A r \in Spenders : (spending'[r].at = "told" /\ spending[r].at # "told") =>
           LET row == spend'[spending'[r].row]
           IN /\ row.key = spending[r].key /\ row.amount = spending[r].amount
              /\ row.campaign = spending[r].campaign /\ row.adSet = spending[r].adSet
        ]_marketingVars
  BY SpendStepTells DEF ToldTrue
<1> QED BY <1>1, <1>2, <1>3, PTL DEF MarketingSpec, ToldIsRecorded

----------------------------------------------------------------------------
(* Imports of commercial files.                                            *)

ImportEntry == [status : ImportStatus, key : Keys, file : ImportFiles]
Looking == [at : {"checked"}, key : Keys, file : ImportFiles]
Writing == [at : {"rows"}, import : CommercialImports, left : SUBSET ImportRows,
            row : SUBSET (ImportRows \X {"SUCCEEDED", "FAILED"}), failed : BOOLEAN]

\* An import is written by one request, which has not written the rows it has left.
ImportsInv ==
  /\ import \in [CommercialImports -> ImportEntry \cup {Void}]
  /\ executing \in [Importers -> {NotImporting} \cup Looking \cup Writing]
  /\ written \in [CommercialImports \X ImportRows -> {0, 1}]
  /\ \A i, j \in CommercialImports :
       (import[i] # Void /\ import[j] # Void /\ import[i].key = import[j].key) => i = j
  /\ \A i \in CommercialImports : import[i] = Void => \A n \in ImportRows : written[<<i, n>>] = 0
  /\ \A q \in Importers : executing[q] \in Writing =>
       /\ import[executing[q].import] # Void
       /\ \A n \in executing[q].left : written[<<executing[q].import, n>>] = 0
  /\ \A p, q \in Importers :
       (executing[p] \in Writing /\ executing[q] \in Writing
          /\ executing[p].import = executing[q].import) => p = q

LEMMA EntriesAreNotVoid == Void \notin ImportEntry
<1>1. \A x \in ImportEntry : DOMAIN x = {"status", "key", "file"}
  BY DEF ImportEntry
<1>2. DOMAIN Void = {"at"}
  BY DEF Void
<1> QED BY <1>1, <1>2

LEMMA PhasesDiffer ==
  /\ \A x \in Looking : x.at = "checked"
  /\ \A x \in Writing : x.at = "rows"
  /\ NotImporting.at = "idle"
BY DEF Looking, Writing, NotImporting

\* A request ends, or begins to look: no other one is disturbed.
LEMMA OtherPhaseKeeps ==
  ASSUME ImportsInv, NEW q \in Importers, NEW x \in {NotImporting} \cup Looking,
         executing' = [executing EXCEPT ![q] = x],
         import' \in [CommercialImports -> ImportEntry \cup {Void}],
         \A i \in CommercialImports : /\ import'[i] = Void <=> import[i] = Void
                                      /\ import'[i].key = import[i].key,
         written' = written
  PROVE  ImportsInv'
<1>1. x \notin Writing
  BY PhasesDiffer
<1>2. executing'[q] = x /\ \A p \in Importers \ {q} : executing'[p] = executing[p]
  BY DEF ImportsInv
<1>3. \A p \in Importers : executing'[p] \in Writing => p # q /\ executing'[p] = executing[p]
  BY <1>1, <1>2
<1>4. \A p \in Importers : executing[p] \in Writing => executing[p].import \in CommercialImports
  BY DEF Writing
<1>5. executing' \in [Importers -> {NotImporting} \cup Looking \cup Writing]
  BY DEF ImportsInv
<1>6. \A p \in Importers : executing'[p] \in Writing =>
        /\ import'[executing'[p].import] # Void
        /\ \A n \in executing'[p].left : written'[<<executing'[p].import, n>>] = 0
  BY <1>3, <1>4 DEF ImportsInv
<1>7. \A p1, p2 \in Importers :
        (executing'[p1] \in Writing /\ executing'[p2] \in Writing
           /\ executing'[p1].import = executing'[p2].import) => p1 = p2
  BY <1>3 DEF ImportsInv
<1>8. \A i, j \in CommercialImports :
        (import'[i] # Void /\ import'[j] # Void /\ import'[i].key = import'[j].key) => i = j
  BY DEF ImportsInv
<1>9. \A i \in CommercialImports : import'[i] = Void => \A n \in ImportRows : written'[<<i, n>>] = 0
  BY DEF ImportsInv
<1>10. written' \in [CommercialImports \X ImportRows -> {0, 1}]
  BY DEF ImportsInv
<1> QED BY <1>5, <1>6, <1>7, <1>8, <1>9, <1>10 DEF ImportsInv

LEMMA StoreImportKeeps ==
  ASSUME ImportsInv, NEW q \in Importers, StoreImport(q)
  PROVE  ImportsInv'
<1>1. executing[q] \in Looking /\ written' = written
  <2>1. executing[q].at = "checked" /\ written' = written
    BY DEF StoreImport
  <2> QED BY <2>1, PhasesDiffer DEF ImportsInv
<1>2. CASE KeyFree(executing[q].key)
  <2>1. PICK i \in CommercialImports :
          /\ import[i] = Void
          /\ import' = [import EXCEPT ![i] = [status |-> "PROCESSING", key |-> executing[q].key,
                                              file |-> executing[q].file]]
          /\ executing' = [executing EXCEPT ![q] = [at |-> "rows", import |-> i, left |-> ImportRows,
                                                    row |-> {}, failed |-> FALSE]]
    BY <1>2 DEF StoreImport
  <2> DEFINE new == [status |-> "PROCESSING", key |-> executing[q].key, file |-> executing[q].file]
             work == [at |-> "rows", import |-> i, left |-> ImportRows, row |-> {}, failed |-> FALSE]
  <2>2. new \in ImportEntry /\ new.key = executing[q].key
    BY <1>1 DEF ImportEntry, Looking, ImportStatus
  <2>3. work \in Writing /\ work.import = i /\ work.left = ImportRows
    BY DEF Writing
  <2>4. \A j \in CommercialImports : import[j] # Void => import[j].key # executing[q].key
    BY <1>2 DEF KeyFree, WithKey
  <2> HIDE DEF new, work
  <2>5. /\ import' \in [CommercialImports -> ImportEntry \cup {Void}]
        /\ import'[i] = new /\ \A j \in CommercialImports \ {i} : import'[j] = import[j]
    BY <2>1, <2>2 DEF ImportsInv, new
  <2>6. /\ executing' \in [Importers -> {NotImporting} \cup Looking \cup Writing]
        /\ executing'[q] = work /\ \A p \in Importers \ {q} : executing'[p] = executing[p]
    BY <2>1, <2>3 DEF ImportsInv, work
  <2>7. new # Void
    BY <2>2, EntriesAreNotVoid
  <2>8. \A j \in CommercialImports \ {i} :
          import'[j] # Void => import'[j].key # new.key
    BY <2>2, <2>4, <2>5
  <2>9. \A j, k \in CommercialImports :
          (import'[j] # Void /\ import'[k] # Void /\ import'[j].key = import'[k].key) => j = k
    <3> SUFFICES ASSUME NEW j \in CommercialImports, NEW k \in CommercialImports,
                        import'[j] # Void, import'[k] # Void, import'[j].key = import'[k].key
                 PROVE  j = k
      OBVIOUS
    <3>1. CASE j = i BY <2>5, <2>8, <3>1
    <3>2. CASE k = i BY <2>5, <2>8, <3>2
    <3>3. CASE j # i /\ k # i BY <2>5, <3>3 DEF ImportsInv
    <3> QED BY <3>1, <3>2, <3>3
  <2>10. \A p \in Importers \ {q} : executing[p] \in Writing => executing[p].import # i
    BY <2>1 DEF ImportsInv
  <2>11. \A p \in Importers : executing[p] \in Writing => executing[p].import \in CommercialImports
    BY DEF Writing
  <2>12. \A p \in Importers : executing'[p] \in Writing =>
           /\ import'[executing'[p].import] # Void
           /\ \A n \in executing'[p].left : written'[<<executing'[p].import, n>>] = 0
    <3> SUFFICES ASSUME NEW p \in Importers, executing'[p] \in Writing
                 PROVE  /\ import'[executing'[p].import] # Void
                        /\ \A n \in executing'[p].left : written'[<<executing'[p].import, n>>] = 0
      OBVIOUS
    <3>1. CASE p = q BY <1>1, <2>1, <2>3, <2>5, <2>6, <2>7, <3>1 DEF ImportsInv
    <3>2. CASE p # q BY <1>1, <2>5, <2>6, <2>10, <2>11, <3>2 DEF ImportsInv
    <3> QED BY <3>1, <3>2
  <2>13. \A p1, p2 \in Importers :
           (executing'[p1] \in Writing /\ executing'[p2] \in Writing
              /\ executing'[p1].import = executing'[p2].import) => p1 = p2
    BY <2>3, <2>6, <2>10 DEF ImportsInv
  <2>14. \A j \in CommercialImports : import'[j] = Void => \A n \in ImportRows : written'[<<j, n>>] = 0
    BY <1>1, <2>5, <2>7 DEF ImportsInv
  <2> QED BY <1>1, <2>5, <2>6, <2>9, <2>12, <2>13, <2>14 DEF ImportsInv
<1>3. CASE ~KeyFree(executing[q].key)
  <2>1. executing' = [executing EXCEPT ![q] = NotImporting] /\ import' = import
    BY <1>3 DEF StoreImport
  <2> QED BY <1>1, <2>1, OtherPhaseKeeps DEF ImportsInv
<1> QED BY <1>2, <1>3

\* A step of the request that writes an import: it has no more left than before, and
\* what it wrote is not left.
LEMMA WritingKeeps ==
  ASSUME ImportsInv, NEW q \in Importers, executing[q] \in Writing, NEW x \in Writing,
         executing' = [executing EXCEPT ![q] = x], x.import = executing[q].import,
         x.left \subseteq executing[q].left, import' = import,
         written' \in [CommercialImports \X ImportRows -> {0, 1}],
         \A j \in CommercialImports, n \in ImportRows :
           (j # x.import \/ n \in x.left) => written'[<<j, n>>] = written[<<j, n>>]
  PROVE  ImportsInv'
<1>1. /\ executing' \in [Importers -> {NotImporting} \cup Looking \cup Writing]
      /\ executing'[q] = x /\ \A p \in Importers \ {q} : executing'[p] = executing[p]
  BY DEF ImportsInv
<1>2. \A p \in Importers : executing[p] \in Writing =>
        executing[p].import \in CommercialImports /\ executing[p].left \subseteq ImportRows
  BY DEF Writing
<1>3. \A p \in Importers \ {q} : executing[p] \in Writing => executing[p].import # x.import
  BY DEF ImportsInv
<1>4. import[x.import] # Void
  BY DEF ImportsInv
<1>5. \A p \in Importers : executing'[p] \in Writing =>
        /\ import'[executing'[p].import] # Void
        /\ \A n \in executing'[p].left : written'[<<executing'[p].import, n>>] = 0
  <2> SUFFICES ASSUME NEW p \in Importers, executing'[p] \in Writing
               PROVE  /\ import'[executing'[p].import] # Void
                      /\ \A n \in executing'[p].left : written'[<<executing'[p].import, n>>] = 0
    OBVIOUS
  <2>1. CASE p = q BY <1>1, <1>2, <1>4, <2>1 DEF ImportsInv
  <2>2. CASE p # q BY <1>1, <1>2, <1>3, <2>2 DEF ImportsInv
  <2> QED BY <2>1, <2>2
<1>6. \A p1, p2 \in Importers :
        (executing'[p1] \in Writing /\ executing'[p2] \in Writing
           /\ executing'[p1].import = executing'[p2].import) => p1 = p2
  BY <1>1, <1>3 DEF ImportsInv
<1>7. \A j \in CommercialImports : import'[j] = Void => \A n \in ImportRows : written'[<<j, n>>] = 0
  BY <1>4 DEF ImportsInv
<1> QED BY <1>1, <1>5, <1>6, <1>7 DEF ImportsInv

LEMMA WriteRowKeeps ==
  ASSUME ImportsInv, NEW q \in Importers, NEW n \in ImportRows, NEW fails \in BOOLEAN,
         WriteRow(q, n, fails)
  PROVE  ImportsInv'
<1> DEFINE mark == {<<n, IF fails THEN "FAILED" ELSE "SUCCEEDED">>}
           x == [executing[q] EXCEPT !.left = @ \ {n}, !.row = mark]
<1>1. executing[q] \in Writing
  <2>1. executing[q].at = "rows" BY DEF WriteRow
  <2> QED BY <2>1, PhasesDiffer DEF ImportsInv
<1>2. /\ n \in executing[q].left /\ import' = import
      /\ written' = IF fails THEN written ELSE [written EXCEPT ![<<executing[q].import, n>>] = @ + 1]
  BY DEF WriteRow
<1>3. executing' = [executing EXCEPT ![q] = x]
  BY DEF WriteRow
<1>4. mark \in SUBSET (ImportRows \X {"SUCCEEDED", "FAILED"})
  OBVIOUS
<1> HIDE DEF mark
<1>5. x \in Writing /\ x.import = executing[q].import /\ x.left = executing[q].left \ {n}
  BY <1>1, <1>4 DEF Writing
<1> HIDE DEF x
<1>6. executing[q].import \in CommercialImports /\ executing[q].left \subseteq ImportRows
  BY <1>1 DEF Writing
<1>7. written[<<executing[q].import, n>>] = 0
  BY <1>1, <1>2 DEF ImportsInv
<1>8. /\ written' \in [CommercialImports \X ImportRows -> {0, 1}]
      /\ \A j \in CommercialImports, k \in ImportRows :
           (j # x.import \/ k \in x.left) => written'[<<j, k>>] = written[<<j, k>>]
  <2>1. CASE fails BY <1>2, <2>1 DEF ImportsInv
  <2>2. CASE ~fails
    <3>1. written' = [written EXCEPT ![<<executing[q].import, n>>] = 1]
      BY <1>2, <1>7, <2>2
    <3>2. <<executing[q].import, n>> \in CommercialImports \X ImportRows
      BY <1>6
    <3> QED BY <1>5, <1>6, <3>1, <3>2 DEF ImportsInv
  <2> QED BY <2>1, <2>2
<1> QED BY <1>1, <1>2, <1>3, <1>5, <1>8, WritingKeeps

LEMMA MarkRowKeeps ==
  ASSUME ImportsInv, NEW q \in Importers, NEW throws \in BOOLEAN, MarkRow(q, throws)
  PROVE  ImportsInv'
<1>1. executing[q] \in Writing /\ import' = import /\ written' = written
  <2>1. executing[q].at = "rows" /\ import' = import /\ written' = written
    BY DEF MarkRow
  <2> QED BY <2>1, PhasesDiffer DEF ImportsInv
<1>2. PICK mark \in executing[q].row :
        \/ executing' = [executing EXCEPT ![q].row = {<<mark[1], "FAILED">>}]
        \/ executing' = [executing EXCEPT ![q].row = {}, ![q].failed = @ \/ mark[2] = "FAILED"]
  BY DEF MarkRow
<1>3. mark[1] \in ImportRows
  BY <1>1 DEF Writing
<1>4. ASSUME NEW x \in Writing, executing' = [executing EXCEPT ![q] = x],
             x.import = executing[q].import, x.left = executing[q].left
      PROVE  ImportsInv'
  BY <1>1, <1>4, WritingKeeps DEF ImportsInv
<1>5. CASE executing' = [executing EXCEPT ![q].row = {<<mark[1], "FAILED">>}]
  <2> DEFINE x == [executing[q] EXCEPT !.row = {<<mark[1], "FAILED">>}]
  <2>1. x \in Writing /\ x.import = executing[q].import /\ x.left = executing[q].left
    BY <1>1, <1>3 DEF Writing
  <2>2. executing' = [executing EXCEPT ![q] = x]
    BY <1>5
  <2> HIDE DEF x
  <2> QED BY <1>4, <2>1, <2>2
<1>6. CASE executing' = [executing EXCEPT ![q].row = {}, ![q].failed = @ \/ mark[2] = "FAILED"]
  <2> DEFINE flag == executing[q].failed \/ mark[2] = "FAILED"
             x == [executing[q] EXCEPT !.row = {}, !.failed = flag]
  <2>1. executing' = [executing EXCEPT ![q] = x]
    BY <1>6
  <2>2. flag \in BOOLEAN
    BY DEF flag
  <2> HIDE DEF flag
  <2>3. x \in Writing /\ x.import = executing[q].import /\ x.left = executing[q].left
    BY <1>1, <2>2 DEF Writing
  <2> HIDE DEF x
  <2> QED BY <1>4, <2>1, <2>3
<1> QED BY <1>2, <1>5, <1>6

LEMMA EndImportKeeps ==
  ASSUME ImportsInv, NEW q \in Importers, EndImport(q)
  PROVE  ImportsInv'
<1> DEFINE i == executing[q].import
           end == IF executing[q].failed THEN "FAILED" ELSE "COMPLETED"
<1>1. executing[q] \in Writing
  <2>1. executing[q].at = "rows" BY DEF EndImport
  <2> QED BY <2>1, PhasesDiffer DEF ImportsInv
<1>2. /\ import' = [import EXCEPT ![i].status = end]
      /\ executing' = [executing EXCEPT ![q] = NotImporting] /\ written' = written
  BY DEF EndImport
<1>3. i \in CommercialImports /\ import[i] \in ImportEntry
  BY <1>1 DEF Writing, ImportsInv
<1>4. end \in ImportStatus
  BY DEF ImportStatus
<1> DEFINE new == [import[i] EXCEPT !.status = end]
<1>5. import' = [import EXCEPT ![i] = new]
  BY <1>2
<1> HIDE DEF end
<1>6. new \in ImportEntry /\ new.key = import[i].key
  BY <1>3, <1>4 DEF ImportEntry
<1> HIDE DEF new, i
<1>7. /\ import' \in [CommercialImports -> ImportEntry \cup {Void}]
      /\ import'[i] = new /\ \A j \in CommercialImports \ {i} : import'[j] = import[j]
  BY <1>3, <1>5, <1>6 DEF ImportsInv
<1>8. \A j \in CommercialImports : /\ import'[j] = Void <=> import[j] = Void
                                   /\ import'[j].key = import[j].key
  BY <1>3, <1>6, <1>7, EntriesAreNotVoid
<1> QED BY <1>2, <1>7, <1>8, OtherPhaseKeeps

LEMMA ImportsStep ==
  ASSUME ImportsInv, [MarketingNext]_marketingVars
  PROVE  ImportsInv'
<1>1. CASE UNCHANGED importVars
  BY <1>1 DEF importVars, ImportsInv
<1>2. ASSUME NEW q \in Importers, NEW key \in Keys, NEW file \in ImportFiles,
             ExecuteImport(q, key, file)
      PROVE  ImportsInv'
  <2> DEFINE x == IF WithKey(key) = {} THEN [at |-> "checked", key |-> key, file |-> file]
                  ELSE NotImporting
  <2>1. x \in {NotImporting} \cup Looking
    BY DEF Looking
  <2>2. executing' = [executing EXCEPT ![q] = x] /\ import' = import /\ written' = written
    BY <1>2 DEF ExecuteImport
  <2> HIDE DEF x
  <2> QED BY <2>1, <2>2, OtherPhaseKeeps DEF ImportsInv
<1>3. ASSUME NEW q \in Importers, StopImport(q)
      PROVE  ImportsInv'
  <2>1. executing' = [executing EXCEPT ![q] = NotImporting] /\ import' = import /\ written' = written
    BY <1>3 DEF StopImport
  <2> QED BY <2>1, OtherPhaseKeeps DEF ImportsInv
<1>4. CASE CommercialImportStep
  BY <1>2, <1>3, <1>4, StoreImportKeeps, WriteRowKeeps, MarkRowKeeps, EndImportKeeps
     DEF CommercialImportStep
<1> QED BY <1>1, <1>4 DEF MarketingNext, marketingVars, importVars

\* However often a file is sent with one key, to any number of requests at once or after
\* a crash, each of its rows is written at most once (executeImport).
THEOREM EachRowWrittenOnce == MarketingSpec => []RowsWrittenOnce
<1>1. MarketingInit => ImportsInv
  BY PhasesDiffer DEF MarketingInit, ImportsInv
<1>2. ImportsInv /\ [MarketingNext]_marketingVars => ImportsInv'
  BY ImportsStep
<1>3. ImportsInv => RowsWrittenOnce
  <2> SUFFICES ASSUME ImportsInv, NEW key \in Keys, NEW n \in ImportRows,
                      NEW i \in WithKey(key), NEW j \in WithKey(key)
               PROVE  written[<<i, n>>] + (IF i = j THEN 0 ELSE written[<<j, n>>]) <= 1
    BY DEF RowsWrittenOnce
  <2>1. i \in CommercialImports /\ j \in CommercialImports /\ i = j
    BY DEF WithKey, ImportsInv
  <2>2. written[<<i, n>>] \in {0, 1}
    BY <2>1 DEF ImportsInv
  <2> QED BY <2>1, <2>2
<1> QED BY <1>1, <1>2, <1>3, PTL DEF MarketingSpec

----------------------------------------------------------------------------
(* Reminders.                                                              *)

\* What is told of a reminder: it was delivered exactly if it was notified.
NotifiedAreDelivered ==
  \A c \in Cycles, k \in Kinds : reminder[c][k].status = "DELIVERED" <=> <<c, k>> \in notified

\* The steps that write no reminder.
LEMMA OnlyGenerationReminds ==
  ASSUME CenterNext
  PROVE  \/ reminder' = reminder /\ notified' = notified
         \/ \E g \in Generators : WriteReminders(g)
<1>1. CASE RenewalsStep
  BY <1>1 DEF RenewalsStep, CreateRenewal, MoveDue, MarkDue, PayRenewal, CancelRenewal,
              UpdateWorkflow, NextDay
<1>2. CASE GenerationStep
  BY <1>2 DEF GenerationStep, ReadRenewals, AbortGeneration
<1>3. CASE ImportStep
  BY <1>3, Zenon DEF ImportStep, BeginImport, FindCycle, InsertRow, FailImport, BreakDeadlock,
                     CommitImport
<1> QED BY <1>1, <1>2, <1>3 DEF CenterNext

\* A generation delivers what was not delivered, and leaves what was as it is.
LEMMA RemindersWritten ==
  ASSUME NEW g \in Generators, WriteReminders(g), NEW c \in Cycles, NEW k \in Kinds
  PROVE  /\ reminder[c][k].status = "DELIVERED" =>
              reminder'[c][k] = reminder[c][k] /\ (<<c, k>> \in notified' <=> <<c, k>> \in notified)
         /\ reminder[c][k].status # "DELIVERED" /\ <<c, k>> \notin notified =>
              (reminder'[c][k].status = "DELIVERED" <=> <<c, k>> \in notified')
<1>1. reminder'[c][k] = Reminded(g, c, k)
  BY DEF WriteReminders
<1>2. <<c, k>> \in notified' <=> <<c, k>> \in notified \/ Delivers(g, c, k)
  BY DEF WriteReminders
<1>3. ASSUME reminder[c][k].status = "DELIVERED"
      PROVE  ~Delivers(g, c, k) /\ Reminded(g, c, k) = reminder[c][k]
  BY <1>3 DEF Reminded, Delivers
<1>4. ASSUME reminder[c][k].status # "DELIVERED"
      PROVE  Reminded(g, c, k).status = "DELIVERED" <=> Delivers(g, c, k)
  BY <1>4 DEF Reminded
<1> QED BY <1>1, <1>2, <1>3, <1>4

LEMMA CenterStepTells ==
  ASSUME NotifiedAreDelivered, [CenterNext]_centerVars, NEW c \in Cycles, NEW k \in Kinds
  PROVE  /\ reminder[c][k].status = "DELIVERED" => reminder'[c][k] = reminder[c][k]
         /\ reminder'[c][k].status = "DELIVERED" <=> <<c, k>> \in notified'
<1>1. reminder[c][k].status = "DELIVERED" <=> <<c, k>> \in notified
  BY DEF NotifiedAreDelivered
<1>2. CASE reminder' = reminder /\ notified' = notified
  BY <1>1, <1>2
<1>3. CASE \E g \in Generators : WriteReminders(g)
  BY <1>1, <1>3, RemindersWritten
<1> QED BY <1>2, <1>3, OnlyGenerationReminds DEF centerVars

\* However many instances and people generate reminders from renewals read at any
\* time before, each is delivered once, with its notification (generateReminders).
THEOREM RemindedOnce == CenterSpec => DeliveredOnce
<1>1. CenterInit => NotifiedAreDelivered
  BY DEF CenterInit, NotifiedAreDelivered, NoReminder
<1>2. NotifiedAreDelivered /\ [CenterNext]_centerVars => NotifiedAreDelivered'
  BY CenterStepTells DEF NotifiedAreDelivered
<1>3. NotifiedAreDelivered /\ [CenterNext]_centerVars =>
        [\A c \in Cycles, k \in Kinds :
           /\ reminder[c][k].status = "DELIVERED" => reminder'[c][k] = reminder[c][k]
           /\ reminder'[c][k].status = "DELIVERED" <=> <<c, k>> \in notified']_centerVars
  BY CenterStepTells
<1> QED BY <1>1, <1>2, <1>3, PTL DEF CenterSpec, DeliveredOnce
=============================================================================
