---------------------------- MODULE PipelineBoard ----------------------------
(***************************************************************************)
(* The board of the pipeline and the cards on it: who may edit a card, the *)
(* edit that reads it outside its transaction and writes the merge of what *)
(* it read, the responsible that a seller claims, the interest with its    *)
(* history, and the pages of a column while cards come and go.  Opportun-  *)
(* ities has the states, the follow-ups and the sale of a card.            *)
(***************************************************************************)
EXTENDS Integers, Sequences, FiniteSets, FiniteSetsExt, Functions

CONSTANTS
  Cards,            \* "Opportunity", in the order of (createdAt, id)
  Columns, Closing, \* "PipelineStage", and those that are not open
  Bosses, Hands,    \* users of the roles Owner and Admin, and Sales
  Classes, Goods, ClassOf,  \* "ProductCategory" and "Product" with its category
  Nothing,          \* null
  PageSize,
  TrailEnd          \* bound on the rows of each history of a card

ASSUME PipelineBoardAssumption ==
  /\ Cards \subseteq Nat /\ IsFiniteSet(Cards) /\ IsFiniteSet(Columns)
  /\ Closing \subseteq Columns /\ Bosses \cap Hands = {}
  /\ Nothing \notin Cards \cup Columns \cup Bosses \cup Hands \cup Classes \cup Goods
  /\ ClassOf \in [Goods -> Classes \cup {Nothing}]
  /\ PageSize \in Nat \ {0} /\ TrailEnd \in Nat

VARIABLES
  card,       \* the rows of "Opportunity"
  columns,         \* the columns that are active
  trail,      \* of each card, the activities "Responsable actualizado"
  interests,  \* of each card, the rows of "OpportunityInterestHistory"
  edit,       \* of each user, the card of a request and the row it read
  reader      \* one that pages through a column

boardVars == <<card, columns, trail, interests, edit, reader>>

Users == Bosses \cup Hands
NoCard == [stage |-> Nothing, archived |-> FALSE, owner |-> Nothing, good |-> Nothing, class |-> Nothing,
           amount |-> FALSE, coin |-> Nothing]
NoEdit == [card |-> 0, was |-> NoCard]

\* stage: of the column; cursor: the last card of the page before; seen: the cards shown,
\* and twice: more than once; stayed: those there since the first page.
NoReader == [stage |-> Nothing, cursor |-> Nothing, seen |-> {}, twice |-> {}, stayed |-> {}]

OnBoard(o) == card[o].stage # Nothing

----------------------------------------------------------------------------
(* Who may.                                                                *)

canMutate(u, owner) == u \in Bosses \/ owner \in {Nothing, u}
canAssign(u, owner, to) == u \in Bosses \/ (to = u /\ owner = Nothing) \/ to = owner

\* The pair to write, none when it is refused.  A product gives its category to one
\* without; without an amount there is no currency.
resolveInterest(class, good) ==
  LET own == IF good = Nothing THEN Nothing ELSE ClassOf[good]
  IN IF class # Nothing /\ own # Nothing /\ class # own THEN {}
     ELSE {[class |-> IF class = Nothing THEN own ELSE class, good |-> good]}
normalizeMoney(amount, coin) ==
  IF ~amount THEN {[amount |-> FALSE, coin |-> Nothing]}
  ELSE IF coin = Nothing THEN {} ELSE {[amount |-> TRUE, coin |-> coin]}

----------------------------------------------------------------------------
\* Those who page on have a card in their column while it is not moved, nor archived.
Staying(rows) == [reader EXCEPT !.stayed = {o \in @ : rows[o].stage = reader.stage /\ ~rows[o].archived}]
PutCards(rows) == card' = rows /\ reader' = Staying(rows)

\* Cards get their place in the order when they are created; a seller takes his own.
CreateCard(u, owner, s, class, good) ==
  \E o \in Cards, i \in resolveInterest(class, good) :
    /\ ~OnBoard(o) /\ \A p \in Cards : p < o => OnBoard(p)
    /\ s \in columns \ Closing
    /\ u \in Hands => owner = u
    /\ PutCards([card EXCEPT ![o] = [NoCard EXCEPT !.stage = s, !.owner = owner, !.class = i.class, !.good = i.good]])
    /\ interests' = IF i = [class |-> Nothing, good |-> Nothing] THEN interests
                    ELSE [interests EXCEPT ![o] = <<i>>]
    /\ UNCHANGED <<columns, trail, edit>>

\* update and assign, outside the transaction: what it may do is asked of this row.
ReadCard(u, o) ==
  /\ edit[u] = NoEdit
  /\ OnBoard(o) /\ ~card[o].archived
  /\ canMutate(u, card[o].owner)
  /\ edit' = [edit EXCEPT ![u] = [card |-> o, was |-> card[o]]]
  /\ UNCHANGED <<card, columns, trail, interests, reader>>

\* A row with some of its fields written over.
Over(new, row) == [f \in DOMAIN row |-> IF f \in DOMAIN new THEN new[f] ELSE row[f]]

\* asked: the fields of the request.  The interest is resolved over what was read, and
\* only the fields asked for are written; the money is written whole.
UpdateCard(u, asked) ==
  LET o == edit[u].card
      was == edit[u].was
      want == Over(asked, was)
      wrote == DOMAIN asked \cap {"class", "good"}
  IN /\ edit[u] # NoEdit
     /\ \E i \in resolveInterest(want.class, want.good), m \in normalizeMoney(want.amount, want.coin) :
          LET changed == wrote # {} /\ i # [class |-> was.class, good |-> was.good]
          IN /\ PutCards([card EXCEPT ![o] = Over([f \in wrote |-> i[f]], Over(m, @))])
             /\ changed => Len(interests[o]) < TrailEnd
             /\ interests' = IF changed THEN [interests EXCEPT ![o] = Append(@, i)] ELSE interests
     /\ edit' = [edit EXCEPT ![u] = NoEdit]
     /\ UNCHANGED <<columns, trail>>

AssignCard(u, to) ==
  LET o == edit[u].card
      owner == edit[u].was.owner
  IN /\ edit[u] # NoEdit
     /\ to # owner /\ canAssign(u, owner, to)
     /\ Len(trail[o]) < TrailEnd
     /\ PutCards([card EXCEPT ![o].owner = to])
     /\ trail' = [trail EXCEPT ![o] = Append(@, [by |-> u, from |-> owner, to |-> to])]
     /\ edit' = [edit EXCEPT ![u] = NoEdit]
     /\ UNCHANGED <<columns, interests>>

\* Not allowed, nothing to do, a failure or a crash.
DropEdit(u) ==
  /\ edit[u] # NoEdit
  /\ edit' = [edit EXCEPT ![u] = NoEdit]
  /\ UNCHANGED <<card, columns, trail, interests, reader>>

PlaceCard(o, s) ==
  /\ OnBoard(o) /\ ~card[o].archived
  /\ s \in columns
  /\ PutCards([card EXCEPT ![o].stage = s])
  /\ UNCHANGED <<columns, trail, interests, edit>>

\* To another column, but a closed card does not become open by a move.
MoveCard(o, s) ==
  /\ s # card[o].stage
  /\ card[o].stage \in Closing => s \in Closing
  /\ PlaceCard(o, s)

\* Opportunities has the sale that stops it.
ReopenCard(o, s) ==
  /\ card[o].stage \in Closing /\ s \notin Closing
  /\ PlaceCard(o, s)

\* Archived, or restored whatever became of its column.
ArchiveCard(o, archived) ==
  /\ OnBoard(o) /\ card[o].archived # archived
  /\ PutCards([card EXCEPT ![o].archived = archived])
  /\ UNCHANGED <<columns, trail, interests, edit>>

\* A column with cards that are not archived stays, and so does the last of its kind.
ArchiveColumn(s) ==
  /\ s \in columns
  /\ \A o \in Cards : card[o].stage = s => card[o].archived
  /\ \E r \in columns \ {s} : r \in Closing <=> s \in Closing
  /\ columns' = columns \ {s}
  /\ UNCHANGED <<card, trail, interests, edit, reader>>

RestoreColumn(s) == s \notin columns /\ columns' = columns \cup {s} /\ UNCHANGED <<card, trail, interests, edit, reader>>

----------------------------------------------------------------------------
(* Lists.                                                                  *)

buildListWhere(archived) == {o \in Cards : OnBoard(o) /\ card[o].archived = archived}
InColumn(s) == {o \in buildListWhere(FALSE) : card[o].stage = s}

\* The newest, from the cursor on; one more is read to know of a next page.
Below(s, cursor) == {o \in InColumn(s) : cursor # Nothing => o < cursor}
pipelinePage(s, cursor) ==
  LET rows == Below(s, cursor)
      data == {o \in rows : Cardinality({p \in rows : p > o}) < PageSize}
  IN [data |-> data, nextCursor |-> IF Cardinality(rows) > PageSize THEN Min(data) ELSE Nothing]

getPipeline(cursor) == [s \in columns |-> pipelinePage(s, cursor)]

\* Counted by column and currency, whether archived or not, also of columns that are not
\* active; the columns shown are those that are.
groupSummary == [k \in Columns \X {card[o].coin : o \in Cards} |->
                   Cardinality({o \in Cards : card[o].stage = k[1] /\ card[o].coin = k[2]})]
SumOfRows(rows, ks) == SumFunctionOnSet(rows, ks)
getPipelineSummary ==
  LET groups == groupSummary
  IN [perColumn |-> [s \in columns |-> SumOfRows(groups, {k \in DOMAIN groups : k[1] = s})],
      totals |-> [coin \in {k[2] : k \in DOMAIN groups} |->
                    SumOfRows(groups, {k \in DOMAIN groups : k[2] = coin})]]

\* A card in full: whether it is archived comes before the kind of its column.
opportunityStatus(o) ==
  IF card[o].archived THEN "ARCHIVED" ELSE IF card[o].stage \in Closing THEN "CLOSED" ELSE "OPEN"

\* getStageOpportunities, page by page, of a column that is still active.
ReadPage(s) ==
  LET page == pipelinePage(s, reader.cursor)
  IN /\ s \in columns
     /\ reader.stage = Nothing \/ (reader.stage = s /\ reader.cursor # Nothing)
     /\ reader' = [stage |-> s, cursor |-> page.nextCursor, seen |-> reader.seen \cup page.data,
                   twice |-> reader.twice \cup (reader.seen \cap page.data),
                   stayed |-> IF reader.stage = Nothing THEN InColumn(s) ELSE reader.stayed]
     /\ UNCHANGED <<card, columns, trail, interests, edit>>
CloseColumn ==
  /\ reader # NoReader
  /\ reader' = NoReader
  /\ UNCHANGED <<card, columns, trail, interests, edit>>

PipelineBoardInit ==
  /\ card = [o \in Cards |-> NoCard] /\ columns = Columns
  /\ trail = [o \in Cards |-> <<>>] /\ interests = [o \in Cards |-> <<>>]
  /\ edit = [u \in Users |-> NoEdit] /\ reader = NoReader

\* The fields a request names, with what it says of each.
AskedOf(fields, class, good, amount, coin) ==
  [f \in fields |-> [class |-> class, good |-> good, amount |-> amount, coin |-> coin][f]]

EditStep ==
  \E class \in Classes \cup {Nothing}, good \in Goods \cup {Nothing} :
    \/ \E u \in Users, owner \in Users \cup {Nothing}, s \in Columns : CreateCard(u, owner, s, class, good)
    \/ \E u \in Users, amount \in BOOLEAN, coin \in {"local", "USD", Nothing},
          fields \in SUBSET {"class", "good", "amount", "coin"} :
         UpdateCard(u, AskedOf(fields, class, good, amount, coin))

PipelineBoardNext ==
  \/ EditStep
  \/ \E u \in Users : \/ DropEdit(u) \/ \E o \in Cards : ReadCard(u, o)
                      \/ \E to \in Users \cup {Nothing} : AssignCard(u, to)
  \/ \E o \in Cards : \/ \E s \in Columns : MoveCard(o, s) \/ ReopenCard(o, s)
                      \/ \E archived \in BOOLEAN : ArchiveCard(o, archived)
  \/ \E s \in Columns : ArchiveColumn(s) \/ RestoreColumn(s) \/ ReadPage(s)
  \/ CloseColumn

PipelineBoardSpec == PipelineBoardInit /\ [][PipelineBoardNext]_boardVars

----------------------------------------------------------------------------
(* Correctness.                                                            *)

ReaderDone == reader.stage # Nothing /\ reader.cursor = Nothing

\* However edits interleave, a card has an amount with a currency or neither; the
\* activities tell its responsible, and that a seller only ever took cards for himself;
\* and its history has only interests of which the product is of the category.
CardsAreTold ==
  \A o \in Cards :
    /\ card[o].amount <=> card[o].coin # Nothing
    /\ trail[o] # <<>> => card[o].owner = trail[o][Len(trail[o])].to
    /\ \A i \in DOMAIN trail[o] :
         trail[o][i].by \in Hands => trail[o][i].to = trail[o][i].by /\ trail[o][i].from = Nothing
    /\ \A i \in DOMAIN interests[o] : resolveInterest(interests[o][i].class, interests[o][i].good) = {interests[o][i]}

\* The board tells what there is, however edits and pages interleave: a card is in one
\* list; what a column shows is in the list, and the summary counts no less; one who
\* pages through a column sees each card that stayed in it, and none twice; and what
\* is told of each card is so.
BoardIsWhole ==
  /\ buildListWhere(TRUE) \cap buildListWhere(FALSE) = {}
  /\ LET board == getPipeline(Nothing)
         summary == getPipelineSummary
     IN /\ \A s \in columns : board[s].data \subseteq InColumn(s) /\ Cardinality(InColumn(s)) <= summary.perColumn[s]
        /\ \A s, r \in columns : s # r => board[s].data \cap board[r].data = {}
        /\ SumOfRows(summary.totals, DOMAIN summary.totals) =
             Cardinality(buildListWhere(TRUE)) + Cardinality(buildListWhere(FALSE))
  /\ reader.twice = {}
  /\ ReaderDone => reader.stayed \subseteq reader.seen
  /\ CardsAreTold

\* Does not hold: what the summary counts in a column is what is there
\* (docs/pipeline.md: "conteos y montos agrupados por etapa"); it counts archived cards.
SummaryCountsTheColumn == \A s \in columns : getPipelineSummary.perColumn[s] = Cardinality(InColumn(s))

\* Does not hold: a card that is not archived is on the board (docs/pipeline.md: "No se
\* permite archivar una etapa con oportunidades activas"); one restored after its
\* column was archived is not.
LiveIsOnBoard == \A o \in buildListWhere(FALSE) : card[o].stage \in columns

\* Does not hold: the product of a card is of its category; two edits that each saw the
\* other field empty write both.
InterestFits == \A o \in Cards : resolveInterest(card[o].class, card[o].good) # {}

\* Does not hold: the last interest in the history is that of the card; the category
\* that a product brings is in the history only.
HistoryTellsInterest ==
  \A o \in Cards : interests[o] # <<>> =>
    interests[o][Len(interests[o])] = [class |-> card[o].class, good |-> card[o].good]

\* Does not hold: a card is claimed once (docs/opportunities.md: "Sales solo puede
\* modificar oportunidades sin responsable o asignadas a sí mismo"); the second seller
\* who read it free takes it from the first.
ClaimedOnce ==
  \A o \in Cards : \A i \in 1 .. Len(trail[o]) - 1 : trail[o][i + 1].from = trail[o][i].to
=============================================================================
