--------------------------- MODULE SalesPayments ---------------------------
(***************************************************************************)
(* Sales, their payments and the tracked stock they consume: what          *)
(* SalesService and PaymentsService commit.  Every handler is one          *)
(* PostgreSQL transaction that takes FOR UPDATE locks on the rows its      *)
(* decision reads, so it is one action.  The exception is the creation of  *)
(* a payment, which reads the sale without a lock: it is two actions.      *)
(*                                                                         *)
(* Left out here: subscriptions and renewals (module Billing adds them to  *)
(* the same handlers), the stage of the opportunity a sale closes, and the *)
(* audit, activity and outbox rows each transaction also writes.           *)
(***************************************************************************)
EXTENDS Integers, FiniteSets

CONSTANTS
  Sales,       \* rows of "Sale"
  Payments,    \* rows of "Payment"
  Products,    \* rows of "Product" a sale line may name
  Requests,    \* POST /sales/:id/payments requests, client retries included
  Keys,        \* idempotency keys a client may send
  Methods,     \* payment methods, each with its own commission
  Fees,        \* commission tables: functions from a gross amount to its fee
  MaxAmount,   \* greatest amount a DECIMAL(18,2) column holds, in cents
  MaxQuantity, \* greatest quantity of a sale line
  MaxStock,    \* bound on the stock the catalog operator loads
  NoKey, NoSale, NoPayment

Amount   == 0..MaxAmount
Quantity == 0..MaxQuantity

ASSUME AmountAssumption ==
  /\ MaxAmount \in Nat
  /\ MaxQuantity \in Nat
  /\ MaxStock \in Nat
ASSUME FeesAssumption == Fees \subseteq [Amount -> Nat]
ASSUME RowsAssumption ==
  /\ IsFiniteSet(Payments)
  /\ Methods # {}
  /\ NoSale \notin Sales
  /\ NoPayment \notin Payments
  /\ NoKey \notin Keys

VARIABLES
  sale,     \* the Sale row of each id
  payment,  \* the Payment row of each id
  stock,    \* Product.stockQuantity (stockReserved is written by no code: 0)
  tracked,  \* Product.stockTrackingEnabled of a product that is not deleted
  moved,    \* sum of the ProductStockMovement deltas that name each sale
  fee,      \* PaymentFeeConfig in force for each method
  request   \* progress of each payment-creation request

moneyVars == <<payment, fee, request>>
stockVars == <<stock, tracked, moved>>
vars      == <<sale, payment, stock, tracked, moved, fee, request>>

SaleStatus    == {"NONE", "DRAFT", "PENDING", "CONFIRMED", "FULFILLED", "CANCELLED"}
PaymentStatus == {"NONE", "PENDING", "CONFIRMED", "FAILED", "REFUNDED"}
Cart          == [Products -> Quantity]

SaleRow == [st : SaleStatus, deleted : BOOLEAN, total : Amount,
            cart : Cart, paidNow : BOOLEAN]

PaymentRow == [st : PaymentStatus, deleted : BOOLEAN, sale : Sales \cup {NoSale},
               gross : Amount, net : Amount, refunded : Amount,
               method : Methods, key : Keys \cup {NoKey}]

RequestState == [pc : {"idle", "insert", "answered", "conflict"},
                 sale : Sales \cup {NoSale}, gross : Amount, net : Amount,
                 method : Methods, key : Keys \cup {NoKey},
                 answer : Payments \cup {NoPayment}]

TypeOK ==
  /\ sale \in [Sales -> SaleRow]
  /\ payment \in [Payments -> PaymentRow]
  /\ stock \in [Products -> Nat]
  /\ tracked \in [Products -> BOOLEAN]
  /\ moved \in [Sales -> [Products -> Int]]
  /\ fee \in [Methods -> Fees]
  /\ request \in [Requests -> RequestState]

----------------------------------------------------------------------------
(* What the handlers compute from the rows.                                *)

Live(s)     == sale[s].st # "NONE" /\ ~sale[s].deleted
Billable(s) == Live(s) /\ sale[s].st \in {"CONFIRMED", "FULFILLED"}

Exists(p)  == payment[p].st # "NONE" /\ ~payment[p].deleted
Settled(p) == Exists(p) /\ payment[p].st \in {"CONFIRMED", "REFUNDED"}
Held(p)    == payment[p].net - payment[p].refunded

\* SUM(netAmount) - SUM(refundedAmount) over the settled payments of a sale,
\* by counting the cents they hold.
Cents(s) == {c \in Payments \X (1..MaxAmount) :
               /\ Settled(c[1])
               /\ payment[c[1]].sale = s
               /\ c[2] <= Held(c[1])}
NetPaid(s) == Cardinality(Cents(s))

Balance(s) == sale[s].total - NetPaid(s)

----------------------------------------------------------------------------
(* Tracked stock.                                                          *)

StockCovers(cart) == \A x \in Products : tracked[x] => cart[x] <= stock[x]

\* Adds sign * cart to the stock of the tracked products and records the
\* movement rows under sale s.
MoveStock(s, cart, sign) ==
  LET delta == [x \in Products |-> IF tracked[x] THEN sign * cart[x] ELSE 0]
  IN  /\ stock' = [x \in Products |-> stock[x] + delta[x]]
      /\ moved' = [moved EXCEPT ![s] = [x \in Products |-> @[x] + delta[x]]]
      /\ UNCHANGED tracked

\* ProductsService.adjustStock, and the stock a product is created with.
AdjustStock(x, quantity) ==
  /\ quantity # stock[x]
  /\ stock' = [stock EXCEPT ![x] = quantity]
  /\ UNCHANGED <<sale, tracked, moved>> /\ UNCHANGED moneyVars

\* ProductsService.update switches tracking on and off.
SetTracked(x) ==
  /\ tracked' = [tracked EXCEPT ![x] = ~@]
  /\ UNCHANGED <<sale, stock, moved>> /\ UNCHANGED moneyVars

----------------------------------------------------------------------------
(* Sales.                                                                  *)

NewSale(s, st, total, cart, paidNow) ==
  /\ sale[s].st = "NONE"
  /\ sale' = [sale EXCEPT ![s] = [st |-> st, deleted |-> FALSE, total |-> total,
                                  cart |-> cart, paidNow |-> paidNow]]

\* createConfirmedPayment: gross is checked against the balance, and the
\* CHECK constraint of the table refuses a fee above gross.
SettleWithSale(s, total, p, gross, m) ==
  /\ payment[p].st = "NONE"
  /\ gross <= total - NetPaid(s)
  /\ fee[m][gross] <= gross
  /\ payment' = [payment EXCEPT ![p] =
       [st |-> "CONFIRMED", deleted |-> FALSE, sale |-> s, gross |-> gross,
        net |-> gross - fee[m][gross], refunded |-> 0, method |-> m, key |-> NoKey]]

\* POST /sales, POST /sales/from-opportunity and the conversion of a trial.
CreateDraft(s, total, cart, paidNow) ==
  /\ NewSale(s, "DRAFT", total, cart, paidNow)
  /\ UNCHANGED moneyVars /\ UNCHANGED stockVars

\* POST /sales with confirm = true: the sale is born CONFIRMED ...
CreateConfirmed(s, total, cart) ==
  /\ NewSale(s, "CONFIRMED", total, cart, FALSE)
  /\ StockCovers(cart)
  /\ MoveStock(s, cart, -1)
  /\ UNCHANGED moneyVars

\* ... and with paidNow = true also paid, in the same transaction.
CreatePaid(s, total, cart, p, gross, m) ==
  /\ NewSale(s, "CONFIRMED", total, cart, TRUE)
  /\ StockCovers(cart)
  /\ MoveStock(s, cart, -1)
  /\ SettleWithSale(s, total, p, gross, m)
  /\ UNCHANGED <<fee, request>>

\* Mutant of UpdateDraft: a confirmed sale may still change its amounts.
UpdateAnyOpen(s, total, paidNow) ==
  /\ Live(s)
  /\ sale[s].st \in {"DRAFT", "PENDING", "CONFIRMED"}
  /\ sale' = [sale EXCEPT ![s].total = total, ![s].paidNow = paidNow]
  /\ UNCHANGED moneyVars /\ UNCHANGED stockVars

\* PATCH /sales/:id before confirmation.  After it the amounts are immutable:
\* the operational branch of the handler changes nothing kept here.
UpdateDraft(s, total, paidNow) ==
  /\ Live(s)
  /\ sale[s].st \in {"DRAFT", "PENDING"}
  /\ sale' = [sale EXCEPT ![s].total = total, ![s].paidNow = paidNow]
  /\ UNCHANGED moneyVars /\ UNCHANGED stockVars

Confirm(s) ==
  /\ Live(s)
  /\ sale[s].st \in {"DRAFT", "PENDING"}
  /\ StockCovers(sale[s].cart)
  /\ MoveStock(s, sale[s].cart, -1)
  /\ sale' = [sale EXCEPT ![s].st = "CONFIRMED"]

ConfirmUnpaid(s) ==
  /\ ~sale[s].paidNow
  /\ Confirm(s)
  /\ UNCHANGED moneyVars

\* With a payment in the request body, or with paidNow (gross = total).
ConfirmPaid(s, p, gross, m) ==
  /\ Confirm(s)
  /\ SettleWithSale(s, sale[s].total, p, gross, m)
  /\ UNCHANGED <<fee, request>>

Fulfill(s) ==
  /\ Live(s)
  /\ sale[s].st = "CONFIRMED"
  /\ sale' = [sale EXCEPT ![s].st = "FULFILLED"]
  /\ UNCHANGED moneyVars /\ UNCHANGED stockVars

\* Mutant of Cancel: it does not ask whether the sale was paid.
CancelPaid(s) ==
  /\ Live(s)
  /\ sale[s].st \notin {"FULFILLED", "CANCELLED"}
  /\ sale' = [sale EXCEPT ![s].st = "CANCELLED"]
  /\ UNCHANGED moneyVars /\ UNCHANGED stockVars

\* Stock that the confirmation consumed is not returned.
Cancel(s) ==
  /\ Live(s)
  /\ sale[s].st \notin {"FULFILLED", "CANCELLED"}
  /\ NetPaid(s) <= 0
  /\ sale' = [sale EXCEPT ![s].st = "CANCELLED"]
  /\ UNCHANGED moneyVars /\ UNCHANGED stockVars

\* The payments DELETE /sales/:id soft-deletes with the sale.
DiscardUnsettled(s) ==
  payment' = [p \in Payments |->
    IF payment[p].sale = s /\ Exists(p) /\ payment[p].st \in {"PENDING", "FAILED"}
      THEN [payment[p] EXCEPT !.deleted = TRUE]
      ELSE payment[p]]

Remove(s) ==
  /\ Live(s)
  /\ NetPaid(s) <= 0
  /\ IF sale[s].st \in {"CONFIRMED", "FULFILLED"}
       THEN MoveStock(s, sale[s].cart, 1)
       ELSE UNCHANGED stockVars
  /\ DiscardUnsettled(s)
  /\ sale' = [sale EXCEPT ![s].st = "CANCELLED", ![s].deleted = TRUE]
  /\ UNCHANGED <<fee, request>>

\* RenewalsService.pay writes the sale and its payment itself: full amount,
\* no commission, and no stock movement.
CreateRenewalSale(s, total, cart, p, m) ==
  /\ NewSale(s, "CONFIRMED", total, cart, FALSE)
  /\ payment[p].st = "NONE"
  /\ payment' = [payment EXCEPT ![p] =
       [st |-> "CONFIRMED", deleted |-> FALSE, sale |-> s, gross |-> total,
        net |-> total, refunded |-> 0, method |-> m, key |-> NoKey]]
  /\ UNCHANGED <<fee, request>> /\ UNCHANGED stockVars

----------------------------------------------------------------------------
(* Payments.                                                               *)

\* CommissionsService.update.
SetFee(m, table) ==
  /\ fee' = [fee EXCEPT ![m] = table]
  /\ UNCHANGED <<sale, payment, request>> /\ UNCHANGED stockVars

\* The stored fingerprint is a hash of sale, gross, fee and method.
SameFingerprint(p, q) ==
  /\ payment[p].sale = q.sale
  /\ payment[p].gross = q.gross
  /\ payment[p].net = q.net
  /\ payment[p].method = q.method

\* The unique index on (organizationId, idempotencyKey) ignores deletedAt.
KeyHolders(k) == IF k = NoKey THEN {}
                 ELSE {p \in Payments : payment[p].st # "NONE" /\ payment[p].key = k}

\* The answer to request q when payment p already holds its key.
Reuse(p, q) == IF SameFingerprint(p, q)
                 THEN [q EXCEPT !.pc = "answered", !.answer = p]
                 ELSE [q EXCEPT !.pc = "conflict"]

\* PaymentsService.create up to the idempotency lookup: the commission and
\* the sale are read without a lock.
SubmitPayment(r, s, gross, m, k) ==
  LET q == [pc |-> "insert", sale |-> s, gross |-> gross,
            net |-> gross - fee[m][gross], method |-> m, key |-> k,
            answer |-> NoPayment]
  IN  /\ request[r].pc = "idle"
      /\ fee[m][gross] <= gross
      /\ Billable(s)
      /\ \/ /\ KeyHolders(k) = {}
            /\ request' = [request EXCEPT ![r] = q]
         \/ \E p \in KeyHolders(k) : request' = [request EXCEPT ![r] = Reuse(p, q)]
      /\ UNCHANGED <<sale, payment, fee>> /\ UNCHANGED stockVars

\* Mutant of InsertPayment: the index on the key is not unique.
InsertAnyway(r, p) ==
  LET q == request[r]
  IN  /\ q.pc = "insert"
      /\ payment[p].st = "NONE"
      /\ payment' = [payment EXCEPT ![p] =
           [st |-> "PENDING", deleted |-> FALSE, sale |-> q.sale, gross |-> q.gross,
            net |-> q.net, refunded |-> 0, method |-> q.method, key |-> q.key]]
      /\ request' = [request EXCEPT ![r].pc = "answered", ![r].answer = p]
      /\ UNCHANGED <<sale, fee>> /\ UNCHANGED stockVars

\* The INSERT and commit of PaymentsService.create ...
InsertPayment(r, p) ==
  LET q == request[r]
  IN  /\ q.pc = "insert"
      /\ KeyHolders(q.key) = {}
      /\ payment[p].st = "NONE"
      /\ payment' = [payment EXCEPT ![p] =
           [st |-> "PENDING", deleted |-> FALSE, sale |-> q.sale, gross |-> q.gross,
            net |-> q.net, refunded |-> 0, method |-> q.method, key |-> q.key]]
      /\ request' = [request EXCEPT ![r].pc = "answered", ![r].answer = p]
      /\ UNCHANGED <<sale, fee>> /\ UNCHANGED stockVars

\* ... or its recovery when the unique index refuses the key (P2002).
RecoverPayment(r) ==
  /\ request[r].pc = "insert"
  /\ \E p \in KeyHolders(request[r].key) :
       request' = [request EXCEPT ![r] = Reuse(p, request[r])]
  /\ UNCHANGED <<sale, payment, fee>> /\ UNCHANGED stockVars

\* Mutant of ConfirmPayment: it does not compare with the balance.
ConfirmUnchecked(p) ==
  /\ Exists(p)
  /\ payment[p].sale \in Sales /\ Billable(payment[p].sale)
  /\ payment[p].st = "PENDING"
  /\ payment' = [payment EXCEPT ![p].st = "CONFIRMED"]
  /\ UNCHANGED <<sale, fee, request>> /\ UNCHANGED stockVars

ConfirmPayment(p) ==
  LET s == payment[p].sale
  IN  /\ Exists(p)
      /\ s \in Sales /\ Billable(s)
      /\ payment[p].st = "PENDING"
      /\ payment[p].net <= Balance(s)
      /\ payment' = [payment EXCEPT ![p].st = "CONFIRMED"]
      /\ UNCHANGED <<sale, fee, request>> /\ UNCHANGED stockVars

FailPayment(p) ==
  /\ Exists(p)
  /\ payment[p].sale \in Sales /\ Live(payment[p].sale)
  /\ payment[p].st = "PENDING"
  /\ payment' = [payment EXCEPT ![p].st = "FAILED"]
  /\ UNCHANGED <<sale, fee, request>> /\ UNCHANGED stockVars

RefundPayment(p, amount) ==
  /\ Settled(p)
  /\ payment[p].sale \in Sales /\ Live(payment[p].sale)
  /\ amount <= Held(p)
  /\ payment' = [payment EXCEPT ![p].st = "REFUNDED", ![p].refunded = @ + amount]
  /\ UNCHANGED <<sale, fee, request>> /\ UNCHANGED stockVars

----------------------------------------------------------------------------
NoSaleRow    == [st |-> "NONE", deleted |-> FALSE, total |-> 0,
                 cart |-> [x \in Products |-> 0], paidNow |-> FALSE]
AnyMethod    == CHOOSE m \in Methods : TRUE
NoPaymentRow == [st |-> "NONE", deleted |-> FALSE, sale |-> NoSale, gross |-> 0,
                 net |-> 0, refunded |-> 0, method |-> AnyMethod, key |-> NoKey]
IdleRequest  == [pc |-> "idle", sale |-> NoSale, gross |-> 0, net |-> 0,
                 method |-> AnyMethod, key |-> NoKey, answer |-> NoPayment]

Init ==
  /\ sale = [s \in Sales |-> NoSaleRow]
  /\ payment = [p \in Payments |-> NoPaymentRow]
  /\ stock \in [Products -> 0..MaxStock]
  /\ tracked \in [Products -> BOOLEAN]
  /\ moved = [s \in Sales |-> [x \in Products |-> 0]]
  /\ fee \in [Methods -> Fees]
  /\ request = [r \in Requests |-> IdleRequest]

SaleStep ==
  \E s \in Sales :
    \/ \E total \in Amount, cart \in Cart :
         \/ \E paidNow \in BOOLEAN : CreateDraft(s, total, cart, paidNow)
         \/ CreateConfirmed(s, total, cart)
         \/ \E p \in Payments, m \in Methods :
              \/ \E gross \in 1..MaxAmount : CreatePaid(s, total, cart, p, gross, m)
              \/ CreateRenewalSale(s, total, cart, p, m)
    \/ \E total \in Amount, paidNow \in BOOLEAN : UpdateDraft(s, total, paidNow)
    \/ ConfirmUnpaid(s)
    \/ \E p \in Payments, gross \in 1..MaxAmount, m \in Methods : ConfirmPaid(s, p, gross, m)
    \/ Fulfill(s)
    \/ Cancel(s)
    \/ Remove(s)

PaymentStep ==
  \/ \E r \in Requests :
       \/ \E s \in Sales, gross \in 1..MaxAmount, m \in Methods, k \in Keys \cup {NoKey} :
            SubmitPayment(r, s, gross, m, k)
       \/ \E p \in Payments : InsertPayment(r, p)
       \/ RecoverPayment(r)
  \/ \E p \in Payments :
       \/ ConfirmPayment(p)
       \/ FailPayment(p)
       \/ \E amount \in 1..MaxAmount : RefundPayment(p, amount)

CatalogStep ==
  \/ \E x \in Products : SetTracked(x) \/ \E quantity \in 0..MaxStock : AdjustStock(x, quantity)
  \/ \E m \in Methods, table \in Fees : SetFee(m, table)

Next == SaleStep \/ PaymentStep \/ CatalogStep

Spec == Init /\ [][Next]_vars

----------------------------------------------------------------------------
(* Correctness.                                                            *)

NotOverpaid   == \A s \in Sales : NetPaid(s) <= sale[s].total
RefundsWithin == \A p \in Payments : payment[p].st # "NONE" => payment[p].refunded <= payment[p].net

\* The money a sale holds, net of fees and refunds, never exceeds its total:
\* no mix of concurrent confirmations, payments taken with the sale, refunds
\* and draft edits overpays it (payments.confirm, createConfirmedPayment), nor
\* do refunds return more than a payment brought.
PaidWithinTotal == NotOverpaid /\ RefundsWithin

\* Only a live CONFIRMED or FULFILLED sale holds money: cancellation and
\* removal, racing with confirmations of payments, never strand any.
MoneyOnlyOnBillable == \A s \in Sales : NetPaid(s) > 0 => Billable(s)

\* Retried and concurrent requests with one idempotency key create one
\* payment, and those that are not refused all get that payment, with the
\* content they asked for (lookup before the insert, P2002 after it).
IdempotentCreation ==
  \A r \in Requests : LET q == request[r] IN
    q.pc = "answered" =>
      /\ payment[q.answer].key = q.key
      /\ SameFingerprint(q.answer, q)
      /\ q.key # NoKey => KeyHolders(q.key) = {q.answer}

\* While a sale holds money its amounts are frozen and it stays billable.
PaidSaleFrozen ==
  [][\A s \in Sales : NetPaid(s) > 0 =>
       /\ sale'[s].total = sale[s].total
       /\ sale'[s].cart = sale[s].cart
       /\ Billable(s)']_vars

\* The history of a settled payment only grows: it stays settled, its
\* amounts stay, and what was refunded is never taken back.
SettlementIsFinal ==
  [][\A p \in Payments : Settled(p) =>
       /\ Settled(p)'
       /\ payment'[p].net = payment[p].net
       /\ payment'[p].refunded >= payment[p].refunded]_vars

----------------------------------------------------------------------------
(* What documents and screens say of the program.                          *)

\* docs/payments.md: a payment is created only while its sale is CONFIRMED
\* or FULFILLED.
CreatedOnBillableSale ==
  [][\A p \in Payments :
       payment[p].st = "NONE" /\ payment'[p].st # "NONE" =>
         \E s \in Sales : payment'[p].sale = s /\ Billable(s)']_vars

\* The removal dialog: the stock the sale discounted is given back, and no
\* more than that.
RemovalReturnsTaken == \A s \in Sales, x \in Products : sale[s].deleted => moved[s][x] = 0
============================================================================
