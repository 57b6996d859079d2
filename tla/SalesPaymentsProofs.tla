------------------------ MODULE SalesPaymentsProofs ------------------------
(***************************************************************************)
(* Proofs about SalesPayments, for every set of rows and every bound.      *)
(*                                                                         *)
(* The money a sale holds is the number of cents in Cents(s).  A step can  *)
(* add cents of one payment at most (GainLemma) or none (NoGainLemma), and *)
(* the inductive invariant is MoneyInv: the types, the bound by the total, *)
(* and MoneyOnlyOnBillable, without which a draft could be repriced, or a  *)
(* row reused, under money it already holds.                               *)
(***************************************************************************)
EXTENDS SalesPayments, FiniteSetTheorems, TLAPS

USE DEF Amount, Quantity

MoneyInv == TypeOK /\ NotOverpaid /\ MoneyOnlyOnBillable

----------------------------------------------------------------------------
(* Counting cents.                                                         *)

\* The cents a sale holds are finitely many.
LEMMA CentsFinite ==
  ASSUME NEW s
  PROVE  IsFiniteSet(Cents(s)) /\ NetPaid(s) \in Nat
<1>1. IsFiniteSet(1..MaxAmount)
  BY FS_Interval, AmountAssumption
<1>2. IsFiniteSet(Payments \X (1..MaxAmount))
  BY <1>1, FS_Product, RowsAssumption
<1>3. Cents(s) \subseteq Payments \X (1..MaxAmount)
  BY DEF Cents
<1> QED
  BY <1>2, <1>3, FS_Subset, FS_CardinalityType DEF NetPaid

\* A payment of n cents is n cents.
LEMMA CentsOfOne ==
  ASSUME NEW p, NEW n \in Amount
  PROVE  IsFiniteSet({p} \X (1..n)) /\ Cardinality({p} \X (1..n)) = n
<1>1. n \in Nat
  BY AmountAssumption
<1>2. IsFiniteSet({p}) /\ Cardinality({p}) = 1
  BY FS_Singleton
<1>3. IsFiniteSet(1..n) /\ Cardinality(1..n) = n
  BY <1>1, FS_Interval
<1>4. IsFiniteSet({p} \X (1..n))
      /\ Cardinality({p} \X (1..n)) = Cardinality({p}) * Cardinality(1..n)
  BY <1>2, <1>3, FS_Product, Zenon
<1> QED
  BY <1>1, <1>2, <1>3, <1>4

\* Payment p gives sale s no cent in this step that it did not give before.
Kept(p, s) ==
  Settled(p)' /\ payment'[p].sale = s =>
    Settled(p) /\ payment[p].sale = s /\ Held(p)' <= Held(p)

\* A step in which no payment gains cents does not raise what a sale holds.
LEMMA NoGainLemma ==
  ASSUME TypeOK, TypeOK', NEW s, \A p \in Payments : Kept(p, s)
  PROVE  NetPaid(s)' <= NetPaid(s) /\ NetPaid(s) \in Nat /\ NetPaid(s)' \in Nat
<1>1. ASSUME NEW p \in Payments
      PROVE  Held(p) \in Int /\ Held(p)' \in Int
  BY AmountAssumption DEF TypeOK, PaymentRow, Held
<1>2. Cents(s)' \subseteq Cents(s)
  BY <1>1 DEF Cents, Kept
<1>3. IsFiniteSet(Cents(s)) /\ NetPaid(s) \in Nat
  BY CentsFinite
<1>4. Cardinality(Cents(s)') <= Cardinality(Cents(s)) /\ IsFiniteSet(Cents(s)')
  BY <1>2, <1>3, FS_Subset
<1>5. Cardinality(Cents(s)') \in Nat
  BY <1>4, FS_CardinalityType
<1> QED
  BY <1>3, <1>4, <1>5 DEF NetPaid

\* A step in which payment q alone gains cents raises it by n at most.
LEMMA GainLemma ==
  ASSUME TypeOK, TypeOK', NEW s, NEW q \in Payments, NEW n \in Amount,
         Held(q)' <= n,
         \A p \in Payments \ {q} : Kept(p, s)
  PROVE  NetPaid(s)' <= NetPaid(s) + n /\ NetPaid(s) \in Nat /\ NetPaid(s)' \in Nat
<1>1. ASSUME NEW p \in Payments
      PROVE  Held(p) \in Int /\ Held(p)' \in Int
  BY AmountAssumption DEF TypeOK, PaymentRow, Held
<1> DEFINE G == {q} \X (1..n)
           U == Cents(s) \cup G
<1>2. Cents(s)' \subseteq U
  <2> SUFFICES ASSUME NEW c \in Cents(s)', c \notin Cents(s)
               PROVE  c \in G
    OBVIOUS
  <2>1. c \in Payments \X (1..MaxAmount) /\ Settled(c[1])'
        /\ payment'[c[1]].sale = s /\ c[2] <= Held(c[1])'
    BY DEF Cents
  <2>2. c[1] = q
    <3> SUFFICES ASSUME c[1] # q PROVE FALSE
      OBVIOUS
    <3>1. Kept(c[1], s)
      BY <2>1
    <3>2. Settled(c[1]) /\ payment[c[1]].sale = s /\ Held(c[1])' <= Held(c[1])
      BY <3>1, <2>1 DEF Kept
    <3>3. c[2] <= Held(c[1])
      BY <3>2, <2>1, <1>1
    <3> QED
      BY <3>2, <3>3, <2>1 DEF Cents
  <2>3. c[2] \in 1..n
    BY <2>1, <2>2, <1>1, AmountAssumption
  <2> QED
    BY <2>1, <2>2, <2>3
<1>3. IsFiniteSet(Cents(s)) /\ NetPaid(s) \in Nat
  BY CentsFinite
<1>4. IsFiniteSet(G) /\ Cardinality(G) = n
  BY CentsOfOne
<1>5. IsFiniteSet(U) /\ Cardinality(U) = Cardinality(Cents(s)) + n - Cardinality(Cents(s) \cap G)
  BY <1>3, <1>4, FS_Union
<1>6. Cardinality(Cents(s) \cap G) \in Nat
  BY <1>3, FS_Intersection, FS_CardinalityType
<1>7. Cardinality(Cents(s)') <= Cardinality(U) /\ IsFiniteSet(Cents(s)')
  BY <1>2, <1>5, FS_Subset
<1>8. Cardinality(Cents(s)') \in Nat /\ Cardinality(U) \in Nat
  BY <1>5, <1>7, FS_CardinalityType
<1> QED
  BY <1>3, <1>5, <1>6, <1>7, <1>8, AmountAssumption DEF NetPaid

----------------------------------------------------------------------------
(* Types.                                                                  *)

LEMMA InitTypes == Init => TypeOK
<1> SUFFICES ASSUME Init PROVE TypeOK
  OBVIOUS
<1>1. AnyMethod \in Methods
  BY RowsAssumption DEF AnyMethod
<1>2. NoSaleRow \in SaleRow
  BY AmountAssumption DEF NoSaleRow, SaleRow, SaleStatus, Cart
<1>3. NoPaymentRow \in PaymentRow
  BY <1>1, AmountAssumption DEF NoPaymentRow, PaymentRow, PaymentStatus
<1>4. IdleRequest \in RequestState
  BY <1>1, AmountAssumption DEF IdleRequest, RequestState
<1> QED
  BY <1>2, <1>3, <1>4, AmountAssumption DEF Init, TypeOK

\* Stock and its ledger keep their types when a sale takes or returns its cart.
LEMMA MoveStockTypes ==
  ASSUME TypeOK, NEW s \in Sales, NEW cart \in Cart,
         \/ MoveStock(s, cart, 1)
         \/ MoveStock(s, cart, -1) /\ StockCovers(cart)
  PROVE  /\ stock' \in [Products -> Nat]
         /\ tracked' \in [Products -> BOOLEAN]
         /\ moved' \in [Sales -> [Products -> Int]]
<1>1. ASSUME NEW x \in Products PROVE cart[x] \in Nat /\ stock[x] \in Nat
  BY AmountAssumption DEF TypeOK, Cart
<1>2. CASE MoveStock(s, cart, 1)
  BY <1>1, <1>2 DEF MoveStock, TypeOK
<1>3. CASE MoveStock(s, cart, -1) /\ StockCovers(cart)
  BY <1>1, <1>3 DEF MoveStock, TypeOK, StockCovers
<1> QED
  BY <1>2, <1>3

LEMMA NewSaleTypes ==
  ASSUME TypeOK, NEW s \in Sales, NEW st \in SaleStatus, NEW total \in Amount,
         NEW cart \in Cart, NEW paidNow \in BOOLEAN, NewSale(s, st, total, cart, paidNow)
  PROVE  sale' \in [Sales -> SaleRow]
BY DEF NewSale, TypeOK, SaleRow

LEMMA SettleTypes ==
  ASSUME TypeOK, NEW s \in Sales, NEW total \in Amount, NEW p \in Payments,
         NEW gross \in 1..MaxAmount, NEW m \in Methods, SettleWithSale(s, total, p, gross, m)
  PROVE  /\ payment' \in [Payments -> PaymentRow]
         /\ gross - fee[m][gross] \in Amount /\ gross - fee[m][gross] <= gross
<1>1. gross \in Amount /\ fee[m][gross] \in Nat
  BY AmountAssumption, FeesAssumption DEF TypeOK
<1>2. gross - fee[m][gross] \in Amount /\ gross - fee[m][gross] <= gross
  BY <1>1, AmountAssumption DEF SettleWithSale
<1> QED
  BY <1>1, <1>2, AmountAssumption DEF SettleWithSale, TypeOK, PaymentRow, PaymentStatus

LEMMA ReuseTypes ==
  ASSUME NEW p \in Payments, NEW q \in RequestState
  PROVE  Reuse(p, q) \in RequestState
BY DEF Reuse, RequestState

LEMMA StepTypes == TypeOK /\ [Next]_vars => TypeOK'
<1> SUFFICES ASSUME TypeOK, [Next]_vars PROVE TypeOK'
  OBVIOUS
<1> USE DEF moneyVars, stockVars
<1>1. CASE UNCHANGED vars
  BY <1>1 DEF TypeOK, vars
<1>2. ASSUME NEW s \in Sales, NEW total \in Amount, NEW cart \in Cart,
             NEW paidNow \in BOOLEAN, CreateDraft(s, total, cart, paidNow)
      PROVE  TypeOK'
  BY <1>2, NewSaleTypes DEF CreateDraft, TypeOK, SaleStatus
<1>3. ASSUME NEW s \in Sales, NEW total \in Amount, NEW cart \in Cart,
             CreateConfirmed(s, total, cart)
      PROVE  TypeOK'
  <2>1. sale' \in [Sales -> SaleRow]
    BY <1>3, NewSaleTypes DEF CreateConfirmed, SaleStatus
  <2> QED
    BY <1>3, <2>1, MoveStockTypes DEF CreateConfirmed, TypeOK
<1>4. ASSUME NEW s \in Sales, NEW total \in Amount, NEW cart \in Cart, NEW p \in Payments,
             NEW gross \in 1..MaxAmount, NEW m \in Methods,
             CreatePaid(s, total, cart, p, gross, m)
      PROVE  TypeOK'
  <2>1. sale' \in [Sales -> SaleRow]
    BY <1>4, NewSaleTypes DEF CreatePaid, SaleStatus
  <2>2. payment' \in [Payments -> PaymentRow]
    BY <1>4, SettleTypes DEF CreatePaid
  <2> QED
    BY <1>4, <2>1, <2>2, MoveStockTypes DEF CreatePaid, TypeOK
<1>5. ASSUME NEW s \in Sales, NEW total \in Amount, NEW cart \in Cart, NEW p \in Payments,
             NEW m \in Methods, CreateRenewalSale(s, total, cart, p, m)
      PROVE  TypeOK'
  <2>1. sale' \in [Sales -> SaleRow]
    BY <1>5, NewSaleTypes DEF CreateRenewalSale, SaleStatus
  <2>2. payment' \in [Payments -> PaymentRow]
    BY <1>5, AmountAssumption DEF CreateRenewalSale, TypeOK, PaymentRow, PaymentStatus
  <2> QED
    BY <1>5, <2>1, <2>2 DEF CreateRenewalSale, TypeOK
<1>6. ASSUME NEW s \in Sales, NEW total \in Amount, NEW paidNow \in BOOLEAN,
             UpdateDraft(s, total, paidNow)
      PROVE  TypeOK'
  BY <1>6 DEF UpdateDraft, TypeOK, SaleRow
<1>7. ASSUME NEW s \in Sales, Confirm(s)
      PROVE  /\ sale' \in [Sales -> SaleRow]
             /\ stock' \in [Products -> Nat]
             /\ tracked' \in [Products -> BOOLEAN]
             /\ moved' \in [Sales -> [Products -> Int]]
  <2>1. sale[s].cart \in Cart
    BY DEF TypeOK, SaleRow
  <2>2. sale' \in [Sales -> SaleRow]
    BY <1>7 DEF Confirm, TypeOK, SaleRow, SaleStatus
  <2> QED
    BY <1>7, <2>1, <2>2, MoveStockTypes DEF Confirm
<1>8. ASSUME NEW s \in Sales, ConfirmUnpaid(s)
      PROVE  TypeOK'
  BY <1>7, <1>8 DEF ConfirmUnpaid, TypeOK
<1>9. ASSUME NEW s \in Sales, NEW p \in Payments, NEW gross \in 1..MaxAmount,
             NEW m \in Methods, ConfirmPaid(s, p, gross, m)
      PROVE  TypeOK'
  <2>1. sale[s].total \in Amount
    BY DEF TypeOK, SaleRow
  <2>2. payment' \in [Payments -> PaymentRow]
    BY <1>9, <2>1, SettleTypes DEF ConfirmPaid
  <2> QED
    BY <1>7, <1>9, <2>2 DEF ConfirmPaid, TypeOK
<1>10. ASSUME NEW s \in Sales, Fulfill(s) \/ Cancel(s)
       PROVE  TypeOK'
  <2>1. PICK st \in SaleStatus : sale' = [sale EXCEPT ![s].st = st]
    BY <1>10 DEF Fulfill, Cancel, SaleStatus
  <2>2. sale' \in [Sales -> SaleRow]
    BY <2>1 DEF TypeOK, SaleRow
  <2> QED
    BY <1>10, <2>2 DEF Fulfill, Cancel, TypeOK
<1>11. ASSUME NEW s \in Sales, Remove(s)
       PROVE  TypeOK'
  <2>1. sale[s].cart \in Cart
    BY DEF TypeOK, SaleRow
  <2>2. sale' \in [Sales -> SaleRow]
    <3>1. sale' = [sale EXCEPT ![s].st = "CANCELLED", ![s].deleted = TRUE]
      BY <1>11 DEF Remove
    <3>2. "CANCELLED" \in SaleStatus
      BY DEF SaleStatus
    <3> QED
      BY <3>1, <3>2 DEF TypeOK, SaleRow
  <2>3. payment' \in [Payments -> PaymentRow]
    <3>1. DiscardUnsettled(s)
      BY <1>11 DEF Remove
    <3>2. ASSUME NEW p \in Payments
          PROVE  payment[p] \in PaymentRow /\ [payment[p] EXCEPT !.deleted = TRUE] \in PaymentRow
      BY DEF TypeOK, PaymentRow
    <3> QED
      BY <3>1, <3>2 DEF DiscardUnsettled
  <2>4. /\ stock' \in [Products -> Nat]
        /\ tracked' \in [Products -> BOOLEAN]
        /\ moved' \in [Sales -> [Products -> Int]]
    BY <1>11, <2>1, MoveStockTypes DEF Remove, TypeOK
  <2> QED
    BY <1>11, <2>2, <2>3, <2>4 DEF Remove, TypeOK
<1>12. ASSUME NEW r \in Requests, NEW s \in Sales, NEW gross \in 1..MaxAmount,
              NEW m \in Methods, NEW k \in Keys \cup {NoKey}, SubmitPayment(r, s, gross, m, k)
       PROVE  TypeOK'
  <2> DEFINE q == [pc |-> "insert", sale |-> s, gross |-> gross,
                   net |-> gross - fee[m][gross], method |-> m, key |-> k,
                   answer |-> NoPayment]
  <2>1. gross \in Amount /\ fee[m][gross] \in Nat
    BY AmountAssumption, FeesAssumption DEF TypeOK
  <2>2. gross - fee[m][gross] \in Amount
    BY <1>12, <2>1, AmountAssumption DEF SubmitPayment
  <2>3. q \in RequestState
    BY <2>1, <2>2 DEF RequestState
  <2>4. ASSUME NEW p \in KeyHolders(k) PROVE Reuse(p, q) \in RequestState
    BY <2>3, ReuseTypes DEF KeyHolders
  <2>5. request' \in [Requests -> RequestState]
    <3> HIDE DEF q
    <3>1. \/ request' = [request EXCEPT ![r] = q]
          \/ \E p \in KeyHolders(k) : request' = [request EXCEPT ![r] = Reuse(p, q)]
      BY <1>12, Zenon DEF SubmitPayment, q
    <3> QED
      BY <3>1, <2>3, <2>4 DEF TypeOK
  <2> QED
    BY <1>12, <2>5 DEF SubmitPayment, TypeOK
<1>13. ASSUME NEW r \in Requests, NEW p \in Payments, InsertPayment(r, p)
       PROVE  TypeOK'
  <2>1. request[r] \in RequestState
    BY DEF TypeOK
  <2>2. payment' \in [Payments -> PaymentRow]
    BY <1>13, <2>1, AmountAssumption
    DEF InsertPayment, TypeOK, PaymentRow, PaymentStatus, RequestState
  <2>3. request' \in [Requests -> RequestState]
    BY <1>13, <2>1 DEF InsertPayment, TypeOK, RequestState
  <2> QED
    BY <1>13, <2>2, <2>3 DEF InsertPayment, TypeOK
<1>14. ASSUME NEW r \in Requests, RecoverPayment(r)
       PROVE  TypeOK'
  <2>1. PICK p \in Payments : request' = [request EXCEPT ![r] = Reuse(p, request[r])]
    BY <1>14 DEF RecoverPayment, KeyHolders
  <2>2. Reuse(p, request[r]) \in RequestState
    BY ReuseTypes DEF TypeOK
  <2> QED
    BY <1>14, <2>1, <2>2 DEF RecoverPayment, TypeOK
<1>15. ASSUME NEW p \in Payments, ConfirmPayment(p) \/ FailPayment(p)
       PROVE  TypeOK'
  <2>1. PICK st \in PaymentStatus : payment' = [payment EXCEPT ![p].st = st]
    BY <1>15 DEF ConfirmPayment, FailPayment, PaymentStatus
  <2>2. payment' \in [Payments -> PaymentRow]
    BY <2>1 DEF TypeOK, PaymentRow
  <2> QED
    BY <1>15, <2>2 DEF ConfirmPayment, FailPayment, TypeOK
<1>16. ASSUME NEW p \in Payments, NEW amount \in 1..MaxAmount, RefundPayment(p, amount)
       PROVE  TypeOK'
  <2>1. payment[p].refunded + amount \in Amount
    BY <1>16, AmountAssumption DEF RefundPayment, Held, TypeOK, PaymentRow
  <2> QED
    BY <1>16, <2>1 DEF RefundPayment, TypeOK, PaymentRow, PaymentStatus
<1>17. ASSUME CatalogStep
       PROVE  TypeOK'
  <2>1. ASSUME NEW x \in Products, SetTracked(x) PROVE TypeOK'
    BY <2>1 DEF SetTracked, TypeOK
  <2>2. ASSUME NEW x \in Products, NEW quantity \in 0..MaxStock, AdjustStock(x, quantity)
        PROVE  TypeOK'
    <3>1. quantity \in Nat
      BY AmountAssumption
    <3> QED
      BY <2>2, <3>1 DEF AdjustStock, TypeOK
  <2>3. ASSUME NEW m \in Methods, NEW table \in Fees, SetFee(m, table) PROVE TypeOK'
    BY <2>3 DEF SetFee, TypeOK
  <2> QED
    BY <1>17, <2>1, <2>2, <2>3 DEF CatalogStep
<1> QED
  BY <1>1, <1>2, <1>3, <1>4, <1>5, <1>6, <1>8, <1>9, <1>10, <1>11, <1>12, <1>13, <1>14,
     <1>15, <1>16, <1>17 DEF Next, SaleStep, PaymentStep

\* Every reachable state has the types of the schema: no negative stock, no
\* amount out of the range of its column.
THEOREM TypesHold == Spec => []TypeOK
<1> QED
  BY InitTypes, StepTypes, PTL DEF Spec

----------------------------------------------------------------------------
(* Money.                                                                  *)

\* What PaidSaleFrozen asks of one sale in one step.
Frozen(s) == NetPaid(s) > 0 => /\ sale'[s].total = sale[s].total
                               /\ sale'[s].cart = sale[s].cart
                               /\ Billable(s)'

\* What a step may do to the table of sales.
LEMMA StepWritesSale ==
  ASSUME [Next]_vars
  PROVE  \/ sale' = sale
         \/ \E s \in Sales :
              \/ \E st, total, cart, paidNow : NewSale(s, st, total, cart, paidNow)
              \/ \E total, paidNow : UpdateDraft(s, total, paidNow)
              \/ Confirm(s) \/ Fulfill(s) \/ Cancel(s) \/ Remove(s)
<1> USE DEF moneyVars, stockVars
<1>1. ASSUME SaleStep
      PROVE  \E s \in Sales :
               \/ \E st, total, cart, paidNow : NewSale(s, st, total, cart, paidNow)
               \/ \E total, paidNow : UpdateDraft(s, total, paidNow)
               \/ Confirm(s) \/ Fulfill(s) \/ Cancel(s) \/ Remove(s)
  <2>1. PICK s \in Sales :
          \/ \E total \in Amount, cart \in Cart :
               \/ \E paidNow \in BOOLEAN : CreateDraft(s, total, cart, paidNow)
               \/ CreateConfirmed(s, total, cart)
               \/ \E p \in Payments, m \in Methods :
                    \/ \E gross \in 1..MaxAmount : CreatePaid(s, total, cart, p, gross, m)
                    \/ CreateRenewalSale(s, total, cart, p, m)
          \/ \E total \in Amount, paidNow \in BOOLEAN : UpdateDraft(s, total, paidNow)
          \/ ConfirmUnpaid(s)
          \/ \E p \in Payments, gross \in 1..MaxAmount, m \in Methods : ConfirmPaid(s, p, gross, m)
          \/ Fulfill(s) \/ Cancel(s) \/ Remove(s)
    BY <1>1, Zenon DEF SaleStep
  <2>2. \/ \E st, total, cart, paidNow : NewSale(s, st, total, cart, paidNow)
        \/ \E total, paidNow : UpdateDraft(s, total, paidNow)
        \/ Confirm(s) \/ Fulfill(s) \/ Cancel(s) \/ Remove(s)
    BY <2>1, Zenon
    DEF CreateDraft, CreateConfirmed, CreatePaid, CreateRenewalSale, ConfirmUnpaid, ConfirmPaid
  <2> QED
    BY <2>2, Zenon
<1>2. ASSUME PaymentStep PROVE sale' = sale
  <2>1. ASSUME NEW r, NEW s, NEW gross, NEW m, NEW k, SubmitPayment(r, s, gross, m, k)
        PROVE  sale' = sale
    BY <2>1 DEF SubmitPayment
  <2>2. ASSUME NEW r, NEW p, InsertPayment(r, p) PROVE sale' = sale
    BY <2>2 DEF InsertPayment
  <2>3. ASSUME NEW p, NEW amount,
               ConfirmPayment(p) \/ FailPayment(p) \/ RefundPayment(p, amount)
        PROVE  sale' = sale
    BY <2>3 DEF ConfirmPayment, FailPayment, RefundPayment
  <2> QED
    BY <1>2, <2>1, <2>2, <2>3, Zenon DEF PaymentStep, RecoverPayment
<1>3. ASSUME CatalogStep PROVE sale' = sale
  BY <1>3 DEF CatalogStep, SetTracked, AdjustStock, SetFee
<1> QED
  BY <1>1, <1>2, <1>3, Zenon DEF Next, vars

LEMMA StepFrozen ==
  ASSUME MoneyInv, [Next]_vars, NEW t \in Sales
  PROVE  Frozen(t)
<1> USE DEF moneyVars, stockVars
<1> SUFFICES ASSUME NetPaid(t) > 0
             PROVE  /\ sale'[t].total = sale[t].total
                    /\ sale'[t].cart = sale[t].cart
                    /\ Billable(t)'
  BY DEF Frozen
<1>1. Billable(t) /\ ~(NetPaid(t) <= 0)
  BY CentsFinite DEF MoneyInv, MoneyOnlyOnBillable
<1>2. sale \in [Sales -> SaleRow]
  BY DEF MoneyInv, TypeOK
<1>3. CASE sale' = sale
  BY <1>1, <1>3 DEF Billable, Live
<1>4. ASSUME NEW s \in Sales, NEW st, NEW total, NEW cart, NEW paidNow,
             NewSale(s, st, total, cart, paidNow)
      PROVE  sale'[t] = sale[t]
  BY <1>1, <1>2, <1>4 DEF NewSale, Billable, Live
<1>5. ASSUME NEW s \in Sales, NEW total, NEW paidNow, UpdateDraft(s, total, paidNow)
      PROVE  sale'[t] = sale[t]
  BY <1>1, <1>2, <1>5 DEF UpdateDraft, Billable, Live
<1>6. ASSUME NEW s \in Sales, Confirm(s)
      PROVE  sale'[t] = sale[t]
  BY <1>1, <1>2, <1>6 DEF Confirm, Billable, Live
<1>7. ASSUME NEW s \in Sales, Fulfill(s)
      PROVE  /\ sale'[t].total = sale[t].total
             /\ sale'[t].cart = sale[t].cart
             /\ Billable(t)'
  BY <1>1, <1>2, <1>7 DEF Fulfill, Billable, Live, SaleRow
<1>8. ASSUME NEW s \in Sales, Cancel(s) \/ Remove(s)
      PROVE  sale'[t] = sale[t]
  <2>1. s # t
    BY <1>1, <1>8 DEF Cancel, Remove
  <2> QED
    BY <1>2, <1>8, <2>1 DEF Cancel, Remove
<1>9. CASE sale'[t] = sale[t]
  BY <1>1, <1>9 DEF Billable, Live
<1> QED
  BY <1>3, <1>4, <1>5, <1>6, <1>7, <1>8, <1>9, StepWritesSale, Zenon

\* A step that adds no cent preserves the invariant ...
LEMMA NoGainStep ==
  ASSUME MoneyInv, TypeOK', \A t \in Sales : Frozen(t),
         \A t \in Sales, p \in Payments : Kept(p, t)
  PROVE  MoneyInv'
<1> SUFFICES ASSUME NEW t \in Sales
             PROVE  /\ NetPaid(t)' <= sale'[t].total
                    /\ NetPaid(t)' > 0 => Billable(t)'
  BY DEF MoneyInv, NotOverpaid, MoneyOnlyOnBillable
<1>1. NetPaid(t)' <= NetPaid(t) /\ NetPaid(t) \in Nat /\ NetPaid(t)' \in Nat
  BY NoGainLemma DEF MoneyInv
<1>2. sale[t].total \in Nat /\ sale'[t].total \in Nat /\ NetPaid(t) <= sale[t].total
  BY AmountAssumption DEF MoneyInv, NotOverpaid, TypeOK, SaleRow
<1> QED
  BY <1>1, <1>2 DEF Frozen

\* ... and so does one that adds at most n cents, all of payment q, to a
\* billable sale s whose total leaves room for them.
LEMMA GainStep ==
  ASSUME MoneyInv, TypeOK', \A t \in Sales : Frozen(t),
         NEW s \in Sales, NEW q \in Payments, NEW n \in Amount, Held(q)' <= n,
         \A t \in Sales, p \in Payments : p # q \/ t # s => Kept(p, t),
         Billable(s)', NetPaid(s) + n <= sale'[s].total
  PROVE  MoneyInv'
<1> SUFFICES ASSUME NEW t \in Sales
             PROVE  /\ NetPaid(t)' <= sale'[t].total
                    /\ NetPaid(t)' > 0 => Billable(t)'
  BY DEF MoneyInv, NotOverpaid, MoneyOnlyOnBillable
<1>1. sale[t].total \in Nat /\ sale'[t].total \in Nat /\ NetPaid(t) <= sale[t].total
  BY AmountAssumption DEF MoneyInv, NotOverpaid, TypeOK, SaleRow
<1>2. CASE t = s
  <2>1. NetPaid(s)' <= NetPaid(s) + n /\ NetPaid(s) \in Nat /\ NetPaid(s)' \in Nat
    BY GainLemma DEF MoneyInv
  <2> QED
    BY <1>1, <1>2, <2>1, AmountAssumption
<1>3. CASE t # s
  <2>1. NetPaid(t)' <= NetPaid(t) /\ NetPaid(t) \in Nat /\ NetPaid(t)' \in Nat
    BY <1>3, NoGainLemma DEF MoneyInv
  <2> QED
    BY <1>1, <2>1 DEF Frozen
<1> QED
  BY <1>2, <1>3

\* A row of payment is written for sale s: the others keep their cents, and
\* its own go to no other sale.
LEMMA WriteKeeps ==
  ASSUME TypeOK, NEW s, NEW q \in Payments, NEW row,
         payment' = [payment EXCEPT ![q] = row], row.sale = s,
         NEW t, NEW p \in Payments, p # q \/ t # s
  PROVE  Kept(p, t)
<1>1. payment \in [Payments -> PaymentRow]
  BY DEF TypeOK
<1>2. CASE p # q
  <2>1. payment'[p] = payment[p]
    BY <1>1, <1>2
  <2>2. Held(p) \in Int /\ Held(p)' = Held(p)
    BY <1>1, <2>1, AmountAssumption DEF Held, PaymentRow
  <2> QED
    BY <2>1, <2>2 DEF Kept, Settled, Exists
<1>3. CASE p = q /\ t # s
  <2>1. payment'[p].sale = s
    BY <1>1, <1>3
  <2> QED
    BY <1>3, <2>1 DEF Kept
<1> QED
  BY <1>2, <1>3

\* Nothing of the payments changes.
LEMMA SameKeeps ==
  ASSUME TypeOK, payment' = payment, NEW p \in Payments, NEW t
  PROVE  Kept(p, t)
<1>1. Held(p) \in Int /\ Held(p)' = Held(p)
  BY AmountAssumption DEF TypeOK, PaymentRow, Held
<1> QED
  BY <1>1 DEF Kept, Settled, Exists

\* A payment confirmed together with its sale.
LEMMA SettleMoney ==
  ASSUME MoneyInv, TypeOK', \A t \in Sales : Frozen(t),
         NEW s \in Sales, NEW total \in Amount, NEW p \in Payments,
         NEW gross \in 1..MaxAmount, NEW m \in Methods,
         SettleWithSale(s, total, p, gross, m),
         Billable(s)', sale'[s].total = total
  PROVE  MoneyInv'
<1> DEFINE n == gross - fee[m][gross]
           row == [st |-> "CONFIRMED", deleted |-> FALSE, sale |-> s, gross |-> gross,
                   net |-> n, refunded |-> 0, method |-> m, key |-> NoKey]
<1>1. TypeOK
  BY DEF MoneyInv
<1>2. n \in Amount /\ n <= gross
  BY <1>1, SettleTypes
<1>3. payment' = [payment EXCEPT ![p] = row] /\ gross <= total - NetPaid(s)
  BY Zenon DEF SettleWithSale
<1>4. \A t \in Sales, q \in Payments : q # p \/ t # s => Kept(q, t)
  <2>1. row.sale = s
    OBVIOUS
  <2> HIDE DEF row
  <2> QED
    BY <1>1, <1>3, <2>1, WriteKeeps
<1>5. Held(p)' <= n
  BY <1>1, <1>2, <1>3, AmountAssumption DEF Held, TypeOK
<1>6. NetPaid(s) + n <= sale'[s].total
  BY <1>2, <1>3, CentsFinite, AmountAssumption
<1> QED
  BY <1>2, <1>4, <1>5, <1>6, GainStep

LEMMA StepMoney == MoneyInv /\ [Next]_vars => MoneyInv'
<1> SUFFICES ASSUME MoneyInv, [Next]_vars PROVE MoneyInv'
  OBVIOUS
<1> USE DEF moneyVars, stockVars
<1>1. TypeOK /\ TypeOK'
  BY StepTypes DEF MoneyInv
<1>2. \A t \in Sales : Frozen(t)
  BY StepFrozen
<1>3. payment \in [Payments -> PaymentRow] /\ sale \in [Sales -> SaleRow]
  BY <1>1 DEF TypeOK
<1>4. CASE payment' = payment
  BY <1>1, <1>2, <1>4, SameKeeps, NoGainStep
<1>5. ASSUME NEW s \in Sales, NEW total \in Amount, NEW cart, NEW p \in Payments,
             NEW gross \in 1..MaxAmount, NEW m \in Methods,
             CreatePaid(s, total, cart, p, gross, m)
      PROVE  MoneyInv'
  <2>1. Billable(s)' /\ sale'[s].total = total
    BY <1>3, <1>5 DEF CreatePaid, NewSale, Billable, Live
  <2> QED
    BY <1>1, <1>2, <1>5, <2>1, SettleMoney DEF CreatePaid
<1>6. ASSUME NEW s \in Sales, NEW total \in Amount, NEW cart, NEW p \in Payments,
             NEW m \in Methods, CreateRenewalSale(s, total, cart, p, m)
      PROVE  MoneyInv'
  <2> DEFINE row == [st |-> "CONFIRMED", deleted |-> FALSE, sale |-> s, gross |-> total,
                     net |-> total, refunded |-> 0, method |-> m, key |-> NoKey]
  <2>1. Billable(s)' /\ sale'[s].total = total
    BY <1>3, <1>6 DEF CreateRenewalSale, NewSale, Billable, Live
  <2>2. payment' = [payment EXCEPT ![p] = row] /\ ~Billable(s)
    BY <1>6 DEF CreateRenewalSale, NewSale, Billable, Live
  <2>3. NetPaid(s) = 0
    BY <2>2, CentsFinite DEF MoneyInv, MoneyOnlyOnBillable
  <2>4. \A t \in Sales, q \in Payments : q # p \/ t # s => Kept(q, t)
    <3>1. row.sale = s
      OBVIOUS
    <3> HIDE DEF row
    <3> QED
      BY <1>1, <2>2, <3>1, WriteKeeps
  <2>5. Held(p)' <= total
    BY <1>3, <2>2, AmountAssumption DEF Held
  <2>6. NetPaid(s) + total <= sale'[s].total
    BY <2>1, <2>3, AmountAssumption
  <2> QED
    BY <1>1, <1>2, <2>1, <2>4, <2>5, <2>6, GainStep
<1>7. ASSUME NEW s \in Sales, NEW p \in Payments, NEW gross \in 1..MaxAmount,
             NEW m \in Methods, ConfirmPaid(s, p, gross, m)
      PROVE  MoneyInv'
  <2>1. sale[s].total \in Amount
    BY <1>3 DEF SaleRow
  <2>2. Billable(s)' /\ sale'[s].total = sale[s].total
    BY <1>3, <1>7 DEF ConfirmPaid, Confirm, Billable, Live
  <2> QED
    BY <1>1, <1>2, <1>7, <2>1, <2>2, SettleMoney DEF ConfirmPaid
<1>8. ASSUME NEW s \in Sales, Remove(s)
      PROVE  MoneyInv'
  <2>1. ASSUME NEW p \in Payments, NEW t PROVE Kept(p, t)
    <3>1. CASE payment'[p] = payment[p]
      <4>1. Held(p) \in Int /\ Held(p)' = Held(p)
        BY <1>3, <3>1, AmountAssumption DEF Held, PaymentRow
      <4> QED
        BY <3>1, <4>1 DEF Kept, Settled, Exists
    <3>2. CASE payment'[p] = [payment[p] EXCEPT !.deleted = TRUE]
      <4>1. payment'[p].deleted
        BY <1>3, <3>2 DEF PaymentRow
      <4> QED
        BY <4>1 DEF Kept, Settled, Exists
    <3> QED
      BY <1>8, <3>1, <3>2 DEF Remove, DiscardUnsettled
  <2> QED
    BY <1>1, <1>2, <2>1, NoGainStep
<1>9. ASSUME NEW p \in Payments,
             \/ \E r \in Requests : InsertPayment(r, p)
             \/ FailPayment(p)
      PROVE  MoneyInv'
  <2>1. ASSUME NEW q \in Payments, q # p PROVE payment'[q] = payment[q]
    BY <1>3, <1>9, <2>1 DEF InsertPayment, FailPayment
  <2>2. ~Settled(p)'
    <3>1. CASE FailPayment(p)
      BY <1>3, <3>1 DEF FailPayment, PaymentRow, Settled
    <3>2. ASSUME NEW r \in Requests, InsertPayment(r, p) PROVE ~Settled(p)'
      <4>1. payment'[p].st = "PENDING"
        BY <1>3, <3>2 DEF InsertPayment
      <4> QED
        BY <4>1 DEF Settled
    <3> QED
      BY <1>9, <3>1, <3>2
  <2>3. ASSUME NEW q \in Payments, NEW t PROVE Kept(q, t)
    <3>1. Held(q) \in Int
      BY <1>3, AmountAssumption DEF Held, PaymentRow
    <3> QED
      BY <2>1, <2>2, <3>1 DEF Kept, Settled, Exists, Held
  <2> QED
    BY <1>1, <1>2, <2>3, NoGainStep
<1>10. ASSUME NEW p \in Payments, ConfirmPayment(p)
       PROVE  MoneyInv'
  <2> DEFINE s == payment[p].sale
             row == [payment[p] EXCEPT !.st = "CONFIRMED"]
  <2>1. /\ s \in Sales /\ Billable(s) /\ payment[p].net <= Balance(s)
        /\ payment' = [payment EXCEPT ![p] = row] /\ sale' = sale
    BY <1>3, <1>10 DEF ConfirmPayment
  <2>2. row.sale = s /\ row.net = payment[p].net /\ row.refunded = payment[p].refunded
        /\ payment[p].net \in Amount /\ payment[p].refunded \in Nat
    BY <1>3, AmountAssumption DEF PaymentRow
  <2>3. \A t \in Sales, q \in Payments : q # p \/ t # s => Kept(q, t)
    BY <1>1, <2>1, <2>2, WriteKeeps
  <2>4. Held(p)' <= payment[p].net
    BY <1>3, <2>1, <2>2, AmountAssumption DEF Held
  <2>5. Billable(s)'
    BY <2>1 DEF Billable, Live
  <2>6. NetPaid(s) + payment[p].net <= sale'[s].total
    <3>1. sale[s].total \in Nat /\ NetPaid(s) \in Nat
      BY <1>3, <2>1, CentsFinite, AmountAssumption DEF SaleRow
    <3> QED
      BY <2>1, <2>2, <3>1, AmountAssumption DEF Balance
  <2> QED
    BY <1>1, <1>2, <2>1, <2>2, <2>3, <2>4, <2>5, <2>6, GainStep
<1>11. ASSUME NEW p \in Payments, NEW amount \in 1..MaxAmount, RefundPayment(p, amount)
       PROVE  MoneyInv'
  <2>1. ASSUME NEW q \in Payments, NEW t PROVE Kept(q, t)
    <3>1. CASE q # p
      <4>1. payment'[q] = payment[q]
        BY <1>3, <1>11, <3>1 DEF RefundPayment
      <4>2. Held(q) \in Int
        BY <1>3, AmountAssumption DEF Held, PaymentRow
      <4> QED
        BY <4>1, <4>2 DEF Kept, Settled, Exists, Held
    <3>2. CASE q = p
      <4>1. Settled(p) /\ payment'[p].sale = payment[p].sale
        BY <1>3, <1>11 DEF RefundPayment, PaymentRow
      <4>2. payment'[p].net = payment[p].net
            /\ payment'[p].refunded = payment[p].refunded + amount
        BY <1>3, <1>11 DEF RefundPayment, PaymentRow
      <4>3. Held(p)' <= Held(p)
        BY <1>3, <4>2, AmountAssumption DEF Held, PaymentRow
      <4> QED
        BY <3>2, <4>1, <4>3 DEF Kept
    <3> QED
      BY <3>1, <3>2
  <2> QED
    BY <1>1, <1>2, <2>1, NoGainStep
<1>12. CASE SaleStep
  <2>1. ASSUME NEW s \in Sales, NEW total, NEW cart, NEW paidNow,
               \/ CreateDraft(s, total, cart, paidNow)
               \/ CreateConfirmed(s, total, cart)
               \/ UpdateDraft(s, total, paidNow)
        PROVE  payment' = payment
    BY <2>1 DEF CreateDraft, CreateConfirmed, UpdateDraft
  <2>2. ASSUME NEW s \in Sales, ConfirmUnpaid(s) \/ Fulfill(s) \/ Cancel(s)
        PROVE  payment' = payment
    BY <2>2 DEF ConfirmUnpaid, Fulfill, Cancel
  <2> QED
    BY <1>4, <1>5, <1>6, <1>7, <1>8, <1>12, <2>1, <2>2, Zenon DEF SaleStep
<1>13. CASE PaymentStep
  <2>1. ASSUME NEW r, NEW s, NEW gross, NEW m, NEW k,
               SubmitPayment(r, s, gross, m, k) \/ RecoverPayment(r)
        PROVE  payment' = payment
    BY <2>1 DEF SubmitPayment, RecoverPayment
  <2> QED
    BY <1>4, <1>9, <1>10, <1>11, <1>13, <2>1, Zenon DEF PaymentStep
<1>14. CASE CatalogStep
  <2>1. payment' = payment
    BY <1>14 DEF CatalogStep, SetTracked, AdjustStock, SetFee
  <2> QED
    BY <2>1, <1>4
<1>15. CASE UNCHANGED vars
  BY <1>4, <1>15 DEF vars
<1> QED
  BY <1>12, <1>13, <1>14, <1>15 DEF Next

LEMMA InitMoney == Init => MoneyInv
<1> SUFFICES ASSUME Init PROVE MoneyInv
  OBVIOUS
<1>1. ASSUME NEW s \in Sales PROVE NetPaid(s) = 0 /\ sale[s].total = 0
  <2>1. Cents(s) = {}
    BY DEF Cents, Settled, Exists, Init, NoPaymentRow
  <2> QED
    BY <2>1, FS_EmptySet DEF NetPaid, Init, NoSaleRow
<1> QED
  BY <1>1, InitTypes DEF MoneyInv, NotOverpaid, MoneyOnlyOnBillable

\* The inductive invariant holds in every reachable state.
THEOREM MoneyInvariant == Spec => []MoneyInv
<1> QED
  BY InitMoney, StepMoney, PTL DEF Spec

\* Only live CONFIRMED and FULFILLED sales hold money: none is cancelled or
\* removed under it.
THEOREM NoStrandedMoney == Spec => []MoneyOnlyOnBillable
<1>1. MoneyInv => MoneyOnlyOnBillable
  BY DEF MoneyInv
<1> QED
  BY <1>1, MoneyInvariant, PTL

\* While a sale holds money its total and lines never change and it stays
\* billable.
THEOREM PaidSalesAreFrozen == Spec => PaidSaleFrozen
<1>1. MoneyInv /\ [Next]_vars =>
        [\A s \in Sales : NetPaid(s) > 0 =>
           /\ sale'[s].total = sale[s].total
           /\ sale'[s].cart = sale[s].cart
           /\ Billable(s)']_vars
  BY StepFrozen DEF Frozen
<1> QED
  BY <1>1, MoneyInvariant, PTL DEF Spec, PaidSaleFrozen
----------------------------------------------------------------------------
(* The history of a payment.                                               *)

\* What a step may do to the row of a payment once it exists.
RowKept(p) ==
  /\ payment'[p].st # "NONE"
  /\ payment'[p].sale = payment[p].sale
  /\ payment'[p].gross = payment[p].gross
  /\ payment'[p].net = payment[p].net
  /\ payment'[p].method = payment[p].method
  /\ payment'[p].key = payment[p].key
  /\ Settled(p) => Settled(p)' /\ payment'[p].refunded >= payment[p].refunded
  /\ payment[p].refunded <= payment[p].net => payment'[p].refunded <= payment'[p].net

\* A row is written where there was none.
Written(p, row) ==
  /\ payment[p].st = "NONE" /\ row.st # "NONE"
  /\ row.refunded <= row.net
  /\ payment' = [payment EXCEPT ![p] = row]

LEMMA WrittenKeeps ==
  ASSUME TypeOK, NEW p \in Payments, NEW row, Written(p, row)
  PROVE  \A o \in Payments : payment[o].st # "NONE" => RowKept(o)
<1> SUFFICES ASSUME NEW o \in Payments, payment[o].st # "NONE" PROVE RowKept(o)
  OBVIOUS
<1>1. payment'[o] = payment[o] /\ payment[o].refunded \in Nat
  BY AmountAssumption DEF Written, TypeOK, PaymentRow
<1> QED
  BY <1>1 DEF RowKept, Settled, Exists

LEMMA SettleWrites ==
  ASSUME TypeOK, NEW s \in Sales, NEW total \in Amount, NEW p \in Payments,
         NEW gross \in 1..MaxAmount, NEW m \in Methods, SettleWithSale(s, total, p, gross, m)
  PROVE  \E row : Written(p, row) /\ row.key = NoKey
<1> DEFINE row == [st |-> "CONFIRMED", deleted |-> FALSE, sale |-> s, gross |-> gross,
                   net |-> gross - fee[m][gross], refunded |-> 0, method |-> m, key |-> NoKey]
<1>1. row.st # "NONE" /\ row.key = NoKey
  OBVIOUS
<1>2. row.refunded <= row.net
  BY SettleTypes, AmountAssumption
<1>3. payment[p].st = "NONE" /\ payment' = [payment EXCEPT ![p] = row]
  BY DEF SettleWithSale
<1> QED
  BY <1>1, <1>2, <1>3 DEF Written

\* A step enters one payment, without a key or with one nobody holds, or none.
LEMMA PaymentSteps ==
  ASSUME TypeOK, [Next]_vars
  PROVE  \/ \A p \in Payments : (payment[p].st # "NONE" => RowKept(p))
                                /\ (payment[p].st = "NONE" => payment'[p].st = "NONE")
         \/ \E p \in Payments : \E row : Written(p, row) /\ KeyHolders(row.key) = {}
<1> DEFINE Entering == \E p \in Payments : \E row : Written(p, row) /\ KeyHolders(row.key) = {}
           Keeping == \A p \in Payments : (payment[p].st # "NONE" => RowKept(p))
                                          /\ (payment[p].st = "NONE" => payment'[p].st = "NONE")
<1>0. KeyHolders(NoKey) = {}
  BY DEF KeyHolders
<1>a. ASSUME UNCHANGED payment PROVE Keeping
  <2>1. \A p \in Payments : payment[p].refunded \in Nat
    BY AmountAssumption DEF TypeOK, PaymentRow
  <2> QED
    BY <1>a, <2>1 DEF RowKept, Settled, Exists
<1>1. CASE SaleStep
  <2>1. ASSUME NEW s \in Sales, NEW total \in Amount, NEW cart \in Cart, NEW p \in Payments, NEW m \in Methods,
               NEW gross \in 1..MaxAmount,
               \/ CreatePaid(s, total, cart, p, gross, m)
               \/ ConfirmPaid(s, p, gross, m)
        PROVE  Entering
    <3>1. sale[s].total \in Amount
      BY DEF TypeOK, SaleRow
    <3>2. \E sum \in Amount : SettleWithSale(s, sum, p, gross, m)
      BY <2>1, <3>1 DEF CreatePaid, ConfirmPaid
    <3>3. \E row : Written(p, row) /\ row.key = NoKey
      BY <3>2, SettleWrites
    <3> QED
      BY <1>0, <3>3
  <2>2. ASSUME NEW s \in Sales, NEW total \in Amount, NEW cart \in Cart, NEW p \in Payments, NEW m \in Methods,
               CreateRenewalSale(s, total, cart, p, m)
        PROVE  Entering
    <3> DEFINE row == [st |-> "CONFIRMED", deleted |-> FALSE, sale |-> s, gross |-> total,
                       net |-> total, refunded |-> 0, method |-> m, key |-> NoKey]
    <3>1. row.st # "NONE" /\ row.key = NoKey /\ Written(p, row)
      BY <2>2, AmountAssumption DEF CreateRenewalSale, Written
    <3> HIDE DEF row
    <3> QED
      BY <1>0, <3>1
  <2>3. ASSUME NEW s \in Sales, Remove(s) PROVE Keeping
    <3>1. \A p \in Payments : payment'[p] \in {payment[p], [payment[p] EXCEPT !.deleted = TRUE]}
                              /\ (Settled(p) => payment'[p] = payment[p])
      BY <2>3 DEF Remove, DiscardUnsettled, Settled
    <3>2. \A p \in Payments : payment[p] \in PaymentRow
      BY DEF TypeOK
    <3>3. \A p \in Payments : payment[p].refunded \in Nat /\ payment[p].refunded >= payment[p].refunded
      BY <3>2, AmountAssumption DEF PaymentRow
    <3>6. \A p \in Payments : payment'[p].refunded = payment[p].refunded /\ payment'[p].net = payment[p].net
      BY <3>1, <3>2 DEF PaymentRow
    <3>4. \A p \in Payments : /\ payment'[p].st = payment[p].st
                              /\ payment'[p].sale = payment[p].sale
                              /\ payment'[p].gross = payment[p].gross
                              /\ payment'[p].net = payment[p].net
                              /\ payment'[p].method = payment[p].method
                              /\ payment'[p].key = payment[p].key
      BY <3>1, <3>2 DEF PaymentRow
    <3>5. \A p \in Payments : Settled(p) => Settled(p)' /\ payment'[p].refunded >= payment[p].refunded
      BY <3>1, <3>3 DEF Settled, Exists
    <3> QED
      BY <3>4, <3>5, <3>6 DEF RowKept
  <2>4. ASSUME NEW s \in Sales, NEW total \in Amount, NEW cart \in Cart, NEW paidNow \in BOOLEAN,
               \/ CreateDraft(s, total, cart, paidNow) \/ CreateConfirmed(s, total, cart)
               \/ UpdateDraft(s, total, paidNow) \/ ConfirmUnpaid(s) \/ Fulfill(s) \/ Cancel(s)
        PROVE  UNCHANGED payment
    BY <2>4 DEF CreateDraft, CreateConfirmed, UpdateDraft, ConfirmUnpaid, Fulfill, Cancel, moneyVars
  <2>5. \E total \in Amount, cart \in Cart : TRUE
    <3>1. 0 \in Amount /\ [x \in Products |-> 0] \in Cart
      BY AmountAssumption DEF Cart
    <3> QED
      BY <3>1
  <2> QED
    BY <1>1, <1>a, <2>1, <2>2, <2>3, <2>4, <2>5 DEF SaleStep
<1>2. CASE PaymentStep
  <2>1. ASSUME NEW r \in Requests, NEW p \in Payments, InsertPayment(r, p) PROVE Entering
    <3> DEFINE q == request[r]
               row == [st |-> "PENDING", deleted |-> FALSE, sale |-> q.sale, gross |-> q.gross,
                       net |-> q.net, refunded |-> 0, method |-> q.method, key |-> q.key]
    <3>0. row.refunded <= row.net
      BY AmountAssumption DEF TypeOK, RequestState
    <3>1. row.st # "NONE" /\ row.key = q.key /\ KeyHolders(q.key) = {} /\ Written(p, row)
      BY <2>1, <3>0 DEF InsertPayment, Written
    <3> HIDE DEF row
    <3> QED
      BY <3>1
  <2>2. ASSUME NEW p \in Payments, ConfirmPayment(p) \/ FailPayment(p) PROVE Keeping
    <3>1. PICK st \in {"CONFIRMED", "FAILED"} : payment' = [payment EXCEPT ![p].st = st]
      BY <2>2 DEF ConfirmPayment, FailPayment
    <3>2. payment[p].st = "PENDING"
      BY <2>2 DEF ConfirmPayment, FailPayment
    <3> QED
      BY <3>1, <3>2, AmountAssumption DEF RowKept, Settled, Exists, TypeOK, PaymentRow
  <2>3. ASSUME NEW p \in Payments, NEW amount \in 1..MaxAmount, RefundPayment(p, amount) PROVE Keeping
    <3>1. payment' = [payment EXCEPT ![p] = [payment[p] EXCEPT !.st = "REFUNDED", !.refunded = @ + amount]]
      BY <2>3 DEF RefundPayment, TypeOK
    <3>2. /\ Settled(p) /\ payment[p].st # "NONE" /\ payment[p].refunded + amount >= payment[p].refunded
          /\ payment[p].refunded + amount <= payment[p].net
      BY <2>3, AmountAssumption DEF RefundPayment, Settled, Exists, Held, TypeOK, PaymentRow
    <3>3. \A o \in Payments \ {p} : payment'[o] = payment[o] /\ payment[o].refunded >= payment[o].refunded
      BY <3>1, AmountAssumption DEF TypeOK, PaymentRow
    <3>4. /\ payment'[p].st = "REFUNDED" /\ payment'[p].deleted = payment[p].deleted
          /\ payment'[p].refunded = payment[p].refunded + amount
          /\ payment'[p].sale = payment[p].sale /\ payment'[p].gross = payment[p].gross
          /\ payment'[p].net = payment[p].net /\ payment'[p].method = payment[p].method
          /\ payment'[p].key = payment[p].key
      BY <3>1 DEF TypeOK, PaymentRow
    <3> QED
      BY <3>2, <3>3, <3>4 DEF RowKept, Settled, Exists
  <2>4. ASSUME NEW r \in Requests,
               \/ RecoverPayment(r)
               \/ \E s \in Sales, gross \in 1..MaxAmount, m \in Methods, k \in Keys \cup {NoKey} :
                    SubmitPayment(r, s, gross, m, k)
        PROVE  UNCHANGED payment
    BY <2>4 DEF RecoverPayment, SubmitPayment
  <2> QED
    BY <1>2, <1>a, <2>1, <2>2, <2>3, <2>4 DEF PaymentStep
<1>3. CASE CatalogStep
  BY <1>3, <1>a DEF CatalogStep, SetTracked, AdjustStock, SetFee, moneyVars
<1>4. CASE UNCHANGED vars
  BY <1>4, <1>a DEF vars
<1> QED
  BY <1>1, <1>2, <1>3, <1>4 DEF Next

LEMMA PaymentsKept ==
  ASSUME TypeOK, [Next]_vars, NEW p \in Payments, payment[p].st # "NONE"
  PROVE  RowKept(p)
BY PaymentSteps, WrittenKeeps

LEMMA RefundsStep == TypeOK /\ RefundsWithin /\ [Next]_vars => RefundsWithin'
<1> SUFFICES ASSUME TypeOK, RefundsWithin, [Next]_vars, NEW p \in Payments, payment'[p].st # "NONE"
             PROVE  payment'[p].refunded <= payment'[p].net
  BY DEF RefundsWithin
<1>1. CASE payment[p].st # "NONE"
  BY <1>1, PaymentsKept DEF RowKept, RefundsWithin
<1>2. CASE payment[p].st = "NONE"
  <2>1. PICK o \in Payments : \E row : Written(o, row)
    BY <1>2, PaymentSteps
  <2>2. PICK row : Written(o, row)
    BY <2>1
  <2>3. payment'[p] = IF p = o THEN row ELSE payment[p]
    BY <2>2 DEF Written, TypeOK
  <2> QED
    BY <1>2, <2>2, <2>3 DEF Written
<1> QED
  BY <1>1, <1>2

\* No interleaving of confirmations, refunds, removals and draft edits takes
\* more money, net of fees and refunds, than the total of a sale, nor refunds
\* more than a payment brought.
THEOREM NeverOverpaid == Spec => []PaidWithinTotal
<1>1. Init => RefundsWithin
  BY DEF Init, NoPaymentRow, RefundsWithin
<1>2. MoneyInv => NotOverpaid
  BY DEF MoneyInv
<1> QED
  BY <1>1, <1>2, MoneyInvariant, TypesHold, RefundsStep, PTL DEF Spec, PaidWithinTotal

\* A settled payment stays settled, its amounts stay, and what was refunded
\* is never taken back.
THEOREM SettlementsAreFinal == Spec => SettlementIsFinal
<1>1. TypeOK /\ [Next]_vars =>
        [\A p \in Payments : Settled(p) =>
           /\ Settled(p)'
           /\ payment'[p].net = payment[p].net
           /\ payment'[p].refunded >= payment[p].refunded]_vars
  BY PaymentsKept DEF RowKept, Settled, Exists
<1> QED
  BY <1>1, TypesHold, PTL DEF Spec, SettlementIsFinal

----------------------------------------------------------------------------
(* Idempotency keys.                                                       *)

\* The unique index: a key has one payment at most.
OneHolder == \A k \in Keys : \A p, o \in KeyHolders(k) : p = o

\* A request was answered with a payment that exists and is what it asked for.
AnswersFit ==
  \A r \in Requests : request[r].pc = "answered" =>
    /\ request[r].answer \in Payments
    /\ payment[request[r].answer].st # "NONE"
    /\ payment[request[r].answer].key = request[r].key
    /\ SameFingerprint(request[r].answer, request[r])

KeysInv == TypeOK /\ OneHolder /\ AnswersFit

LEMMA KeysInvImplies == KeysInv => IdempotentCreation
<1> SUFFICES ASSUME KeysInv, NEW r \in Requests, request[r].pc = "answered"
             PROVE  /\ payment[request[r].answer].key = request[r].key
                    /\ SameFingerprint(request[r].answer, request[r])
                    /\ request[r].key # NoKey => KeyHolders(request[r].key) = {request[r].answer}
  BY DEF IdempotentCreation
<1>1. /\ request[r].answer \in Payments /\ payment[request[r].answer].st # "NONE"
      /\ payment[request[r].answer].key = request[r].key
      /\ SameFingerprint(request[r].answer, request[r])
  BY DEF KeysInv, AnswersFit
<1>2. request[r].key # NoKey => request[r].key \in Keys
  BY DEF KeysInv, TypeOK, RequestState
<1>3. request[r].key # NoKey => request[r].answer \in KeyHolders(request[r].key)
  BY <1>1 DEF KeyHolders
<1> QED
  BY <1>1, <1>2, <1>3 DEF KeysInv, OneHolder

LEMMA OneHolderStep == KeysInv /\ [Next]_vars => OneHolder'
<1> SUFFICES ASSUME KeysInv, [Next]_vars, NEW k \in Keys,
                    NEW p \in KeyHolders(k)', NEW o \in KeyHolders(k)'
             PROVE  p = o
  BY DEF OneHolder
<1>1. /\ p \in Payments /\ o \in Payments /\ k # NoKey
      /\ payment'[p].st # "NONE" /\ payment'[p].key = k
      /\ payment'[o].st # "NONE" /\ payment'[o].key = k
  BY RowsAssumption DEF KeyHolders
<1>2. CASE \A q \in Payments : (payment[q].st # "NONE" => RowKept(q))
                               /\ (payment[q].st = "NONE" => payment'[q].st = "NONE")
  <2>1. p \in KeyHolders(k) /\ o \in KeyHolders(k)
    BY <1>1, <1>2 DEF RowKept, KeyHolders
  <2> QED
    BY <2>1 DEF KeysInv, OneHolder
<1>3. ASSUME NEW q \in Payments, NEW row, Written(q, row), KeyHolders(row.key) = {}
      PROVE  p = o
  <2>1. /\ payment'[q] = row
        /\ \A x \in Payments \ {q} : payment'[x] = payment[x]
    BY <1>3 DEF Written, KeysInv, TypeOK
  <2>2. CASE row.key = k
    BY <1>1, <1>3, <2>1, <2>2 DEF KeyHolders
  <2>3. CASE row.key # k
    <3>1. p \in KeyHolders(k) /\ o \in KeyHolders(k)
      BY <1>1, <2>1, <2>3 DEF KeyHolders
    <3> QED
      BY <3>1 DEF KeysInv, OneHolder
  <2> QED
    BY <2>2, <2>3
<1> QED
  BY <1>2, <1>3, PaymentSteps DEF KeysInv

\* A request that is answered with the holder of its key gets what it asked for.
LEMMA ReuseFits ==
  ASSUME NEW q \in RequestState, NEW p \in KeyHolders(q.key), Reuse(p, q).pc = "answered",
         q.pc # "answered"
  PROVE  /\ Reuse(p, q).answer = p /\ p \in Payments /\ payment[p].st # "NONE"
         /\ payment[p].key = Reuse(p, q).key
         /\ SameFingerprint(p, Reuse(p, q))
<1> DEFINE a == [q EXCEPT !.pc = "answered", !.answer = p]
<1>1. p \in Payments /\ payment[p].st # "NONE" /\ payment[p].key = q.key
  BY DEF KeyHolders
<1>2. Reuse(p, q) = a /\ SameFingerprint(p, q)
  BY DEF Reuse, RequestState
<1>3. a.answer = p /\ a.key = q.key /\ a.sale = q.sale /\ a.gross = q.gross /\ a.net = q.net /\ a.method = q.method
  BY DEF RequestState
<1> HIDE DEF a
<1> QED
  BY <1>1, <1>2, <1>3 DEF SameFingerprint

LEMMA AnswersStep == KeysInv /\ [Next]_vars => AnswersFit'
<1> DEFINE Later(p, q) == /\ p \in Payments /\ payment'[p].st # "NONE"
                          /\ payment'[p].key = q.key /\ payment'[p].sale = q.sale
                          /\ payment'[p].gross = q.gross /\ payment'[p].net = q.net
                          /\ payment'[p].method = q.method
<1> SUFFICES ASSUME KeysInv, [Next]_vars, NEW r \in Requests, request'[r].pc = "answered"
             PROVE  Later(request'[r].answer, request'[r])
  BY DEF AnswersFit, SameFingerprint
<1> USE DEF KeysInv
<1> DEFINE Fits(p, q) == /\ p \in Payments /\ payment[p].st # "NONE"
                         /\ payment[p].key = q.key /\ SameFingerprint(p, q)
<1>1. ASSUME Fits(request'[r].answer, request'[r])
      PROVE  Later(request'[r].answer, request'[r])
  <2>1. ASSUME NEW p \in Payments, payment[p].st # "NONE"
        PROVE  /\ payment'[p].st # "NONE"
               /\ payment'[p].sale = payment[p].sale
               /\ payment'[p].gross = payment[p].gross
               /\ payment'[p].net = payment[p].net
               /\ payment'[p].method = payment[p].method
               /\ payment'[p].key = payment[p].key
    BY <2>1, PaymentsKept DEF RowKept
  <2> QED
    BY <1>1, <2>1 DEF SameFingerprint
<1>2. CASE request'[r] = request[r]
  BY <1>1, <1>2 DEF AnswersFit
<1>3. ASSUME NEW s \in Sales, NEW gross \in 1..MaxAmount, NEW m \in Methods, NEW k \in Keys \cup {NoKey},
             SubmitPayment(r, s, gross, m, k)
      PROVE  Fits(request'[r].answer, request'[r])
  <2> DEFINE q == [pc |-> "insert", sale |-> s, gross |-> gross,
                   net |-> gross - fee[m][gross], method |-> m, key |-> k,
                   answer |-> NoPayment]
  <2>1. gross \in Amount /\ fee[m][gross] \in Nat
    BY AmountAssumption, FeesAssumption DEF TypeOK
  <2>2. gross - fee[m][gross] \in Amount
    BY <1>3, <2>1, AmountAssumption DEF SubmitPayment
  <2>3. q \in RequestState /\ q.key = k /\ q.pc = "insert"
    BY <2>1, <2>2 DEF RequestState
  <2> HIDE DEF q
  <2>4. \/ request' = [request EXCEPT ![r] = q]
        \/ \E p \in KeyHolders(k) : request' = [request EXCEPT ![r] = Reuse(p, q)]
    BY <1>3, Zenon DEF SubmitPayment, q
  <2>5. PICK p \in KeyHolders(q.key) : request'[r] = Reuse(p, q)
    BY <2>3, <2>4 DEF TypeOK
  <2> QED
    BY <2>3, <2>5, ReuseFits
<1>4. ASSUME RecoverPayment(r) PROVE Fits(request'[r].answer, request'[r])
  <2>1. request[r] \in RequestState /\ request[r].pc = "insert"
    BY <1>4 DEF RecoverPayment, TypeOK
  <2>2. PICK p \in KeyHolders(request[r].key) : request'[r] = Reuse(p, request[r])
    BY <1>4 DEF RecoverPayment, TypeOK
  <2> QED
    BY <2>1, <2>2, ReuseFits
<1>5. ASSUME NEW p \in Payments, InsertPayment(r, p)
      PROVE  Later(request'[r].answer, request'[r])
  <2> DEFINE q == request[r]
             row == [st |-> "PENDING", deleted |-> FALSE, sale |-> q.sale, gross |-> q.gross,
                     net |-> q.net, refunded |-> 0, method |-> q.method, key |-> q.key]
  <2>1. payment'[p] = row
    BY <1>5 DEF InsertPayment, TypeOK
  <2>2. /\ request'[r].answer = p /\ request'[r].key = q.key /\ request'[r].sale = q.sale
        /\ request'[r].gross = q.gross /\ request'[r].net = q.net /\ request'[r].method = q.method
    BY <1>5 DEF InsertPayment, TypeOK, RequestState
  <2> QED
    BY <2>1, <2>2 DEF SameFingerprint
<1>6. \/ request'[r] = request[r]
      \/ \E s \in Sales, gross \in 1..MaxAmount, m \in Methods, k \in Keys \cup {NoKey} :
           SubmitPayment(r, s, gross, m, k)
      \/ RecoverPayment(r)
      \/ \E p \in Payments : InsertPayment(r, p)
  <2>1. CASE SaleStep \/ CatalogStep \/ UNCHANGED vars
    <3>1. ASSUME NEW s \in Sales, NEW total, NEW cart, NEW paidNow, NEW p, NEW gross, NEW m,
                 \/ CreateDraft(s, total, cart, paidNow) \/ CreateConfirmed(s, total, cart)
                 \/ CreatePaid(s, total, cart, p, gross, m) \/ CreateRenewalSale(s, total, cart, p, m)
          PROVE  request' = request
      BY <3>1 DEF CreateDraft, CreateConfirmed, CreatePaid, CreateRenewalSale, moneyVars
    <3>2. ASSUME NEW s \in Sales, NEW total, NEW paidNow, NEW p, NEW gross, NEW m,
                 \/ UpdateDraft(s, total, paidNow) \/ ConfirmUnpaid(s) \/ ConfirmPaid(s, p, gross, m)
                 \/ Fulfill(s) \/ Cancel(s) \/ Remove(s)
          PROVE  request' = request
      BY <3>2 DEF UpdateDraft, ConfirmUnpaid, ConfirmPaid, Fulfill, Cancel, Remove, moneyVars
    <3>3. SaleStep => request' = request
      BY <3>1, <3>2 DEF SaleStep
    <3>4. CatalogStep => request' = request
      BY DEF CatalogStep, SetTracked, AdjustStock, SetFee, moneyVars
    <3> QED
      BY <2>1, <3>3, <3>4 DEF vars
  <2>2. ASSUME NEW o \in Requests,
               \/ \E s \in Sales, gross \in 1..MaxAmount, m \in Methods, k \in Keys \cup {NoKey} :
                    SubmitPayment(o, s, gross, m, k)
               \/ \E p \in Payments : InsertPayment(o, p)
               \/ RecoverPayment(o)
        PROVE  o = r \/ request'[r] = request[r]
    BY <2>2 DEF SubmitPayment, InsertPayment, RecoverPayment, TypeOK
  <2>3. ASSUME NEW p \in Payments,
               \/ ConfirmPayment(p) \/ FailPayment(p)
               \/ \E amount \in 1..MaxAmount : RefundPayment(p, amount)
        PROVE  request' = request
    BY <2>3 DEF ConfirmPayment, FailPayment, RefundPayment
  <2>4. CASE PaymentStep
    BY <2>2, <2>3, <2>4 DEF PaymentStep
  <2> QED
    BY <2>1, <2>4 DEF Next
<1> QED
  BY <1>1, <1>2, <1>3, <1>4, <1>5, <1>6

LEMMA KeysInit == Init => KeysInv
<1> SUFFICES ASSUME Init PROVE KeysInv
  OBVIOUS
<1>1. OneHolder
  BY DEF Init, OneHolder, KeyHolders, NoPaymentRow
<1>2. AnswersFit
  BY DEF Init, AnswersFit, IdleRequest
<1> QED
  BY <1>1, <1>2, InitTypes DEF KeysInv

THEOREM KeysInvariant == Spec => []KeysInv
<1>1. KeysInv /\ [Next]_vars => KeysInv'
  BY StepTypes, OneHolderStep, AnswersStep DEF KeysInv
<1> QED
  BY KeysInit, <1>1, PTL DEF Spec

\* However many requests with one key are retried and race, one payment is
\* created, and those that are not refused get it, as they asked for it.
THEOREM OnePaymentPerKey == Spec => []IdempotentCreation
  BY KeysInvariant, KeysInvImplies, PTL

============================================================================
