--------------------------- MODULE BillingProofs ---------------------------
(***************************************************************************)
(* Proofs about Billing: it implements SalesPayments, so what is proved of *)
(* sales and payments alone holds with subscriptions and renewals on top;  *)
(* and a subscription that ended stays ended and uncharged.                *)
(***************************************************************************)
EXTENDS Billing, SalesPaymentsProofs

----------------------------------------------------------------------------
(* Every step of Billing is a step of SalesPayments, or leaves it alone.   *)

LEMMA PlainStepMaps == PlainStep => Next
<1> SUFFICES ASSUME PlainStep PROVE Next
  OBVIOUS
<1>1. CASE \E s \in Sales :
             \/ \E total \in Amount, cart \in Cart, paidNow \in BOOLEAN :
                  s \in Direct /\ CreateDraft(s, total, cart, paidNow)
             \/ \E total \in Amount, paidNow \in BOOLEAN : UpdateDraft(s, total, paidNow)
             \/ Fulfill(s)
             \/ Cancel(s)
  <2> SaleStep
    BY <1>1, Zenon DEF SaleStep
  <2> QED
    BY DEF Next
<1>2. CASE PaymentStep \/ CatalogStep
  BY <1>2 DEF Next
<1> QED
  BY <1>1, <1>2, Zenon DEF PlainStep

LEMMA SellStepMaps == SellStep => Next
<1> SUFFICES ASSUME SellStep PROVE SaleStep
  BY DEF Next
<1>1. PICK s \in Direct, term \in Terms, quantity \in Quantities :
        \/ \E total \in Amount, cart \in Cart :
             \/ SellConfirmed(s, total, cart, term, quantity)
             \/ \E p \in Payments, gross \in 1..MaxAmount, m \in Methods :
                  SellPaid(s, total, cart, p, gross, m, term, quantity)
        \/ ConfirmSale(s, term, quantity)
  BY Zenon DEF SellStep
<1>2. s \in Sales
  BY TermsAssumption DEF TermsAssumption
<1>3. \/ \E total \in Amount, cart \in Cart :
           \/ CreateConfirmed(s, total, cart)
           \/ \E p \in Payments, m \in Methods :
                \E gross \in 1..MaxAmount : CreatePaid(s, total, cart, p, gross, m)
      \/ ConfirmUnpaid(s)
      \/ \E p \in Payments, gross \in 1..MaxAmount, m \in Methods : ConfirmPaid(s, p, gross, m)
  BY <1>1, Zenon DEF SellConfirmed, SellPaid, ConfirmSale
<1> QED
  BY <1>2, <1>3, Zenon DEF SaleStep

LEMMA SubStepMaps == SubStep => Next \/ UNCHANGED vars
<1> SUFFICES ASSUME SubStep PROVE SaleStep \/ UNCHANGED vars
  BY DEF Next
<1>1. ASSUME NEW s \in Sales, RemoveSale(s) PROVE SaleStep
  BY <1>1, Zenon DEF RemoveSale, SaleStep
<1>2. ASSUME NEW s, NEW d,
             ChangeDuration(s, d) \/ Activate(s) \/ Suspend(s) \/ Expire(s) \/ CancelSub(s)
      PROVE  UNCHANGED vars
  BY <1>2, Zenon DEF ChangeDuration, Activate, Suspend, Expire, CancelSub, MoveSub
<1>3. ASSUME NEW o, NEW s, NEW term, NEW quantity,
             SubmitOpening(o, s) \/ InsertOpening(o, term, quantity)
      PROVE  UNCHANGED vars
  BY <1>3, Zenon DEF SubmitOpening, InsertOpening
<1> QED
  BY <1>1, <1>2, <1>3, Zenon DEF SubStep

LEMMA RenewalStepMaps == BillingTypeOK /\ RenewalStep => Next \/ UNCHANGED vars
<1> SUFFICES ASSUME BillingTypeOK, RenewalStep PROVE SaleStep \/ UNCHANGED vars
  BY DEF Next
<1>1. PICK s \in Sales :
        \/ RequestRenewal(s)
        \/ \E k \in Cycle :
             \/ MarkDue(s, k)
             \/ CancelRenewal(s, k)
             \/ \E g \in Sales \ Direct, cart \in Cart, p \in Payments, m \in Methods :
                  PayRenewal(s, k, g, cart, p, m)
  BY Zenon DEF RenewalStep
<1>2. ASSUME NEW k, RequestRenewal(s) \/ MarkDue(s, k) \/ CancelRenewal(s, k)
      PROVE  UNCHANGED vars
  BY <1>2, Zenon DEF RequestRenewal, MarkDue, CancelRenewal
<1>3. ASSUME NEW k \in Cycle, NEW g \in Sales \ Direct, NEW cart \in Cart,
             NEW p \in Payments, NEW m \in Methods, PayRenewal(s, k, g, cart, p, m)
      PROVE  SaleStep
  <2>1. ren[s][k].amount \in Amount
    BY DEF BillingTypeOK, RenRow
  <2>2. CreateRenewalSale(g, ren[s][k].amount, cart, p, m)
    BY <1>3, Zenon DEF PayRenewal
  <2> QED
    BY <1>3, <2>1, <2>2, Zenon DEF SaleStep
<1> QED
  BY <1>1, <1>2, <1>3, Zenon

LEMMA BillingStepMaps == BillingTypeOK /\ [BillingNext]_billingVars => [Next]_vars
<1> SUFFICES ASSUME BillingTypeOK, [BillingNext]_billingVars PROVE Next \/ UNCHANGED vars
  OBVIOUS
<1>1. CASE UNCHANGED billingVars
  BY <1>1 DEF billingVars, vars
<1> QED
  BY <1>1, PlainStepMaps, SellStepMaps, SubStepMaps, RenewalStepMaps, Zenon DEF BillingNext

----------------------------------------------------------------------------
(* Types of the subscription and renewal rows.                             *)

RowsOK == /\ sub \in [Sales -> SubRow]
          /\ ren \in [Sales -> [Cycle -> RenRow]]
          /\ opening \in [Openings -> Sales \cup {NoSale}]

LEMMA NewSubType ==
  ASSUME NEW term \in Terms, NEW amount \in Amount, NEW quantity \in Quantities
  PROVE  NewSub(term, amount, quantity) \in SubRow
<1>1. term[1] \in Nat /\ term[2] \in Nat /\ quantity \in Nat
  BY TermsAssumption DEF TermsAssumption, Length
<1> QED
  BY <1>1 DEF NewSub, SubRow, SubStatus

LEMMA NewRenType ==
  ASSUME NEW source \in Sales, NEW start \in Nat, NEW end \in Nat, NEW amount \in Amount
  PROVE  NewRen(source, start, end, amount) \in RenRow
BY DEF NewRen, RenRow, RenStatus

\* Writing a status, a deletion or a period keeps a renewal row typed.
LEMMA RenWriteType ==
  ASSUME NEW row \in RenRow
  PROVE  /\ \A st \in RenStatus : [row EXCEPT !.st = st] \in RenRow
         /\ [row EXCEPT !.st = "CANCELLED", !.deleted = TRUE] \in RenRow
         /\ \A d \in Nat : [row EXCEPT !.start = 0, !.end = d] \in RenRow
<1>1. ASSUME NEW st \in RenStatus PROVE [row EXCEPT !.st = st] \in RenRow
  BY DEF RenRow
<1>2. "CANCELLED" \in RenStatus
  BY DEF RenStatus
<1>3. [row EXCEPT !.st = "CANCELLED", !.deleted = TRUE] \in RenRow
  BY <1>2 DEF RenRow
<1>4. ASSUME NEW d \in Nat PROVE [row EXCEPT !.start = 0, !.end = d] \in RenRow
  BY DEF RenRow
<1> QED
  BY <1>1, <1>3, <1>4

LEMMA StartTypes ==
  ASSUME RowsOK, NEW s \in Sales, NEW amount \in Amount, NEW term \in Terms,
         NEW quantity \in Quantities, StartSubscription(s, amount, term, quantity)
  PROVE  RowsOK'
<1>1. NewSub(term, amount, quantity) \in SubRow
  BY NewSubType
<1>2. term[1] \in Nat
  BY TermsAssumption DEF TermsAssumption, Length
<1>3. NewRen(s, 0, term[1], amount) \in RenRow
  BY <1>2, NewRenType
<1>4. CASE sub[s].st # "NONE"
  BY <1>4 DEF StartSubscription, RowsOK
<1>5. CASE sub[s].st = "NONE"
  <2>1. sub' = [sub EXCEPT ![s] = NewSub(term, amount, quantity)]
    BY <1>5 DEF StartSubscription
  <2>2. ren' = [ren EXCEPT ![s] = [@ EXCEPT ![0] = NewRen(s, 0, term[1], amount)]]
    BY <1>5, Zenon DEF StartSubscription
  <2>3. opening' = opening
    BY DEF StartSubscription
  <2>4. [ren[s] EXCEPT ![0] = NewRen(s, 0, term[1], amount)] \in [Cycle -> RenRow]
    BY <1>3 DEF RowsOK
  <2> QED
    BY <1>1, <2>1, <2>2, <2>3, <2>4 DEF RowsOK
<1> QED
  BY <1>4, <1>5

LEMMA SellTypes ==
  ASSUME BillingTypeOK, SellStep
  PROVE  RowsOK'
<1>1. PICK s \in Direct, term \in Terms, quantity \in Quantities :
        \/ \E total \in Amount, cart \in Cart :
             \/ SellConfirmed(s, total, cart, term, quantity)
             \/ \E p \in Payments, gross \in 1..MaxAmount, m \in Methods :
                  SellPaid(s, total, cart, p, gross, m, term, quantity)
        \/ ConfirmSale(s, term, quantity)
  BY Zenon DEF SellStep
<1>2. s \in Sales
  BY TermsAssumption DEF TermsAssumption
<1>3. sale[s].total \in Amount
  BY <1>2 DEF BillingTypeOK, TypeOK, SaleRow
<1>4. PICK amount \in Amount : StartSubscription(s, amount, term, quantity)
  BY <1>1, <1>3, Zenon DEF SellConfirmed, SellPaid, ConfirmSale
<1> QED
  BY <1>2, <1>4, StartTypes DEF BillingTypeOK, RowsOK

LEMMA SubTypes ==
  ASSUME BillingTypeOK, SubStep
  PROVE  RowsOK'
<1>0. RowsOK
  BY DEF BillingTypeOK, RowsOK
<1>1. ASSUME NEW s \in Sales, NEW d \in Durations, ChangeDuration(s, d) PROVE RowsOK'
  <2>1. d \in Nat
    BY TermsAssumption DEF TermsAssumption, Length
  <2>2. sub' \in [Sales -> SubRow]
    BY <1>0, <1>1, <2>1 DEF ChangeDuration, RowsOK, SubRow
  <2> DEFINE rows == [k \in Cycle |-> IF LiveRen(s, k) /\ ren[s][k].st = "PENDING"
                                      THEN [ren[s][k] EXCEPT !.start = 0, !.end = d]
                                      ELSE ren[s][k]]
  <2>3. ASSUME NEW k \in Cycle PROVE rows[k] \in RenRow
    <3>1. ren[s][k] \in RenRow
      BY <1>0 DEF RowsOK
    <3>2. [ren[s][k] EXCEPT !.start = 0, !.end = d] \in RenRow
      BY <2>1, <3>1, RenWriteType
    <3> QED
      BY <3>1, <3>2, Zenon
  <2>4. rows \in [Cycle -> RenRow]
    BY <2>3
  <2>5. ren' = [ren EXCEPT ![s] = rows]
    BY <1>0, <1>1 DEF ChangeDuration, RowsOK
  <2>6. opening' = opening
    BY <1>1 DEF ChangeDuration
  <2> HIDE DEF rows
  <2> QED
    BY <1>0, <2>2, <2>4, <2>5, <2>6 DEF RowsOK
<1>2. ASSUME NEW s \in Sales, RemoveSale(s) PROVE RowsOK'
  <2>1. sub' \in [Sales -> SubRow] /\ opening' = opening
    <3>1. /\ sub \in [Sales -> SubRow]
          /\ [sub EXCEPT ![s].st = "CANCELLED", ![s].deleted = TRUE] \in [Sales -> SubRow]
      BY <1>0 DEF RowsOK, SubRow, SubStatus
    <3> QED
      BY <1>2, <3>1, Zenon DEF RemoveSale
  <2>2. ASSUME NEW t \in Sales, NEW k \in Cycle PROVE
          (IF LiveRen(t, k) /\ ren[t][k].source = s
             THEN [ren[t][k] EXCEPT !.st = "CANCELLED", !.deleted = TRUE]
             ELSE ren[t][k]) \in RenRow
    <3>1. ren[t][k] \in RenRow
      BY <1>0 DEF RowsOK
    <3>2. [ren[t][k] EXCEPT !.st = "CANCELLED", !.deleted = TRUE] \in RenRow
      BY <3>1, RenWriteType
    <3> QED
      BY <3>1, <3>2, Zenon
  <2>3. ren' \in [Sales -> [Cycle -> RenRow]]
    BY <1>2, <2>2 DEF RemoveSale, CloseRenewals
  <2> QED
    BY <1>0, <2>1, <2>3 DEF RowsOK
<1>3. ASSUME NEW s \in Sales, NEW from, NEW to \in SubStatus, MoveSub(s, from, to)
      PROVE  RowsOK'
  BY <1>0, <1>3 DEF MoveSub, RowsOK, SubRow
<1>4. ASSUME NEW s \in Sales, Activate(s) \/ Suspend(s) \/ Expire(s) \/ CancelSub(s)
      PROVE  RowsOK'
  <2>1. {"ACTIVE", "SUSPENDED", "EXPIRED", "CANCELLED"} \subseteq SubStatus
    BY DEF SubStatus
  <2> QED
    BY <1>3, <1>4, <2>1 DEF Activate, Suspend, Expire, CancelSub
<1>5. ASSUME NEW o \in Openings, NEW s \in Sales, SubmitOpening(o, s) PROVE RowsOK'
  BY <1>0, <1>5 DEF SubmitOpening, RowsOK
<1>6. ASSUME NEW o \in Openings, NEW term \in Terms, NEW quantity \in Quantities,
             InsertOpening(o, term, quantity)
      PROVE  RowsOK'
  <2>1. opening[o] \in Sales
    BY <1>0, <1>6 DEF InsertOpening, RowsOK
  <2>2. sale[opening[o]].total \in Amount
    BY <2>1 DEF BillingTypeOK, TypeOK, SaleRow
  <2>3. NewSub(term, sale[opening[o]].total, quantity) \in SubRow
    BY <2>2, NewSubType
  <2> QED
    BY <1>0, <1>6, <2>3 DEF InsertOpening, RowsOK
<1> QED
  BY <1>1, <1>2, <1>4, <1>5, <1>6 DEF SubStep

LEMMA RenewalTypes ==
  ASSUME BillingTypeOK, RenewalStep
  PROVE  RowsOK'
<1>0. RowsOK
  BY DEF BillingTypeOK, RowsOK
<1>1. PICK s \in Sales :
        \/ RequestRenewal(s)
        \/ \E k \in Cycle :
             \/ MarkDue(s, k)
             \/ CancelRenewal(s, k)
             \/ \E g \in Sales \ Direct, cart \in Cart, p \in Payments, m \in Methods :
                  PayRenewal(s, k, g, cart, p, m)
  BY Zenon DEF RenewalStep
<1>2. /\ sub[s] \in SubRow
      /\ sub[s].cycle \in Nat /\ sub[s].amount \in Amount
  BY <1>0 DEF RowsOK, SubRow
<1>3. CASE RequestRenewal(s)
  <2> DEFINE k == sub[s].end
             row == NewRen(s, k, k + sub[s].cycle, sub[s].amount)
  <2>1. k \in Nat /\ k \in Cycle
    BY <1>3 DEF RequestRenewal, Cycle
  <2>2. row \in RenRow
    BY <1>2, <2>1, NewRenType
  <2>3. ren' = [ren EXCEPT ![s] = [@ EXCEPT ![k] = row]] /\ UNCHANGED <<sub, opening>>
    BY <1>3, Zenon DEF RequestRenewal
  <2> HIDE DEF row
  <2>4. [ren[s] EXCEPT ![k] = row] \in [Cycle -> RenRow]
    BY <1>0, <2>2 DEF RowsOK
  <2> QED
    BY <1>0, <2>3, <2>4 DEF RowsOK
<1>4. ASSUME NEW k \in Cycle, NEW st \in RenStatus,
             ren' = [ren EXCEPT ![s][k].st = st], UNCHANGED <<sub, opening>>
      PROVE  RowsOK'
  <2>1. ren[s][k] \in RenRow
    BY <1>0 DEF RowsOK
  <2>2. [ren[s][k] EXCEPT !.st = st] \in RenRow
    BY <2>1, RenWriteType
  <2>3. ren' = [ren EXCEPT ![s] = [ren[s] EXCEPT ![k] = [ren[s][k] EXCEPT !.st = st]]]
    BY <1>4, Zenon
  <2>4. [ren[s] EXCEPT ![k] = [ren[s][k] EXCEPT !.st = st]] \in [Cycle -> RenRow]
    BY <1>0, <2>2 DEF RowsOK
  <2> QED
    BY <1>0, <1>4, <2>3, <2>4 DEF RowsOK
<1>5. ASSUME NEW k \in Cycle, MarkDue(s, k) \/ CancelRenewal(s, k) PROVE RowsOK'
  <2>1. "DUE" \in RenStatus /\ "CANCELLED" \in RenStatus
    BY DEF RenStatus
  <2> QED
    BY <1>4, <1>5, <2>1 DEF MarkDue, CancelRenewal
<1>6. ASSUME NEW k \in Cycle, NEW g \in Sales \ Direct, NEW cart, NEW p, NEW m,
             PayRenewal(s, k, g, cart, p, m)
      PROVE  RowsOK'
  <2>1. /\ ren[s][k] \in RenRow
        /\ ren[s][k].end \in Nat /\ ren[s][k].start \in Nat /\ ren[s][k].amount \in Amount
    BY <1>0 DEF RowsOK, RenRow
  <2>2. ren' = [ren EXCEPT ![s] = Paid(s, k, g)] /\ opening' = opening
        /\ sub' = [sub EXCEPT ![s].start = ren[s][k].start, ![s].end = ren[s][k].end]
        /\ ren[s][k].end \in Cycle
    BY <1>6, Zenon DEF PayRenewal
  <2>3. sub' \in [Sales -> SubRow]
    BY <1>0, <2>1, <2>2 DEF RowsOK, SubRow
  <2> DEFINE next == ren[s][k].end
             rows == [ren[s] EXCEPT ![k].st = "PAID", ![k].sale = g]
             row  == NewRen(g, next, next + sub[s].cycle, ren[s][k].amount)
  <2>4. rows \in [Cycle -> RenRow]
    BY <1>0, <2>1 DEF RowsOK, RenRow, RenStatus
  <2>5. row \in RenRow
    BY <1>2, <2>1, NewRenType
  <2>6. Paid(s, k, g) = IF rows[next].st # "NONE" THEN rows ELSE [rows EXCEPT ![next] = row]
    BY Zenon DEF Paid
  <2> HIDE DEF rows, row
  <2>7. Paid(s, k, g) \in [Cycle -> RenRow]
    BY <2>2, <2>4, <2>5, <2>6
  <2> QED
    BY <1>0, <2>2, <2>3, <2>7 DEF RowsOK
<1> QED
  BY <1>1, <1>3, <1>5, <1>6, Zenon

LEMMA StepBillingTypes == BillingTypeOK /\ [BillingNext]_billingVars => BillingTypeOK'
<1> SUFFICES ASSUME BillingTypeOK, [BillingNext]_billingVars PROVE BillingTypeOK'
  OBVIOUS
<1>1. TypeOK'
  BY BillingStepMaps, StepTypes DEF BillingTypeOK
<1>2. RowsOK'
  <2>1. CASE UNCHANGED recurring
    BY <2>1 DEF recurring, BillingTypeOK, RowsOK
  <2>2. CASE PlainStep \/ UNCHANGED billingVars
    BY <2>1, <2>2 DEF PlainStep, billingVars, recurring
  <2> QED
    BY <2>2, SellTypes, SubTypes, RenewalTypes, Zenon DEF BillingNext
<1> QED
  BY <1>1, <1>2 DEF BillingTypeOK, RowsOK

LEMMA InitBillingTypes == BillingInit => BillingTypeOK
<1> SUFFICES ASSUME BillingInit PROVE BillingTypeOK
  OBVIOUS
<1>1. NoSubRow \in SubRow /\ NoRenRow \in RenRow
  BY AmountAssumption DEF NoSubRow, NoRenRow, SubRow, RenRow, SubStatus, RenStatus, Amount
<1> QED
  BY <1>1, InitTypes DEF BillingInit, BillingTypeOK

\* Every reachable state of subscriptions and renewals is well typed.
THEOREM BillingTypesHold == BillingSpec => []BillingTypeOK
<1> QED
  BY InitBillingTypes, StepBillingTypes, PTL DEF BillingSpec

\* Billing implements SalesPayments: subscriptions and renewals write sales
\* and payments only through the handlers modelled there.
LEMMA BillingImplementsSales == BillingSpec => Spec
<1>1. BillingInit => Init
  BY DEF BillingInit
<1> QED
  BY <1>1, BillingStepMaps, BillingTypesHold, PTL DEF BillingSpec, Spec

\* So no renewal, retry or removal overpays a sale.
THEOREM BillingNeverOverpays == BillingSpec => []PaidWithinTotal
<1> QED
  BY BillingImplementsSales, NeverOverpaid, PTL

----------------------------------------------------------------------------
(* A subscription that ended stays ended and is not charged again.  The    *)
(* threat is the insertion of a subscription over a row that exists: it is *)
(* excluded because a request holds the lock on a line that has none, and  *)
(* the sale of that line has left the statuses a confirmation starts from. *)

Entered(s) == sale[s].st \notin {"NONE", "DRAFT", "PENDING"}

OpeningInv ==
  /\ \A o \in Openings : opening[o] \in Sales =>
       sub[opening[o]].st = "NONE" /\ Entered(opening[o])
  /\ \A o, q \in Openings : opening[o] = opening[q] => o = q \/ opening[o] = NoSale
  /\ \A s \in Sales : sub[s].st = "NONE" => ~sub[s].deleted

EndInv == BillingTypeOK /\ OpeningInv

LEMMA StaysEntered ==
  ASSUME TypeOK, [Next]_vars, NEW t \in Sales, Entered(t)
  PROVE  Entered(t)'
<1>1. sale \in [Sales -> SaleRow]
  BY DEF TypeOK
<1>2. ASSUME NEW s \in Sales, NEW st, NEW total, NEW cart, NEW paidNow,
             NewSale(s, st, total, cart, paidNow) \/ UpdateDraft(s, total, paidNow)
      PROVE  Entered(t)'
  BY <1>1, <1>2 DEF NewSale, UpdateDraft, Entered
<1>3. ASSUME NEW s \in Sales, Confirm(s) \/ Fulfill(s) \/ Cancel(s) \/ Remove(s)
      PROVE  Entered(t)'
  BY <1>1, <1>3 DEF Confirm, Fulfill, Cancel, Remove, Entered, SaleRow
<1>4. CASE sale' = sale
  BY <1>4 DEF Entered
<1> QED
  BY <1>2, <1>3, <1>4, StepWritesSale

\* What a step may do to the subscription rows.
SubWrite(s) ==
  \/ /\ sub[s].st = "NONE" /\ ~Entered(s) /\ Entered(s)'
     /\ sub'[s].st = "PENDING" /\ ~sub'[s].deleted
     /\ \A t \in Sales : t # s => sub'[t] = sub[t]
     /\ UNCHANGED opening
  \/ \E o \in Openings :
       /\ opening[o] = s
       /\ sub'[s].st = "PENDING" /\ ~sub'[s].deleted
       /\ \A t \in Sales : t # s => sub'[t] = sub[t]
       /\ opening' = [opening EXCEPT ![o] = NoSale]
  \/ /\ LiveSub(s)
     /\ sub'[s].st # "NONE"
     /\ ~sub'[s].deleted \/ RemoveSale(s)
     /\ Ended(s) => Ended(s)'
     /\ \A t \in Sales : t # s => sub'[t] = sub[t]
     /\ UNCHANGED opening
  \/ /\ sub[s].st = "NONE" /\ Entered(s)
     /\ \A o \in Openings : opening[o] # s
     /\ UNCHANGED sub
     /\ \E o \in Openings : opening' = [opening EXCEPT ![o] = s]

LEMMA SellWrites ==
  ASSUME BillingTypeOK, SellStep
  PROVE  UNCHANGED <<sub, opening>> \/ \E s \in Sales : SubWrite(s)
<1>1. PICK s \in Direct, term \in Terms, quantity \in Quantities :
        \/ \E total \in Amount, cart \in Cart :
             \/ SellConfirmed(s, total, cart, term, quantity)
             \/ \E p \in Payments, gross \in 1..MaxAmount, m \in Methods :
                  SellPaid(s, total, cart, p, gross, m, term, quantity)
        \/ ConfirmSale(s, term, quantity)
  BY Zenon DEF SellStep
<1>2. s \in Sales
  BY TermsAssumption DEF TermsAssumption
<1>3. sale \in [Sales -> SaleRow] /\ sub \in [Sales -> SubRow]
  BY DEF BillingTypeOK, TypeOK
<1>4. PICK amount : StartSubscription(s, amount, term, quantity)
  BY <1>1, Zenon DEF SellConfirmed, SellPaid, ConfirmSale
<1>5. \/ \E total, cart, paidNow : NewSale(s, "CONFIRMED", total, cart, paidNow)
      \/ Confirm(s)
  BY <1>1, Zenon
  DEF SellConfirmed, SellPaid, ConfirmSale, CreateConfirmed, CreatePaid, ConfirmUnpaid, ConfirmPaid
<1>6. ~Entered(s) /\ Entered(s)'
  <2>1. ASSUME NEW total, NEW cart, NEW paidNow, NewSale(s, "CONFIRMED", total, cart, paidNow)
        PROVE  ~Entered(s) /\ Entered(s)'
    BY <1>2, <1>3, <2>1 DEF NewSale, Entered
  <2>2. ASSUME Confirm(s) PROVE ~Entered(s) /\ Entered(s)'
    BY <1>2, <1>3, <2>2 DEF Confirm, Entered, SaleRow
  <2> QED
    BY <1>5, <2>1, <2>2
<1>7. CASE sub[s].st # "NONE"
  BY <1>4, <1>7 DEF StartSubscription
<1>8. CASE sub[s].st = "NONE"
  <2>1. sub' = [sub EXCEPT ![s] = NewSub(term, amount, quantity)] /\ opening' = opening
    BY <1>4, <1>8 DEF StartSubscription
  <2>2. sub'[s].st = "PENDING" /\ ~sub'[s].deleted /\ \A t \in Sales : t # s => sub'[t] = sub[t]
    BY <1>2, <1>3, <2>1 DEF NewSub
  <2> QED
    BY <1>2, <1>6, <1>8, <2>1, <2>2 DEF SubWrite
<1> QED
  BY <1>7, <1>8

LEMMA SubWrites ==
  ASSUME BillingTypeOK, SubStep
  PROVE  UNCHANGED <<sub, opening>> \/ \E s \in Sales : SubWrite(s)
<1>1. sub \in [Sales -> SubRow] /\ opening \in [Openings -> Sales \cup {NoSale}]
  BY DEF BillingTypeOK
<1>2. ASSUME NEW s \in Sales, NEW d, ChangeDuration(s, d) PROVE SubWrite(s)
  <2>1. LiveSub(s) /\ sub' = [sub EXCEPT ![s].end = d] /\ opening' = opening
    BY <1>2 DEF ChangeDuration
  <2>2. sub'[s].st = sub[s].st /\ sub'[s].deleted = sub[s].deleted
        /\ \A t \in Sales : t # s => sub'[t] = sub[t]
    BY <1>1, <2>1 DEF SubRow
  <2> QED
    BY <2>1, <2>2 DEF SubWrite, LiveSub, Ended
<1>3. ASSUME NEW s \in Sales, RemoveSale(s)
      PROVE  UNCHANGED <<sub, opening>> \/ SubWrite(s)
  <2>1. CASE ~LiveSub(s)
    BY <1>3, <2>1 DEF RemoveSale
  <2>2. CASE LiveSub(s)
    <3>1. sub' = [sub EXCEPT ![s].st = "CANCELLED", ![s].deleted = TRUE] /\ opening' = opening
      BY <1>3, <2>2 DEF RemoveSale
    <3>2. sub'[s].st = "CANCELLED" /\ \A t \in Sales : t # s => sub'[t] = sub[t]
      BY <1>1, <3>1 DEF SubRow
    <3> QED
      BY <1>3, <2>2, <3>1, <3>2 DEF SubWrite, Ended
  <2> QED
    BY <2>1, <2>2
<1>4. ASSUME NEW s \in Sales, Activate(s) \/ Suspend(s) \/ Expire(s) \/ CancelSub(s)
      PROVE  SubWrite(s)
  <2>1. PICK to \in {"ACTIVE", "SUSPENDED", "EXPIRED", "CANCELLED"} :
          sub' = [sub EXCEPT ![s].st = to]
    BY <1>4 DEF Activate, Suspend, Expire, CancelSub, MoveSub
  <2>2. LiveSub(s) /\ ~Ended(s) /\ opening' = opening
    BY <1>4 DEF Activate, Suspend, Expire, CancelSub, MoveSub, LiveSub, Ended
  <2>3. /\ sub'[s].st = to /\ sub'[s].deleted = sub[s].deleted
        /\ \A t \in Sales : t # s => sub'[t] = sub[t]
    BY <1>1, <2>1 DEF SubRow
  <2> QED
    BY <2>2, <2>3 DEF SubWrite, LiveSub
<1>5. ASSUME NEW o \in Openings, NEW s \in Sales, SubmitOpening(o, s) PROVE SubWrite(s)
  <2>1. Entered(s)
    BY <1>5 DEF SubmitOpening, Billable, Entered
  <2> QED
    BY <1>5, <2>1 DEF SubmitOpening, SubWrite
<1>6. ASSUME NEW o \in Openings, NEW term, NEW quantity, InsertOpening(o, term, quantity)
      PROVE  \E s \in Sales : SubWrite(s)
  <2> DEFINE s == opening[o]
  <2>1. s \in Sales
    BY <1>1, <1>6 DEF InsertOpening
  <2>2. /\ sub' = [sub EXCEPT ![s] = NewSub(term, sale[s].total, quantity)]
        /\ opening' = [opening EXCEPT ![o] = NoSale]
    BY <1>6, Zenon DEF InsertOpening
  <2>3. sub'[s].st = "PENDING" /\ ~sub'[s].deleted /\ \A t \in Sales : t # s => sub'[t] = sub[t]
    BY <1>1, <2>1, <2>2 DEF NewSub
  <2> QED
    BY <2>1, <2>2, <2>3 DEF SubWrite
<1> QED
  BY <1>2, <1>3, <1>4, <1>5, <1>6 DEF SubStep

LEMMA RenewalWrites ==
  ASSUME BillingTypeOK, RenewalStep
  PROVE  UNCHANGED <<sub, opening>> \/ \E s \in Sales : SubWrite(s)
<1>1. sub \in [Sales -> SubRow]
  BY DEF BillingTypeOK
<1>2. PICK s \in Sales :
        \/ RequestRenewal(s)
        \/ \E k \in Cycle :
             \/ MarkDue(s, k)
             \/ CancelRenewal(s, k)
             \/ \E g \in Sales \ Direct, cart \in Cart, p \in Payments, m \in Methods :
                  PayRenewal(s, k, g, cart, p, m)
  BY Zenon DEF RenewalStep
<1>3. ASSUME NEW k, RequestRenewal(s) \/ MarkDue(s, k) \/ CancelRenewal(s, k)
      PROVE  UNCHANGED <<sub, opening>>
  BY <1>3, Zenon DEF RequestRenewal, MarkDue, CancelRenewal
<1>4. ASSUME NEW k \in Cycle, NEW g, NEW cart, NEW p, NEW m, PayRenewal(s, k, g, cart, p, m)
      PROVE  SubWrite(s)
  <2>1. /\ LiveSub(s) /\ sub[s].st = "ACTIVE" /\ opening' = opening
        /\ sub' = [sub EXCEPT ![s].start = ren[s][k].start, ![s].end = ren[s][k].end]
    BY <1>4, Zenon DEF PayRenewal
  <2>2. /\ sub'[s].st = "ACTIVE" /\ sub'[s].deleted = sub[s].deleted
        /\ \A t \in Sales : t # s => sub'[t] = sub[t]
    BY <1>1, <2>1 DEF SubRow
  <2> QED
    BY <2>1, <2>2 DEF SubWrite, LiveSub, Ended
<1> QED
  BY <1>2, <1>3, <1>4, Zenon

LEMMA StepWrites ==
  ASSUME BillingTypeOK, [BillingNext]_billingVars
  PROVE  UNCHANGED <<sub, opening>> \/ \E s \in Sales : SubWrite(s)
<1>1. CASE PlainStep \/ UNCHANGED billingVars
  BY <1>1 DEF PlainStep, recurring, billingVars
<1> QED
  BY <1>1, SellWrites, SubWrites, RenewalWrites, Zenon DEF BillingNext

LEMMA StepOpening == EndInv /\ [BillingNext]_billingVars => EndInv'
<1> SUFFICES ASSUME EndInv, [BillingNext]_billingVars PROVE OpeningInv'
  BY StepBillingTypes DEF EndInv
<1>1. /\ TypeOK /\ [Next]_vars
      /\ sub \in [Sales -> SubRow] /\ opening \in [Openings -> Sales \cup {NoSale}]
  BY BillingStepMaps DEF EndInv, BillingTypeOK
<1>2. \A t \in Sales : Entered(t) => Entered(t)'
  BY <1>1, StaysEntered
<1>3. CASE UNCHANGED <<sub, opening>>
  <2>1. \A o \in Openings : opening[o] \in Sales =>
          sub'[opening[o]].st = "NONE" /\ Entered(opening[o])'
    BY <1>1, <1>2, <1>3 DEF EndInv, OpeningInv
  <2> QED
    BY <1>3, <2>1 DEF EndInv, OpeningInv, Entered
<1>4. ASSUME NEW s \in Sales, SubWrite(s) PROVE OpeningInv'
  <2>1. CASE /\ sub[s].st = "NONE" /\ ~Entered(s)
             /\ sub'[s].st = "PENDING" /\ ~sub'[s].deleted
             /\ \A t \in Sales : t # s => sub'[t] = sub[t]
             /\ UNCHANGED opening
    <3>1. \A o \in Openings : opening[o] # s
      BY <2>1 DEF EndInv, OpeningInv
    <3> QED
      BY <1>2, <2>1, <3>1 DEF EndInv, OpeningInv, Entered
  <2>2. ASSUME NEW o \in Openings, opening[o] = s,
               sub'[s].st = "PENDING", ~sub'[s].deleted,
               \A t \in Sales : t # s => sub'[t] = sub[t],
               opening' = [opening EXCEPT ![o] = NoSale]
        PROVE  OpeningInv'
    <3>1. \A q \in Openings : opening'[q] = IF q = o THEN NoSale ELSE opening[q]
      BY <1>1, <2>2
    <3>2. \A q \in Openings : opening'[q] \in Sales => opening'[q] = opening[q] /\ opening[q] # s
      BY <2>2, <3>1, RowsAssumption DEF RowsAssumption, EndInv, OpeningInv
    <3> QED
      BY <1>2, <2>2, <3>1, <3>2 DEF EndInv, OpeningInv, Entered
  <2>3. CASE /\ LiveSub(s)
             /\ sub'[s].st # "NONE"
             /\ \A t \in Sales : t # s => sub'[t] = sub[t]
             /\ UNCHANGED opening
    <3>1. \A o \in Openings : opening[o] # s
      BY <2>3 DEF EndInv, OpeningInv, LiveSub
    <3> QED
      BY <1>2, <2>3, <3>1 DEF EndInv, OpeningInv, Entered
  <2>4. ASSUME sub[s].st = "NONE", Entered(s),
               \A o \in Openings : opening[o] # s, UNCHANGED sub,
               NEW o \in Openings, opening' = [opening EXCEPT ![o] = s]
        PROVE  OpeningInv'
    <3>1. \A q \in Openings : opening'[q] = IF q = o THEN s ELSE opening[q]
      BY <1>1, <2>4
    <3> QED
      BY <1>2, <2>4, <3>1 DEF EndInv, OpeningInv, Entered
  <2> QED
    BY <1>4, <2>1, <2>2, <2>3, <2>4 DEF SubWrite
<1> QED
  BY <1>3, <1>4, StepWrites DEF EndInv

LEMMA InitEnd == BillingInit => EndInv
<1> SUFFICES ASSUME BillingInit PROVE OpeningInv
  BY InitBillingTypes DEF EndInv
<1> QED
  BY RowsAssumption DEF RowsAssumption, BillingInit, OpeningInv, NoSubRow

\* No step pays a renewal of a subscription that ended.
LEMMA EndedNotCharged ==
  ASSUME BillingTypeOK, [BillingNext]_billingVars, NEW t \in Sales, Ended(t),
         NEW j \in Cycle, ren'[t][j].st = "PAID"
  PROVE  ren[t][j].st = "PAID"
<1>1. ren \in [Sales -> [Cycle -> RenRow]]
  BY DEF BillingTypeOK
<1>2. CASE ren' = ren
  BY <1>2
<1>3. ASSUME NEW s \in Sales, NEW amount, NEW term, NEW quantity,
             StartSubscription(s, amount, term, quantity)
      PROVE  ren[t][j].st = "PAID"
  <2>1. CASE ren' = [ren EXCEPT ![s][0] = NewRen(s, 0, term[1], amount)]
    <3>1. ren'[t][j] = ren[t][j] \/ ren'[t][j] = NewRen(s, 0, term[1], amount)
      BY <1>1, <2>1
    <3> QED
      BY <3>1 DEF NewRen
  <2> QED
    BY <1>2, <1>3, <2>1 DEF StartSubscription
<1>4. ASSUME NEW s \in Sales, NEW d, ChangeDuration(s, d) PROVE ren[t][j].st = "PAID"
  <2> DEFINE rows == [k \in Cycle |-> IF LiveRen(s, k) /\ ren[s][k].st = "PENDING"
                                      THEN [ren[s][k] EXCEPT !.start = 0, !.end = d]
                                      ELSE ren[s][k]]
  <2>1. ren' = [ren EXCEPT ![s] = rows]
    BY <1>1, <1>4 DEF ChangeDuration
  <2>2. rows[j] = ren[s][j] \/ rows[j] = [ren[s][j] EXCEPT !.start = 0, !.end = d]
    OBVIOUS
  <2>3. rows[j].st = ren[s][j].st
    BY <1>1, <2>2 DEF RenRow
  <2> HIDE DEF rows
  <2> QED
    BY <1>1, <2>1, <2>3
<1>5. ASSUME NEW s \in Sales, RemoveSale(s) PROVE ren[t][j].st = "PAID"
  <2>1. \/ ren'[t][j] = ren[t][j]
        \/ ren'[t][j] = [ren[t][j] EXCEPT !.st = "CANCELLED", !.deleted = TRUE]
    BY <1>5 DEF RemoveSale, CloseRenewals
  <2>2. ren[t][j] \in RenRow
    BY <1>1
  <2>3. [ren[t][j] EXCEPT !.st = "CANCELLED", !.deleted = TRUE].st = "CANCELLED"
    BY <2>2 DEF RenRow
  <2> QED
    BY <2>1, <2>3
<1>6. ASSUME NEW s \in Sales, RequestRenewal(s) PROVE ren[t][j].st = "PAID"
  <2>1. PICK k, row : ren' = [ren EXCEPT ![s] = [ren[s] EXCEPT ![k] = row]] /\ row.st = "PENDING"
    <3>1. ren' = [ren EXCEPT ![s] = [ren[s] EXCEPT ![sub[s].end] =
                    NewRen(s, sub[s].end, sub[s].end + sub[s].cycle, sub[s].amount)]]
      BY <1>6, Zenon DEF RequestRenewal
    <3>2. NewRen(s, sub[s].end, sub[s].end + sub[s].cycle, sub[s].amount).st = "PENDING"
      BY DEF NewRen
    <3> QED
      BY <3>1, <3>2
  <2>2. ren'[t][j] = ren[t][j] \/ ren'[t][j] = row
    BY <1>1, <2>1
  <2> QED
    BY <2>1, <2>2
<1>7. ASSUME NEW s \in Sales, NEW k \in Cycle, MarkDue(s, k) \/ CancelRenewal(s, k)
      PROVE  ren[t][j].st = "PAID"
  <2>1. PICK st \in {"DUE", "CANCELLED"} :
          ren' = [ren EXCEPT ![s] = [ren[s] EXCEPT ![k] = [ren[s][k] EXCEPT !.st = st]]]
    BY <1>7, Zenon DEF MarkDue, CancelRenewal
  <2>2. ren'[t][j] = ren[t][j] \/ ren'[t][j] = [ren[t][j] EXCEPT !.st = st]
    BY <1>1, <2>1
  <2> QED
    BY <1>1, <2>1, <2>2 DEF RenRow
<1>8. ASSUME NEW s \in Sales, NEW k \in Cycle, NEW g, NEW cart, NEW p, NEW m,
             PayRenewal(s, k, g, cart, p, m)
      PROVE  ren[t][j].st = "PAID"
  <2>1. LiveSub(s) /\ sub[s].st = "ACTIVE" /\ ren' = [ren EXCEPT ![s] = Paid(s, k, g)]
    BY <1>8, Zenon DEF PayRenewal
  <2>2. s # t
    BY <2>1 DEF LiveSub, Ended
  <2> QED
    BY <1>1, <2>1, <2>2
<1>9. CASE PlainStep \/ UNCHANGED billingVars
  BY <1>2, <1>9 DEF PlainStep, recurring, billingVars
<1>10. CASE SellStep
  BY <1>3, <1>10, TermsAssumption DEF TermsAssumption, SellStep, SellConfirmed, SellPaid, ConfirmSale
<1>11. CASE SubStep
  <2>1. ASSUME NEW s \in Sales, Activate(s) \/ Suspend(s) \/ Expire(s) \/ CancelSub(s)
        PROVE  ren' = ren
    BY <2>1 DEF Activate, Suspend, Expire, CancelSub, MoveSub
  <2>2. ASSUME NEW o, NEW s, NEW term, NEW quantity,
               SubmitOpening(o, s) \/ InsertOpening(o, term, quantity)
        PROVE  ren' = ren
    BY <2>2, Zenon DEF SubmitOpening, InsertOpening
  <2> QED
    BY <1>2, <1>4, <1>5, <1>11, <2>1, <2>2, Zenon DEF SubStep
<1>12. CASE RenewalStep
  BY <1>6, <1>7, <1>8, <1>12, Zenon DEF RenewalStep
<1> QED
  BY <1>9, <1>10, <1>11, <1>12 DEF BillingNext

\* A subscription that was cancelled, expired or removed is never revived and
\* never charged again, whatever requests were in flight when it ended.
THEOREM EndedSubscriptionsStayEnded == BillingSpec => EndedIsFinal
<1>1. ASSUME EndInv, [BillingNext]_billingVars, NEW t \in Sales, Ended(t) PROVE Ended(t)'
  <2>1. CASE UNCHANGED <<sub, opening>>
    BY <1>1, <2>1 DEF Ended
  <2>2. ASSUME NEW s \in Sales, SubWrite(s) PROVE Ended(t)'
    <3>1. sub[t].st # "NONE"
      BY <1>1 DEF EndInv, OpeningInv, Ended
    <3>2. CASE s # t
      <4>1. sub'[t] = sub[t]
        BY <2>2, <3>2 DEF SubWrite
      <4> QED
        BY <1>1, <4>1 DEF Ended
    <3>3. CASE s = t
      BY <1>1, <2>2, <3>1, <3>3 DEF SubWrite, EndInv, OpeningInv
    <3> QED
      BY <3>2, <3>3
  <2> QED
    BY <1>1, <2>1, <2>2, StepWrites DEF EndInv
<1>2. EndInv /\ [BillingNext]_billingVars =>
        [\A s \in Sales : Ended(s) =>
           /\ Ended(s)'
           /\ \A k \in Cycle : ren'[s][k].st = "PAID" => ren[s][k].st = "PAID"]_billingVars
  BY <1>1, EndedNotCharged DEF EndInv
<1> QED
  BY <1>2, InitEnd, StepOpening, PTL DEF BillingSpec, EndedIsFinal
----------------------------------------------------------------------------
(* What a step does to the sales and to the renewal rows.                  *)

\* Only RemoveSale takes a sale away, and only PayRenewal writes a sale that
\* no user created.
LEMMA BillingWritesSale ==
  ASSUME [BillingNext]_billingVars
  PROVE  \/ sale' = sale
         \/ \E s \in Sales :
              \/ s \in Direct /\ \E st, total, cart, paidNow :
                   NewSale(s, st, total, cart, paidNow) /\ st # "NONE"
              \/ \E total, paidNow : UpdateDraft(s, total, paidNow)
              \/ Confirm(s) \/ Fulfill(s) \/ Cancel(s) \/ RemoveSale(s)
         \/ \E s \in Sales, k \in Cycle, g \in Sales \ Direct, cart \in Cart,
               p \in Payments, m \in Methods : PayRenewal(s, k, g, cart, p, m)
<1>0. Direct \subseteq Sales
  BY TermsAssumption DEF TermsAssumption
<1>1. CASE PlainStep
  <2>1. ASSUME NEW s \in Direct, NEW total, NEW cart, NEW paidNow, CreateDraft(s, total, cart, paidNow)
        PROVE  \E st, t, c, n : NewSale(s, st, t, c, n) /\ st # "NONE"
    BY <2>1 DEF CreateDraft
  <2>2. PaymentStep => sale' = sale
    <3>1. ASSUME NEW r, NEW s, NEW gross, NEW m, NEW k, NEW p,
                 SubmitPayment(r, s, gross, m, k) \/ InsertPayment(r, p) \/ RecoverPayment(r)
          PROVE  sale' = sale
      BY <3>1, Zenon DEF SubmitPayment, InsertPayment, RecoverPayment
    <3>2. ASSUME NEW p, NEW amount, ConfirmPayment(p) \/ FailPayment(p) \/ RefundPayment(p, amount)
          PROVE  sale' = sale
      BY <3>2, Zenon DEF ConfirmPayment, FailPayment, RefundPayment
    <3> QED
      BY <3>1, <3>2, Zenon DEF PaymentStep
  <2>3. CatalogStep => sale' = sale
    BY DEF CatalogStep, SetTracked, AdjustStock, SetFee
  <2> QED
    BY <1>0, <1>1, <2>1, <2>2, <2>3, Zenon DEF PlainStep
<1>2. CASE SellStep
  <2>1. ASSUME NEW s \in Direct, NEW total, NEW cart, NEW p, NEW gross, NEW m, NEW term, NEW quantity,
               \/ SellConfirmed(s, total, cart, term, quantity)
               \/ SellPaid(s, total, cart, p, gross, m, term, quantity)
        PROVE  \E st, t, c, n : NewSale(s, st, t, c, n) /\ st # "NONE"
    <3>1. PICK paidNow \in BOOLEAN : NewSale(s, "CONFIRMED", total, cart, paidNow)
      BY <2>1, Zenon DEF SellConfirmed, SellPaid, CreateConfirmed, CreatePaid
    <3>2. "CONFIRMED" # "NONE"
      OBVIOUS
    <3> QED
      BY <3>1, <3>2, Zenon
  <2>2. ASSUME NEW s \in Direct, NEW term, NEW quantity, ConfirmSale(s, term, quantity)
        PROVE  Confirm(s)
    BY <2>2, Zenon DEF ConfirmSale, ConfirmUnpaid, ConfirmPaid
  <2> QED
    BY <1>0, <1>2, <2>1, <2>2, Zenon DEF SellStep
<1>3. CASE SubStep
  <2>1. ASSUME NEW s, NEW d,
               ChangeDuration(s, d) \/ Activate(s) \/ Suspend(s) \/ Expire(s) \/ CancelSub(s)
        PROVE  sale' = sale
    BY <2>1 DEF ChangeDuration, Activate, Suspend, Expire, CancelSub, MoveSub, vars
  <2>2. ASSUME NEW o, NEW s, NEW term, NEW quantity,
               SubmitOpening(o, s) \/ InsertOpening(o, term, quantity)
        PROVE  sale' = sale
    BY <2>2 DEF SubmitOpening, InsertOpening, vars
  <2> QED
    BY <1>3, <2>1, <2>2, Zenon DEF SubStep
<1>4. CASE RenewalStep
  <2>1. ASSUME NEW s, NEW k, RequestRenewal(s) \/ MarkDue(s, k) \/ CancelRenewal(s, k)
        PROVE  sale' = sale
    BY <2>1 DEF RequestRenewal, MarkDue, CancelRenewal, vars
  <2> QED
    BY <1>4, <2>1, Zenon DEF RenewalStep
<1>5. CASE UNCHANGED billingVars
  BY <1>5 DEF billingVars
<1> QED
  BY <1>1, <1>2, <1>3, <1>4, <1>5, Zenon DEF BillingNext

\* A sale that left the draft statuses keeps its total.
LEMMA TotalStays ==
  ASSUME TypeOK, [Next]_vars, NEW t \in Sales, Entered(t)
  PROVE  Entered(t)' /\ sale'[t].total = sale[t].total
<1>1. sale \in [Sales -> SaleRow]
  BY DEF TypeOK
<1>2. ASSUME NEW s \in Sales, NEW st, NEW total, NEW cart, NEW paidNow,
             NewSale(s, st, total, cart, paidNow) \/ UpdateDraft(s, total, paidNow)
      PROVE  sale'[t] = sale[t]
  BY <1>1, <1>2 DEF NewSale, UpdateDraft, Entered
<1>3. ASSUME NEW s \in Sales, Confirm(s) \/ Fulfill(s) \/ Cancel(s) \/ Remove(s)
      PROVE  sale'[t].total = sale[t].total
  BY <1>1, <1>3 DEF Confirm, Fulfill, Cancel, Remove, SaleRow
<1> QED
  BY <1>2, <1>3, StepWritesSale, StaysEntered

\* A row that exists keeps what it charges: it may close, and only its own
\* payment makes it PAID.
Revised(t, j) ==
  /\ ren'[t][j].st = "NONE" <=> ren[t][j].st = "NONE"
  /\ ren'[t][j].amount = ren[t][j].amount
  /\ ren'[t][j].source = ren[t][j].source
  /\ ren'[t][j].sale = ren[t][j].sale
  /\ Open(t, j)' => Open(t, j)
  /\ ren'[t][j].st \in {"PENDING", "DUE"} => ren[t][j].st \in {"PENDING", "DUE"}
  /\ ren'[t][j].st = "PAID" => ren[t][j].st = "PAID" /\ ren'[t][j].end = ren[t][j].end

\* A row is added where there was none.
Added(t, j, source) ==
  /\ ren[t][j].st = "NONE"
  /\ \E start, end, amount : ren'[t][j] = NewRen(source, start, end, amount)

\* A row is paid with sale g.
PaidWith(s, k, g) ==
  /\ ren'[s][k].st = "PAID" /\ ren'[s][k].sale = g
  /\ ren'[s][k].amount = ren[s][k].amount
  /\ ren'[s][k].source = ren[s][k].source
  /\ ren'[s][k].end = ren[s][k].end

\* Every renewal belongs to a subscription that was opened.
RowsNeedSub == \A s \in Sales, k \in Cycle : sub[s].st = "NONE" => ren[s][k].st = "NONE"

LEMMA SameRow == \A t, j : ren'[t][j] = ren[t][j] => Revised(t, j)
BY DEF Revised, Open, LiveRen

LEMMA WriteRow ==
  ASSUME BillingTypeOK, NEW s \in Sales, NEW k \in Cycle, NEW row,
         ren' = [ren EXCEPT ![s] = [ren[s] EXCEPT ![k] = row]]
  PROVE  /\ ren'[s][k] = row
         /\ \A t \in Sales, j \in Cycle : t # s \/ j # k => Revised(t, j)
<1>1. ren \in [Sales -> [Cycle -> RenRow]]
  BY DEF BillingTypeOK
<1>2. \A t \in Sales, j \in Cycle : t # s \/ j # k => ren'[t][j] = ren[t][j]
  BY <1>1
<1> QED
  BY <1>1, <1>2, SameRow

LEMMA PaymentWritesRows ==
  ASSUME BillingTypeOK, NEW s \in Sales, NEW k \in Cycle, NEW g, NEW cart, NEW p, NEW m,
         PayRenewal(s, k, g, cart, p, m)
  PROVE  /\ Open(s, k) /\ ren[s][k].end \in Cycle
         /\ PaidWith(s, k, g)
         /\ ren'[s][ren[s][k].end].st # "NONE"
         /\ \A t \in Sales, j \in Cycle : t # s \/ j # k =>
              Revised(t, j) \/ (t = s /\ Added(t, j, g))
<1> DEFINE next == ren[s][k].end
           rows == [ren[s] EXCEPT ![k].st = "PAID", ![k].sale = g]
           paid == [ren[s][k] EXCEPT !.st = "PAID", !.sale = g]
           row  == NewRen(g, next, next + sub[s].cycle, ren[s][k].amount)
<1>1. ren \in [Sales -> [Cycle -> RenRow]] /\ ren[s][k] \in RenRow
  BY DEF BillingTypeOK
<1>2. /\ Open(s, k) /\ next \in Cycle
      /\ ren' = [ren EXCEPT ![s] = Paid(s, k, g)]
  BY Zenon DEF PayRenewal
<1>3. rows = [ren[s] EXCEPT ![k] = paid]
  BY <1>1
<1>4. Paid(s, k, g) = IF rows[next].st # "NONE" THEN rows ELSE [rows EXCEPT ![next] = row]
  BY Zenon DEF Paid
<1>5. /\ paid.st = "PAID" /\ row.st = "PENDING" /\ paid.sale = g
      /\ paid.amount = ren[s][k].amount /\ paid.source = ren[s][k].source /\ paid.end = ren[s][k].end
  BY <1>1 DEF RenRow, NewRen
<1>6. rows \in [Cycle -> RenRow \cup {paid}] /\ rows[k] = paid
      /\ \A j \in Cycle \ {k} : rows[j] = ren[s][j]
  <2> HIDE DEF rows, paid
  <2> QED
    BY <1>1, <1>3
<1> HIDE DEF rows, paid
<1>7. ren'[s] = Paid(s, k, g) /\ \A t \in Sales : t # s => ren'[t] = ren[t]
  BY <1>1, <1>2
<1>8. Paid(s, k, g)[k] = paid /\ Paid(s, k, g)[next].st # "NONE"
      /\ \A j \in Cycle : j # k => \/ Paid(s, k, g)[j] = ren[s][j]
                                   \/ ren[s][j].st = "NONE" /\ Paid(s, k, g)[j] = row
  <2>1. CASE rows[next].st # "NONE"
    BY <1>2, <1>4, <1>6, <2>1
  <2>2. CASE rows[next].st = "NONE"
    <3> HIDE DEF row
    <3>1. next # k
      BY <1>5, <1>6, <2>2
    <3>2. Paid(s, k, g) = [rows EXCEPT ![next] = row]
      BY <1>4, <2>2
    <3> QED
      BY <1>2, <1>5, <1>6, <2>2, <3>1, <3>2
  <2> QED
    BY <2>1, <2>2
<1>9. ASSUME NEW t \in Sales, NEW j \in Cycle, t # s \/ j # k
      PROVE  Revised(t, j) \/ (t = s /\ Added(t, j, g))
  <2>1. CASE ren'[t][j] = ren[t][j]
    BY <2>1, SameRow
  <2>2. CASE ren'[t][j] # ren[t][j]
    BY <1>7, <1>8, <1>9, <2>2 DEF Added
  <2> QED
    BY <2>1, <2>2
<1> QED
  BY <1>2, <1>5, <1>7, <1>8, <1>9 DEF PaidWith

\* Changing a period or closing renewals adds no row and pays none.
LEMMA ReviseAll ==
  ASSUME BillingTypeOK, NEW s \in Sales, NEW d, ChangeDuration(s, d) \/ RemoveSale(s),
         NEW t \in Sales, NEW j \in Cycle
  PROVE  Revised(t, j)
<1>1. ren \in [Sales -> [Cycle -> RenRow]] /\ ren[t][j] \in RenRow
  BY DEF BillingTypeOK
<1>2. CASE ChangeDuration(s, d)
  <2> DEFINE moved1 == [ren[s][j] EXCEPT !.start = 0, !.end = d]
             rows == [k \in Cycle |-> IF LiveRen(s, k) /\ ren[s][k].st = "PENDING"
                                      THEN [ren[s][k] EXCEPT !.start = 0, !.end = d]
                                      ELSE ren[s][k]]
  <2>1. ren' = [ren EXCEPT ![s] = rows]
    BY <1>1, <1>2 DEF ChangeDuration
  <2>2. rows[j] = ren[s][j] \/ (ren[s][j].st = "PENDING" /\ rows[j] = moved1)
    OBVIOUS
  <2>3. /\ moved1.st = ren[s][j].st /\ moved1.deleted = ren[s][j].deleted
        /\ moved1.amount = ren[s][j].amount /\ moved1.source = ren[s][j].source
        /\ moved1.sale = ren[s][j].sale
    <3>1. ren[s][j] \in RenRow
      BY <1>1
    <3> QED
      BY <3>1 DEF RenRow
  <2> HIDE DEF rows, moved1
  <2>4. ren'[t][j] = ren[t][j] \/ (t = s /\ ren[s][j].st = "PENDING" /\ ren'[t][j] = moved1)
    BY <1>1, <2>1, <2>2
  <2> QED
    BY <2>3, <2>4, SameRow DEF Revised, Open, LiveRen
<1>3. CASE RemoveSale(s)
  <2> DEFINE closed == [ren[t][j] EXCEPT !.st = "CANCELLED", !.deleted = TRUE]
  <2>1. ren'[t][j] = ren[t][j] \/ (LiveRen(t, j) /\ ren'[t][j] = closed)
    BY <1>3 DEF RemoveSale, CloseRenewals
  <2>2. /\ closed.st = "CANCELLED" /\ closed.amount = ren[t][j].amount
        /\ closed.source = ren[t][j].source /\ closed.sale = ren[t][j].sale
    BY <1>1 DEF RenRow
  <2> HIDE DEF closed
  <2> QED
    BY <2>1, <2>2, SameRow DEF Revised, Open, LiveRen
<1> QED
  BY <1>2, <1>3

\* A step revises rows, adds one for a subscription that exists and whose
\* sale stands, or pays one.
LEMMA RowSteps ==
  ASSUME BillingTypeOK, RowsNeedSub, [BillingNext]_billingVars
  PROVE  \/ \A t \in Sales, j \in Cycle : Revised(t, j)
         \/ \E s \in Sales, k \in Cycle :
              /\ Added(s, k, s) /\ sub'[s].st # "NONE"
              /\ Live(s)' \/ (LiveSub(s) /\ sale' = sale)
              /\ \A t \in Sales, j \in Cycle : t # s \/ j # k => Revised(t, j)
         \/ \E s \in Sales, k \in Cycle, g \in Sales \ Direct, cart \in Cart,
               p \in Payments, m \in Methods : PayRenewal(s, k, g, cart, p, m)
<1> DEFINE Adds(s, k) == /\ Added(s, k, s) /\ sub'[s].st # "NONE"
                         /\ Live(s)' \/ (LiveSub(s) /\ sale' = sale)
                         /\ \A t \in Sales, j \in Cycle : t # s \/ j # k => Revised(t, j)
           Revises == \A t \in Sales, j \in Cycle : Revised(t, j)
           Pays == \E s \in Sales, k \in Cycle, g \in Sales \ Direct, cart \in Cart,
                      p \in Payments, m \in Methods : PayRenewal(s, k, g, cart, p, m)
           AddsOne == \E s \in Sales, k \in Cycle : Adds(s, k)
<1> SUFFICES Revises \/ AddsOne \/ Pays
  OBVIOUS
<1>0. /\ sub \in [Sales -> SubRow] /\ ren \in [Sales -> [Cycle -> RenRow]] /\ sale \in [Sales -> SaleRow]
      /\ 0 \in Cycle /\ Cycle \subseteq Nat
  BY TermsAssumption DEF TermsAssumption, BillingTypeOK, TypeOK, Cycle
<1>a. ASSUME ren' = ren PROVE Revises
  BY <1>a, SameRow
<1>1. CASE PlainStep \/ UNCHANGED billingVars
  BY <1>1, <1>a DEF PlainStep, recurring, billingVars
<1>2. CASE SellStep
  <2>1. PICK s \in Direct, term \in Terms, quantity \in Quantities :
          \/ \E total \in Amount, cart \in Cart :
               \/ SellConfirmed(s, total, cart, term, quantity)
               \/ \E p \in Payments, gross \in 1..MaxAmount, m \in Methods :
                    SellPaid(s, total, cart, p, gross, m, term, quantity)
          \/ ConfirmSale(s, term, quantity)
    BY <1>2, Zenon DEF SellStep
  <2>2. s \in Sales
    BY TermsAssumption DEF TermsAssumption
  <2>3. PICK amount : StartSubscription(s, amount, term, quantity)
    BY <2>1, Zenon DEF SellConfirmed, SellPaid, ConfirmSale
  <2>4. Live(s)'
    <3>1. \/ \E total, cart, paidNow : NewSale(s, "CONFIRMED", total, cart, paidNow)
          \/ Confirm(s)
      BY <2>1, Zenon
      DEF SellConfirmed, SellPaid, ConfirmSale, CreateConfirmed, CreatePaid, ConfirmUnpaid, ConfirmPaid
    <3>2. ASSUME NEW total, NEW cart, NEW paidNow, NewSale(s, "CONFIRMED", total, cart, paidNow)
          PROVE  Live(s)'
      BY <1>0, <2>2, <3>2 DEF NewSale, Live
    <3>3. ASSUME Confirm(s) PROVE Live(s)'
      BY <1>0, <2>2, <3>3 DEF Confirm, Live, SaleRow
    <3> QED
      BY <3>1, <3>2, <3>3
  <2>5. CASE sub[s].st # "NONE"
    BY <1>a, <2>3, <2>5 DEF StartSubscription
  <2>6. CASE sub[s].st = "NONE"
    <3>1. /\ sub' = [sub EXCEPT ![s] = NewSub(term, amount, quantity)]
          /\ ren' = [ren EXCEPT ![s] = [ren[s] EXCEPT ![0] = NewRen(s, 0, term[1], amount)]]
      BY <2>3, <2>6, Zenon DEF StartSubscription
    <3>2. /\ ren'[s][0] = NewRen(s, 0, term[1], amount)
          /\ \A t \in Sales, j \in Cycle : t # s \/ j # 0 => Revised(t, j)
      BY <1>0, <2>2, <3>1, WriteRow
    <3>3. sub'[s].st # "NONE"
      BY <1>0, <2>2, <3>1 DEF NewSub
    <3>4. Added(s, 0, s)
      BY <1>0, <2>2, <2>6, <3>2 DEF Added, RowsNeedSub
    <3>5. Adds(s, 0)
      BY <2>4, <3>2, <3>3, <3>4
    <3> QED
      BY <1>0, <2>2, <3>5
  <2> QED
    BY <2>5, <2>6
<1>3. CASE SubStep
  <2>1. ASSUME NEW s \in Sales, Activate(s) \/ Suspend(s) \/ Expire(s) \/ CancelSub(s)
        PROVE  ren' = ren
    BY <2>1 DEF Activate, Suspend, Expire, CancelSub, MoveSub
  <2>2. ASSUME NEW o, NEW s, NEW term, NEW quantity,
               SubmitOpening(o, s) \/ InsertOpening(o, term, quantity)
        PROVE  ren' = ren
    BY <2>2, Zenon DEF SubmitOpening, InsertOpening
  <2>3. ASSUME NEW s \in Sales, NEW d, ChangeDuration(s, d) \/ RemoveSale(s) PROVE Revises
    BY <2>3, ReviseAll
  <2> QED
    BY <1>3, <1>a, <2>1, <2>2, <2>3, Zenon DEF SubStep
<1>4. CASE RenewalStep
  <2>1. ASSUME NEW s \in Sales, RequestRenewal(s) PROVE \E k \in Cycle : Adds(s, k)
    <3> DEFINE k == sub[s].end
               row == NewRen(s, k, k + sub[s].cycle, sub[s].amount)
    <3>1. /\ LiveSub(s) /\ k \in Cycle /\ ren[s][k].st = "NONE" /\ sub' = sub /\ sale' = sale
          /\ ren' = [ren EXCEPT ![s] = [ren[s] EXCEPT ![k] = row]]
      BY <2>1, Zenon DEF RequestRenewal, vars
    <3> HIDE DEF row
    <3>2. ren'[s][k] = row /\ \A t \in Sales, j \in Cycle : t # s \/ j # k => Revised(t, j)
      BY <3>1, WriteRow
    <3>3. Adds(s, k)
      BY <3>1, <3>2 DEF Added, LiveSub, row
    <3> QED
      BY <3>1, <3>3
  <2>2. ASSUME NEW s \in Sales, NEW k \in Cycle, MarkDue(s, k) \/ CancelRenewal(s, k)
        PROVE  Revises
    <3>1. PICK st \in {"DUE", "CANCELLED"} :
            ren' = [ren EXCEPT ![s] = [ren[s] EXCEPT ![k] = [ren[s][k] EXCEPT !.st = st]]]
      BY <2>2, Zenon DEF MarkDue, CancelRenewal
    <3>2. Open(s, k) /\ ren[s][k] \in RenRow
      BY <1>0, <2>2 DEF MarkDue, CancelRenewal, Open
    <3> DEFINE row == [ren[s][k] EXCEPT !.st = st]
    <3>6. ren' = [ren EXCEPT ![s] = [ren[s] EXCEPT ![k] = row]]
      BY <3>1
    <3>3. /\ row.st = st /\ row.deleted = ren[s][k].deleted /\ row.amount = ren[s][k].amount
          /\ row.source = ren[s][k].source /\ row.sale = ren[s][k].sale
      BY <3>2 DEF RenRow
    <3> HIDE DEF row
    <3>5. ren'[s][k] = row /\ \A t \in Sales, j \in Cycle : t # s \/ j # k => Revised(t, j)
      BY <3>6, WriteRow
    <3>4. Revised(s, k)
      BY <3>2, <3>3, <3>5 DEF Revised, Open, LiveRen
    <3> QED
      BY <3>4, <3>5
  <2> QED
    BY <1>4, <2>1, <2>2, Zenon DEF RenewalStep
<1> QED
  BY <1>1, <1>2, <1>3, <1>4 DEF BillingNext
----------------------------------------------------------------------------
(* The chain of renewals and the sales that charge them.                   *)

\* A paid renewal has its sale, and a row follows it; a renewal that was not
\* paid has no sale.
RowsShape ==
  \A s \in Sales, k \in Cycle :
    /\ ren[s][k].st = "PAID" => /\ ren[s][k].sale \in Sales
                                /\ ren[s][k].end \in Cycle
                                /\ ren[s][ren[s][k].end].st # "NONE"
    /\ ren[s][k].st \in {"NONE", "PENDING", "DUE"} => ren[s][k].sale = NoSale

\* Sale g was sold for amount and holds a settled payment of it.
Settles(g, amount) ==
  /\ Entered(g)
  /\ sale[g].total = amount
  /\ \E p \in Payments : payment[p].sale = g /\ payment[p].net = amount /\ Settled(p)

\* The same after the step.
SettlesNext(g, amount) ==
  /\ sale'[g].st \notin {"NONE", "DRAFT", "PENDING"}
  /\ sale'[g].total = amount
  /\ \E p \in Payments : /\ payment'[p].sale = g /\ payment'[p].net = amount
                         /\ payment'[p].st \in {"CONFIRMED", "REFUNDED"} /\ ~payment'[p].deleted

SalesSettle ==
  \A s \in Sales, k \in Cycle :
    ren[s][k].sale \in Sales => Settles(ren[s][k].sale, ren[s][k].amount)

OneRowPerSale ==
  \A s, t \in Sales, k, j \in Cycle :
    ren[s][k].sale \in Sales /\ ren[t][j].sale = ren[s][k].sale => t = s /\ j = k

SalesAnswer ==
  \A g \in Sales \ Direct : sale[g].st # "NONE" =>
    \E s \in Sales, k \in Cycle : ren[s][k].sale = g

ChargeInv ==
  BillingTypeOK /\ RowsNeedSub /\ RowsShape /\ SalesSettle /\ OneRowPerSale /\ SalesAnswer

LEMMA RowsNeedSubStep ==
  ASSUME BillingTypeOK, RowsNeedSub, [BillingNext]_billingVars
  PROVE  RowsNeedSub'
<1> SUFFICES ASSUME NEW t \in Sales, NEW j \in Cycle, sub'[t].st = "NONE"
             PROVE  ren'[t][j].st = "NONE"
  BY DEF RowsNeedSub
<1>1. sub[t].st = "NONE"
  BY StepWrites DEF SubWrite
<1>2. ren[t][j].st = "NONE"
  BY <1>1 DEF RowsNeedSub
<1>3. ASSUME NEW s \in Sales, NEW k \in Cycle, NEW g, NEW cart, NEW p, NEW m,
             PayRenewal(s, k, g, cart, p, m)
      PROVE  Revised(t, j)
  <2>1. s # t
    BY <1>1, <1>3 DEF PayRenewal, LiveSub
  <2> QED
    BY <1>3, <2>1, PaymentWritesRows
<1>4. Revised(t, j)
  BY <1>3, RowSteps
<1> QED
  BY <1>2, <1>4 DEF Revised

LEMMA ShapeStep ==
  ASSUME BillingTypeOK, RowsNeedSub, RowsShape, [BillingNext]_billingVars
  PROVE  RowsShape'
<1> DEFINE Shape(s, k) ==
             /\ ren'[s][k].st = "PAID" => /\ ren'[s][k].sale \in Sales
                                          /\ ren'[s][k].end \in Cycle
                                          /\ ren'[s][ren'[s][k].end].st # "NONE"
             /\ ren'[s][k].st \in {"NONE", "PENDING", "DUE"} => ren'[s][k].sale = NoSale
<1> SUFFICES ASSUME NEW t \in Sales, NEW j \in Cycle PROVE Shape(t, j)
  BY DEF RowsShape
<1>0. ren \in [Sales -> [Cycle -> RenRow]]
  BY DEF BillingTypeOK
<1>1. ASSUME Revised(t, j), \A i \in Cycle : ren[t][i].st # "NONE" => ren'[t][i].st # "NONE"
      PROVE  Shape(t, j)
  BY <1>1 DEF Revised, RowsShape
<1>2. ASSUME NEW source, Added(t, j, source) PROVE Shape(t, j) /\ ren'[t][j].st # "NONE"
  BY <1>2 DEF Added, NewRen
<1>3. CASE \A s \in Sales, k \in Cycle : Revised(s, k)
  BY <1>1, <1>3 DEF Revised
<1>4. ASSUME NEW s \in Sales, NEW k \in Cycle, Added(s, k, s),
             \A x \in Sales, i \in Cycle : x # s \/ i # k => Revised(x, i)
      PROVE  Shape(t, j)
  <2>1. \A i \in Cycle : ren[t][i].st # "NONE" => ren'[t][i].st # "NONE"
    BY <1>4 DEF Revised, Added
  <2> QED
    BY <1>1, <1>2, <1>4, <2>1
<1>5. ASSUME NEW s \in Sales, NEW k \in Cycle, NEW g \in Sales \ Direct, NEW cart, NEW p, NEW m,
             PayRenewal(s, k, g, cart, p, m)
      PROVE  Shape(t, j)
  <2>1. /\ Open(s, k) /\ ren[s][k].end \in Cycle
        /\ PaidWith(s, k, g)
        /\ ren'[s][ren[s][k].end].st # "NONE"
        /\ \A x \in Sales, i \in Cycle : x # s \/ i # k =>
             Revised(x, i) \/ (x = s /\ Added(x, i, g))
    BY <1>5, PaymentWritesRows
  <2>2. ren'[s][k].st = "PAID" /\ ren'[s][k].sale = g /\ ren'[s][k].end = ren[s][k].end
    BY <2>1 DEF PaidWith
  <2>3. ASSUME NEW i \in Cycle, ren[t][i].st # "NONE" PROVE ren'[t][i].st # "NONE"
    <3>1. CASE t = s /\ i = k
      BY <2>2, <3>1
    <3>2. CASE t # s \/ i # k
      <4>1. Revised(t, i)
        BY <2>1, <2>3, <3>2 DEF Added
      <4> QED
        BY <2>3, <4>1 DEF Revised
    <3> QED
      BY <3>1, <3>2
  <2>4. CASE t = s /\ j = k
    BY <2>1, <2>2, <2>4
  <2>5. CASE t # s \/ j # k
    BY <1>1, <1>2, <2>1, <2>3, <2>5
  <2> QED
    BY <2>4, <2>5
<1> QED
  BY <1>3, <1>4, <1>5, RowSteps

\* What settles a charge stays: the payment, its amounts and the total.
LEMMA SettlesStays ==
  ASSUME BillingTypeOK, [BillingNext]_billingVars, NEW g \in Sales, NEW amount, Settles(g, amount)
  PROVE  SettlesNext(g, amount)
<1>1. TypeOK /\ [Next]_vars
  BY BillingStepMaps DEF BillingTypeOK
<1>2. Entered(g)' /\ sale'[g].total = amount
  BY <1>1, TotalStays DEF Settles
<1>3. PICK p \in Payments : payment[p].sale = g /\ payment[p].net = amount /\ Settled(p)
  BY DEF Settles
<1>4. RowKept(p)
  BY <1>1, <1>3, PaymentsKept DEF Settled, Exists
<1>5. payment'[p].sale = g /\ payment'[p].net = amount /\ Settled(p)'
  BY <1>3, <1>4 DEF RowKept
<1> QED
  BY <1>2, <1>5 DEF SettlesNext, Entered, Settled, Exists

\* Paying a renewal writes the sale and the payment that settle it.
LEMMA PaymentSettles ==
  ASSUME BillingTypeOK, NEW s \in Sales, NEW k \in Cycle, NEW g \in Sales, NEW cart,
         NEW p \in Payments, NEW m, PayRenewal(s, k, g, cart, p, m)
  PROVE  sale[g].st = "NONE" /\ SettlesNext(g, ren[s][k].amount)
<1> DEFINE amount == ren[s][k].amount
           row == [st |-> "CONFIRMED", deleted |-> FALSE, sale |-> g, gross |-> amount,
                   net |-> amount, refunded |-> 0, method |-> m, key |-> NoKey]
           new == [st |-> "CONFIRMED", deleted |-> FALSE, total |-> amount, cart |-> cart,
                   paidNow |-> FALSE]
<1>1. CreateRenewalSale(g, amount, cart, p, m)
  BY Zenon DEF PayRenewal
<1>2. /\ sale[g].st = "NONE" /\ sale' = [sale EXCEPT ![g] = new]
      /\ payment' = [payment EXCEPT ![p] = row]
  BY <1>1, Zenon DEF CreateRenewalSale, NewSale
<1>3. sale'[g] = new /\ payment'[p] = row
  BY <1>2 DEF BillingTypeOK, TypeOK
<1>4. /\ sale'[g].st = "CONFIRMED" /\ sale'[g].total = amount
      /\ payment'[p].sale = g /\ payment'[p].net = amount
      /\ payment'[p].st = "CONFIRMED" /\ ~payment'[p].deleted
  BY <1>3
<1> QED
  BY <1>2, <1>4 DEF SettlesNext

LEMMA ChargeStep == ChargeInv /\ [BillingNext]_billingVars => ChargeInv'
<1> SUFFICES ASSUME ChargeInv, [BillingNext]_billingVars
             PROVE  SalesSettle' /\ OneRowPerSale' /\ SalesAnswer'
  BY StepBillingTypes, RowsNeedSubStep, ShapeStep DEF ChargeInv
<1>0. /\ BillingTypeOK /\ RowsNeedSub /\ RowsShape /\ SalesSettle /\ OneRowPerSale /\ SalesAnswer
      /\ ren \in [Sales -> [Cycle -> RenRow]]
  BY DEF ChargeInv, BillingTypeOK
\* A row that is not paid in this step keeps its amount and its sale, if any.
<1> DEFINE Plain(t, j) == \/ ren'[t][j].sale = ren[t][j].sale /\ ren'[t][j].amount = ren[t][j].amount
                          \/ ren'[t][j].sale = NoSale /\ ren[t][j].sale = NoSale
<1>1. ASSUME NEW t \in Sales, NEW j \in Cycle, NEW source, Revised(t, j) \/ Added(t, j, source)
      PROVE  Plain(t, j)
  <2>1. CASE Revised(t, j)
    BY <2>1 DEF Revised
  <2>2. CASE Added(t, j, source)
    BY <1>0, <2>2 DEF Added, NewRen, RowsShape
  <2> QED
    BY <1>1, <2>1, <2>2
<1>2. ASSUME NEW t \in Sales, NEW j \in Cycle, Plain(t, j), ren'[t][j].sale \in Sales
      PROVE  SettlesNext(ren'[t][j].sale, ren'[t][j].amount)
  <2>1. ren'[t][j].sale = ren[t][j].sale /\ ren'[t][j].amount = ren[t][j].amount
    BY <1>2, RowsAssumption
  <2>2. Settles(ren[t][j].sale, ren[t][j].amount)
    BY <1>0, <1>2, <2>1 DEF SalesSettle
  <2>3. SettlesNext(ren[t][j].sale, ren[t][j].amount)
    BY <1>0, <1>2, <2>1, <2>2, SettlesStays
  <2> QED
    BY <2>1, <2>3
<1>3. (\A t \in Sales, j \in Cycle :
         ren'[t][j].sale \in Sales => SettlesNext(ren'[t][j].sale, ren'[t][j].amount))
      => SalesSettle'
  BY DEF SalesSettle, SettlesNext, Settles, Entered, Settled, Exists
<1>4. ASSUME \A t \in Sales, j \in Cycle : Plain(t, j) PROVE SalesSettle' /\ OneRowPerSale'
  <2>1. SalesSettle'
    BY <1>2, <1>3, <1>4
  <2>2. OneRowPerSale'
    BY <1>0, <1>4, RowsAssumption DEF OneRowPerSale
  <2> QED
    BY <2>1, <2>2
\* A sale that no user created answers to the renewal it was written for.
<1>5. ASSUME NEW g \in Sales \ Direct, sale'[g].st # "NONE",
             ~\E s \in Sales, k \in Cycle, cart \in Cart, p \in Payments, m \in Methods :
                PayRenewal(s, k, g, cart, p, m)
      PROVE  sale[g].st # "NONE"
  <2>1. sale \in [Sales -> SaleRow]
    BY <1>0 DEF BillingTypeOK, TypeOK
  <2>2. ASSUME NEW s \in Sales,
               \/ s \in Direct /\ \E st, total, cart, paidNow :
                    NewSale(s, st, total, cart, paidNow) /\ st # "NONE"
               \/ \E total, paidNow : UpdateDraft(s, total, paidNow)
               \/ Confirm(s) \/ Fulfill(s) \/ Cancel(s) \/ RemoveSale(s)
        PROVE  sale[g].st # "NONE"
    <3>1. CASE s = g
      BY <2>2, <3>1 DEF UpdateDraft, Confirm, Fulfill, Cancel, RemoveSale, Remove, Live
    <3>2. CASE s # g
      <4>1. sale'[g] = sale[g]
        BY <2>1, <2>2, <3>2 DEF NewSale, UpdateDraft, Confirm, Fulfill, Cancel, RemoveSale, Remove
      <4> QED
        BY <1>5, <4>1
    <3> QED
      BY <3>1, <3>2
  <2>3. ASSUME NEW s \in Sales, NEW k \in Cycle, NEW h \in Sales \ Direct, NEW cart \in Cart,
               NEW p \in Payments, NEW m \in Methods, PayRenewal(s, k, h, cart, p, m)
        PROVE  sale[g].st # "NONE"
    <3>1. h # g
      BY <1>5, <2>3
    <3>2. sale'[g] = sale[g]
      BY <2>1, <2>3, <3>1 DEF PayRenewal, CreateRenewalSale, NewSale
    <3> QED
      BY <1>5, <3>2
  <2> QED
    BY <1>5, <2>2, <2>3, BillingWritesSale
<1>6. ASSUME \A t \in Sales, j \in Cycle : Plain(t, j), NEW g \in Sales \ Direct, sale[g].st # "NONE"
      PROVE  \E s \in Sales, k \in Cycle : ren'[s][k].sale = g
  BY <1>0, <1>6, RowsAssumption DEF SalesAnswer
<1>7. CASE \A t \in Sales, j \in Cycle : \E source : Revised(t, j) \/ Added(t, j, source)
  <2>1. \A t \in Sales, j \in Cycle : Plain(t, j)
    BY <1>1, <1>7
  <2> HIDE DEF Plain
  <2>2. ASSUME NEW s \in Sales, NEW k \in Cycle, NEW g, NEW cart, NEW p, NEW m
        PROVE  ~PayRenewal(s, k, g, cart, p, m)
    <3>1. SUFFICES ASSUME PayRenewal(s, k, g, cart, p, m) PROVE FALSE
      OBVIOUS
    <3>2. Open(s, k) /\ PaidWith(s, k, g)
      BY <1>0, <3>1, PaymentWritesRows
    <3>4. ren'[s][k].st = "PAID" /\ ren[s][k].st \in {"PENDING", "DUE"}
      BY <3>2 DEF Open, PaidWith
    <3>5. PICK source : Revised(s, k) \/ Added(s, k, source)
      BY <1>7
    <3> QED
      BY <3>4, <3>5 DEF Revised, Added
  <2>3. SalesAnswer'
    BY <1>5, <1>6, <2>1, <2>2 DEF SalesAnswer
  <2> QED
    BY <1>4, <2>1, <2>3
<1>8. ASSUME NEW s \in Sales, NEW k \in Cycle, NEW g \in Sales \ Direct, NEW cart \in Cart,
             NEW p \in Payments, NEW m \in Methods, PayRenewal(s, k, g, cart, p, m)
      PROVE  SalesSettle' /\ OneRowPerSale' /\ SalesAnswer'
  <2>1. /\ PaidWith(s, k, g)
        /\ \A t \in Sales, j \in Cycle : t # s \/ j # k =>
             Revised(t, j) \/ (t = s /\ Added(t, j, g))
    BY <1>0, <1>8, PaymentWritesRows
  <2>2. sale[g].st = "NONE" /\ SettlesNext(g, ren[s][k].amount)
    BY <1>0, <1>8, PaymentSettles
  <2>3. ren'[s][k].sale = g /\ ren'[s][k].amount = ren[s][k].amount
    BY <2>1 DEF PaidWith
  <2>4. \A t \in Sales, j \in Cycle : t # s \/ j # k => Plain(t, j)
    BY <1>1, <2>1
  <2>5. \A t \in Sales, j \in Cycle : ren[t][j].sale # g
    BY <1>0, <2>2 DEF SalesSettle, Settles, Entered
  <2>6. SalesSettle'
    BY <1>2, <1>3, <2>2, <2>3, <2>4
  <2>7. OneRowPerSale'
    <3> SUFFICES ASSUME NEW a \in Sales, NEW b \in Sales, NEW i \in Cycle, NEW j \in Cycle,
                        ren'[a][i].sale \in Sales, ren'[b][j].sale = ren'[a][i].sale
                 PROVE  b = a /\ j = i
      BY DEF OneRowPerSale
    <3>1. CASE a = s /\ i = k
      BY <2>3, <2>4, <2>5, <3>1, RowsAssumption
    <3>2. CASE b = s /\ j = k
      BY <2>3, <2>4, <2>5, <3>2, RowsAssumption
    <3>3. CASE (a # s \/ i # k) /\ (b # s \/ j # k)
      BY <1>0, <2>4, <3>3, RowsAssumption DEF OneRowPerSale
    <3> QED
      BY <3>1, <3>2, <3>3
  <2>8. SalesAnswer'
    <3> SUFFICES ASSUME NEW h \in Sales \ Direct, sale'[h].st # "NONE", h # g
                 PROVE  \E t \in Sales, j \in Cycle : ren'[t][j].sale = h
      BY <2>3 DEF SalesAnswer
    <3>1. sale'[h] = sale[h]
      BY <1>0, <1>8 DEF PayRenewal, CreateRenewalSale, NewSale, BillingTypeOK, TypeOK
    <3>2. PICK t \in Sales, j \in Cycle : ren[t][j].sale = h
      BY <1>0, <3>1 DEF SalesAnswer
    <3>3. ren[s][k].sale = NoSale
      BY <1>0, <1>8 DEF PayRenewal, Open, RowsShape
    <3>4. t # s \/ j # k
      BY <3>2, <3>3, RowsAssumption
    <3> QED
      BY <2>4, <3>2, <3>4, RowsAssumption
  <2> QED
    BY <2>6, <2>7, <2>8
<1> HIDE DEF Plain
<1>9. CASE \E s \in Sales, k \in Cycle :
             /\ Added(s, k, s)
             /\ \A t \in Sales, j \in Cycle : t # s \/ j # k => Revised(t, j)
  BY <1>7, <1>9
<1> QED
  BY <1>0, <1>7, <1>8, <1>9, RowSteps

LEMMA ChargeInit == BillingInit => ChargeInv
<1> SUFFICES ASSUME BillingInit PROVE ChargeInv
  OBVIOUS
<1>1. \A s \in Sales, k \in Cycle : ren[s][k].st = "NONE" /\ ren[s][k].sale = NoSale
  BY DEF BillingInit, NoRenRow
<1>2. \A s \in Sales : sale[s].st = "NONE"
  BY DEF BillingInit, Init, NoSaleRow
<1> QED
  BY <1>1, <1>2, InitBillingTypes, RowsAssumption
  DEF ChargeInv, RowsNeedSub, RowsShape, SalesSettle, OneRowPerSale, SalesAnswer

THEOREM ChargeInvariant == BillingSpec => []ChargeInv
<1> QED
  BY ChargeInit, ChargeStep, PTL DEF BillingSpec

\* A renewal is charged once, with one sale of its own for its amount that
\* holds a settled payment of it; every such sale answers to a renewal.
THEOREM RenewalsChargedOnce == BillingSpec => []ChargedOnce
<1>1. ChargeInv => ChargedOnce
  <2> SUFFICES ASSUME ChargeInv PROVE ChargedOnce
    OBVIOUS
  <2> DEFINE One(s, k) ==
        /\ ren[s][k].st = "PAID" => ren[s][k].sale \in Sales
        /\ ren[s][k].sale \in Sales =>
             /\ sale[ren[s][k].sale].total = ren[s][k].amount
             /\ \E p \in Payments : /\ payment[p].sale = ren[s][k].sale
                                    /\ payment[p].net = ren[s][k].amount
                                    /\ Settled(p)
             /\ \A t \in Sales, j \in Cycle : ren[t][j].sale = ren[s][k].sale => t = s /\ j = k
  <2>1. \A s \in Sales, k \in Cycle : One(s, k)
    BY DEF ChargeInv, RowsShape, SalesSettle, Settles, OneRowPerSale
  <2>2. ASSUME NEW x \in Renewals
        PROVE  /\ Row(x).st = "PAID" => Row(x).sale \in Sales
               /\ Row(x).sale \in Sales =>
                    /\ sale[Row(x).sale].total = Row(x).amount
                    /\ \E p \in Payments : /\ payment[p].sale = Row(x).sale
                                           /\ payment[p].net = Row(x).amount
                                           /\ Settled(p)
                    /\ \A y \in Renewals : Row(y).sale = Row(x).sale => y = x
    <3>1. PICK s \in Sales, k \in Cycle : x = <<s, k>>
      BY DEF Renewals
    <3>2. One(s, k) /\ Row(x) = ren[s][k]
      BY <2>1, <3>1 DEF Row
    <3>3. ASSUME Row(x).sale \in Sales, NEW y \in Renewals, Row(y).sale = Row(x).sale PROVE y = x
      <4>1. PICK t \in Sales, j \in Cycle : y = <<t, j>>
        BY DEF Renewals
      <4>2. Row(y) = ren[t][j]
        BY <4>1 DEF Row
      <4> QED
        BY <3>1, <3>2, <3>3, <4>1, <4>2
    <3> QED
      BY <3>2, <3>3
  <2>3. ASSUME NEW g \in Sales \ Direct, sale[g].st # "NONE" PROVE \E x \in Renewals : Row(x).sale = g
    <3>1. PICK s \in Sales, k \in Cycle : ren[s][k].sale = g
      BY <2>3 DEF ChargeInv, SalesAnswer
    <3>2. <<s, k>> \in Renewals /\ Row(<<s, k>>) = ren[s][k]
      BY DEF Renewals, Row
    <3> QED
      BY <3>1, <3>2
  <2> QED
    BY <2>2, <2>3 DEF ChargedOnce
<1> QED
  BY <1>1, ChargeInvariant, PTL

\* A payment never breaks the chain: after a paid renewal there is another.
THEOREM ChainNeverBreaks == BillingSpec => []ChainUnbroken
<1>1. ChargeInv => ChainUnbroken
  BY DEF ChargeInv, RowsShape, ChainUnbroken
<1> QED
  BY <1>1, ChargeInvariant, PTL

----------------------------------------------------------------------------
(* What an open renewal stands on.  RequestRenewal asks for a live          *)
(* subscription and not for its sale, so the argument keeps, beside the    *)
(* renewals, that every subscription has a sale, which stands or was       *)
(* removed before a from-sale-item request inserted over it.               *)

SubEntered == \A s \in Sales : sub[s].st # "NONE" => Entered(s)

StandInv == EndInv /\ SubEntered

Stands(s, k) ==
  /\ ren[s][k].source \in Sales
  /\ Live(ren[s][k].source) \/ (ren[s][k].source = s /\ Orphan(s))

SourceStands == \A s \in Sales, k \in Cycle : Open(s, k) => Stands(s, k)

SourceInv == StandInv /\ RowsNeedSub /\ SourceStands

\* Subscription s, and its sale removed, after the step.
OrphanNext(s) == sub'[s].st # "NONE" /\ ~sub'[s].deleted /\ sale'[s].deleted

LEMMA StandStep == StandInv /\ [BillingNext]_billingVars => StandInv'
<1> SUFFICES ASSUME StandInv, [BillingNext]_billingVars PROVE SubEntered'
  BY StepOpening DEF StandInv
<1>1. BillingTypeOK /\ OpeningInv /\ SubEntered
  BY DEF StandInv, EndInv
<1>2. \A t \in Sales : Entered(t) => Entered(t)'
  BY <1>1, BillingStepMaps, StaysEntered DEF BillingTypeOK
<1>3. CASE UNCHANGED <<sub, opening>>
  BY <1>1, <1>2, <1>3 DEF SubEntered, Entered
<1>4. ASSUME NEW s \in Sales, SubWrite(s) PROVE SubEntered'
  <2>1. Entered(s)' \/ sub' = sub
    BY <1>1, <1>2, <1>4 DEF SubWrite, OpeningInv, SubEntered, LiveSub
  <2>2. \A t \in Sales : t # s => sub'[t] = sub[t]
    BY <1>4 DEF SubWrite
  <2> QED
    BY <1>1, <1>2, <2>1, <2>2 DEF SubEntered, Entered
<1> QED
  BY <1>1, <1>3, <1>4, StepWrites

\* Sale s stands after the step.
LiveNext(s) == sale'[s].st # "NONE" /\ ~sale'[s].deleted

\* A step on a sale that is not its removal leaves every live sale alive.
LEMMA OpenSaleSteps ==
  ASSUME sale \in [Sales -> SaleRow], NEW s \in Sales, NEW t \in Sales, Live(t),
         \/ \E st, total, cart, paidNow : NewSale(s, st, total, cart, paidNow)
         \/ \E total, paidNow : UpdateDraft(s, total, paidNow)
         \/ Confirm(s) \/ Fulfill(s) \/ Cancel(s)
  PROVE  LiveNext(t)
<1>1. ASSUME NEW st, NEW total, NEW cart, NEW paidNow, NewSale(s, st, total, cart, paidNow)
      PROVE  LiveNext(t)
  BY <1>1 DEF NewSale, Live, LiveNext
<1>2. ASSUME NEW total, NEW paidNow, UpdateDraft(s, total, paidNow) PROVE LiveNext(t)
  <2>1. sale'[t].st = sale[t].st /\ sale'[t].deleted = sale[t].deleted
    BY <1>2 DEF UpdateDraft, SaleRow
  <2> QED
    BY <2>1 DEF Live, LiveNext
<1>3. ASSUME Confirm(s) \/ Fulfill(s) \/ Cancel(s) PROVE LiveNext(t)
  <2>1. PICK st \in {"CONFIRMED", "FULFILLED", "CANCELLED"} : sale' = [sale EXCEPT ![s].st = st]
    BY <1>3 DEF Confirm, Fulfill, Cancel
  <2> QED
    BY <2>1 DEF Live, LiveNext, SaleRow
<1> QED
  BY <1>1, <1>2, <1>3

LEMMA LiveStays ==
  ASSUME BillingTypeOK, [BillingNext]_billingVars, NEW t \in Sales, Live(t)
  PROVE  LiveNext(t) \/ RemoveSale(t)
<1>1. sale \in [Sales -> SaleRow]
  BY DEF BillingTypeOK, TypeOK
<1>2. CASE sale' = sale
  BY <1>2 DEF Live, LiveNext
<1>3. ASSUME NEW s \in Sales,
             \/ \E st, total, cart, paidNow : NewSale(s, st, total, cart, paidNow)
             \/ \E total, paidNow : UpdateDraft(s, total, paidNow)
             \/ Confirm(s) \/ Fulfill(s) \/ Cancel(s)
      PROVE  LiveNext(t)
  BY <1>1, <1>3, OpenSaleSteps DEF Live, LiveNext
<1>4. ASSUME NEW s \in Sales, RemoveSale(s), s # t PROVE LiveNext(t)
  BY <1>1, <1>4 DEF RemoveSale, Remove, Live, LiveNext
<1>5. ASSUME NEW s, NEW k, NEW g \in Sales \ Direct, NEW cart, NEW p, NEW m,
             PayRenewal(s, k, g, cart, p, m)
      PROVE  LiveNext(t)
  BY <1>3, <1>5 DEF PayRenewal, CreateRenewalSale
<1> QED
  BY <1>2, <1>3, <1>4, <1>5, BillingWritesSale

\* A sale enters the books alive, unless it is removed in that step.
LEMMA EntersAlive ==
  ASSUME BillingTypeOK, [BillingNext]_billingVars, NEW t \in Sales, ~Entered(t), Entered(t)'
  PROVE  LiveNext(t) \/ RemoveSale(t)
<1>1. sale \in [Sales -> SaleRow]
  BY DEF BillingTypeOK, TypeOK
<1>2. sale'[t] # sale[t]
  BY DEF Entered
<1>3. ASSUME NEW s \in Sales, NEW st, NEW total, NEW cart, NEW paidNow,
             NewSale(s, st, total, cart, paidNow), st # "NONE"
      PROVE  LiveNext(t)
  BY <1>1, <1>2, <1>3 DEF NewSale, Live, LiveNext
<1>4. ASSUME NEW s \in Sales,
             \/ \E total, paidNow : UpdateDraft(s, total, paidNow)
             \/ Confirm(s) \/ Fulfill(s) \/ Cancel(s)
      PROVE  LiveNext(t)
  <2>1. Live(s)
    BY <1>4 DEF UpdateDraft, Confirm, Fulfill, Cancel
  <2>2. s = t
    BY <1>1, <1>2, <1>4 DEF UpdateDraft, Confirm, Fulfill, Cancel
  <2> QED
    BY <1>1, <1>4, <2>1, <2>2, OpenSaleSteps
<1>5. ASSUME NEW s \in Sales, RemoveSale(s) PROVE s = t
  BY <1>1, <1>2, <1>5 DEF RemoveSale, Remove
<1>6. ASSUME NEW s, NEW k, NEW g \in Sales \ Direct, NEW cart, NEW p, NEW m,
             PayRenewal(s, k, g, cart, p, m)
      PROVE  LiveNext(t)
  <2>1. NewSale(g, "CONFIRMED", ren[s][k].amount, cart, FALSE)
    BY <1>6 DEF PayRenewal, CreateRenewalSale
  <2> QED
    BY <1>3, <2>1
<1> QED
  BY <1>2, <1>3, <1>4, <1>5, <1>6, BillingWritesSale

\* A removal leaves no subscription of its sale.
LEMMA RemovalEndsSub ==
  ASSUME BillingTypeOK, NEW t \in Sales, RemoveSale(t)
  PROVE  ~(sub'[t].st # "NONE" /\ ~sub'[t].deleted)
<1>1. sub \in [Sales -> SubRow]
  BY DEF BillingTypeOK
<1>2. CASE LiveSub(t)
  <2>1. sub' = [sub EXCEPT ![t] = [sub[t] EXCEPT !.st = "CANCELLED", !.deleted = TRUE]]
    BY <1>1, <1>2 DEF RemoveSale
  <2>2. [sub[t] EXCEPT !.st = "CANCELLED", !.deleted = TRUE].deleted
    BY <1>1 DEF SubRow
  <2> QED
    BY <1>1, <2>1, <2>2
<1>3. CASE ~LiveSub(t)
  BY <1>3 DEF RemoveSale, LiveSub
<1> QED
  BY <1>2, <1>3

\* A subscription over a removed sale stays one: neither row is written by
\* anything that would take it away.
LEMMA OrphanStays ==
  ASSUME StandInv, [BillingNext]_billingVars, NEW t \in Sales, Orphan(t)
  PROVE  OrphanNext(t)
<1>1. BillingTypeOK /\ SubEntered /\ LiveSub(t) /\ ~Live(t) /\ Entered(t) /\ sale[t].st # "NONE"
  BY DEF StandInv, EndInv, Orphan, Live, LiveSub, SubEntered, Entered
<1>2. sale \in [Sales -> SaleRow]
  BY <1>1 DEF BillingTypeOK, TypeOK
<1>3. sale'[t] = sale[t]
  <2>1. ASSUME NEW s \in Sales,
               \/ \E st, total, cart, paidNow : NewSale(s, st, total, cart, paidNow)
               \/ \E total, paidNow : UpdateDraft(s, total, paidNow)
               \/ Confirm(s) \/ Fulfill(s) \/ Cancel(s) \/ RemoveSale(s)
        PROVE  sale'[t] = sale[t]
    BY <1>1, <1>2, <2>1
    DEF NewSale, UpdateDraft, Confirm, Fulfill, Cancel, RemoveSale, Remove
  <2>2. ASSUME NEW s, NEW k, NEW g \in Sales \ Direct, NEW cart, NEW p, NEW m,
               PayRenewal(s, k, g, cart, p, m)
        PROVE  sale'[t] = sale[t]
    BY <2>1, <2>2 DEF PayRenewal, CreateRenewalSale
  <2> QED
    BY <2>1, <2>2, BillingWritesSale
<1>4. ~RemoveSale(t)
  BY <1>1 DEF RemoveSale, Remove
<1>5. sub'[t].st # "NONE" /\ ~sub'[t].deleted
  <2>1. CASE sub'[t] = sub[t]
    BY <1>1, <2>1 DEF LiveSub
  <2>2. CASE sub'[t] # sub[t]
    <3>1. PICK s \in Sales : SubWrite(s)
      BY <1>1, <2>2, StepWrites
    <3>2. s = t
      BY <2>2, <3>1 DEF SubWrite
    <3> QED
      BY <1>1, <1>4, <3>1, <3>2 DEF SubWrite, LiveSub
  <2> QED
    BY <2>1, <2>2
<1> QED
  BY <1>3, <1>5 DEF OrphanNext, Orphan

LEMMA RemovalCloses ==
  ASSUME StandInv, SourceStands, NEW s \in Sales, RemoveSale(s), [BillingNext]_billingVars
  PROVE  SourceStands'
<1> SUFFICES ASSUME NEW t \in Sales, NEW j \in Cycle, Open(t, j)'
             PROVE  /\ ren'[t][j].source \in Sales
                    /\ \/ LiveNext(ren'[t][j].source)
                       \/ ren'[t][j].source = t /\ OrphanNext(t)
  BY DEF SourceStands, Stands, Live, LiveNext, Orphan, OrphanNext, LiveSub
<1> DEFINE from == ren[t][j].source
<1>0. BillingTypeOK
  BY DEF StandInv, EndInv
<1>1. sale \in [Sales -> SaleRow] /\ ren[t][j] \in RenRow
  BY <1>0 DEF BillingTypeOK, TypeOK
<1>2. Revised(t, j)
  BY <1>0, ReviseAll
<1>3. ren'[t][j].source = from /\ Open(t, j)
  BY <1>2 DEF Revised
<1>4. from \in Sales /\ (Live(from) \/ (from = t /\ Orphan(t)))
  BY <1>3 DEF SourceStands, Stands
<1>5. CASE Live(from)
  <2>1. from # s
    <3>1. SUFFICES ASSUME from = s PROVE FALSE
      OBVIOUS
    <3>2. ren'[t][j] = [ren[t][j] EXCEPT !.st = "CANCELLED", !.deleted = TRUE]
      BY <1>3, <3>1 DEF RemoveSale, CloseRenewals, Open
    <3>3. ren'[t][j].st = "CANCELLED"
      BY <1>1, <3>2 DEF RenRow
    <3> QED
      BY <3>3 DEF Open
  <2>2. sale'[from] = sale[from]
    BY <1>1, <1>4, <2>1 DEF RemoveSale, Remove
  <2> QED
    BY <1>3, <1>4, <1>5, <2>2 DEF Live, LiveNext
<1>6. CASE from = t /\ Orphan(t)
  BY <1>3, <1>6, OrphanStays
<1> QED
  BY <1>4, <1>5, <1>6

LEMMA SourceStep == SourceInv /\ [BillingNext]_billingVars => SourceInv'
<1> SUFFICES ASSUME SourceInv, [BillingNext]_billingVars PROVE SourceInv'
  OBVIOUS
<1>0. BillingTypeOK /\ StandInv /\ SubEntered /\ RowsNeedSub /\ SourceStands
  BY DEF SourceInv, StandInv, EndInv
<1> SUFFICES SourceStands'
  BY <1>0, StandStep, RowsNeedSubStep DEF SourceInv
<1>1. CASE \E s \in Sales : RemoveSale(s)
  BY <1>0, <1>1, RemovalCloses
<1>2. ASSUME \A s \in Sales : ~RemoveSale(s) PROVE SourceStands'
  <2> DEFINE Good(t, j) == /\ ren'[t][j].source \in Sales
                           /\ \/ LiveNext(ren'[t][j].source)
                              \/ ren'[t][j].source = t /\ OrphanNext(t)
  <2>a. SUFFICES ASSUME NEW t \in Sales, NEW j \in Cycle, Open(t, j)' PROVE Good(t, j)
    BY DEF SourceStands, Stands, Live, LiveNext, Orphan, OrphanNext, LiveSub
  <2>1. \A s \in Sales : Live(s) => LiveNext(s)
    BY <1>0, <1>2, LiveStays
  <2>2. \A s \in Sales : Orphan(s) => OrphanNext(s)
    BY <1>0, OrphanStays
  <2>3. CASE Revised(t, j)
    <3>1. Open(t, j) /\ ren'[t][j].source = ren[t][j].source
      BY <2>a, <2>3 DEF Revised
    <3>2. Stands(t, j)
      BY <1>0, <3>1 DEF SourceStands
    <3> QED
      BY <2>1, <2>2, <3>1, <3>2 DEF Stands
  <2>4. ASSUME NEW g \in Sales, Added(t, j, g), LiveNext(g) \/ (g = t /\ OrphanNext(t)) PROVE Good(t, j)
    BY <2>4 DEF Added, NewRen
  <2>5. ASSUME NEW s \in Sales, NEW k \in Cycle, Added(s, k, s), LiveNext(s) \/ (LiveSub(s) /\ sale' = sale),
               \A u \in Sales, i \in Cycle : u # s \/ i # k => Revised(u, i)
        PROVE  Good(t, j)
    <3>1. LiveNext(s) \/ OrphanNext(s)
      <4>1. CASE LiveSub(s)
        <5>1. Live(s) \/ Orphan(s)
          BY <1>0, <4>1 DEF SubEntered, Entered, Live, Orphan, LiveSub
        <5> QED
          BY <2>1, <2>2, <5>1
      <4> QED
        BY <2>5, <4>1
    <3> QED
      BY <2>3, <2>4, <2>5, <3>1
  <2>6. ASSUME NEW s \in Sales, NEW k \in Cycle, NEW g \in Sales \ Direct, NEW cart, NEW p, NEW m,
               PayRenewal(s, k, g, cart, p, m)
        PROVE  Good(t, j)
    <3>1. LiveNext(g)
      <4>1. NewSale(g, "CONFIRMED", ren[s][k].amount, cart, FALSE)
        BY <2>6 DEF PayRenewal, CreateRenewalSale
      <4> QED
        BY <1>0, <4>1 DEF NewSale, Live, LiveNext, BillingTypeOK, TypeOK
    <3>2. /\ PaidWith(s, k, g)
          /\ t # s \/ j # k => Revised(t, j) \/ (t = s /\ Added(t, j, g))
      BY <1>0, <2>6, PaymentWritesRows
    <3>3. t # s \/ j # k
      BY <2>a, <3>2 DEF PaidWith, Open
    <3> QED
      BY <2>3, <2>4, <3>1, <3>2, <3>3
  <2> QED
    BY <1>0, <2>3, <2>5, <2>6, RowSteps DEF Live, LiveNext
<1> QED
  BY <1>1, <1>2

LEMMA SourceInit == BillingInit => SourceInv
<1> SUFFICES ASSUME BillingInit PROVE SourceInv
  OBVIOUS
<1>1. \A s \in Sales, k \in Cycle : ren[s][k].st = "NONE"
  BY DEF BillingInit, NoRenRow
<1>2. \A s \in Sales : sub[s].st = "NONE"
  BY DEF BillingInit, NoSubRow
<1> QED
  BY <1>1, <1>2, InitEnd DEF SourceInv, StandInv, SubEntered, RowsNeedSub, SourceStands, Open

\* Removing a sale leaves nothing to collect on its account, for any number
\* of requests to open, pay and remove: an open renewal has the sale it was
\* generated by, or renews a subscription opened over its sale after that
\* was removed.
THEOREM OpenRenewalsHaveSource == BillingSpec => []OpenRenewalHasSource
<1>1. SourceInv => OpenRenewalHasSource
  BY DEF SourceInv, SourceStands, Stands, OpenRenewalHasSource
<1> QED
  BY <1>1, SourceInit, SourceStep, PTL DEF BillingSpec

\* A subscription is left over a removed sale by one order of requests only:
\* a from-sale-item request inserts it after the removal.
THEOREM OrphansComeFromRaces == BillingSpec => OrphanedOnlyByRace
<1>1. StandInv /\ [BillingNext]_billingVars =>
        [\A s \in Sales : ~Orphan(s) /\ Orphan(s)' => \E o \in Openings : opening[o] = s]_billingVars
  <2> SUFFICES ASSUME StandInv, [BillingNext]_billingVars, NEW t \in Sales, ~Orphan(t), Orphan(t)'
               PROVE  \E o \in Openings : opening[o] = t
    OBVIOUS
  <2>1. BillingTypeOK /\ SubEntered
    BY DEF StandInv, EndInv
  <2>2. OrphanNext(t) /\ ~LiveNext(t)
    BY DEF Orphan, OrphanNext, LiveSub, LiveNext
  <2>3. ~RemoveSale(t)
    BY <2>1, <2>2, RemovalEndsSub DEF OrphanNext
  <2>4. ~LiveSub(t)
    <3>1. SUFFICES ASSUME LiveSub(t) PROVE FALSE
      OBVIOUS
    <3>2. Live(t)
      BY <2>1, <3>1 DEF SubEntered, Entered, Live, Orphan, LiveSub
    <3> QED
      BY <2>1, <2>2, <2>3, <3>2, LiveStays
  <2>5. sub'[t] # sub[t]
    BY <2>2, <2>4 DEF LiveSub, OrphanNext
  <2>6. PICK s \in Sales : SubWrite(s)
    BY <2>1, <2>5, StepWrites
  <2>7. s = t
    BY <2>5, <2>6 DEF SubWrite
  <2>8. ~(~Entered(t) /\ Entered(t)')
    BY <2>1, <2>2, <2>3, EntersAlive
  <2> QED
    BY <2>4, <2>5, <2>6, <2>7, <2>8 DEF SubWrite
<1>2. BillingInit => StandInv
  BY SourceInit DEF SourceInv
<1> QED
  BY <1>1, <1>2, StandStep, PTL DEF BillingSpec, OrphanedOnlyByRace

============================================================================
