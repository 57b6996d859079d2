-------------------------- MODULE OperationsReports --------------------------
(***************************************************************************)
(* The money of the operational dashboard and of "my day".  The dashboard  *)
(* dates a sale by its creation and counts the payments CONFIRMED only; my *)
(* day counts the ones REFUNDED in part too.  A range is half open.        *)
(***************************************************************************)
EXTENDS ExecutiveReports

SalesMade(range, country) == {s \in Billed : In(sale[s].made, range) /\ Asked(CountryOf(s), country)}

PaidIn(range, country) ==
  {t \in Takings : /\ taking[t].status = "CONFIRMED" /\ In(taking[t].day, range)
                   /\ Asked(CountryOf(TakenFor[t]), country)}

realSummary(range, country) ==
  LET Gross(t) == taking[t].net + taking[t].lost
      Fee(t) == taking[t].lost
      paid == PaidIn(range, country)
  IN [salesCount |-> Cardinality(SalesMade(range, country)),
      billingGross |-> SumOf(SalesMade(range, country), Total),
      confirmedPayments |-> SumOf(paid, Gross),
      fees |-> SumOf(paid, Fee),
      netIncome |-> SumOf(paid, Received)]

pendingCollections(range, country) == SumOf(SalesMade(range, country), Pending)

operations(day, range, country) ==
  [today |-> realSummary([from |-> day, to |-> day + 1], country),
   month |-> realSummary(range, country),
   pending |-> pendingCollections(range, country)]

\* The collections of my day, of one seller or of all: the contact must be there.
Owed(s) == Total(s) - HeldFor(s)
collections(seller) ==
  {s \in Billed : /\ \E b \in sale[s].of : Live(buyer[b])
                  /\ Asked(sale[s].by, seller)
                  /\ Owed(s) > 0}

----------------------------------------------------------------------------
(* Correctness.                                                            *)

\* Over all days the operational dashboard and the executive one say the same of
\* what was billed and of what is pending; a net income and the commissions are within
\* what was paid, and within what the executive dashboard received; and whatever my day
\* has a seller collect is among what it has anyone collect.
OperationsAgree ==
  LET real == realSummary(Always, AnyOne)
  IN /\ real.billingGross = salesMoney(Always, Everything)
     /\ real.netIncome + real.fees <= real.confirmedPayments
     /\ pendingCollections(Always, AnyOne) = pendingBalance(Everything)
     /\ \A u \in Sellers : collections(u) \subseteq collections(AnyOne)
     /\ real.netIncome <= paymentMoney(Always, Everything)

\* Does not hold: what is not yet paid is asked for; a sale whose contact was
\* removed while it was drafted is not.
AllAsked == \A s \in Billed : Owed(s) > 0 => s \in collections(AnyOne)
=============================================================================
