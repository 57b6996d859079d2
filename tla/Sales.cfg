\* One sale and one product, two payments, and two concurrent requests that
\* may share an idempotency key while the commission changes.  The system may
\* stop: every row ends in a final state.
CONSTANTS
  Sales = {s1}
  Payments = {p1, p2}
  Products = {x1}
  Requests = {r1, r2}
  Keys = {k1}
  Methods = {transfer}
  Fees <- MCFees
  MaxAmount = 2
  MaxQuantity = 1
  MaxStock = 1
  NoKey = NoKey
  NoSale = NoSale
  NoPayment = NoPayment
SYMMETRY Rows
SPECIFICATION Spec
INVARIANTS PaidWithinTotal MoneyOnlyOnBillable IdempotentCreation
PROPERTIES PaidSaleFrozen
CHECK_DEADLOCK FALSE
