\* A sale with a recurring line and the sales of two renewals.  The system may
\* stop: every period up to the horizon is closed.
CONSTANTS
  Sales = {s1, s2, s3}
  Direct = {s1}
  Payments = {p1, p2}
  Products = {}
  Requests = {}
  Keys = {}
  Methods = {manual}
  Fees <- MCNoFees
  MaxAmount = 1
  MaxQuantity = 0
  MaxStock = 0
  NoKey = NoKey
  NoSale = NoSale
  NoPayment = NoPayment
  Terms <- MCTerms
  Durations = {2}
  Quantities = {1}
  Openings = {}
  Horizon = 2
SYMMETRY Rows
SPECIFICATION BillingSpec
INVARIANTS ChargedOnce ChainUnbroken
PROPERTIES EndedIsFinal
CHECK_DEADLOCK FALSE
