\* The duration of a sale edited after its first renewal was paid.
CONSTANTS
  Sales = {s1, s2, s3}
  Direct = {s1}
  Payments = {p1, p2}
  Products = {}
  Requests = {}
  Keys = {}
  Methods = {manual}
  Fees <- MCNoFees
  MaxAmount = 1
  MaxQuantity = 0
  MaxStock = 0
  NoKey = NoKey
  NoSale = NoSale
  NoPayment = NoPayment
  Terms <- MCTerms
  Durations = {1}
  Quantities = {1}
  Openings = {}
  Horizon = 2
SYMMETRY Rows
SPECIFICATION BillingSpec
INVARIANTS PeriodPaidOnce
CHECK_DEADLOCK FALSE
