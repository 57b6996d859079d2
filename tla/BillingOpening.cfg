\* A sale, the sale of a renewal, and a from-sale-item request that races with
\* their cancellation and removal.
CONSTANTS
  Sales = {s1, s2}
  Direct = {s1}
  Payments = {p1}
  Products = {}
  Requests = {}
  Keys = {}
  Methods = {manual}
  Fees <- MCNoFees
  MaxAmount = 1
  MaxQuantity = 0
  MaxStock = 0
  NoKey = NoKey
  NoSale = NoSale
  NoPayment = NoPayment
  Terms <- MCTerms
  Durations = {1}
  Quantities = {1}
  Openings = {o1}
  Horizon = 1
SYMMETRY Rows
SPECIFICATION BillingSpec
INVARIANTS OpenRenewalHasSource
PROPERTIES OrphanedOnlyByRace
CHECK_DEADLOCK FALSE
