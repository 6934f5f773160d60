SPECIFICATION Spec
CONSTANTS
  Invoices = {i1}
  Customers = {c1}
  c1 = c1
  c2 = c2
  OpeningCredit <- SomeCredit
  Workers = {w1, w2, w3}
  LineTotals = {0, 1, 2}
  ChargeAmounts = {1, 3}
  Unspecified = Unspecified
  NoCustomer = NoCustomer
  NoJob = NoJob
  MaxRequests = 6
  Faults = TRUE
CHECK_DEADLOCK FALSE
SYMMETRY Symmetry
INVARIANTS TypeOK PaidWithinCaptured OpenStillOwes ChangesAnnounced
PROPERTY FinalizationIsOneWay
