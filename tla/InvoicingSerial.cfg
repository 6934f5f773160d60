SPECIFICATION Spec
CONSTANTS
  Invoices = {i1, i2}
  Customers = {c1, c2}
  c1 = c1
  c2 = c2
  OpeningCredit <- CreditAndDebt
  Workers = {w1}
  LineTotals = {1, 2}
  ChargeAmounts = {1, 3}
  Unspecified = Unspecified
  NoCustomer = NoCustomer
  NoJob = NoJob
  MaxRequests = 8
  Faults = FALSE
CHECK_DEADLOCK FALSE
INVARIANTS CapturedIsRecorded CreditSpentOnce
PROPERTY LifecycleSpec
