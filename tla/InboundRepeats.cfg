SPECIFICATION Spec
CONSTANTS
  y1 = y1
  y2 = y2
  g1 = g1
  g2 = g2
  Payments = {y1, y2}
  Ids = {g1, g2}
  IdOf <- OwnIds
  Handlers = {h1, h2, h3}
  NoPayment = NoPayment
  MaxCalls = 4
  MaxFaults = 2
CHECK_DEADLOCK FALSE
INVARIANTS TypeOK EmittedOnce OnlyFaultsLose
