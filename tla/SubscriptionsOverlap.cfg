SPECIFICATION Spec
CONSTANTS
  Handlers = {h1, h2}
  Cycles = {1}
  Attempts = {1, 2}
  MaxAttempts = 2
  Outcomes = {"paid", "retryable", "final"}
  Billable = {TRUE}
  Chargeable = {TRUE, FALSE}
  Methods = {TRUE}
  Statuses = {"active"}
  Ops = {"close", "fail", "tick", "run", "cancel", "collect", "void", "draft", "crash"}
  MaxPeriod = 1
  MaxReports = 2
CHECK_DEADLOCK FALSE
SYMMETRY Symmetry
INVARIANTS TypeOK BudgetKept 
