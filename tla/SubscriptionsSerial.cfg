SPECIFICATION LiveSpec
CONSTANTS
  Handlers = {h1}
  Cycles = {1, 2}
  Attempts = {1, 2}
  MaxAttempts = 2
  Outcomes = {"paid", "action", "retryable", "final"}
  Billable = {TRUE, FALSE}
  Chargeable = {TRUE, FALSE}
  Methods = {TRUE, FALSE}
  Statuses = {"trialing", "active"}
  Ops = {"close", "fail", "run", "tick", "cancel", "later", "maintain", "collect", "void"}
  MaxPeriod = 2
  MaxReports = 2
CHECK_DEADLOCK FALSE
INVARIANTS DunningTracksStatus
PROPERTIES RecoveryIsPaid DunningEnds
