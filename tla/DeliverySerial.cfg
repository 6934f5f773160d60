SPECIFICATION Spec
CONSTANTS
  e1 = e1
  e2 = e2
  t1 = t1
  t2 = t2
  o1 = o1
  Events = {e1, e2}
  Endpoints = {p1}
  Types = {t1, t2}
  TypeOf <- TwoEvents
  ObjectOf <- SameObject
  MaxAttempts = {2}
  Workers = {w1}
  MaxChanges = 2
  MaxReplays = 1
  MaxRestarts = 1
  Watched <- AllPairs
CHECK_DEADLOCK FALSE
INVARIANTS WithinBudget RetriesWait
