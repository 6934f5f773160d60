SPECIFICATION LiveSpec
CONSTANTS
  e1 = e1
  e2 = e2
  t1 = t1
  t2 = t2
  o1 = o1
  Events = {e1}
  Endpoints = {p1}
  Types = {t1}
  TypeOf <- OneEvent
  ObjectOf <- SameObject
  MaxAttempts = {1, 2}
  Workers = {w1, w2}
  MaxChanges = 2
  MaxReplays = 1
  MaxRestarts = 1
  Watched = {}
CHECK_DEADLOCK FALSE
INVARIANTS TypeOK SettledIsSkipped
PROPERTY EventuallySettled
