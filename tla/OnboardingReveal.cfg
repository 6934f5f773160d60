SPECIFICATION LiveSpec
CONSTANTS
  Requests = {h1, r1, r2}
  Hooks = {h1}
  NoMerchant = NoMerchant
  MaxDeaths = 2
CHECK_DEADLOCK FALSE
INVARIANTS TypeOK ScaffoldOnce RevealedKeysWork
PROPERTY RuleFollows
