SPECIFICATION LiveSpec
CONSTANTS
  Keys = {k1}
  Clients = {c1, c2, c3}
  TTL = 2
  Backstop = TRUE
  NoKey = NoKey
  NoResource = NoResource
  MayRefuse = TRUE
  MaxDeaths = 2
CHECK_DEADLOCK FALSE
INVARIANTS TypeOK OnceWithinTTL AnswersAgree
PROPERTY EventuallyAnswered
