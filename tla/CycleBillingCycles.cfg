SPECIFICATION Spec
CONSTANTS
  Handlers = {h1, h2}
  NumItems = 2
  Prices = {"p1", "p2"}
  PriceOf <- MCPriceOf
  Tariffs <- MCTariffs
  Patches <- MCPatches
  Anchors <- MCAnchors
  Quantities = {1, 2, 4}
  Openings <- MCOpenings
  Amounts = {3}
  Reports <- MCReports
  Instants <- MCInstants
  MaxRequests = 4
  NoPrice = NoPrice
  NoLine = NoLine
SYMMETRY Symmetry
CHECK_DEADLOCK FALSE
INVARIANTS TypeOK UsageCountedOnce LinesFollowPrice QuantityIsProrated CreditIsConserved
PROPERTY PeriodsFollowOn
