SPECIFICATION Spec
CONSTANTS
  Credentials = {1, 2}
  MaxSymbol = 2
  MaxQty = 1
  MaxPrice = 2
INVARIANT BreakdownAddsUpAtSteadyPrices
INVARIANT QuietSummaryIsExact
INVARIANT UnknownIsGone
CHECK_DEADLOCK FALSE
