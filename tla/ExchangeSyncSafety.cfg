CONSTANTS
  u1 = u1
  u2 = u2
  btc = btc
  eth = eth
  BTC = BTC
  ETH = ETH
  Users = {u1, u2}
  Names = {"Binance", "binance"}
  Lower <- MCLower
  Supported = {"binance"}
  MaxCreds = 2
  Assets = {btc, eth}
  Symbols = {BTC, ETH}
  Upper <- MCUpper
  MaxRev = 1
  Held <- MCHeld
  Requests = {r1}
  Loop = loop
  NoCred = NoCred
  NoRow = NoRow

SPECIFICATION OverlapSpec
SYMMETRY UserSymmetry
INVARIANTS
  RowsBelongToOwner
  RowsWereReported
  OneCredentialPerExchange
PROPERTIES
  SyncAnswersHonestly
  RowsRegressOnlyByOverlap
  ImplementsBook
