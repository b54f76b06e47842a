CONSTANTS
  u1 = u1
  u2 = u2
  btc = btc
  eth = eth
  BTC = BTC
  ETH = ETH
  Users = {u1}
  Names = {"binance", "kraken"}
  Lower <- MCLower
  Supported = {"binance"}
  MaxCreds = 2
  Assets = {eth}
  Symbols = {ETH}
  Upper <- MCUpper
  MaxRev = 1
  Held <- MCHeld
  Requests = {}
  Loop = loop
  NoCred = NoCred
  NoRow = NoRow

SPECIFICATION FairOverlapSpec
PROPERTIES
  HoldingsGetStored
  StopEndsLoop
