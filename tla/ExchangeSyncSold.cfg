CONSTANTS
  u1 = u1
  u2 = u2
  btc = btc
  eth = eth
  BTC = BTC
  ETH = ETH
  Users = {u1}
  Names = {"binance"}
  Lower <- MCLower
  Supported = {"binance"}
  MaxCreds = 1
  Assets = {btc, eth}
  Symbols = {BTC, ETH}
  Upper <- MCUpper
  MaxRev = 1
  Held <- MCHeld
  Requests = {}
  Loop = loop
  NoCred = NoCred
  NoRow = NoRow

SPECIFICATION FairOverlapSpec
PROPERTIES
  SoldAssetsGetForgotten
