CONSTANTS
  Symbols = {BTC}
  MaxQuote = 0
  Triggers = {}
  Loop = loop
  HasKafka = TRUE
  NoPrice = NoPrice
  Partitions = {p1}
  Members = {c1, c2}
  MaxEntries = 2
  NoEntry = NoEntry

SPECIFICATION EventsSpec
INVARIANTS
  EventsAreStored
  TwiceOnlyIfOvertaken
