CONSTANTS
  Symbols = {BTC}
  MaxQuote = 1
  Triggers = {t1}
  Loop = loop
  HasKafka = TRUE
  NoPrice = NoPrice

SPECIFICATION FairOverlapSpec
PROPERTIES
  LatestRegressesOnlyByOverlap
  PricesCatchUp
  StopEndsLoop
