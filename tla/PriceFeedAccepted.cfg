CONSTANTS
  Symbols = {BTC}
  MaxQuote = 0
  Triggers = {t1}
  Loop = loop
  HasKafka = TRUE
  NoPrice = NoPrice

SPECIFICATION Spec
INVARIANTS
  AcceptedSyncsAreCarriedOut
