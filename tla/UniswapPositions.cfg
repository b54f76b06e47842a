CONSTANTS
  t1 = t1
  t2 = t2
  t3 = t3
  t4 = t4
  Tokens = {t1, t2, t3, t4}
  Initial <- MCInitial
  MaxMoves = 3

SPECIFICATION FairSpec
INVARIANTS
  AnswersAreComplete
  NoPositionTwice
  ListedWereHeldOpen
PROPERTIES
  CallsReturn
