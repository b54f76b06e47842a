CONSTANTS
  s1 = s1
  s2 = s2
  Half = 1048576
  Second = 10
  Envs <- MCEnvs
  Users = {u1}
  Secrets = {s1, s2}
  Junk = Junk
  Unset = Unset
  MaxTokens = 1
  MaxNow = 2
  Requests = {r1, r2}
  MaxIds = 2
  MaxBlock = 1
  NoRow = NoRow

SPECIFICATION FairSpec
INVARIANTS
  SavesAreDurable
  SequentialSavesAreInOrder
  HistoriesKeepNewest
  InFlightWereAdmitted
  TokensLiveAsConfigured
PROPERTIES
  PanicsOnlyOnOverflow
  ServesInTheEnd
