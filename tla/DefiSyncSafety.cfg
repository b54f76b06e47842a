CONSTANTS
  u1 = u1
  u2 = u2
  a1 = a1
  a2 = a2
  blank = blank
  t1 = t1
  t2 = t2
  t3 = t3
  Users = {u1, u2}
  Chains = {"ethereum", "Ethereum ", "dogecoin"}
  Normal <- MCNormal
  SupportedChains = {"ethereum"}
  Addresses = {a1, blank}
  Blank = blank
  HexAddresses = {a1}
  MaxWallets = 2
  Protocols <- MCProtocols
  Types = {"lp", "lending"}
  Tokens = {t1, t2, t3}
  ProtocolOf <- MCProtocolOf
  TypeOf <- MCTypeOf
  Requests = {r1, r2}
  NoWallet = NoWallet
  NoRow = NoRow

SPECIFICATION Spec
INVARIANTS
  WalletsAreUnique
  PositionsBelongToRequester
  SavedKeysAreKept
PROPERTY
  ImplementsBook
