SPECIFICATION Spec
CONSTANTS
  a = a
  b = b
  p = p
  short = short
  long = long
  Keys = {a, b}
  NoKey = NoKey
  System = System
  Programs = {p}
  Seeds = {short, long}
  LongSeeds = {long}
  SeedAddress <- MCSeedAddress
  U64Modulus = 4
  MaxDataLen = 1
  MaxIncrease = 1
  NonceSize = 1
  Ixs <- MCIxs
  Grants <- MCGrants
  Balances <- MCBalances
  MaxRefs = 3
PROPERTIES
  SpendingNeedsConsent
  ReassigningNeedsConsent
  AuthorityIsHeld
CHECK_DEADLOCK FALSE
