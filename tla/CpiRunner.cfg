SPECIFICATION FairSpec
CONSTANTS
  a = a
  b = b
  main = main
  p = p
  Keys = {a, b}
  NoKey = NoKey
  System = System
  Programs = {main, p}
  Seeds = {}
  LongSeeds = {}
  SeedAddress <- NoSeedAddress
  U64Modulus = 4
  MaxDataLen = 1
  NonceSize = 1
  Main = main
  Registry = {p}
  MaxInvokeDepth = 2
  InvokeUnits = 2
  NativeUnits = 1
  SyscallCosts = {0, 3}
  Budget = 7
  MaxIncrease = 1
  Pdas <- PdaOfP
  Entry <- TwoAccounts
  Granted <- TwoGrants
  Stores <- FewStores
  Requests <- SomeRequests
  NativeIxs <- OneTransfer
INVARIANTS
  PrivilegesAreInherited
  FuelNeverBinds
  ExitsWithinBudget
PROPERTIES
  CpiIsAtomic
  ExhaustionIsFatal
  Terminates
