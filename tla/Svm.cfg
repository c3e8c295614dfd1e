SPECIFICATION SvmSpec
CONSTANTS
  a = a
  b = b
  s = s
  main = main
  p = p
  broken = broken
  unknown = unknown
  ed25519 = ed25519
  Keys = {a, b, s}
  NoKey = NoKey
  System = System
  Programs = {main, p, broken, unknown}
  Seeds = {}
  LongSeeds = {}
  SeedAddress <- NoSeedAddress
  U64Modulus = 4
  MaxDataLen = 3
  MaxIncrease = 1
  NonceSize = 1
  Main = main
  Registry = {p}
  MaxInvokeDepth = 1
  InvokeUnits = 0
  NativeUnits = 0
  SyscallCosts = {}
  Budget = 5
  Pdas <- NoPdas
  Entry <- ThreeAccounts
  Granted <- NoPrivileges
  Stores <- SomeStores
  Requests <- SomeRequests
  NativeIxs <- OneTransfer
  StorageOverhead = 2
  LamportsPerByte = 1
  Precompiles = {ed25519}
  PrecompileUnits = 1
  Broken = {broken}
  Sysvars = {s}
  Incinerator = s
  MaxMetas = 2
  Submissions <- AllSubmissions
INVARIANTS
  SysvarsStayReadOnly
  ReportedUnitsAreExact
  ChangesAreAuthorized
  NoNewRentPayers
PROPERTIES
  KeepsContract
  EverySubmissionIsAnswered
