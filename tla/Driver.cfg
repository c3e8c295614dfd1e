SPECIFICATION Spec
CONSTANTS
  Jobs <- FirstJobs
  Reruns <- LaterJobs
  MaxInvocations = 2
  SchemaMax = 3
INVARIANTS
  SuccessIsHonest
  DirectoryIsCoherent
  AfterIsTrue
  BundleAppliesEveryPath
CHECK_DEADLOCK FALSE
