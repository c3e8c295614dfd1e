SPECIFICATION Spec
CONSTANTS
  Jobs <- FirstJobs
  Reruns <- LaterJobs
  MaxInvocations = 2
  SchemaMax = 3
INVARIANTS
  FramesAreOutside
CHECK_DEADLOCK FALSE
