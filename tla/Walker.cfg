SPECIFICATION Spec
CONSTANTS
  RoRegion = {1000, 1001}
  RentIds = {1000}
  Modulus32 = 16
  Jobs <- WalkJobs
  MaxAttempts = 3
  StaticCap = 16
  MaxFrames = 2
INVARIANTS
  LiftIsTrue
  NoVacuousLift
  EveryAccessHasItsClause
  CitationsExist
  WalkIsAPath
  CallsFollowBlock
PROPERTIES
  LiftEnds
