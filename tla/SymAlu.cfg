SPECIFICATION Spec
CONSTANTS
  Bits = 4
  Half = 2
  ByteBits = 1
  Inputs = {6, 13}
  Imms <- SmallImms
  MaxSteps = 2
  FirstBases = {4, 11}
  Spacing = 5
INVARIANTS
  EvalMirrorsMachine
  SolvedMeansEvaluated
  PathHypothesesHold
