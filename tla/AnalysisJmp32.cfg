SPECIFICATION Spec
CONSTANTS
  Jobs <- Jmp32Jobs
  MaxDepth = 3
  AnyWord = {0, 1}
  SyscallReach = {4, 12}
  ByteValues = 4
  Modulus = 512
  MaxOff = 100
  StackStart = 100
  StackTop = 200
  InputStart = 256
  FpReach = 8
  BitAnd <- MCAnd
INVARIANTS CheckedLengthsHold
