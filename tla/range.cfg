\* Every range over a small address space.
CONSTANTS
  Base = 4
  ByteBits = 2
  Width = 2
  Bad = Bad
  Config <- AllConfig
  Failures <- AnyFailures
SPECIFICATION Spec
CHECK_DEADLOCK FALSE
INVARIANTS
  PoolIsRanges
  RowsAreSound
PROPERTIES
  LoopIsBounded
  Terminates
