\* Ranges between IPv4 addresses of any two networks.
CONSTANTS
  Base = 4
  ByteBits = 2
  Width = 2
  Bad = Bad
  Config <- V4Config
  Failures <- AnyFailures
SPECIFICATION Spec
CHECK_DEADLOCK FALSE
INVARIANTS
  RowsInTheirCidr
