SPECIFICATION Spec
CONSTANTS
  Owners = {a, b, c}
  NoOwner = none
  TTL = 2
  MaxClock = 3
INVARIANT NoTakeoverDuringFencedIO
PROPERTY FencedIOInOrder
CHECK_DEADLOCK FALSE
