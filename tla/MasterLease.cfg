SPECIFICATION Spec
CONSTANTS
  Instances = {a, b, c}
  NoInstance = none
  TTL = 2
  MaxClock = 4
INVARIANT BoundedOutage
PROPERTIES FencedWritesInOrder ImplementsFencedLock
CHECK_DEADLOCK FALSE
