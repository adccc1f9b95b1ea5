\* Is a frame that arrives in two pieces handled?
SPECIFICATION Spec
CONSTANTS
  Header = 2
  Payloads = {1}
  Buffer = 4
  MaxBytes = 3
INVARIANT NothingLost
CHECK_DEADLOCK FALSE
