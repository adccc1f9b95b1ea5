\* Can two cascades run at once?
SPECIFICATION Spec
CONSTANTS
  Thread = {a, b}
  LEDs = 2
  PowerReads = FALSE
  Handler = Handler
  Free = Free
INVARIANT OneCascade
