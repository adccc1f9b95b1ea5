\* Does an accepted abort stand?
SPECIFICATION Spec
CONSTANTS
  Thread = {a}
  LEDs = 2
  PowerReads = FALSE
  Handler = Handler
  Free = Free
PROPERTY AbortStands
