\* Two cascades and reads of 0xF200 compete for three LEDs.
SPECIFICATION FairSpec
CONSTANTS
  Thread = {a, b}
  LEDs = 3
  PowerReads = TRUE
  Handler = Handler
  Free = Free
INVARIANTS TypeOK RunningIsBacked DarkWhenQuiet
PROPERTY RunningEnds
