\* Three testers, failing devices and commands, and two power losses.
SPECIFICATION EcuFairSpec
CONSTANTS
  Conn = {c1, c2, c3}
  None = None
  PowerLosses = 2
  Faults = TRUE
INVARIANTS EcuTypeOK AppHasData AnnouncesMac BootAfterReset
PROPERTIES NoWayBack InitDecides ResetReachesBoot ResetKeepsContact NothingElseLost RequestsSettle
\* after the last power loss, an /init that sleeps and a process 1 that is dead stay so
CHECK_DEADLOCK FALSE
