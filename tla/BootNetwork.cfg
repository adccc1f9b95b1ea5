\* No device fails: is the bootloader always on the network?
SPECIFICATION EcuSpec
CONSTANTS
  Conn = {c1}
  None = None
  PowerLosses = 1
  Faults = FALSE
INVARIANT BootloaderReachable
CHECK_DEADLOCK FALSE
