\* The sessions of the bootloader, and two levels that share a bit.
SPECIFICATION FairSpec
CONSTANTS
  Allowed = {"default", "programming", "extended"}
  AccessSessions = {"programming", "extended"}
  Levels = {1, 3, 9}
  MaxAttempts = 3
  S3 = 2
  Lockout = 4
  None = None
INVARIANTS TypeOK AttemptsMatchLockout
PROPERTIES LockoutHolds AccessSpec LockoutEnds
