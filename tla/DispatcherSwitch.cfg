\* Does a change of the session lock all levels?
SPECIFICATION Spec
CONSTANTS
  Allowed = {"default", "programming", "extended"}
  AccessSessions = {"programming", "extended"}
  Levels = {3}
  MaxAttempts = 3
  S3 = 2
  Lockout = 4
  None = None
PROPERTY SwitchRelocks
