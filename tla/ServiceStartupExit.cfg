\* Does a failed start ever end with exit status 0?
CONSTANTS
  MaxInflight = 1
SPECIFICATION Spec
INVARIANT ExitZeroOnlyOnRequest
CHECK_DEADLOCK FALSE
