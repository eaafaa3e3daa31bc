CONSTANTS
  NULL = NULL
  JUNK = JUNK
  RESERVED = RESERVED
SPECIFICATION Spec
INVARIANT Boots
CHECK_DEADLOCK FALSE
