CONSTANTS
  MAX_CONTEXT = 4
  Programs <- ValPtr1
SPECIFICATION Spec
INVARIANT DeclaredTypeKept
CHECK_DEADLOCK FALSE
