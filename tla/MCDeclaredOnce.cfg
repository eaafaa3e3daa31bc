CONSTANTS
  MAX_CONTEXT = 4
  Programs <- ErrVarDecl1
SPECIFICATION Spec
INVARIANT DeclaredOnce
CHECK_DEADLOCK FALSE
