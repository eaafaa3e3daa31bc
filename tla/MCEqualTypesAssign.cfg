CONSTANTS
  MAX_CONTEXT = 4
  Programs <- ValRet69
SPECIFICATION Spec
PROPERTY EqualTypesAssign
CHECK_DEADLOCK FALSE
