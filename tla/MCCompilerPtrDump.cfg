CONSTANTS
  MAX_CONTEXT = 4
  MaxParams = 3
  Malformed = {}
  Runs <- PtrDumped
  Tokens <- AllTokens
  ProgramOf <- Program
  TypeMissing <- Untyped
  Keyed <- KeyedFile
SPECIFICATION Spec
INVARIANTS TreeIsDumped
CHECK_DEADLOCK FALSE
