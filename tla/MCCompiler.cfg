CONSTANTS
  MAX_CONTEXT = 4
  MaxParams = 3
  Malformed = {}
  Runs <- AllRuns
  Tokens <- AllTokens
  ProgramOf <- Program
  TypeMissing <- Untyped
  Keyed <- KeyedFile
SPECIFICATION Spec
INVARIANTS TypeOK TreeIsTheSource KeysAgree ExitIsVerdict OutputOnlyAccepted OutputIsTheSource
PROPERTIES KeepsScopes Termination
CHECK_DEADLOCK FALSE
