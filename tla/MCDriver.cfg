CONSTANTS
  NoPath = NoPath
  NoSource = NoSource
  Runs <- AllRuns
SPECIFICATION Spec
INVARIANTS TypeOK OptionsAsWritten EmitsUnasked
PROPERTIES ArgsEnd
CHECK_DEADLOCK FALSE
